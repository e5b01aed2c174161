---------------------------- MODULE SFTPipeline ----------------------------
(***************************************************************************)
(* The programs between the gold patches and an adapter, over the files    *)
(* they share: one builder at a time writes a dataset and then its report, *)
(* trainers read a report, then its dataset, and save an adapter.  Traces  *)
(* of evaluations keep coming, and any program may be killed.              *)
(***************************************************************************)
EXTENDS SFTExamples

CONSTANTS
    RowLists,      \* the lists of pinned rows the gold builder may be given
    Caches,        \* what the source cache may hold: sets of tasks
    Traces,        \* traces of tool calls, in the order they are recorded
    Sessions,      \* the same traces by session
    Trajectories,  \* verified teacher trajectories, in the order they are recorded
    Suggested,     \* [task, path] sft_recovery is asked for
    PerState,      \* --recovery-per-state
    Trainers,      \* training processes, all given the same --output-dir
    Wanted,        \* datasets the builder is asked for
    Given,         \* datasets the trainers are given
    Lengths,       \* what --max-length may be, in steps before the one to learn
    MaxBuilds,     \* bound: builds
    MaxStarts,     \* bound: training processes started
    MaxCrashes     \* bound: processes killed

Artifacts == {"gold", "grpo", "cumulative", "recovery", "navigation", "semantic", "mix"}

ASSUME PipelineAssumption ==
    /\ Wanted \subseteq Artifacts /\ Given \subseteq Artifacts
    /\ {MaxBuilds, MaxStarts, MaxCrashes} \subseteq Nat
    /\ PerState \in Nat \ {0}

\* What comes as a JSON list is one; a session has a first step.
ASSUME InputAssumption ==
    /\ \A list \in RowLists \cup {Traces, Sessions, Trajectories} : list \in Seq(Range(list))
    /\ \A rows \in RowLists : \A row \in Range(rows) :
          /\ row.patch \in Seq(Range(row.patch))
          /\ \A h \in Range(row.patch) : h.start \in Nat /\ h.old \in Seq(Range(h.old))
    /\ \A session \in Range(Sessions) : session \in Seq(Range(session)) \ {<<>>}
    /\ \A t \in Range(Trajectories) : t.prefix \in Seq(Range(t.prefix)) /\ t.steps \in Seq(Range(t.steps))

\* Sessions and trajectories were recorded of the live tools: a read shows the file as the
\* edits before it left it.
ASSUME RecordedAssumption ==
    /\ \A session \in Range(Sessions) : ReadsMatch(session[1].task, StepsOf(session))
    /\ \A t \in Range(Trajectories) : ReadsMatch(t.task, t.prefix \o t.steps)

VARIABLES
    cache,     \* tasks whose source is cached
    recorded,  \* [traces, trajectories]: how many there are
    files,     \* artifact -> its dataset and its report
    builder,   \* the builder process
    trainer,   \* the training processes
    output,    \* the output directory of the trainers
    builds,    \* history: examples and report that one build wrote, and whether the
               \* report it copied was of the tasks it read
    spent      \* [builds, starts, crashes]

pipelineVars == <<cache, recorded, files, builder, trainer, output, builds, spent>>

NoReport == Report("gold", <<>>)

\* data: the dataset file is absent, ends within a line, or is whole.
NoFiles  == [data |-> "none", rows |-> <<>>, described |-> FALSE, report |-> NoReport]
NoBuild  == [pc |-> "off", what |-> "gold", rows |-> <<>>, report |-> NoReport,
             sound |-> TRUE]
NoTrainer == [pc |-> "off", what |-> "gold", rows |-> <<>>, report |-> NoReport,
             hashed |-> <<>>, hashed_report |-> NoReport]
\* weights: adapter_model.safetensors is absent, torn or whole.  The training report states
\* count, sources and protocol, and the hashes; trained_on and used are history: the examples
\* and the dataset report its program had read.
NoOutput == [made |-> FALSE, by |-> {}, adapter |-> <<>>, weights |-> "none", reported |-> FALSE,
             count |-> 0, sources |-> {}, protocol |-> "policy",
             hashed |-> <<>>, hashed_report |-> NoReport,
             trained_on |-> <<>>, used |-> NoReport]

----------------------------------------------------------------------------
(* Builders.                                                               *)

Readable(what) == files[what].data = "whole"

RecordedTraces       == SubSeq(Traces, 1, recorded.traces)
RecordedTrajectories == SubSeq(Trajectories, 1, recorded.trajectories)

\* Sessions of which every trace is recorded.
RecordedSessions ==
    At(Sessions, {k \in DOMAIN Sessions :
                     \A i \in DOMAIN Sessions[k] : Contains(RecordedTraces, Sessions[k][i])})

\* "refusing to overwrite existing output": only these two builders look.
MayWrite(what) ==
    what \in {"semantic", "mix"} => files[what].data = "none" /\ ~files[what].described

\* What a builder has read and checked when it opens its output, or nothing if it raised.
Buildable(what, rows) ==
    CASE what = "gold"       -> ~GoldRefused(cache, rows)
      [] what = "grpo"       -> Readable("gold") /\ files["gold"].described
      [] what = "cumulative" -> Readable("grpo") /\ files["grpo"].described
      [] what = "recovery"   -> /\ Readable("grpo")
                                /\ Reads(files["grpo"].rows, Suggested.task, Suggested.path) # <<>>
      [] what = "navigation" -> Readable("grpo")
      [] what = "semantic"   -> ~SemanticRefused(RecordedTrajectories)
      [] what = "mix"        -> /\ Readable("semantic") /\ Readable("grpo")
                                /\ ~MixRefused(files["semantic"].rows, files["grpo"].rows, PerState)

Built(what, rows) ==
    CASE what = "gold"       -> GoldExamples(cache, rows)
      [] what = "grpo"       -> Convert(files["gold"].rows)
      [] what = "cumulative" -> Cumulative(files["grpo"].rows)
      [] what = "recovery"   -> Recovery(files["grpo"].rows, RecordedTraces,
                                         Suggested.task, Suggested.path)
      [] what = "navigation" -> Navigation(files["grpo"].rows, RecordedSessions)
      [] what = "semantic"   -> Semantic(RecordedTrajectories)
      [] what = "mix"        -> Mix(files["semantic"].rows, files["grpo"].rows, PerState)

\* The report of an artifact with these examples.  That of sft_grpo is the gold report with
\* another protocol and count; sft_navigation lists the tasks it selected and sft_recovery the
\* one it was asked for, those without an example too.
ReportOf(what, examples) ==
    CASE what = "grpo"       -> [files["gold"].report EXCEPT !.protocol = "grpo",
                                                             !.count = Len(examples)]
      [] what = "navigation" -> [Report(what, examples) EXCEPT !.tasks = Selected(files["grpo"].rows)]
      [] what = "recovery"   -> [Report(what, examples) EXCEPT !.tasks = {Suggested.task}]
      [] OTHER               -> Report(what, examples)

\* The gold report lists the tasks of the gold dataset beside it.
GoldIsDescribed == TasksOf(files["gold"].rows) \subseteq files["gold"].report.tasks

\* open(..., "w"): the file is empty, and then ends somewhere within a line.
StartBuild ==
    /\ builder.pc = "off" /\ spent.builds < MaxBuilds
    /\ \E what \in Wanted : \E rows \in RowLists :
          /\ MayWrite(what) /\ Buildable(what, rows)
          /\ builder' = [pc |-> "writing", what |-> what, rows |-> Built(what, rows),
                         report |-> ReportOf(what, Built(what, rows)),
                         sound |-> what = "grpo" => GoldIsDescribed]
          /\ files' = [files EXCEPT ![what].data = "torn", ![what].rows = <<>>]
    /\ spent' = [spent EXCEPT !.builds = @ + 1]
    /\ UNCHANGED <<cache, recorded, trainer, output, builds>>

WriteDataset ==
    /\ builder.pc = "writing"
    /\ files' = [files EXCEPT ![builder.what].data = "whole", ![builder.what].rows = builder.rows]
    /\ builder' = [builder EXCEPT !.pc = "report"]
    /\ UNCHANGED <<cache, recorded, trainer, output, builds, spent>>

\* The report is small, and it is written in one go.  sft_recovery, which starts it from the
\* report of its source, reads that only now, and raises when there is none.
WriteDatasetReport ==
    /\ builder.pc = "report"
    /\ IF builder.what = "recovery" /\ ~files["grpo"].described
       THEN UNCHANGED <<files, builds>>
       ELSE /\ files' = [files EXCEPT ![builder.what].described = TRUE,
                                      ![builder.what].report = builder.report]
            /\ builds' = builds \cup {<<builder.rows, builder.report, builder.sound>>}
    /\ builder' = NoBuild
    /\ UNCHANGED <<cache, recorded, trainer, output, spent>>

\* An evaluation records a trace, a teacher a trajectory.
Record ==
    /\ \/ /\ recorded.traces < Len(Traces)
          /\ recorded' = [recorded EXCEPT !.traces = @ + 1]
       \/ /\ recorded.trajectories < Len(Trajectories)
          /\ recorded' = [recorded EXCEPT !.trajectories = Len(Trajectories)]
    /\ UNCHANGED <<cache, files, builder, trainer, output, builds, spent>>

----------------------------------------------------------------------------
(* sft_train --train, with no --example-limit.                             *)

LoadReport(t) ==
    /\ trainer[t].pc = "off" /\ spent.starts < MaxStarts
    /\ \E what \in Given :
          /\ files[what].described /\ ReportAccepted(files[what].report)
          /\ trainer' = [trainer EXCEPT ![t] = [NoTrainer EXCEPT !.pc = "rows", !.what = what,
                                                                 !.report = files[what].report]]
    /\ spent' = [spent EXCEPT !.starts = @ + 1]
    /\ UNCHANGED <<cache, recorded, files, builder, output, builds>>

\* load_sft_examples reads the dataset and checks it, or raises.
LoadRows(t) ==
    /\ trainer[t].pc = "rows"
    /\ LET what == trainer[t].what
       IN  trainer' = IF Readable(what) /\ RowsAccepted(files[what].rows, trainer[t].report)
                      THEN [trainer EXCEPT ![t].pc = "prepare", ![t].rows = files[what].rows]
                      ELSE [trainer EXCEPT ![t] = NoTrainer]
    /\ UNCHANGED <<cache, recorded, files, builder, output, builds, spent>>

\* The examples are rendered and measured, none is truncated; then the report hashes the
\* two files as they are by now.
Prepare(t) ==
    /\ trainer[t].pc = "prepare"
    /\ \E max_length \in Lengths :
          trainer' = IF \A i \in DOMAIN trainer[t].rows : Len(trainer[t].rows[i].history) <= max_length
                     THEN [trainer EXCEPT ![t].pc = "output",
                                          ![t].hashed = files[trainer[t].what].rows,
                                          ![t].hashed_report = files[trainer[t].what].report]
                     ELSE [trainer EXCEPT ![t] = NoTrainer]
    /\ UNCHANGED <<cache, recorded, files, builder, output, builds, spent>>

\* Mutant: exist_ok, as grpo_train has it.
MakeOutputAnyway(t) ==
    /\ trainer[t].pc = "output"
    /\ output' = [output EXCEPT !.made = TRUE, !.by = @ \cup {t}]
    /\ trainer' = [trainer EXCEPT ![t].pc = "train"]
    /\ UNCHANGED <<cache, recorded, files, builder, builds, spent>>

\* refusing to overwrite SFT output directory; mkdir settles who was first.
MakeOutput(t) ==
    /\ trainer[t].pc = "output"
    /\ IF output.made
       THEN trainer' = [trainer EXCEPT ![t] = NoTrainer] /\ UNCHANGED output
       ELSE /\ output' = [output EXCEPT !.made = TRUE, !.by = {t}]
            /\ trainer' = [trainer EXCEPT ![t].pc = "train"]
    /\ UNCHANGED <<cache, recorded, files, builder, builds, spent>>

\* trainer.train, and save_model opens the weights it writes in place.
OpenAdapter(t) ==
    /\ trainer[t].pc = "train"
    /\ output' = [output EXCEPT !.adapter = <<>>, !.weights = "torn"]
    /\ trainer' = [trainer EXCEPT ![t].pc = "save"]
    /\ UNCHANGED <<cache, recorded, files, builder, builds, spent>>

SaveAdapter(t) ==
    /\ trainer[t].pc = "save"
    /\ output' = [output EXCEPT !.adapter = trainer[t].rows, !.weights = "whole"]
    /\ trainer' = [trainer EXCEPT ![t].pc = "report"]
    /\ UNCHANGED <<cache, recorded, files, builder, builds, spent>>

\* training-report.json
ReportTraining(t) ==
    /\ trainer[t].pc = "report"
    /\ output' = [output EXCEPT !.reported = TRUE,
                                !.count = Len(trainer[t].rows),
                                !.sources = trainer[t].report.sources,
                                !.protocol = trainer[t].report.protocol,
                                !.hashed = trainer[t].hashed,
                                !.hashed_report = trainer[t].hashed_report,
                                !.trained_on = trainer[t].rows, !.used = trainer[t].report]
    /\ trainer' = [trainer EXCEPT ![t] = NoTrainer]
    /\ UNCHANGED <<cache, recorded, files, builder, builds, spent>>

Training(t) ==
    \/ LoadReport(t) \/ LoadRows(t) \/ Prepare(t) \/ MakeOutput(t)
    \/ OpenAdapter(t) \/ SaveAdapter(t) \/ ReportTraining(t)

\* A process is killed where it is; a dataset may end after any line, or within one.
Kill ==
    /\ spent.crashes < MaxCrashes
    /\ spent' = [spent EXCEPT !.crashes = @ + 1]
    /\ \/ /\ builder.pc = "writing"
          /\ \E n \in 0 .. Len(builder.rows) :
                files' = [files EXCEPT ![builder.what].data = "whole",
                                       ![builder.what].rows = SubSeq(builder.rows, 1, n)]
          /\ builder' = NoBuild /\ UNCHANGED trainer
       \/ builder.pc # "off" /\ builder' = NoBuild /\ UNCHANGED <<files, trainer>>
       \/ \E t \in Trainers : /\ trainer[t].pc # "off"
                              /\ trainer' = [trainer EXCEPT ![t] = NoTrainer]
                              /\ UNCHANGED <<files, builder>>
    /\ UNCHANGED <<cache, recorded, output, builds>>

FilesOf(what, examples) ==
    [data |-> "whole", rows |-> examples, described |-> TRUE, report |-> Report(what, examples)]
GoldFiles(rows) == FilesOf("gold", GoldExamples(cache, rows))
GRPOFiles(rows) == FilesOf("grpo", Convert(GoldExamples(cache, rows)))

\* With nothing built, or with the two datasets all others start from, if they can be built.
PipelineInit ==
    /\ cache \in Caches
    /\ recorded = [traces |-> 0, trajectories |-> 0]
    /\ \/ files = [a \in Artifacts |-> NoFiles] /\ builds = {}
       \/ \E rows \in RowLists :
             /\ ~GoldRefused(cache, rows)
             /\ files = [a \in Artifacts |-> CASE a = "gold" -> GoldFiles(rows)
                                                 [] a = "grpo" -> GRPOFiles(rows)
                                                 [] OTHER -> NoFiles]
             /\ builds = {<<f.rows, f.report, TRUE>> : f \in {GoldFiles(rows), GRPOFiles(rows)}}
    /\ builder = NoBuild
    /\ trainer = [t \in Trainers |-> NoTrainer]
    /\ output = NoOutput
    /\ spent = [builds |-> 0, starts |-> 0, crashes |-> 0]

PipelineNext ==
    \/ StartBuild \/ WriteDataset \/ WriteDatasetReport \/ Record \/ Kill
    \/ \E t \in Trainers : Training(t)

PipelineSpec == PipelineInit /\ [][PipelineNext]_pipelineVars

----------------------------------------------------------------------------
\* The searches of a dataset are within the 200 characters a policy may search for.
SearchesAreShort(examples) ==
    \A i \in DOMAIN examples : examples[i].target.kind = "search_text" =>
        examples[i].target.query \notin TooLong

\* What the builders write the trainer accepts: a dataset with an example is not refused
\* beside the report of its own build, whichever of the programs made it.  Two are: a gold
\* dataset that teaches a search for a literal of more than 200 characters, and a dataset
\* sft_grpo made of a gold dataset that was cut short beside the report of another one.
BuildsAreAccepted ==
    \A b \in builds :
        b[1] # <<>> /\ b[3] /\ (b[2].protocol = "policy" => SearchesAreShort(b[1])) =>
            ReportAccepted(b[2]) /\ RowsAccepted(b[1], b[2])

\* The same of every dataset, which does not hold.
EveryBuildIsAccepted ==
    \A b \in builds : b[1] # <<>> => ReportAccepted(b[2]) /\ RowsAccepted(b[1], b[2])

\* swe_gym_sft: the observation is rendered the way the live environment renders it.  In
\* every dataset but the cumulative one, whose edits do not change what is read after them,
\* a line that a read shows is the one read_file would show there under its number, and
\* only the gold examples may lack the beginning of a read that all but fills the prompt.
ReadsMatchTheRepository ==
    \A a \in Artifacts \ {"cumulative"} : \A i \in DOMAIN files[a].rows :
        files[a].rows[i].real => ReadsAreCurrent(files[a].rows[i])

\* Every read is shown whole, which does not hold: the prompt of a gold example keeps the
\* end of its history.
ReadsAreWhole ==
    \A a \in Artifacts \ {"cumulative"} : \A i \in DOMAIN files[a].rows :
        files[a].rows[i].real => ReadsMatch(files[a].rows[i].task, files[a].rows[i].history)

\* The reads of a cumulative trajectory, which does not hold.
CumulativeReadsAreCurrent ==
    \A i \in DOMAIN files["cumulative"].rows :
        files["cumulative"].rows[i].real => ReadsAreCurrent(files["cumulative"].rows[i])

\* The training report beside an adapter is about that adapter, whether the dataset was
\* rebuilt or cut short by a crash after its report was read, and whoever else trains: it is
\* by the program that saved the adapter, and the number, the sources and the protocol it
\* states are those of the examples the adapter learnt, no two of which are the same.
AdapterIsReported ==
    output.reported =>
        /\ output.trained_on = output.adapter
        /\ output.count = Len(output.adapter)
        /\ SourcesOf(output.adapter) \subseteq output.sources
        /\ \A i \in DOMAIN output.adapter : output.adapter[i].protocol = output.protocol
        /\ Cardinality({output.adapter[i].id : i \in DOMAIN output.adapter}) = output.count

\* The dataset report it cites, by dataset_report_sha256, is the one its examples were
\* checked against, which does not hold: it is hashed when they have been tokenized.
CitedReportIsTheOneRead == output.reported => output.hashed_report = output.used

\* dataset_sha256 of the training report is of the file that was read, which does not hold:
\* the file is hashed after its examples were loaded and tokenized.
HashIsOfTheExamples == output.reported => output.hashed = output.trained_on

\* Audited recovery data and a saved adapter are frozen: neither a second builder or
\* trainer nor a restart after a crash writes over them.
FrozenFilesStay ==
    [][/\ \A a \in {"semantic", "mix"} :
            files[a].data = "whole" => files'[a].rows = files[a].rows
       /\ output.weights = "whole" => output'.weights = "whole" /\ output'.adapter = output.adapter]_pipelineVars
=============================================================================
