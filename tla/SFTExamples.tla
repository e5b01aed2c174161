---------------------------- MODULE SFTExamples ----------------------------
(***************************************************************************)
(* The supervised examples: what swe_gym_sft makes of a gold patch, what   *)
(* the converters make of that, and what sft_train accepts.  An example is *)
(* a history of tool calls with their observations, and the call to learn. *)
(* Prompt texts, token counts and hashes are left out: an id is the tuple  *)
(* the code hashes.                                                        *)
(***************************************************************************)
EXTENDS Arrangements

CONSTANTS
    Train,        \* pinned_rows_for_task_set("train")
    Repository,   \* task -> path -> lines of the file at the base commit
    TestFiles,    \* paths _unsupported_hunk_reason takes for tests
    MaxTarget,    \* scale: lines of an edit that is still below MAX_TARGET_ACTION_CHARS
    Lead, Trail,  \* scale: lines read before and after a hunk (10 and 9 in the code)
    MinWindow,    \* scale: lines read at least (20)
    MaxWindow,    \* scale: lines read at most (400)
    MaxChars,     \* scale: lines that a read shows, and a policy prompt keeps of all
                  \* observations (8000 characters); any other observation counts for one
    TooLong       \* queries of more than 200 characters

ASSUME ScaleAssumption ==
    /\ {Lead, Trail, MinWindow, MaxWindow, MaxChars} \subseteq Nat
    /\ 1 <= MinWindow /\ MinWindow <= MaxWindow
    /\ 1 <= MaxChars

\* The files of every train task are lists of lines.
ASSUME RepositoryAssumption ==
    /\ Train \subseteq DOMAIN Repository
    /\ \A task \in Train : \A path \in DOMAIN Repository[task] : Sequence(Repository[task][path])

Larger(a, b)  == IF a > b THEN a ELSE b
Smaller(a, b) == IF a < b THEN a ELSE b

Search(query)          == [kind |-> "search_text", query |-> query]
Read(path, window)     == [kind |-> "read_file", path |-> path, window |-> window]
Replace(path, old, new) == [kind |-> "replace_text", path |-> path, old |-> old, new |-> new]
RunTests               == [kind |-> "run_tests"]
IsEdit(call)           == call.kind \in {"replace_text", "replace_lines"}

Step(call, observation) == [call |-> call, observation |-> observation]

\* What an observation tells: numbered lines, that an edit was refused, or paths an import
\* statement or a search result names, or that the tool suggests.
Plain == [shows |-> "text", imports |-> {}, paths |-> {}, suggested |-> {}]
Lines(lines, more) ==
    [shows |-> "lines", lines |-> lines, more |-> more,
     imports |-> {}, paths |-> {}, suggested |-> {}]

\* render_numbered_window: as many lines as fit, and a footer when the file goes on.
Numbered(content, first, last) ==
    LET shown == Smaller(Smaller(last, Len(content)), first + MaxChars - 1)
    IN  Lines([n \in first .. shown |-> content[n]], shown < Len(content))

----------------------------------------------------------------------------
(* swe_gym_sft: four examples of every hunk of the gold patch.             *)

\* _unsupported_hunk_reason: file created, deleted or renamed; a test; nothing to find;
\* no change; too long.
Unsupported(h) ==
    \/ h.old_path # h.new_path
    \/ h.new_path \in TestFiles
    \/ h.old = <<>>
    \/ h.old = h.new
    \/ Len(h.old) + Len(h.new) > MaxTarget

ReadWindow(h) ==
    LET first == IF h.start > Lead THEN h.start - Lead ELSE 1
        last  == Larger(first + MinWindow - 1, h.start + Len(h.old) + Trail)
    IN  [first |-> first, last |-> Smaller(first + MaxWindow - 1, last)]

HasSource(cache, task, path) == task \in cache /\ path \in DOMAIN Repository[task]

\* Mutant: the fragment of a file that is not cached counts as the file.
IsRealAlways(cache, task, path) == TRUE

\* read_window_is_real_source
IsReal(cache, task, path) == HasSource(cache, task, path)

\* The window of the cached source, or the hunk numbered from 1.
ReadObservation(cache, task, h) ==
    IF HasSource(cache, task, h.new_path)
    THEN Numbered(Repository[task][h.new_path], ReadWindow(h).first, ReadWindow(h).last)
    ELSE Numbered(h.old, 1, Len(h.old))

\* locate, inspect, edit: a literal of the failure if it names one, the file, the hunk.
HunkSteps(cache, row, h) ==
    << Step(Search(IF row.literal = "none" THEN h.new_path ELSE row.literal),
            [Plain EXCEPT !.paths = {h.new_path}]),
       Step(Read(h.new_path, ReadWindow(h)), ReadObservation(cache, row.task, h)),
       Step(Replace(h.new_path, h.old, h.new), Plain) >>

Stages == <<"locate", "inspect", "edit", "verify">>

Footer(seen) == IF seen.more THEN 1 ELSE 0
Size(seen)   == IF seen.shows = "lines" THEN Cardinality(DOMAIN seen.lines) + Footer(seen) ELSE 1

\* What is left of an observation when only its end fits.
Ending(seen, room) ==
    LET kept == Cardinality(DOMAIN seen.lines) - (Size(seen) - room)
        last == {n \in DOMAIN seen.lines :
                    Cardinality({m \in DOMAIN seen.lines : m >= n}) <= kept}
    IN  IF Size(seen) <= room THEN seen
        ELSE IF seen.shows = "lines"
             THEN [seen EXCEPT !.lines = [n \in last |-> seen.lines[n]]]
             ELSE [seen EXCEPT !.imports = {}, !.paths = {}, !.suggested = {}]

\* Characters left for each observation: later ones are kept first.
RoomFor(history) ==
    LET room[i \in 1 .. Len(history)] ==
            IF i = Len(history) THEN MaxChars
            ELSE Larger(0, room[i + 1] - Size(history[i + 1].observation))
    IN  room

\* build_action_messages: the last observations that fit into the prompt, whole, and of the
\* one before them the end.
Prompted(history) ==
    [i \in 1 .. Len(history) |->
        Step(history[i].call, Ending(history[i].observation, RoomFor(history)[i]))]

\* _sft_example
GoldExample(cache, row, i, k) ==
    LET h      == row.patch[i]
        steps  == HunkSteps(cache, row, h)
        target == IF k = 4 THEN RunTests ELSE steps[k].call
    IN  [id |-> <<"sft", row.task, h.new_path, i, Stages[k], target>>, task |-> row.task,
         stage |-> Stages[k], hunk |-> i, history |-> Prompted(SubSeq(steps, 1, k - 1)),
         content |-> target, target |-> target, source |-> "gold", protocol |-> "policy",
         real |-> IsReal(cache, row.task, h.new_path)]

\* _hunk_examples
HunkExamples(cache, row, i) ==
    IF Unsupported(row.patch[i]) THEN <<>>
    ELSE [k \in 1 .. 4 |-> GoldExample(cache, row, i, k)]

RowExamples(cache, row) ==
    FlattenSeq([i \in 1 .. Len(row.patch) |-> HunkExamples(cache, row, i)])

\* build_train_gold_sft_dataset raises: outside the train split, twice, not the pinned
\* commit or without issue or patch (malformed), nothing to learn, or the prompt quotes
\* the fix.
GoldRefused(cache, rows) ==
    \/ rows = <<>>
    \/ \E i \in 1 .. Len(rows) :
          \/ rows[i].task \notin Train \/ rows[i].malformed \/ rows[i].leaks
          \/ RowExamples(cache, rows[i]) = <<>>
          \/ \E j \in 1 .. i - 1 : rows[j].task = rows[i].task

GoldExamples(cache, rows) == FlattenSeq([i \in 1 .. Len(rows) |-> RowExamples(cache, rows[i])])

TasksOf(examples)   == {examples[i].task : i \in DOMAIN examples}
SourcesOf(examples) == {examples[i].source : i \in DOMAIN examples}

ProtocolOf(what) == IF what = "gold" THEN "policy" ELSE "grpo"

SourcesIn(what) ==
    CASE what = "semantic" -> {"teacher"}
      [] what = "mix"      -> {"gold", "teacher"}
      [] OTHER             -> {"gold"}

\* The report a builder writes beside its examples.
Report(what, examples) ==
    [protocol |-> ProtocolOf(what), tasks |-> TasksOf(examples), sources |-> SourcesIn(what),
     count |-> Len(examples)]

----------------------------------------------------------------------------
(* The converters.  Each reads examples and writes examples.               *)

\* sft_grpo: the same steps as bare JSON tool messages.
ConvertExample(e) == [e EXCEPT !.id = <<"grpo", e.id, e.content>>, !.protocol = "grpo"]
Convert(examples) == [i \in DOMAIN examples |-> ConvertExample(examples[i])]

\* The steps whose exact call was not made before.
FreshSteps(steps) ==
    At(steps, {i \in DOMAIN steps : \A j \in 1 .. i - 1 : steps[j].call # steps[i].call})

OfTask(examples, task) == At(examples, {i \in DOMAIN examples : examples[i].task = task})
OfStage(examples, stage) == At(examples, {i \in DOMAIN examples : examples[i].stage = stage})

\* sorted(), which is stable, by the place in the patch or in the trajectory.
ByHunk(rows) == Arranged(rows, [i \in DOMAIN rows |-> rows[i].hunk * (Len(rows) + 1) + i])

\* The steps of every hunk after each other, one final verifier run.
Accumulate(task, rows) ==
    LET ordered == ByHunk(rows)
        steps   == FreshSteps(FlattenSeq([i \in DOMAIN ordered |-> ordered[i].history]))
        calls   == Append([i \in DOMAIN steps |-> steps[i].call], Last(ordered).content)
    IN  [k \in DOMAIN calls |->
           [Last(ordered) EXCEPT !.id = <<"cumulative", task, k, calls[k]>>,
                                 !.stage = "cumulative", !.history = SubSeq(steps, 1, k - 1),
                                 !.content = calls[k], !.target = calls[k]]]

\* sft_cumulative: one growing trajectory of each task.
Cumulative(examples) ==
    LET verify == OfStage(examples, "verify")
        tasks  == SetToSeq(TasksOf(verify))
    IN  FlattenSeq([i \in DOMAIN tasks |-> Accumulate(tasks[i], OfTask(verify, tasks[i]))])

Reads(examples, task, path) ==
    At(examples, {i \in DOMAIN examples : /\ examples[i].task = task
                                          /\ examples[i].target.kind = "read_file"
                                          /\ examples[i].target.path = path})

\* sft_recovery: a search whose result suggests the file, then the read of that file.
Recovery(examples, traces, task, path) ==
    LET target == Head(Reads(examples, task, path))
        useful == At(traces, {i \in DOMAIN traces : /\ traces[i].task = task
                                                    /\ traces[i].call.kind = "search_text"
                                                    /\ path \in traces[i].observation.suggested})
        steps  == FreshSteps([i \in DOMAIN useful |-> Step(useful[i].call, useful[i].observation)])
    IN  [i \in DOMAIN steps |->
           [target EXCEPT !.id = <<"recovery", task, steps[i].call, path>>,
                          !.stage = "recovery", !.history = <<steps[i]>>]]

\* sft_navigation: what leads to a file of the patch, from gold rows and from traces.
\* A task with more than MaxGoldPaths such files is left out.
MaxGoldPaths == 3
MaxPrefix    == 4

Inspected(examples) == OfStage(examples, "inspect")

GoldPaths(examples, task) ==
    LET of == OfTask(Inspected(examples), task) IN {of[i].target.path : i \in DOMAIN of}

Selected(examples) ==
    {t \in TasksOf(Inspected(examples)) : Cardinality(GoldPaths(examples, t)) <= MaxGoldPaths}

Navigate(template, history, call) ==
    [template EXCEPT !.id = <<"navigation", template.task, history, call>>, !.stage = "navigation",
                     !.history = history, !.content = call]

\* Mutant: the row keeps the target of its template.
BridgeKeepsTarget(template, history, call) == Navigate(template, history, call)

\* _retarget: the policy's own call, when what came back imports the file.
Bridge(template, history, call) == [Navigate(template, history, call) EXCEPT !.target = call]

\* The examples of the k-th step of a session, for one path of the patch.
SessionStep(examples, task, steps, k, path) ==
    LET target == Head(Reads(examples, task, path))
        before == SubSeq(steps, 1, k - 1)
        seen   == steps[k].observation
    IN  (IF path \in seen.imports THEN <<Bridge(target, before, steps[k].call)>> ELSE <<>>)
        \o (IF path \in seen.imports \cup seen.paths \cup seen.suggested
            THEN <<Navigate(target, SubSeq(steps, 1, k), target.content)>> ELSE <<>>)

\* if action["kind"] in {"replace_lines", "run_verifier", "finish"}: break
EndsPrefix(call) == call.kind \in {"replace_lines", "run_verifier", "finish"}

\* The history a session is.
StepsOf(session) == [i \in DOMAIN session |-> Step(session[i].call, session[i].observation)]

SessionExamples(examples, session) ==
    LET steps == StepsOf(session)
        task  == session[1].task
        paths == SetToSeq(GoldPaths(examples, task))
        until == {k \in 1 .. Smaller(Len(steps), MaxPrefix) :
                     \A j \in 1 .. k - 1 : ~EndsPrefix(steps[j].call)}
    IN  FlattenSeq([k \in 1 .. Cardinality(until) |->
            FlattenSeq([p \in DOMAIN paths |->
                SessionStep(examples, task, steps, k, paths[p])])])

\* _append: an example whose messages were written before is left out.
FirstOfEach(examples) ==
    At(examples, {i \in DOMAIN examples : \A j \in 1 .. i - 1 : examples[j].id # examples[i].id})

Navigation(examples, sessions) ==
    LET inspected == Inspected(examples)
        gold == At(inspected, {i \in DOMAIN inspected : inspected[i].task \in Selected(examples)})
        used == At(sessions, {i \in DOMAIN sessions : sessions[i][1].task \in Selected(examples)})
    IN  FirstOfEach([i \in DOMAIN gold |-> Navigate(gold[i], gold[i].history, gold[i].content)]
                    \o FlattenSeq([i \in DOMAIN used |-> SessionExamples(examples, used[i])]))

\* sft_semantic_recovery: every step of a verified teacher trajectory.
MinimumStates == 3

SemanticRefused(trajectories) ==
    \/ Len(trajectories) < MinimumStates
    \/ \E i \in DOMAIN trajectories :
          LET t == trajectories[i] IN
          \/ t.task \notin Train \/ ~t.strict \/ t.steps = <<>>
          \/ t.steps # <<>> /\ Last(t.steps).call # RunTests
          \/ \E j \in 1 .. i - 1 : trajectories[j].state = t.state

TeacherExample(t, k) ==
    LET history == t.prefix \o SubSeq(t.steps, 1, k - 1)
        target  == t.steps[k].call
    IN  [id |-> <<"semantic", t.state, k, history, target>>, task |-> t.task,
         stage |-> "semantic-recovery", hunk |-> k, history |-> history, content |-> target,
         target |-> target, source |-> "teacher", protocol |-> "grpo", real |-> TRUE]

TeacherExamples(t) == [k \in DOMAIN t.steps |-> TeacherExample(t, k)]

Semantic(trajectories) ==
    FlattenSeq([i \in DOMAIN trajectories |-> TeacherExamples(trajectories[i])])

\* sft_semantic_mix: PerState rows of every state in turn, an audited row after each three.
OfKind(rows, kinds) == At(rows, {i \in DOMAIN rows : rows[i].target.kind \in kinds})
Edits == {"replace_text", "replace_lines"}

\* _select_recovery
ByPriority(rows) ==
    OfKind(rows, Edits) \o OfKind(rows, {"run_tests"})
    \o Reverse(OfKind(rows, {"read_file"})) \o Reverse(OfKind(rows, {"search_text"}))

SelectRecovery(rows, perState) ==
    ByHunk(SubSeq(ByPriority(rows), 1, perState))

AtMostOne(rows) == SubSeq(rows, 1, Smaller(1, Len(rows)))

\* _select_audited
SelectAudited(rows, count) ==
    LET best == AtMostOne(OfKind(rows, {"search_text"})) \o AtMostOne(OfKind(rows, {"read_file"}))
                \o AtMostOne(Reverse(OfKind(rows, Edits)))
                \o AtMostOne(Reverse(OfKind(rows, {"run_tests"})))
        rest == At(rows, {i \in DOMAIN rows : ~Contains(best, rows[i])})
    IN  SubSeq(best \o rest, 1, count)

\* semantic_recovery.state_id, which the id holds; hunk holds its sequence.
StatesOf(rows) == {rows[i].id[2] : i \in DOMAIN rows}
OfState(rows, state) == At(rows, {i \in DOMAIN rows : rows[i].id[2] = state})

MixRefused(recovery, audited, perState) ==
    \/ Cardinality(StatesOf(recovery)) < 3
    \/ \E s \in StatesOf(recovery) : Len(ByPriority(OfState(recovery, s))) < perState
    \/ (Cardinality(StatesOf(recovery)) * perState) % 3 # 0
    \/ Len(audited) < (Cardinality(StatesOf(recovery)) * perState) \div 3

\* _round_robin, then the audited rows between.
Mix(recovery, audited, perState) ==
    LET states == SetToSeq(StatesOf(recovery))
        rows   == FlattenSeq([k \in 1 .. perState |->
                     [i \in DOMAIN states |-> SelectRecovery(OfState(recovery, states[i]), perState)[k]]])
        extra  == SelectAudited(audited, Len(rows) \div 3)
    IN  FlattenSeq([i \in 1 .. Len(rows) \div 3 |->
            SubSeq(rows, 3 * i - 2, 3 * i) \o <<extra[i]>>])

----------------------------------------------------------------------------
(* sft_train.                                                              *)

\* _validate_dataset_report: one source, or the two audited ones together.
ReportAccepted(report) ==
    /\ report.tasks # {} /\ report.tasks \subseteq Train
    /\ report.count > 0
    /\ report.sources \in {{"gold"}, {"teacher"}, {"gold", "teacher"}}

\* _parse_action, of the calls the gold builder makes.
Parsed(call) ==
    /\ call.kind = "search_text" => call.query \notin TooLong
    /\ call.kind = "read_file" =>
          call.window.last - call.window.first + 1 \in MinWindow .. MaxWindow
    /\ call.kind = "replace_text" => call.old # <<>>

\* _validate_sft_example: only the policy's own protocol is parsed.
ExampleAccepted(e, report) ==
    /\ e.task \in Train
    /\ e.source \in report.sources
    /\ e.protocol = report.protocol
    /\ e.content = e.target
    /\ e.protocol = "policy" => Parsed(e.content)

\* load_sft_examples
RowsAccepted(rows, report) ==
    /\ rows # <<>>
    /\ \A i \in DOMAIN rows : ExampleAccepted(rows[i], report)
    /\ \A i, j \in DOMAIN rows : rows[i].id = rows[j].id => i = j
    /\ Len(rows) = report.count
    /\ TasksOf(rows) \subseteq report.tasks

\* What the live tools would show: read_file on the files as the history left them.  An edit
\* that was refused leaves them alone.
Written(files, step) ==
    LET call  == step.call
        lines == files[call.path]
        at    == {n \in 1 .. Len(lines) : SubSeq(lines, n, n + Len(call.old) - 1) = call.old}
        with(first, last) ==
            [files EXCEPT ![call.path] = SubSeq(lines, 1, first - 1) \o call.new
                                         \o SubSeq(lines, last + 1, Len(lines))]
    IN  IF ~IsEdit(call) \/ step.observation.shows = "refusal" THEN files
        ELSE IF call.kind = "replace_lines" THEN with(call.first, call.last)
        ELSE IF Cardinality(at) # 1 THEN files
        ELSE LET n == CHOOSE n \in at : TRUE IN with(n, n + Len(call.old) - 1)

FilesAfter(task, steps) ==
    LET files[k \in 0 .. Len(steps)] ==
            IF k = 0 THEN Repository[task] ELSE Written(files[k - 1], steps[k])
    IN  files[Len(steps)]

\* What read_file would have shown at the k-th step of a history.
LiveRead(task, history, k) ==
    LET call == history[k].call
    IN  Numbered(FilesAfter(task, SubSeq(history, 1, k - 1))[call.path],
                 call.window.first, call.window.last)

IsShownRead(step) == step.call.kind = "read_file" /\ step.observation.shows = "lines"

\* Every read of a history shows what read_file would have shown.
ReadsMatch(task, history) ==
    \A k \in DOMAIN history :
        IsShownRead(history[k]) =>
            history[k].observation.lines = LiveRead(task, history, k).lines

\* Every line a read shows is the one read_file shows under that number, and none is
\* missing of a read that leaves the prompt room for another observation.
ReadsAgree(task, history) ==
    \A k \in DOMAIN history :
        LET seen == history[k].observation.lines
            live == LiveRead(task, history, k)
        IN  IsShownRead(history[k]) =>
              /\ DOMAIN seen \subseteq DOMAIN live.lines
              /\ \A n \in DOMAIN seen : seen[n] = live.lines[n]
              /\ Size(live) < MaxChars => seen = live.lines

\* The gold examples with a read in their history, which went through a policy prompt.
WasPrompted(e) == e.stage \in {"edit", "verify"}

ReadsAreCurrent(e) ==
    IF WasPrompted(e) THEN ReadsAgree(e.task, e.history) ELSE ReadsMatch(e.task, e.history)
=============================================================================
