---------------------------- MODULE ResumableRun ----------------------------
(***************************************************************************)
(* The files of the programs that run a fixed plan of trials for hours and *)
(* may be stopped and started again: swe_gym_rollout, diagnostic_probe,    *)
(* fixed_state_evaluate, grpo_evaluate and edit_action_evaluate.  A file   *)
(* is replaced whole, a trial is several files, and a program resumes from *)
(* one of them.  One program and its output directory at a time.           *)
(***************************************************************************)
EXTENDS Naturals

CONSTANTS
    Programs,     \* the programs to look at
    Planned,      \* trials of the plan, run in this order
    Generations,  \* num_generations of grpo_evaluate
    Faults,       \* what may go wrong
    MaxFaults     \* bound: how often it does

Trials == 1 .. Planned

ASSUME ResumeAssumption ==
    /\ Programs \subseteq {"rollout", "probe", "fixed_state", "grpo_evaluate", "edit_action"}
    /\ Planned \in Nat \ {0}
    /\ Generations \in Nat \ {0}
    /\ Faults \subseteq {"crash", "timeout", "endpoint", "silent"}
    /\ MaxFaults \in Nat

VARIABLES
    program,      \* which program this is
    disk,         \* the output files
    run,          \* the process: where it is and what it holds in memory
    faults        \* faults so far

runVars == <<program, disk, run, faults>>

NoRecords == [t \in Trials |-> 0]

\* made: the directory exists.  records: lines of a trial in the trajectory file, or in
\* its reward audit.  rows and failed: trials.jsonl, and its infrastructure failures.
\* stale, a history: a fresh rollout emptied the records under the report of an old one.
EmptyDisk == [made |-> FALSE, records |-> NoRecords, rows |-> {}, failed |-> {}, stale |-> FALSE,
              report |-> [written |-> FALSE, listed |-> {}, complete |-> FALSE]]

\* mine: trajectories in memory.  listed and failed: trials of the report in memory.
\* complete: its run_complete.  last: nothing is run after the next report.
NoRun == [pc |-> "off", fresh |-> FALSE, mine |-> NoRecords, listed |-> {}, failed |-> {},
          trial |-> 1, left |-> 0, complete |-> FALSE, last |-> FALSE]

At(p, l) == program = p /\ run.pc = l

\* for ... in plan: if key in done: continue
IsNext(t, done) == t \notin done /\ \A u \in Trials \ done : t <= u

\* Bound: lines of a trial that are more than one too many are not counted.
PerTrial == IF program = "grpo_evaluate" THEN Generations ELSE 1
OneMore(n) == IF n > PerTrial THEN n ELSE n + 1

Fails(kind) == kind \in Faults /\ faults < MaxFaults /\ faults' = faults + 1

----------------------------------------------------------------------------
(* swe_gym_rollout: the trajectory file, then the report.  A fresh start   *)
(* empties both, one after the other.                                      *)

Collected == {t \in Trials : run.mine[t] > 0}

\* Mutant: --resume starts with nothing.
StartRolloutEmpty(resume) ==
    /\ At("rollout", "off")
    /\ run' = [NoRun EXCEPT !.pc = "records", !.fresh = ~resume]
    /\ UNCHANGED <<disk, faults>>

\* read_trajectories, and the checks of collect_trajectories_incrementally.
StartRollout(resume) ==
    /\ At("rollout", "off")
    /\ resume => \A t \in Trials : disk.records[t] <= 1
    /\ run' = [NoRun EXCEPT !.pc = "records", !.fresh = ~resume,
                            !.mine = IF resume THEN disk.records ELSE NoRecords]
    /\ UNCHANGED <<disk, faults>>

\* Mutant: a dead endpoint leaves the loop instead of raising.
RolloutTrialBreaks ==
    /\ At("rollout", "next") /\ Collected # Trials
    /\ \E t \in Trials :
       /\ IsNext(t, Collected)
       /\ \/ /\ run' = [run EXCEPT !.mine[t] = 1, !.pc = "records"]
             /\ UNCHANGED faults
          \/ /\ Fails("endpoint")
             /\ run' = [run EXCEPT !.mine[t] = 1, !.pc = "records", !.last = TRUE,
                                   !.complete = TRUE]
    /\ UNCHANGED disk

\* A trial is collected; if its endpoint died, the checkpoint that holds it is the last.
\* (An exception of collect ends the process as Crash does.)
RolloutTrial ==
    /\ At("rollout", "next") /\ Collected # Trials
    /\ \E t \in Trials :
       /\ IsNext(t, Collected)
       /\ \/ /\ run' = [run EXCEPT !.mine[t] = 1, !.pc = "records"]
             /\ UNCHANGED faults
          \/ /\ Fails("endpoint")
             /\ run' = [run EXCEPT !.mine[t] = 1, !.pc = "records", !.last = TRUE]
    /\ UNCHANGED disk

\* All trials are collected: the report that says run_complete.
RolloutDone ==
    /\ At("rollout", "next") /\ Collected = Trials
    /\ run' = [run EXCEPT !.pc = "records", !.last = TRUE, !.complete = TRUE]
    /\ UNCHANGED <<disk, faults>>

\* A fresh start is about to empty the records.
Emptying == run.fresh /\ run.mine = NoRecords

\* write_trajectories
RolloutRecords ==
    /\ At("rollout", "records")
    /\ disk' = [disk EXCEPT !.records = run.mine, !.stale = @ \/ Emptying]
    /\ run' = [run EXCEPT !.pc = "report"]
    /\ UNCHANGED faults

----------------------------------------------------------------------------
(* diagnostic_probe: the trajectory file, then trials.jsonl, which resume  *)
(* goes by, then the report.                                               *)

\* refusing to overwrite output directory; otherwise the rows and trajectories on disk.
StartProbe(resume) ==
    /\ At("probe", "off")
    /\ resume \/ ~disk.made
    /\ run' = [NoRun EXCEPT !.pc = "next", !.fresh = ~resume, !.mine = disk.records,
                            !.listed = disk.rows, !.failed = disk.failed]
    /\ disk' = [disk EXCEPT !.made = TRUE]
    /\ UNCHANGED faults

\* A trial returns a trajectory, or the alarm or any other exception becomes a row
\* without one.
ProbeTrial ==
    /\ At("probe", "next") /\ run.listed # Trials
    /\ \E t \in Trials :
       /\ IsNext(t, run.listed)
       /\ \/ /\ run' = [run EXCEPT !.mine[t] = OneMore(@), !.listed = @ \cup {t}, !.pc = "records"]
             /\ UNCHANGED faults
          \/ /\ Fails("timeout")
             /\ run' = [run EXCEPT !.listed = @ \cup {t}, !.failed = @ \cup {t}, !.pc = "rows"]
    /\ UNCHANGED disk

ProbeRecords ==
    /\ At("probe", "records")
    /\ disk' = [disk EXCEPT !.records = run.mine]
    /\ run' = [run EXCEPT !.pc = "rows"]
    /\ UNCHANGED faults

ProbeRows ==
    /\ At("probe", "rows")
    /\ disk' = [disk EXCEPT !.rows = run.listed, !.failed = run.failed]
    /\ run' = [run EXCEPT !.pc = "report"]
    /\ UNCHANGED faults

\* summarize adds up training_reward, which is None in the row of a failure: TypeError.
ProbeReport ==
    /\ At("probe", "report")
    /\ \/ /\ run.failed = {}
          /\ disk' = [disk EXCEPT !.report = [written |-> TRUE, listed |-> run.listed,
                                              complete |-> run.listed = Trials]]
          /\ run' = [run EXCEPT !.pc = "next"]
       \/ /\ run.failed # {}
          /\ run' = NoRun /\ UNCHANGED disk
    /\ UNCHANGED faults

\* The report is read back and marked complete, if there is one.
ProbeDone ==
    /\ At("probe", "next") /\ run.listed = Trials
    /\ disk' = [disk EXCEPT !.report.complete = disk.report.written]
    /\ run' = NoRun
    /\ UNCHANGED faults

----------------------------------------------------------------------------
(* The evaluations: the client appends audit lines while a trial runs, the *)
(* report lists the trial when there are as many as there should be.       *)

Audited == program \in {"fixed_state", "grpo_evaluate", "edit_action"}

\* fixed_state_evaluate resumes from report.json, and refuses to without it.
StartFixedState(resume) ==
    /\ At("fixed_state", "off")
    /\ IF resume THEN disk.report.written ELSE ~disk.made
    /\ run' = [NoRun EXCEPT !.pc = "report", !.fresh = ~resume,
                            !.listed = disk.report.listed, !.complete = disk.report.complete]
    /\ disk' = [disk EXCEPT !.made = TRUE]
    /\ UNCHANGED faults

\* grpo_evaluate takes the tasks of report.json, if there is one.
StartEvaluate(resume) ==
    /\ At("grpo_evaluate", "off")
    /\ resume \/ ~disk.made
    /\ run' = [NoRun EXCEPT !.pc = "report", !.fresh = ~resume, !.listed = disk.report.listed]
    /\ disk' = [disk EXCEPT !.made = TRUE]
    /\ UNCHANGED faults

\* edit_action_evaluate cannot be resumed.
StartEditAction ==
    /\ At("edit_action", "off")
    /\ ~disk.made
    /\ run' = [NoRun EXCEPT !.pc = "report", !.fresh = TRUE]
    /\ disk' = [disk EXCEPT !.made = TRUE]
    /\ UNCHANGED faults

\* Mutant: the audit of an interrupted task stays in place.
SetAsideNothing(t) == UNCHANGED disk

\* grpo_evaluate renames the audit of an interrupted task; the others append to it.
SetAside(t) ==
    IF program = "grpo_evaluate" THEN disk' = [disk EXCEPT !.records[t] = 0]
    ELSE UNCHANGED disk

\* The next trial not listed, after the audits of the listed ones, which come before it,
\* were found valid.
Evaluate ==
    /\ Audited /\ run.pc = "next" /\ run.listed # Trials
    /\ \A t \in run.listed : disk.records[t] = PerTrial
    /\ \E t \in Trials :
       /\ IsNext(t, run.listed)
       /\ SetAside(t)
       /\ run' = [run EXCEPT !.pc = "evaluating", !.trial = t, !.left = PerTrial]
    /\ UNCHANGED faults

\* One episode of the trial ends and appends its line, unless its reward was lost.
Audit ==
    /\ Audited /\ run.pc = "evaluating" /\ run.left > 0
    /\ \/ /\ disk' = [disk EXCEPT !.records[run.trial] = OneMore(@)]
          /\ UNCHANGED faults
       \/ Fails("silent") /\ UNCHANGED disk
    /\ run' = [run EXCEPT !.left = @ - 1]

\* Mutant: the trial is listed however many lines there are.
ListTrialUnchecked ==
    /\ Audited /\ run.pc = "evaluating" /\ run.left = 0
    /\ run' = [run EXCEPT !.listed = @ \cup {run.trial}, !.pc = "report"]
    /\ UNCHANGED <<disk, faults>>

\* expected one reward audit: list the trial, or raise
ListTrial ==
    /\ Audited /\ run.pc = "evaluating" /\ run.left = 0
    /\ run' = IF disk.records[run.trial] = PerTrial
              THEN [run EXCEPT !.listed = @ \cup {run.trial}, !.pc = "report"]
              ELSE NoRun
    /\ UNCHANGED <<disk, faults>>

EvaluationDone ==
    /\ Audited /\ run.pc = "next" /\ run.listed = Trials
    /\ run' = [run EXCEPT !.pc = "report", !.complete = TRUE, !.last = TRUE]
    /\ UNCHANGED <<disk, faults>>

----------------------------------------------------------------------------
\* write_report, or _checkpoint of an evaluation: the report in memory.
SaveReport ==
    /\ program # "probe" /\ run.pc = "report"
    /\ disk' = [disk EXCEPT
                  !.report = [written |-> TRUE, complete |-> run.complete,
                              listed |-> IF program = "rollout" THEN Collected ELSE run.listed],
                  !.stale = FALSE]
    /\ run' = IF run.last THEN NoRun ELSE [run EXCEPT !.pc = "next"]
    /\ UNCHANGED faults

\* The process is killed, or an exception no one catches ends it: memory is lost.
Crash ==
    /\ run.pc # "off"
    /\ Fails("crash")
    /\ run' = NoRun
    /\ UNCHANGED disk

Start(resume) ==
    \/ StartRollout(resume) \/ StartProbe(resume)
    \/ StartFixedState(resume) \/ StartEvaluate(resume)
    \/ ~resume /\ StartEditAction

Working ==
    \/ RolloutTrial \/ RolloutDone \/ RolloutRecords
    \/ ProbeTrial \/ ProbeRecords \/ ProbeRows \/ ProbeReport \/ ProbeDone
    \/ Evaluate \/ Audit \/ ListTrial \/ EvaluationDone \/ SaveReport

\* The operator leaves the output as it is.
Leave == run.pc = "off" /\ UNCHANGED runVars

ResumeInit ==
    /\ program \in Programs
    /\ disk = EmptyDisk
    /\ run = NoRun
    /\ faults = 0

ResumeNext ==
    \/ /\ Working \/ Crash \/ \E resume \in BOOLEAN : Start(resume)
       /\ UNCHANGED program
    \/ Leave

ResumeSpec == ResumeInit /\ [][ResumeNext]_runVars

\* A process that runs goes on, and the operator resumes what has stopped.
FairResumeSpec ==
    /\ ResumeSpec
    /\ WF_runVars(Working /\ UNCHANGED program)
    /\ WF_runVars(Start(TRUE) /\ UNCHANGED program)

----------------------------------------------------------------------------
\* Lines a trial can have: an interrupted trial of these two programs is appended to.
MostRecords == IF program \in {"probe", "fixed_state"} THEN PerTrial + 1 ELSE PerTrial

ReportType == [written : BOOLEAN, listed : SUBSET Trials, complete : BOOLEAN]

\* Every variable has the type the code gives it; no trial is recorded twice by a
\* program that does not append to what an interrupted run left.
ResumeTypeOK ==
    /\ program \in Programs
    /\ disk \in [made : BOOLEAN, records : [Trials -> 0 .. MostRecords], rows : SUBSET Trials,
                 failed : SUBSET Trials, stale : BOOLEAN, report : ReportType]
    /\ run \in [pc : {"off", "records", "rows", "report", "next", "evaluating"},
                fresh : BOOLEAN, mine : [Trials -> 0 .. MostRecords], listed : SUBSET Trials,
                failed : SUBSET Trials, trial : Trials, left : 0 .. PerTrial,
                complete : BOOLEAN, last : BOOLEAN]
    /\ faults \in 0 .. MaxFaults

\* The trials a resumed run skips, and that are on disk as results.
Done == CASE program = "rollout" -> {t \in Trials : disk.records[t] = 1}
          [] program = "probe"   -> disk.rows
          [] OTHER               -> disk.report.listed

\* README: --resume only runs the missing trials.  A trial that is done stays done through
\* crashes and restarts, unless the operator starts a rollout afresh over it.
NothingLost ==
    [][~(At("rollout", "records") /\ Emptying) => Done \subseteq Done']_runVars

\* A trial recorded as an infrastructure failure is never retried or replaced.
NeverRetried ==
    [][\A t \in disk.failed :
        t \in disk'.failed /\ disk'.records[t] = disk.records[t]]_runVars

\* A report, also one that a crash left behind, lists only trials whose record is on
\* disk: one trajectory, or exactly as many audit lines as the trial has episodes.
ReportIsBacked ==
    ~disk.stale => \A t \in disk.report.listed :
        IF program = "probe" THEN t \in disk.rows /\ disk.records[t] > 0
        ELSE disk.records[t] = PerTrial

\* run_complete tells a whole run from an interrupted one.  (The probe marks the last
\* report it finds, so there the rows are whole and the report may not be.)
CompleteIsWhole ==
    disk.report.complete =>
        IF program = "probe" THEN disk.rows = Trials ELSE disk.report.listed = Trials

\* A rollout or a grpo_evaluate that is resumed after every fault ends up complete.
ResumedRunsComplete ==
    program \in {"rollout", "grpo_evaluate"} => <>disk.report.complete

\* diagnostic_probe: the report is written after every trial, failures included.
ProbeTrialsAreReported ==
    \A t \in Trials : program = "probe" /\ t \in disk.rows ~> t \in disk.report.listed
=============================================================================
