-------------------------- MODULE ToolEnvironment --------------------------
(***************************************************************************)
(* One episode of a coding environment, from a successful reset to its     *)
(* end: the step handler of DockerSandboxEnvironment and of                *)
(* LocalFixtureEnvironment, the ActionLoopGuard they share, the cached     *)
(* verifier result that finish may reuse, the line ranges replace_lines    *)
(* may touch, and the file list the reward is computed from.               *)
(*                                                                         *)
(* The caller stops at the first terminated result, as RolloutCollector    *)
(* and GRPOWorker do, or finalizes.  The lifecycle of the container is in  *)
(* DockerSandbox.                                                          *)
(***************************************************************************)
EXTENDS Integers, FiniteSets

CONSTANTS
    Paths,      \* files of the repository
    Protected,  \* those the verifier patch owns (Docker only)
    Spellings,  \* ways a policy may spell the same path ("a.py", "./a.py")
    Windows,    \* line ranges a read_file may ask for, none included
    Queries,    \* search_text queries
    Contents,   \* what one file may hold
    LineCount,  \* LineCount[c]: lines of a file that holds c
    Original,   \* Original[p]: what p holds after reset
    Passing,    \* the repositories the verifier accepts
    MaxSteps,   \* task.max_steps
    FailedWrite \* whether an edit that failed may have changed the file

Repositories == [Paths -> Contents]

ASSUME EnvironmentAssumption ==
    /\ Protected \subseteq Paths
    /\ LineCount \in [Contents -> Nat]
    /\ Original \in Repositories
    /\ Original \notin Passing
    /\ MaxSteps \in Nat
    /\ FailedWrite \in BOOLEAN

VARIABLES
    sandbox,    \* "docker" or "local"
    steps,      \* self.steps
    files,      \* the working tree
    last,       \* last_test_result
    edited,     \* _edited_since_verification
    spans,      \* _read_spans
    changed,    \* _changed_files (Docker); the local one compares hashes
    guard,      \* what ActionLoopGuard answers from its records
    ending,     \* how the episode ended and with which test result
    seen,       \* history: lines of the present content that a read has shown
    dirty       \* history: reads whose file was written after they last returned

vars == <<sandbox, steps, files, last, edited, spans, changed, guard, ending, seen, dirty>>

----------------------------------------------------------------------------
(* Actions of the policy.  A raw path is a file and a spelling of it; the  *)
(* environment canonicalises it, the guard compares it as it was written.  *)

Raw    == Paths \X Spellings
File(raw) == raw[1]
Ranges == UNION {{r \in (1 .. LineCount[c]) \X (1 .. LineCount[c]) : r[1] <= r[2]} :
                    c \in Contents}
Lines(r) == r[1] .. r[2]

Reads == [kind : {"read_file"}, path : Raw, window : Windows]
Edits == [kind : {"replace_text"}, path : Raw, new : Contents]
           \cup [kind : {"replace_lines"}, path : Raw, lines : Ranges, new : Contents]
Searches == [kind : {"search_text"}, query : Queries]
Actions == Reads \cup Edits \cup Searches
             \cup [kind : {"list_files", "run_tests", "finish", "escape"}]

\* The verifier on the working tree, or its timeout.
TestResults == {"passed", "failed", "timeout"}
Verdict  == IF files \in Passing THEN "passed" ELSE "failed"
Outcomes == {Verdict, "timeout"}

----------------------------------------------------------------------------
(* ActionLoopGuard: the records, kept as the answers they are read for.    *)

Records == [last : Actions \cup {[kind |-> "none"]}, error : BOOLEAN,
            found : SUBSET Searches, listed : BOOLEAN,
            reread : SUBSET Reads, patched : BOOLEAN]

NoRecord == [last |-> [kind |-> "none"], error |-> FALSE, found |-> {},
             listed |-> FALSE, reread |-> {}, patched |-> FALSE]

\* _base_rejection # None
Rejected(a) ==
    \/ guard.last = a /\ guard.error
    \/ a \in guard.found
    \/ a.kind = "list_files" /\ guard.listed
    \/ a \in guard.reread

\* Mutant: record forgets to reopen the reads of an updated file.
RecordedKeepsReads(a, observation) ==
    [guard EXCEPT
        !.last = a,
        !.error = observation = "error",
        !.found = @ \cup {b \in {a} : a.kind = "search_text" /\ observation # "error"},
        !.listed = @ \/ a.kind = "list_files",
        !.reread = @ \cup {b \in {a} : a.kind = "read_file" /\ observation # "error"},
        !.patched = @ \/ observation = "updated"]

\* record(a, observation): the observation is a tool error, "Updated ...", or other.
Recorded(a, observation) ==
    [last    |-> a,
     error   |-> observation = "error",
     found   |-> guard.found \cup {b \in {a} : a.kind = "search_text" /\ observation # "error"},
     listed  |-> guard.listed \/ a.kind = "list_files",
     reread  |-> IF a.kind = "read_file"
                 THEN guard.reread \cup {b \in {a} : observation # "error"}
                 ELSE {b \in guard.reread : ~(observation = "updated" /\ b.path = a.path)},
     patched |-> guard.patched \/ observation = "updated"]

\* Mutant: the remaining budget is off by one.
RefusedOffByOne(test) == test = "failed" /\ MaxSteps - (steps + 1) >= 3

\* premature_finish_refusal # None, at the step being taken
Refused(test) == test = "failed" /\ MaxSteps - (steps + 1) >= 2

----------------------------------------------------------------------------
(* step                                                                    *)

Endings == [how : {"open", "budget", "violation", "run_tests", "finish", "finalize"},
            test : TestResults]

Open == ending.how = "open"
End(how, test) == ending' = [how |-> how, test |-> test]

\* A path outside the repository or, in the container, an edit of a verifier-owned file.
Forbidden(a) ==
    \/ a.kind = "escape"
    \/ a \in Edits /\ sandbox = "docker" /\ File(a.path) \in Protected

\* An action inside the budget that the guard lets through.
Taken(a) == Open /\ steps < MaxSteps /\ ~Rejected(a)

\* What a step that is not an edit leaves alone.
KeepsFiles == UNCHANGED <<sandbox, files, changed, dirty>>

\* self.steps >= task.max_steps
BudgetExhausted(a) ==
    /\ Open /\ steps >= MaxSteps
    /\ End("budget", last)
    /\ UNCHANGED <<sandbox, steps, files, last, edited, spans, changed, guard, seen, dirty>>

\* A refusal of the guard costs a step and is recorded as a tool error.
Reject(a) ==
    /\ Open /\ steps < MaxSteps /\ Rejected(a)
    /\ steps' = steps + 1
    /\ guard' = Recorded(a, "error")
    /\ KeepsFiles /\ UNCHANGED <<last, edited, spans, ending, seen>>

\* ToolError or OSError: a bad argument, a missing file, text that does not match, an edit
\* that changes nothing or does not parse, a range that was not read, a command or a call
\* that failed and left the file alone (EditFails has those that write a file).
ToolFails(a) ==
    /\ Taken(a)
    /\ a.kind \in {"list_files", "search_text", "read_file", "replace_text", "replace_lines"}
    /\ ~Forbidden(a)
    /\ steps' = steps + 1
    /\ guard' = Recorded(a, "error")
    /\ KeepsFiles /\ UNCHANGED <<last, edited, spans, ending, seen>>

\* list_files or search_text returns
Navigate(a) ==
    /\ Taken(a)
    /\ a.kind \in {"list_files", "search_text"}
    /\ steps' = steps + 1
    /\ guard' = Recorded(a, "other")
    /\ KeepsFiles /\ UNCHANGED <<last, edited, spans, ending, seen>>

\* read_file shows some lines of the file, or says that it has none; which of them,
\* for the window asked and the limits on an observation, is left open.
Read(a) ==
    /\ Taken(a)
    /\ a \in Reads
    /\ LET p == File(a.path) IN
       \/ \E r \in Ranges :
             /\ r[2] <= LineCount[files[p]]
             /\ spans' = [spans EXCEPT ![p] = @ \cup {r}]
             /\ seen' = [seen EXCEPT ![p] = @ \cup Lines(r)]
       \/ UNCHANGED <<spans, seen>>
    /\ steps' = steps + 1
    /\ guard' = Recorded(a, "other")
    /\ dirty' = dirty \ {a}
    /\ UNCHANGED <<sandbox, files, last, edited, changed, ending>>

\* What the edit command may do to the file.
Applicable(a) ==
    LET p == File(a.path) IN
    /\ ~Forbidden(a)
    /\ a.new # files[p]
    /\ a.kind = "replace_lines" =>
          /\ \E r \in spans[p] : r[1] <= a.lines[1] /\ a.lines[2] <= r[2]
          /\ a.lines[2] <= LineCount[files[p]]

\* The file of an edit comes to hold c.
Written(a, c) ==
    LET p == File(a.path) IN
    /\ files' = [files EXCEPT ![p] = c]
    /\ seen' = [seen EXCEPT ![p] = {}]
    /\ dirty' = {b \in Reads : File(b.path) = p} \cup dirty

\* Mutants of the bookkeeping of an edit: one update of it is missing.
ForgetsList(p)  == UNCHANGED changed
ForgetsSpans(p) == UNCHANGED spans
StaysVerified   == UNCHANGED edited

\* What an edit that succeeded leaves for the reward, for replace_lines and for finish.
Lists(p)          == changed' = changed \cup {p}
DropsSpans(p)     == spans' = [spans EXCEPT ![p] = {}]
NeedsVerification == edited' = TRUE

\* replace_text or replace_lines reports "Updated".
Edit(a) ==
    /\ Taken(a)
    /\ a \in Edits /\ Applicable(a)
    /\ Written(a, a.new)
    /\ Lists(File(a.path)) /\ DropsSpans(File(a.path)) /\ NeedsVerification
    /\ steps' = steps + 1
    /\ guard' = Recorded(a, "updated")
    /\ UNCHANGED <<sandbox, last, ending>>

\* An edit whose writing of the file fails is a tool error that touches no record, and the
\* file may hold what it held, nothing, or any part of the text by then: docker exec runs
\* into its timeout or its script fails on the disk, and the fixture's write_text opens
\* the file for writing, which empties it, before it may raise.
EditFails(a) ==
    /\ Taken(a)
    /\ a \in Edits /\ Applicable(a)
    /\ \/ UNCHANGED <<files, seen, dirty>>
       \/ FailedWrite /\ \E c \in Contents : Written(a, c)
    /\ steps' = steps + 1
    /\ guard' = Recorded(a, "error")
    /\ UNCHANGED <<sandbox, last, edited, spans, changed, ending>>

\* EnvironmentError inside step: a violation, which ends the episode.
Violate(a) ==
    /\ Taken(a) /\ Forbidden(a)
    /\ End("violation", last)
    /\ steps' = steps + 1
    /\ guard' = Recorded(a, "other")
    /\ KeepsFiles /\ UNCHANGED <<last, edited, spans, seen>>

\* The container ends the episode on a timeout too; the fixture only on a pass.
RunTests(a) ==
    /\ Taken(a)
    /\ a.kind = "run_tests"
    /\ \E test \in Outcomes :
          /\ last' = test
          /\ IF test = "passed" \/ (sandbox = "docker" /\ test = "timeout")
             THEN End("run_tests", test) ELSE UNCHANGED ending
    /\ edited' = FALSE
    /\ steps' = steps + 1
    /\ guard' = Recorded(a, "other")
    /\ KeepsFiles /\ UNCHANGED <<spans, seen>>

\* Mutant: finish trusts every failure it has in the cache.
FinishFromCache(a) ==
    /\ Taken(a)
    /\ a.kind = "finish"
    /\ \E test \in (IF last = "passed" THEN Outcomes ELSE {last}) :
          /\ last' = test
          /\ ~Refused(test) /\ End("finish", test)
    /\ edited' = FALSE
    /\ steps' = steps + 1
    /\ guard' = Recorded(a, "other")
    /\ KeepsFiles /\ UNCHANGED <<spans, seen>>

\* finish runs the verifier only when an edit may have changed its answer.
Finish(a) ==
    /\ Taken(a)
    /\ a.kind = "finish"
    /\ \E test \in (IF last = "passed" \/ edited THEN Outcomes ELSE {last}) :
          /\ last' = test
          /\ \/ /\ Refused(test)
                /\ guard' = Recorded(a, "error")
                /\ UNCHANGED ending
             \/ /\ ~Refused(test)
                /\ guard' = Recorded(a, "other")
                /\ End("finish", test)
    /\ edited' = FALSE
    /\ steps' = steps + 1
    /\ KeepsFiles /\ UNCHANGED <<spans, seen>>

\* The caller ends the episode: one last verifier run.
Finalize ==
    /\ Open
    /\ \E test \in Outcomes : last' = test /\ End("finalize", test)
    /\ edited' = FALSE
    /\ UNCHANGED <<sandbox, steps, files, spans, changed, guard, seen, dirty>>

Over == ~Open /\ UNCHANGED vars

----------------------------------------------------------------------------
Init ==
    /\ sandbox \in {"docker", "local"}
    /\ steps = 0
    /\ files = Original
    /\ last \in {"failed", "timeout"}    \* the baseline, which must not pass
    /\ edited = FALSE
    /\ spans = [p \in Paths |-> {}]
    /\ changed = {}
    /\ guard = NoRecord
    /\ ending = [how |-> "open", test |-> "timeout"]
    /\ seen = [p \in Paths |-> {}]
    /\ dirty = {}

Step(a) ==
    \/ BudgetExhausted(a) \/ Reject(a) \/ ToolFails(a)
    \/ Navigate(a) \/ Read(a) \/ Edit(a) \/ EditFails(a)
    \/ Violate(a) \/ RunTests(a) \/ Finish(a)

Next == (\E a \in Actions : Step(a)) \/ Finalize \/ Over

Spec == Init /\ [][Next]_vars

----------------------------------------------------------------------------
TypeOK ==
    /\ sandbox \in {"docker", "local"}
    /\ steps \in 0 .. MaxSteps
    /\ files \in Repositories
    /\ last \in TestResults
    /\ edited \in BOOLEAN
    /\ spans \in [Paths -> SUBSET Ranges]
    /\ changed \subseteq Paths
    /\ guard \in Records
    /\ ending \in Endings
    /\ seen \in [Paths -> SUBSET Nat]
    /\ dirty \subseteq Reads

\* The cached result is the verdict on the files as they are now, unless an edit is
\* flagged as not verified yet.  finish answers from the cache on the strength of it.
VerdictIsFresh == edited \/ last \in Outcomes

\* An episode that ends on a verifier result ends on the verdict of the repository it
\* is graded with, also when finish reuses an earlier run.
EndsOnCurrentVerdict ==
    ending.how \in {"run_tests", "finish", "finalize"} => ending.test \in Outcomes

\* Every line replace_lines may touch was shown by a read since the file last changed.
SpansAreSeen == \A p \in Paths : \A r \in spans[p] : Lines(r) \subseteq seen[p]

\* Every file that differs from the task's is in the list the reward is computed from.
ChangesAreListed == \A p \in Paths : files[p] # Original[p] => p \in changed

\* A read is refused as a repeat only while the file is as that read returned it.
RefusedReadIsUnchanged == guard.reread \cap dirty = {}

\* The episode goes on only while the verifier has not accepted the repository, and a
\* failing repository is given up only with no budget left for an edit and a test run.
GivesUpLate ==
    /\ Open => last # "passed"
    /\ ending.how = "finish" /\ ending.test = "failed" => steps >= MaxSteps - 1
=============================================================================
