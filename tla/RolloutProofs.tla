--------------------------- MODULE RolloutProofs ---------------------------
(***************************************************************************)
(* Proofs about a rollout: the environment a policy acts in and its caller *)
(* (ToolEnvironment, Collector), the programs that run many rollouts and   *)
(* resume (ResumableRun), and the container a rollout works in             *)
(* (DockerSandbox).                                                        *)
(*                                                                         *)
(* ToolEnvironment and Collector, for every repository, verifier, budget   *)
(* and set of paths: type safety, GivesUpLate and the invariants of        *)
(* Collector hold for any container.  The others assume that an edit which *)
(* failed has not changed its file, in the container and in the fixture,   *)
(* and RefusedReadIsUnchanged that paths have one spelling: without, TLC   *)
(* finds them violated.                                                    *)
(***************************************************************************)
EXTENDS Collector, ResumableRun, DockerSandbox, TLAPS

----------------------------------------------------------------------------
(* Type safety                                                             *)

\* A read_file, search_text or edit action belongs to the set of its kind.
LEMMA ActionKinds ==
    ASSUME NEW a \in Actions
    PROVE  /\ a.kind = "read_file" => a \in Reads
           /\ a.kind = "search_text" => a \in Searches
           /\ a \in Reads => a.kind = "read_file"
           /\ a \in Edits => a.kind \in {"replace_text", "replace_lines"}
BY DEF Actions, Reads, Edits, Searches

\* What an edit or a read carries.
LEMMA ActionFields ==
    /\ \A a \in Reads : a.path \in Raw /\ File(a.path) \in Paths
    /\ \A a \in Edits : a.path \in Raw /\ File(a.path) \in Paths /\ a.new \in Contents
BY DEF Reads, Edits, Raw, File

\* record keeps the records well formed.
LEMMA RecordedType ==
    ASSUME guard \in Records, NEW a \in Actions, NEW observation
    PROVE  Recorded(a, observation) \in Records
<1>1. (observation = "error") \in BOOLEAN /\ (guard.listed \/ a.kind = "list_files") \in BOOLEAN
      /\ (guard.patched \/ observation = "updated") \in BOOLEAN
  OBVIOUS
<1>2. guard.found \cup {b \in {a} : a.kind = "search_text" /\ observation # "error"} \in SUBSET Searches
  BY ActionKinds DEF Records
<1>3. CASE a.kind = "read_file"
  <2>1. guard.reread \cup {b \in {a} : observation # "error"} \in SUBSET Reads
    BY <1>3, ActionKinds DEF Records
  <2> QED BY <1>1, <1>2, <1>3, <2>1 DEF Records, Recorded
<1>4. CASE a.kind # "read_file"
  <2>1. {b \in guard.reread : ~(observation = "updated" /\ b.path = a.path)} \in SUBSET Reads
    BY DEF Records
  <2> QED BY <1>1, <1>2, <1>4, <2>1 DEF Records, Recorded
<1> QED BY <1>3, <1>4

\* A run of the verifier returns a result.
LEMMA OutcomesType == Outcomes \subseteq TestResults /\ Verdict \in TestResults
BY DEF Outcomes, Verdict, TestResults

\* Every step keeps every variable in its type; the step count never passes the budget.
LEMMA TypeStep == TypeOK /\ [Next]_vars => TypeOK'
<1> SUFFICES ASSUME TypeOK, [Next]_vars PROVE TypeOK'
  OBVIOUS
<1> USE EnvironmentAssumption
<1>1. ASSUME NEW a \in Actions, BudgetExhausted(a) PROVE TypeOK'
  BY <1>1 DEF BudgetExhausted, End, TypeOK, Endings
<1>2. ASSUME NEW a \in Actions, Reject(a) PROVE TypeOK'
  BY <1>2, RecordedType DEF Reject, KeepsFiles, TypeOK
<1>3. ASSUME NEW a \in Actions, ToolFails(a) PROVE TypeOK'
  BY <1>3, RecordedType DEF ToolFails, KeepsFiles, Taken, TypeOK
<1>4. ASSUME NEW a \in Actions, Navigate(a) PROVE TypeOK'
  BY <1>4, RecordedType DEF Navigate, KeepsFiles, Taken, TypeOK
<1>5. ASSUME NEW a \in Actions, Read(a) PROVE TypeOK'
  <2>1. steps' \in 0 .. MaxSteps /\ guard' \in Records /\ dirty' \subseteq Reads
    BY <1>5, RecordedType DEF Read, Taken, TypeOK
  <2>2. spans' \in [Paths -> SUBSET Ranges] /\ seen' \in [Paths -> SUBSET Nat]
    <3>1. File(a.path) \in Paths
      BY <1>5, ActionFields DEF Read
    <3>2. \A r \in Ranges : Lines(r) \subseteq Nat
      BY DEF Ranges, Lines
    <3> QED BY <1>5, <3>1, <3>2 DEF Read, TypeOK
  <2> QED BY <1>5, <2>1, <2>2 DEF Read, TypeOK, Repositories
<1>6. ASSUME NEW a \in Actions, Edit(a) PROVE TypeOK'
  <2>1. File(a.path) \in Paths /\ a.new \in Contents
    BY <1>6, ActionFields DEF Edit
  <2>2. steps' \in 0 .. MaxSteps /\ guard' \in Records
    BY <1>6, RecordedType DEF Edit, Taken, TypeOK
  <2> QED BY <1>6, <2>1, <2>2 DEF Edit, Written, Lists, DropsSpans, NeedsVerification, TypeOK, Repositories
<1>7. ASSUME NEW a \in Actions, EditFails(a) PROVE TypeOK'
  <2>1. File(a.path) \in Paths
    BY <1>7, ActionFields DEF EditFails
  <2>2. steps' \in 0 .. MaxSteps /\ guard' \in Records
    BY <1>7, RecordedType DEF EditFails, Taken, TypeOK
  <2>3. UNCHANGED <<files, seen, dirty>> \/ \E c \in Contents : Written(a, c)
    BY <1>7 DEF EditFails
  <2>4. /\ files' \in Repositories /\ seen' \in [Paths -> SUBSET Nat]
        /\ dirty' \subseteq Reads
    BY <2>1, <2>3 DEF Written, TypeOK, Repositories
  <2> QED BY <1>7, <2>2, <2>4 DEF EditFails, TypeOK
<1>8. ASSUME NEW a \in Actions, Violate(a) PROVE TypeOK'
  BY <1>8, RecordedType DEF Violate, KeepsFiles, Taken, End, TypeOK, Endings
<1>9. ASSUME NEW a \in Actions, RunTests(a) PROVE TypeOK'
  <2>1. PICK test \in Outcomes : last' = test /\ (ending' = ending \/ End("run_tests", test))
    BY <1>9 DEF RunTests
  <2>2. last' \in TestResults /\ ending' \in Endings
    BY <2>1, OutcomesType DEF End, Endings, TypeOK
  <2>3. steps' \in 0 .. MaxSteps /\ guard' \in Records /\ edited' = FALSE
    BY <1>9, RecordedType DEF RunTests, Taken, TypeOK
  <2> QED BY <1>9, <2>2, <2>3 DEF RunTests, KeepsFiles, TypeOK
<1>10. ASSUME NEW a \in Actions, Finish(a) PROVE TypeOK'
  <2>1. PICK test \in (IF last = "passed" \/ edited THEN Outcomes ELSE {last}) :
            last' = test /\ (ending' = ending \/ End("finish", test))
    BY <1>10 DEF Finish
  <2>2. last' \in TestResults /\ ending' \in Endings
    BY <2>1, OutcomesType DEF End, Endings, TypeOK
  <2>3. steps' \in 0 .. MaxSteps /\ guard' \in Records /\ edited' = FALSE
    BY <1>10, RecordedType DEF Finish, Taken, TypeOK
  <2> QED BY <1>10, <2>2, <2>3 DEF Finish, KeepsFiles, TypeOK
<1>11. ASSUME Finalize PROVE TypeOK'
  <2>1. PICK test \in Outcomes : last' = test /\ End("finalize", test)
    BY <1>11 DEF Finalize
  <2>2. last' \in TestResults /\ ending' \in Endings
    BY <2>1, OutcomesType DEF End, Endings
  <2> QED BY <1>11, <2>2 DEF Finalize, TypeOK
<1>12. ASSUME UNCHANGED vars PROVE TypeOK'
  BY <1>12 DEF vars, TypeOK, Repositories
<1> QED
  BY <1>1, <1>2, <1>3, <1>4, <1>5, <1>6, <1>7, <1>8, <1>9, <1>10, <1>11, <1>12
  DEF Next, Step, Over

LEMMA EpisodeInit == Init => TypeOK
<1> SUFFICES ASSUME Init PROVE TypeOK
  OBVIOUS
<1>1. NoRecord \in Records
  <2>1. {} \in SUBSET Searches /\ {} \in SUBSET Reads
    OBVIOUS
  <2> QED BY <2>1 DEF NoRecord, Records
<1>2. ending \in Endings
  BY DEF Init, Endings, TestResults
<1>3. spans \in [Paths -> SUBSET Ranges] /\ seen \in [Paths -> SUBSET Nat]
  BY DEF Init
<1>4. steps \in 0 .. MaxSteps /\ files \in Repositories /\ last \in TestResults
  BY EnvironmentAssumption DEF Init, TestResults
<1> QED BY <1>1, <1>2, <1>3, <1>4 DEF Init, TypeOK

\* The variables of an episode stay in their types: the budget is never overrun.
THEOREM EpisodeTypes == Spec => []TypeOK
BY EpisodeInit, TypeStep, PTL DEF Spec

----------------------------------------------------------------------------
(* What finish may reuse                                                   *)

\* The parts of the argument for finish: the cache is fresh, and the episode ended
\* on what was fresh then, with the files it is graded with.
VerdictInv == TypeOK /\ VerdictIsFresh /\ EndsOnCurrentVerdict

\* finish reuses only a cached failure that no edit followed, so it is the verdict.
LEMMA ReusedIsCurrent ==
    ASSUME VerdictIsFresh,
           NEW test \in (IF last = "passed" \/ edited THEN Outcomes ELSE {last})
    PROVE  test \in Outcomes
BY DEF VerdictIsFresh

\* An edit that fails and leaves its file alone is like any tool that fails.
LEMMA FailedEditKeeps ==
    ASSUME ~FailedWrite, NEW a \in Actions, EditFails(a)
    PROVE  ToolFails(a)
BY ActionKinds DEF EditFails, ToolFails, Applicable, KeepsFiles

\* Files are written only by Written, and the open episode flags them as not verified.
LEMMA VerdictStep ==
    ASSUME ~FailedWrite, VerdictInv, [Next]_vars
    PROVE  VerdictIsFresh' /\ EndsOnCurrentVerdict'
<1> USE DEF VerdictInv
<1>1. ASSUME UNCHANGED <<files, last, edited>>, ending' = ending \/ ending'.how \in {"budget", "violation"}
      PROVE  VerdictIsFresh' /\ EndsOnCurrentVerdict'
  <2>1. Outcomes' = Outcomes
    BY <1>1 DEF Outcomes, Verdict
  <2> QED BY <1>1, <2>1 DEF VerdictIsFresh, EndsOnCurrentVerdict
<1>2. ASSUME NEW test \in Outcomes, files' = files, last' = test,
             ending' = ending \/ ending'.test = test
      PROVE  VerdictIsFresh' /\ EndsOnCurrentVerdict'
  <2>1. Outcomes' = Outcomes
    BY <1>2 DEF Outcomes, Verdict
  <2> QED BY <1>2, <2>1 DEF VerdictIsFresh, EndsOnCurrentVerdict
<1>3. ASSUME NEW a \in Actions, Edit(a) PROVE VerdictIsFresh' /\ EndsOnCurrentVerdict'
  BY <1>3 DEF Edit, NeedsVerification, VerdictIsFresh, EndsOnCurrentVerdict, Taken, Open
<1>4. ASSUME NEW a \in Actions, RunTests(a) PROVE VerdictIsFresh' /\ EndsOnCurrentVerdict'
  <2>1. PICK test \in Outcomes :
            last' = test /\ (ending' = ending \/ End("run_tests", test))
    BY <1>4 DEF RunTests
  <2>2. files' = files
    BY <1>4 DEF RunTests, KeepsFiles
  <2> QED BY <2>1, <2>2, <1>2 DEF End
<1>5. ASSUME NEW a \in Actions, Finish(a) PROVE VerdictIsFresh' /\ EndsOnCurrentVerdict'
  <2>1. PICK test \in (IF last = "passed" \/ edited THEN Outcomes ELSE {last}) :
            last' = test /\ (ending' = ending \/ End("finish", test))
    BY <1>5 DEF Finish
  <2>2. files' = files
    BY <1>5 DEF Finish, KeepsFiles
  <2>3. test \in Outcomes
    BY <2>1, ReusedIsCurrent
  <2> QED BY <2>1, <2>2, <2>3, <1>2 DEF End
<1>6. ASSUME Finalize PROVE VerdictIsFresh' /\ EndsOnCurrentVerdict'
  <2>1. PICK test \in Outcomes : last' = test /\ End("finalize", test)
    BY <1>6 DEF Finalize
  <2> QED BY <2>1, <1>6, <1>2 DEF End, Finalize
<1>7. ASSUME NEW a \in Actions,
             BudgetExhausted(a) \/ Reject(a) \/ ToolFails(a) \/ Navigate(a) \/ Read(a) \/ Violate(a)
      PROVE  VerdictIsFresh' /\ EndsOnCurrentVerdict'
  BY <1>7, <1>1 DEF BudgetExhausted, Reject, ToolFails, Navigate, Read, Violate, KeepsFiles, End
<1>8. CASE UNCHANGED vars
  BY <1>8, <1>1 DEF vars
<1> QED BY <1>3, <1>4, <1>5, <1>6, <1>7, <1>8, FailedEditKeeps DEF Next, Step, Over

\* finish and run_tests end the episode on the verifier's answer for the repository as
\* it stands then, also when the answer was given several steps earlier.
THEOREM FinishIsCurrent ==
    ASSUME ~FailedWrite
    PROVE  Spec => [](VerdictIsFresh /\ EndsOnCurrentVerdict)
<1>1. Init => VerdictIsFresh /\ EndsOnCurrentVerdict
  BY EnvironmentAssumption DEF Init, VerdictIsFresh, EndsOnCurrentVerdict, Outcomes, Verdict
<1>2. TypeOK /\ TypeOK' /\ (VerdictIsFresh /\ EndsOnCurrentVerdict) /\ [Next]_vars
        => (VerdictIsFresh /\ EndsOnCurrentVerdict)'
  BY VerdictStep DEF VerdictInv
<1> QED BY <1>1, <1>2, EpisodeTypes, PTL DEF Spec

----------------------------------------------------------------------------
(* What an edit may touch, and what the reward sees of it                  *)

\* A read range was shown since the file last changed, and a file that differs from the
\* task's is listed.
LEMMA BookkeepingStep ==
    ASSUME ~FailedWrite, TypeOK, SpansAreSeen, ChangesAreListed, [Next]_vars
    PROVE  SpansAreSeen' /\ ChangesAreListed'
<1>1. ASSUME UNCHANGED <<files, spans, seen, changed>>
      PROVE  SpansAreSeen' /\ ChangesAreListed'
  BY <1>1 DEF SpansAreSeen, ChangesAreListed
<1>2. ASSUME NEW a \in Actions, Read(a) PROVE SpansAreSeen' /\ ChangesAreListed'
  <2>1. File(a.path) \in Paths
    BY <1>2, ActionFields DEF Read
  <2>2. ChangesAreListed'
    BY <1>2 DEF Read, ChangesAreListed
  <2>3. CASE UNCHANGED <<spans, seen>>
    BY <2>2, <2>3 DEF SpansAreSeen
  <2>4. CASE \E r \in Ranges :
               /\ spans' = [spans EXCEPT ![File(a.path)] = @ \cup {r}]
               /\ seen' = [seen EXCEPT ![File(a.path)] = @ \cup Lines(r)]
    <3>1. PICK r \in Ranges :
               /\ spans' = [spans EXCEPT ![File(a.path)] = @ \cup {r}]
               /\ seen' = [seen EXCEPT ![File(a.path)] = @ \cup Lines(r)]
      BY <2>4
    <3>2. ASSUME NEW p \in Paths, NEW q \in spans'[p] PROVE Lines(q) \subseteq seen'[p]
      BY <2>1, <3>1, <3>2 DEF SpansAreSeen, TypeOK
    <3> QED BY <2>2, <3>2 DEF SpansAreSeen
  <2> QED BY <1>2, <2>3, <2>4 DEF Read
<1>3. ASSUME NEW a \in Actions, Edit(a) PROVE SpansAreSeen' /\ ChangesAreListed'
  <2>1. File(a.path) \in Paths
    BY <1>3, ActionFields DEF Edit
  <2>2. SpansAreSeen'
    BY <1>3, <2>1 DEF Edit, Written, DropsSpans, SpansAreSeen, TypeOK
  <2>3. ChangesAreListed'
    BY <1>3, <2>1 DEF Edit, Written, Lists, ChangesAreListed, TypeOK, Repositories
  <2> QED BY <2>2, <2>3
<1>4. ASSUME NEW a \in Actions,
             \/ BudgetExhausted(a) \/ Reject(a) \/ ToolFails(a) \/ Navigate(a)
             \/ Violate(a) \/ RunTests(a) \/ Finish(a)
      PROVE  SpansAreSeen' /\ ChangesAreListed'
  BY <1>4, <1>1 DEF BudgetExhausted, Reject, ToolFails, Navigate, Violate, RunTests, Finish, KeepsFiles
<1>5. CASE Finalize
  BY <1>5, <1>1 DEF Finalize
<1>6. CASE UNCHANGED vars
  BY <1>6, <1>1 DEF vars
<1> QED BY <1>2, <1>3, <1>4, <1>5, <1>6, FailedEditKeeps DEF Next, Step, Over

\* replace_lines is only ever offered lines the policy has seen since the file changed,
\* and the reward sees every file that differs from the task's.
THEOREM EditsAreTracked ==
    ASSUME ~FailedWrite
    PROVE  Spec => [](SpansAreSeen /\ ChangesAreListed)
<1>1. Init => SpansAreSeen /\ ChangesAreListed
  BY DEF Init, SpansAreSeen, ChangesAreListed
<1>2. TypeOK /\ (SpansAreSeen /\ ChangesAreListed) /\ [Next]_vars
        => (SpansAreSeen /\ ChangesAreListed)'
  BY BookkeepingStep
<1> QED BY <1>1, <1>2, EpisodeTypes, PTL DEF Spec

\* Without an edit that fails and changes its file, the reward sees every file that differs
\* from the task's.
THEOREM EveryChangeIsListed ==
    ASSUME ~FailedWrite
    PROVE  Spec => []ChangesAreListed
BY EditsAreTracked, PTL

----------------------------------------------------------------------------
(* The guard                                                               *)

\* A successful read cleans its own record; an update reopens every record of its file,
\* which it finds by the path as the policy wrote it.
LEMMA RereadStep ==
    ASSUME ~FailedWrite, \A x, y \in Spellings : x = y,
           TypeOK, RefusedReadIsUnchanged, [Next]_vars
    PROVE  RefusedReadIsUnchanged'
<1>1. ASSUME NEW a \in Actions, NEW o, guard' = Recorded(a, o), dirty' = dirty,
             a.kind # "read_file" \/ o = "error"
      PROVE  RefusedReadIsUnchanged'
  <2>1. guard'.reread \subseteq guard.reread
    BY <1>1 DEF Recorded, TypeOK, Records
  <2> QED BY <1>1, <2>1 DEF RefusedReadIsUnchanged
<1>2. ASSUME NEW a \in Actions, Read(a) PROVE RefusedReadIsUnchanged'
  <2>1. guard'.reread \subseteq guard.reread \cup {a}
    BY <1>2 DEF Read, Recorded
  <2> QED BY <1>2, <2>1 DEF Read, RefusedReadIsUnchanged
<1>3. ASSUME NEW a \in Actions, Edit(a) PROVE RefusedReadIsUnchanged'
  <2>1. a.kind # "read_file" /\ a.path \in Raw
    BY <1>3, ActionKinds, ActionFields DEF Edit
  <2>2. guard'.reread = {b \in guard.reread : b.path # a.path}
    BY <1>3, <2>1 DEF Edit, Recorded
  <2>3. ASSUME NEW b \in Reads, File(b.path) = File(a.path) PROVE b.path = a.path
    BY <2>1, <2>3, ActionFields DEF File, Raw
  <2>4. dirty' = {b \in Reads : File(b.path) = File(a.path)} \cup dirty
    BY <1>3 DEF Edit, Written
  <2> QED BY <2>2, <2>3, <2>4 DEF RefusedReadIsUnchanged
<1>4. ASSUME NEW a \in Actions, Reject(a) \/ ToolFails(a) PROVE RefusedReadIsUnchanged'
  BY <1>4, <1>1 DEF Reject, ToolFails, KeepsFiles
<1>5. ASSUME NEW a \in Actions, Navigate(a) PROVE RefusedReadIsUnchanged'
  BY <1>5, <1>1 DEF Navigate, KeepsFiles
<1>6. ASSUME NEW a \in Actions, Violate(a) PROVE RefusedReadIsUnchanged'
  <2>1. CASE a \in Reads
    <3>1. a.kind = "read_file" /\ a \notin Edits /\ a.kind # "escape"
      BY <2>1, ActionKinds
    <3> QED BY <1>6, <3>1 DEF Violate, Forbidden
  <2>2. CASE a \notin Reads
    BY <1>6, <1>1, <2>2, ActionKinds DEF Violate, KeepsFiles
  <2> QED BY <2>1, <2>2
<1>7. ASSUME NEW a \in Actions, RunTests(a) PROVE RefusedReadIsUnchanged'
  BY <1>7, <1>1 DEF RunTests, KeepsFiles
<1>8. ASSUME NEW a \in Actions, Finish(a) PROVE RefusedReadIsUnchanged'
  BY <1>8, <1>1 DEF Finish, KeepsFiles
<1>9. CASE Finalize \/ UNCHANGED vars \/ (\E a \in Actions : BudgetExhausted(a))
  BY <1>9 DEF Finalize, vars, BudgetExhausted, RefusedReadIsUnchanged
<1> QED BY <1>2, <1>3, <1>4, <1>5, <1>6, <1>7, <1>8, <1>9, FailedEditKeeps DEF Next, Step, Over

\* The guard never keeps a changed file from the policy, as long as a policy has only
\* one way to write its path.
THEOREM ChangedFilesMayBeReread ==
    ASSUME ~FailedWrite, \A x, y \in Spellings : x = y
    PROVE  Spec => []RefusedReadIsUnchanged
<1>1. Init => RefusedReadIsUnchanged
  BY DEF Init, NoRecord, RefusedReadIsUnchanged
<1>2. TypeOK /\ RefusedReadIsUnchanged /\ [Next]_vars => RefusedReadIsUnchanged'
  BY RereadStep
<1> QED BY <1>1, <1>2, EpisodeTypes, PTL DEF Spec

----------------------------------------------------------------------------
(* When finish may give up                                                 *)

\* The ending is written once, and a failing finish is let through only at the end of
\* the budget.
LEMMA GivesUpStep == TypeOK /\ GivesUpLate /\ [Next]_vars => GivesUpLate'
<1> SUFFICES ASSUME TypeOK, GivesUpLate, [Next]_vars PROVE GivesUpLate'
  OBVIOUS
<1>1. ASSUME NEW a \in Actions, Finish(a) PROVE GivesUpLate'
  <2>1. Open /\ steps \in 0 .. MaxSteps /\ steps' = steps + 1 /\ ending \in Endings
    BY <1>1 DEF Finish, Taken, TypeOK
  <2>2. PICK test \in (IF last = "passed" \/ edited THEN Outcomes ELSE {last}) :
           /\ last' = test
           /\ \/ Refused(test) /\ ending' = ending
              \/ ~Refused(test) /\ End("finish", test)
    BY <1>1 DEF Finish
  <2>3. CASE Refused(test) /\ ending' = ending
    BY <2>1, <2>2, <2>3 DEF GivesUpLate, Refused, Open
  <2>4. CASE ~Refused(test) /\ End("finish", test)
    BY <2>1, <2>2, <2>4, EnvironmentAssumption DEF GivesUpLate, Refused, Open, End
  <2> QED BY <2>2, <2>3, <2>4
<1>2. ASSUME NEW a \in Actions, RunTests(a) PROVE GivesUpLate'
  <2>1. PICK test \in Outcomes :
          /\ last' = test
          /\ IF test = "passed" \/ (sandbox = "docker" /\ test = "timeout")
             THEN End("run_tests", test) ELSE UNCHANGED ending
    BY <1>2 DEF RunTests
  <2> QED BY <1>2, <2>1 DEF RunTests, Taken, GivesUpLate, Open, End
<1>3. ASSUME NEW a \in Actions,
             Reject(a) \/ ToolFails(a) \/ Navigate(a) \/ Read(a) \/ Edit(a) \/ EditFails(a)
      PROVE  GivesUpLate'
  BY <1>3 DEF Reject, ToolFails, Navigate, Read, Edit, EditFails, Taken, GivesUpLate, Open
<1>4. ASSUME NEW a \in Actions, BudgetExhausted(a) \/ Violate(a) PROVE GivesUpLate'
  BY <1>4 DEF BudgetExhausted, Violate, End, GivesUpLate, Open
<1>5. CASE Finalize
  BY <1>5 DEF Finalize, End, GivesUpLate, Open
<1>6. CASE UNCHANGED vars
  BY <1>6 DEF vars, GivesUpLate, Open
<1> QED BY <1>1, <1>2, <1>3, <1>4, <1>5, <1>6 DEF Next, Step, Over

\* finish ends a failing episode only when no edit and test run fit in its budget, and
\* no episode goes on after the verifier accepted the repository.
THEOREM FinishIsNotPremature == Spec => []GivesUpLate
<1>1. Init => GivesUpLate
  BY DEF Init, GivesUpLate, Open
<1> QED BY <1>1, GivesUpStep, EpisodeTypes, PTL DEF Spec
----------------------------------------------------------------------------
(* The caller: RolloutCollector                                            *)

\* While collect loops its step count is the environment's and the episode is open; what
\* it does with an episode that ended it does once.
Agreement ==
    /\ trial.pc = "looping" =>
          /\ Open /\ trial.count = steps
          /\ trial.terminal = "none" /\ trial.failure = "none"
    /\ trial.pc # "closed" => trial.final = "none" /\ ~trial.success
    /\ ending.how # "budget"

\* A verdict "passed" that collect holds is the verifier's on the files as they are: finish
\* has nothing but failures to reuse.
PassesAreReal ==
    /\ Open => last # "passed"
    /\ "passed" \in {trial.terminal, trial.final} => files \in Passing

\* Where failed edits leave the files alone, the verdicts that collect holds are current.
VerdictsAreTracked ==
    /\ VerdictIsFresh /\ EndsOnCurrentVerdict
    /\ {trial.terminal, trial.final} \subseteq Outcomes \cup {"none"}

\* Collect's edited is the listing; an unedited cache and a refused verifier call both mean
\* that the verifier ran since the last edit that was reported.
PatchIsRun ==
    /\ trial.edited = (changed # {})
    /\ trial.after_patch = verified
    /\ trial.pc = "looping" /\ trial.edited /\ ~edited => verified
    /\ guard.error => /\ guard.last.kind # "run_tests"
                      /\ guard.last.kind = "finish" => ~edited

CollectInv ==
    CollectTypeOK /\ Agreement /\ PassesAreReal /\ PatchIsRun

\* Every step of collect that is not an edit.
OtherStep(a) ==
    \/ BudgetExhausted(a) \/ Reject(a) \/ ToolFails(a) \/ Navigate(a) \/ Read(a)
    \/ EditFails(a) \/ Violate(a) \/ RunTests(a) \/ Finish(a)

\* What collect makes of a step, field by field.
LEMMA NotedFields ==
    ASSUME trial \in TrialType, NEW a, NEW updated \in BOOLEAN, trial' = StepNoted(a, updated)
    PROVE  /\ trial'.count = trial.count + 1
           /\ trial'.edited = (trial.edited \/ updated)
           /\ trial'.after_patch = (trial.after_patch \/ (trial.edited /\ AsksVerifier(a)))
           /\ trial'.pc = IF ending'.how = "open" THEN "looping" ELSE "grading"
           /\ trial'.terminal = IF ending'.how \in {"open", "violation"} THEN trial.terminal
                                ELSE ending'.test
           /\ trial'.failure = trial.failure /\ trial'.final = trial.final
           /\ trial'.success = trial.success
BY DEF StepNoted, TrialType

\* A step of collect is a step of the environment, and what is noted of it.
LEMMA TakenStep ==
    ASSUME NEW a \in Actions, TakeStep(a)
    PROVE  /\ Step(a)
           /\ \/ Edit(a) /\ trial' = StepNoted(a, TRUE)
              \/ OtherStep(a) /\ trial' = StepNoted(a, FALSE)
BY DEF TakeStep, Step, OtherStep

\* Grade calls the verifier for the last time, or has the verdict.
LEMMA GradedFields ==
    ASSUME trial \in TrialType, NEW test, trial' = Graded(test)
    PROVE  /\ trial'.pc = "closed" /\ trial'.final = test /\ trial'.success = Succeeded(test)
           /\ trial'.count = trial.count /\ trial'.edited = trial.edited
           /\ trial'.after_patch = trial.after_patch /\ trial'.terminal = trial.terminal
           /\ trial'.failure = trial.failure
BY DEF Graded, TrialType

\* What the steps of collect write keeps its variables well formed.
LEMMA TrialUpdates ==
    ASSUME trial \in TrialType, NEW count \in 0 .. MaxSteps, NEW next \in {"looping", "grading"}
    PROVE  /\ \A e \in BOOLEAN, p \in BOOLEAN, t \in TestResults \cup {"none"} :
                 [trial EXCEPT !.count = count, !.after_patch = p, !.edited = e, !.pc = next,
                               !.terminal = t] \in TrialType
           /\ \A f \in Failures :
                 [trial EXCEPT !.count = count, !.failure = f, !.pc = next] \in TrialType
BY DEF TrialType

LEMMA CollectTypeStep == CollectTypeOK /\ [CollectNext]_collectVars => CollectTypeOK'
<1> SUFFICES ASSUME CollectTypeOK, [CollectNext]_collectVars PROVE CollectTypeOK'
  OBVIOUS
<1> USE DEF CollectTypeOK
<1>1. ASSUME NEW a \in Actions, TakeStep(a) PROVE CollectTypeOK'
  <2>1. TypeOK'
    BY <1>1, TakenStep, TypeStep DEF Next
  <2>2. ASSUME NEW updated \in BOOLEAN, trial' = StepNoted(a, updated) PROVE trial' \in TrialType
    <3>1. trial.count < MaxSteps /\ MaxSteps \in Nat
      BY <1>1, EnvironmentAssumption DEF TakeStep, InLoop
    <3>2. ending'.test \in TestResults
      BY <2>1 DEF TypeOK, Endings
    <3>3. /\ trial.count + 1 \in 0 .. MaxSteps
          /\ (trial.edited \/ updated) \in BOOLEAN
          /\ (trial.after_patch \/ (trial.edited /\ AsksVerifier(a))) \in BOOLEAN
      BY <3>1 DEF TrialType
    <3> DEFINE next == IF ending'.how = "open" THEN "looping" ELSE "grading"
               t    == IF ending'.how \in {"open", "violation"} THEN trial.terminal ELSE ending'.test
    <3>4. next \in {"looping", "grading"} /\ t \in TestResults \cup {"none"}
      BY <3>2 DEF TrialType
    <3> HIDE DEF next, t
    <3>5. [trial EXCEPT !.count = trial.count + 1,
                        !.after_patch = trial.after_patch \/ (trial.edited /\ AsksVerifier(a)),
                        !.edited = trial.edited \/ updated, !.pc = next, !.terminal = t] \in TrialType
      BY <3>3, <3>4, TrialUpdates
    <3> QED BY <2>2, <3>5 DEF StepNoted, next, t
  <2>3. verified' \in BOOLEAN
    BY <1>1 DEF TakeStep
  <2> QED BY <1>1, <2>1, <2>2, <2>3, TakenStep
<1>2. ASSUME PolicyFails PROVE CollectTypeOK'
  <2>1. trial.count < MaxSteps /\ MaxSteps \in Nat
    BY <1>2, EnvironmentAssumption DEF PolicyFails, InLoop
  <2>2. trial.count + 1 \in 0 .. MaxSteps
    BY <2>1 DEF TrialType
  <2>3. trial' \in TrialType
    <3>1. PICK f \in Failures :
             trial' = [trial EXCEPT !.count = trial.count + 1, !.failure = f, !.pc = "grading"]
      BY <1>2 DEF PolicyFails
    <3>2. [trial EXCEPT !.count = trial.count + 1, !.failure = f, !.pc = "grading"] \in TrialType
      BY <2>2, TrialUpdates
    <3> QED BY <3>1, <3>2
  <2>4. TypeOK'
    BY <1>2, TypeStep DEF PolicyFails
  <2> QED BY <1>2, <2>3, <2>4 DEF PolicyFails
<1>3. ASSUME StepsUsedUp \/ Raise PROVE CollectTypeOK'
  <2>1. trial' \in TrialType
    BY <1>3 DEF StepsUsedUp, Raise, TrialType
  <2>2. TypeOK'
    BY <1>3, TypeStep DEF StepsUsedUp, Raise
  <2> QED BY <1>3, <2>1, <2>2 DEF StepsUsedUp, Raise
<1>4. ASSUME Grade PROVE CollectTypeOK'
  <2>1. ASSUME NEW test \in TestResults, trial' = Graded(test) PROVE trial' \in TrialType
    <3>1. Succeeded(test) \in BOOLEAN
      BY DEF Succeeded
    <3> QED BY <2>1, <3>1 DEF Graded, TrialType
  <2>2. CASE trial.terminal # "none" /\ trial' = Graded(trial.terminal) /\ UNCHANGED vars
    <3>1. trial.terminal \in TestResults
      BY <2>2 DEF TrialType
    <3> QED BY <1>4, <2>1, <2>2, <3>1, TypeStep DEF Grade
  <2>3. ASSUME NEW test \in Outcomes, last' = test, trial' = Graded(test), edited' = FALSE,
               ending' = IF Open THEN [how |-> "finalize", test |-> last'] ELSE ending,
               UNCHANGED <<sandbox, steps, files, spans, changed, guard, seen, dirty>>
        PROVE  CollectTypeOK'
    <3>1. test \in TestResults
      BY OutcomesType
    <3>2. ending' \in Endings
      BY <2>3, <3>1 DEF Endings, TypeOK
    <3>3. TypeOK'
      BY <2>3, <3>1, <3>2 DEF TypeOK
    <3> QED BY <1>4, <2>1, <2>3, <3>1, <3>3 DEF Grade
  <2> QED BY <1>4, <2>2, <2>3 DEF Grade
<1>5. CASE UNCHANGED collectVars
  BY <1>5, TypeStep DEF collectVars
<1> QED BY <1>1, <1>2, <1>3, <1>4, <1>5 DEF CollectNext, Collecting, Closed

\* How a step leaves the step count, the ending and the cached result.
LEMMA StepEnds ==
    ASSUME TypeOK, Open, NEW a \in Actions, Edit(a) \/ OtherStep(a), steps < MaxSteps
    PROVE  /\ steps' = steps + 1
           /\ ending' = ending \/ ending'.how \in {"violation", "run_tests", "finish"}
           /\ sandbox' = sandbox
BY EnvironmentAssumption
   DEF OtherStep, TypeOK, BudgetExhausted, Reject, ToolFails, Navigate, Read, Edit,
       EditFails, Violate, RunTests, Finish, KeepsFiles, End

LEMMA AgreementStep ==
    ASSUME CollectTypeOK, Agreement, [CollectNext]_collectVars
    PROVE  Agreement'
<1> USE DEF Agreement, CollectTypeOK
<1>1. ASSUME NEW a \in Actions, TakeStep(a) PROVE Agreement'
  <2>1. Open /\ trial.count = steps /\ trial.pc = "looping" /\ steps < MaxSteps
    BY <1>1 DEF TakeStep, InLoop
  <2>2. PICK updated \in BOOLEAN : trial' = StepNoted(a, updated)
    BY <1>1, TakenStep
  <2>3. /\ steps' = steps + 1
        /\ ending' = ending \/ ending'.how \in {"violation", "run_tests", "finish"}
    BY <1>1, <2>1, TakenStep, StepEnds
  <2> QED BY <2>1, <2>2, <2>3, NotedFields DEF Open
<1>2. ASSUME PolicyFails \/ StepsUsedUp \/ Raise PROVE Agreement'
  BY <1>2 DEF PolicyFails, StepsUsedUp, Raise, vars, TrialType, InLoop
<1>3. ASSUME Grade PROVE Agreement'
  <2>1. PICK test : trial' = Graded(test)
    BY <1>3 DEF Grade
  <2>2. ending' = ending \/ ending'.how = "finalize"
    BY <1>3 DEF Grade, vars
  <2> QED BY <2>1, <2>2, GradedFields
<1>4. CASE UNCHANGED collectVars
  BY <1>4 DEF collectVars, vars, Open
<1> QED BY <1>1, <1>2, <1>3, <1>4 DEF CollectNext, Collecting, Closed

\* What a step leaves of the verdict: an ending on "passed" is on the files as they are.
LEMMA StepVerdict ==
    ASSUME TypeOK, Open, last # "passed", steps < MaxSteps,
           NEW a \in Actions, Edit(a) \/ OtherStep(a)
    PROVE  /\ ending'.how = "open" => last' # "passed"
           /\ ending'.how \notin {"open", "violation"} /\ ending'.test = "passed" => files' \in Passing
<1>1. CASE RunTests(a)
  <2>1. PICK test \in Outcomes :
          /\ last' = test
          /\ IF test = "passed" \/ (sandbox = "docker" /\ test = "timeout")
             THEN End("run_tests", test) ELSE UNCHANGED ending
    BY <1>1 DEF RunTests
  <2>2. test = "passed" => files' \in Passing
    BY <1>1 DEF RunTests, KeepsFiles, Outcomes, Verdict
  <2> QED BY <2>1, <2>2 DEF End, Open
<1>2. CASE Finish(a)
  <2>1. PICK test \in (IF last = "passed" \/ edited THEN Outcomes ELSE {last}) :
           /\ last' = test
           /\ \/ Refused(test) /\ ending' = ending
              \/ ~Refused(test) /\ End("finish", test)
    BY <1>2 DEF Finish
  <2>2. test = "passed" => files' \in Passing
    BY <1>2, <2>1 DEF Finish, KeepsFiles, Outcomes, Verdict
  <2> QED BY <2>1, <2>2 DEF End, Open, Refused
<1>3. CASE Reject(a) \/ ToolFails(a) \/ Navigate(a) \/ Read(a) \/ Edit(a) \/ EditFails(a)
  BY <1>3 DEF Reject, ToolFails, Navigate, Read, Edit, EditFails, Open
<1>4. CASE Violate(a)
  BY <1>4 DEF Violate, End
<1>5. CASE BudgetExhausted(a)
  BY <1>5, EnvironmentAssumption DEF BudgetExhausted, TypeOK
<1> QED BY <1>1, <1>2, <1>3, <1>4, <1>5 DEF OtherStep

LEMMA PassesStep ==
    ASSUME CollectTypeOK, Agreement, PassesAreReal, [CollectNext]_collectVars
    PROVE  PassesAreReal'
<1> USE DEF Agreement, PassesAreReal, CollectTypeOK
<1>1. ASSUME NEW a \in Actions, TakeStep(a) PROVE PassesAreReal'
  <2>1. Open /\ trial.count = steps /\ trial.pc = "looping" /\ steps < MaxSteps
    BY <1>1 DEF TakeStep, InLoop
  <2>2. PICK updated \in BOOLEAN : trial' = StepNoted(a, updated)
    BY <1>1, TakenStep
  <2>3. /\ ending'.how = "open" => last' # "passed"
        /\ ending'.how \notin {"open", "violation"} /\ ending'.test = "passed" => files' \in Passing
    BY <1>1, <2>1, TakenStep, StepVerdict
  <2> QED BY <2>1, <2>2, <2>3, NotedFields DEF Open
<1>2. ASSUME PolicyFails \/ StepsUsedUp \/ Raise PROVE PassesAreReal'
  BY <1>2 DEF PolicyFails, StepsUsedUp, Raise, vars, TrialType, Open
<1>3. ASSUME Grade PROVE PassesAreReal'
  <2>1. CASE trial.terminal # "none" /\ trial' = Graded(trial.terminal) /\ UNCHANGED vars
    BY <2>1, GradedFields DEF vars, Open
  <2>2. ASSUME NEW test \in Outcomes, last' = test, trial' = Graded(test), files' = files,
               ending' = IF Open THEN [how |-> "finalize", test |-> last'] ELSE ending
        PROVE  PassesAreReal'
    <3>1. test = "passed" => files' \in Passing
      BY <2>2 DEF Outcomes, Verdict
    <3> QED BY <2>2, <3>1, GradedFields DEF Open
  <2> QED BY <1>3, <2>1, <2>2 DEF Grade
<1>4. CASE UNCHANGED collectVars
  BY <1>4 DEF collectVars, vars, Open
<1> QED BY <1>1, <1>2, <1>3, <1>4 DEF CollectNext, Collecting, Closed

\* A verdict is of the files as they are when it is given, and nothing writes them after.
LEMMA TrackedStep ==
    ASSUME ~FailedWrite, CollectTypeOK, Agreement, VerdictsAreTracked, [CollectNext]_collectVars
    PROVE  VerdictsAreTracked'
<1> USE DEF Agreement, VerdictsAreTracked, CollectTypeOK
<1>1. ASSUME NEW a \in Actions, TakeStep(a) PROVE VerdictsAreTracked'
  <2>1. Open /\ trial.count = steps /\ trial.pc = "looping" /\ steps < MaxSteps
    BY <1>1 DEF TakeStep, InLoop
  <2>2. PICK updated \in BOOLEAN : trial' = StepNoted(a, updated)
    BY <1>1, TakenStep
  <2>3. VerdictIsFresh' /\ EndsOnCurrentVerdict'
    BY <1>1, TakenStep, VerdictStep DEF Next, VerdictInv
  <2>4. ending'.how \in {"open", "violation", "run_tests", "finish"}
    BY <1>1, <2>1, TakenStep, StepEnds DEF Open
  <2>5. ending'.how \in {"run_tests", "finish"} => ending'.test \in Outcomes'
    BY <2>3 DEF EndsOnCurrentVerdict
  <2> QED BY <2>1, <2>2, <2>3, <2>4, <2>5, NotedFields
<1>2. ASSUME NEW test, trial' = Graded(test), test \in Outcomes \/ test = trial.terminal,
             files' = files, VerdictIsFresh', EndsOnCurrentVerdict'
      PROVE  VerdictsAreTracked'
  <2>1. Outcomes' = Outcomes
    BY <1>2 DEF Outcomes, Verdict
  <2> QED BY <1>2, <2>1, GradedFields
<1>3. ASSUME UNCHANGED vars PROVE VerdictIsFresh' /\ EndsOnCurrentVerdict' /\ Outcomes' = Outcomes
  BY <1>3 DEF vars, VerdictIsFresh, EndsOnCurrentVerdict, Outcomes, Verdict
<1>4. ASSUME Grade PROVE VerdictsAreTracked'
  <2>1. CASE trial.terminal # "none" /\ trial' = Graded(trial.terminal) /\ UNCHANGED vars
    BY <2>1, <1>2, <1>3 DEF vars
  <2>2. ASSUME NEW test \in Outcomes, last' = test, trial' = Graded(test),
               ending' = IF Open THEN [how |-> "finalize", test |-> last'] ELSE ending,
               UNCHANGED <<sandbox, steps, files, spans, changed, guard, seen, dirty>>
        PROVE  VerdictsAreTracked'
    <3>1. Outcomes' = Outcomes
      BY <2>2 DEF Outcomes, Verdict
    <3>2. VerdictIsFresh' /\ EndsOnCurrentVerdict'
      BY <2>2, <3>1 DEF VerdictIsFresh, EndsOnCurrentVerdict
    <3> QED BY <2>2, <3>2, <1>2
  <2> QED BY <1>4, <2>1, <2>2 DEF Grade
<1>5. ASSUME UNCHANGED vars, trial'.terminal = trial.terminal /\ trial'.final = trial.final
      PROVE  VerdictsAreTracked'
  BY <1>3, <1>5
<1>6. ASSUME PolicyFails \/ StepsUsedUp \/ Raise PROVE VerdictsAreTracked'
  BY <1>5, <1>6 DEF PolicyFails, StepsUsedUp, Raise, TrialType
<1>7. CASE UNCHANGED collectVars
  BY <1>5, <1>7 DEF collectVars
<1> QED BY <1>1, <1>4, <1>6, <1>7 DEF CollectNext, Collecting, Closed

\* What a step tells PatchIsRun: when it is recorded as an error, and when it runs the
\* verifier.
LEMMA EditRuns ==
    ASSUME NEW a \in Actions, Edit(a)
    PROVE  changed' # {} /\ edited' /\ ~AsksVerifier(a) /\ ~guard'.error
BY ActionKinds DEF Edit, Lists, NeedsVerification, AsksVerifier, Recorded

LEMMA OtherRuns ==
    ASSUME TypeOK, Open, steps < MaxSteps, NEW a \in Actions, OtherStep(a)
    PROVE  /\ changed' = changed /\ edited' \in BOOLEAN
           /\ edited' <=> edited /\ (Rejected(a) \/ ~AsksVerifier(a))
           /\ guard'.last = a
           /\ guard'.error => Rejected(a) \/ a.kind # "run_tests"
<1>1. \A o : Recorded(a, o).last = a /\ (Recorded(a, o).error <=> o = "error")
  BY DEF Recorded
<1>2. a \in Edits \/ a \in Reads \/ Forbidden(a) => ~AsksVerifier(a) /\ a.kind # "run_tests"
  BY ActionKinds DEF AsksVerifier, Forbidden
<1>3. CASE RunTests(a)
  <2>1. guard' = Recorded(a, "other") /\ edited' = FALSE /\ changed' = changed
        /\ AsksVerifier(a) /\ ~Rejected(a)
    BY <1>3 DEF RunTests, KeepsFiles, Taken, AsksVerifier
  <2>2. guard'.last = a /\ ~guard'.error
    BY <2>1 DEF Recorded
  <2> QED BY <2>1, <2>2
<1>4. CASE Finish(a)
  BY <1>1, <1>4 DEF Finish, KeepsFiles, Taken, AsksVerifier
<1>5. CASE Reject(a)
  BY <1>1, <1>5 DEF Reject, KeepsFiles, TypeOK
<1>6. CASE ToolFails(a) \/ Navigate(a)
  BY <1>1, <1>6 DEF ToolFails, Navigate, KeepsFiles, Taken, TypeOK, AsksVerifier
<1>7. CASE Read(a)
  BY <1>1, <1>2, <1>7 DEF Read, Taken, TypeOK
<1>8. CASE EditFails(a)
  BY <1>1, <1>2, <1>8 DEF EditFails, Taken, TypeOK
<1>9. CASE Violate(a)
  BY <1>1, <1>2, <1>9 DEF Violate, KeepsFiles, Taken, TypeOK
<1>10. ~BudgetExhausted(a)
  BY EnvironmentAssumption DEF BudgetExhausted, TypeOK
<1> QED BY <1>3, <1>4, <1>5, <1>6, <1>7, <1>8, <1>9, <1>10 DEF OtherStep

\* The verifier is asked in vain only where the last request of it was refused, and then
\* nothing was edited since it ran.
LEMMA PatchStep ==
    ASSUME CollectTypeOK, Agreement, PatchIsRun, [CollectNext]_collectVars
    PROVE  PatchIsRun'
<1> USE DEF Agreement, CollectTypeOK
<1>1. ASSUME NEW a \in Actions, TakeStep(a) PROVE PatchIsRun'
  <2>1. Open /\ trial.count = steps /\ trial.pc = "looping" /\ steps < MaxSteps
    BY <1>1 DEF TakeStep, InLoop
  <2>2. verified' = (verified \/ (changed # {} /\ ~Rejected(a) /\ Runs(a)))
    BY <1>1 DEF TakeStep
  <2>3. Rejected(a) /\ AsksVerifier(a) => guard.error /\ a.kind = "finish" /\ ~edited
    <3>1. ASSUME AsksVerifier(a) PROVE a \notin guard.found /\ a \notin guard.reread
      BY <3>1, ActionKinds DEF AsksVerifier, TypeOK, Records, Searches, Reads
    <3> QED BY <3>1 DEF Rejected, AsksVerifier, PatchIsRun
  <2>4. AsksVerifier(a) /\ trial.edited => verified'
    BY <2>1, <2>2, <2>3 DEF PatchIsRun, AsksVerifier, Runs
  <2>5. verified' => verified \/ (AsksVerifier(a) /\ trial.edited)
    BY <2>2 DEF PatchIsRun, AsksVerifier, Runs
  <2>6. CASE Edit(a) /\ trial' = StepNoted(a, TRUE)
    <3>1. changed' # {} /\ edited' /\ ~AsksVerifier(a) /\ ~guard'.error
      BY <2>6, EditRuns
    <3>2. trial'.edited /\ trial'.after_patch = trial.after_patch
      BY <2>6, <3>1, NotedFields DEF TrialType
    <3>3. verified' = verified
      BY <2>2, <3>1 DEF AsksVerifier, Runs
    <3> QED BY <3>1, <3>2, <3>3 DEF PatchIsRun
  <2>7. CASE OtherStep(a) /\ trial' = StepNoted(a, FALSE)
    <3>1. /\ changed' = changed
          /\ edited' <=> edited /\ (Rejected(a) \/ ~AsksVerifier(a))
          /\ guard'.last = a
          /\ guard'.error => Rejected(a) \/ a.kind # "run_tests"
      BY <2>1, <2>7, OtherRuns
    <3>2. /\ trial'.edited = trial.edited /\ {verified', trial'.after_patch} \subseteq BOOLEAN
          /\ trial'.after_patch <=> trial.after_patch \/ (trial.edited /\ AsksVerifier(a))
      BY <2>2, <2>7, NotedFields DEF TrialType
    <3>3. trial'.after_patch = verified'
      BY <2>2, <2>4, <2>5, <3>2 DEF PatchIsRun, TrialType
    <3>4. trial'.edited /\ ~edited' => verified'
      BY <2>1, <2>2, <2>4, <3>1, <3>2 DEF PatchIsRun
    <3>5. guard'.error => /\ guard'.last.kind # "run_tests"
                          /\ guard'.last.kind = "finish" => ~edited'
      BY <2>3, <3>1 DEF AsksVerifier
    <3> QED BY <3>1, <3>2, <3>3, <3>4, <3>5 DEF PatchIsRun
  <2> QED BY <1>1, <2>6, <2>7, TakenStep
<1>2. ASSUME PolicyFails \/ StepsUsedUp \/ Raise PROVE PatchIsRun'
  <2>1. /\ trial'.edited = trial.edited /\ trial'.after_patch = trial.after_patch
        /\ trial'.pc = "looping" => trial.pc = "looping"
    BY <1>2 DEF PolicyFails, StepsUsedUp, Raise, TrialType
  <2>2. UNCHANGED <<vars, verified>>
    BY <1>2 DEF PolicyFails, StepsUsedUp, Raise
  <2> QED BY <2>1, <2>2 DEF vars, PatchIsRun
<1>3. ASSUME Grade PROVE PatchIsRun'
  <2>1. PICK test : trial' = Graded(test)
    BY <1>3 DEF Grade
  <2>2. UNCHANGED <<changed, guard, verified>> /\ (edited' = edited \/ ~edited')
    BY <1>3 DEF Grade, vars
  <2> QED BY <2>1, <2>2, GradedFields DEF PatchIsRun
<1>4. CASE UNCHANGED collectVars
  BY <1>4 DEF collectVars, vars, PatchIsRun
<1> QED BY <1>1, <1>2, <1>3, <1>4 DEF CollectNext, Collecting, Closed

LEMMA SuccessStep ==
    ASSUME CollectInv, CollectInv', SuccessIsReal, [CollectNext]_collectVars
    PROVE  SuccessIsReal'
<1> USE DEF Agreement, CollectTypeOK, CollectInv
<1>1. ASSUME NEW a \in Actions, TakeStep(a) PROVE SuccessIsReal'
  <2>1. trial.pc = "looping"
    BY <1>1 DEF TakeStep, InLoop
  <2> QED BY <1>1, <2>1, TakenStep, NotedFields DEF SuccessIsReal
<1>2. ASSUME PolicyFails \/ StepsUsedUp \/ Raise PROVE SuccessIsReal'
  BY <1>2 DEF PolicyFails, StepsUsedUp, Raise, InLoop, vars, TrialType, ChangedFiles, SuccessIsReal
<1>3. ASSUME Grade PROVE SuccessIsReal'
  <2>1. PICK test : trial' = Graded(test)
    BY <1>3 DEF Grade
  <2>2. UNCHANGED <<sandbox, files, changed>>
    BY <1>3 DEF Grade, vars
  <2>3. ASSUME trial'.success PROVE files' \in Passing /\ ChangedFiles' # {} /\ trial'.failure = "none"
    <3>1. test = "passed" /\ ChangedFiles # {} /\ trial'.failure = "none"
      BY <2>1, <2>3, GradedFields DEF Succeeded
    <3>2. files' \in Passing
      BY <2>1, <3>1, GradedFields DEF PassesAreReal
    <3>3. ChangedFiles' = ChangedFiles
      BY <2>2 DEF ChangedFiles
    <3> QED BY <2>2, <3>1, <3>2, <3>3
  <2> QED BY <2>3 DEF SuccessIsReal
<1>4. CASE UNCHANGED collectVars
  BY <1>4 DEF collectVars, vars, ChangedFiles, SuccessIsReal
<1> QED BY <1>1, <1>2, <1>3, <1>4 DEF CollectNext, Collecting, Closed

LEMMA CollectInvInit == CollectInit => CollectInv
<1> SUFFICES ASSUME CollectInit PROVE CollectInv
  OBVIOUS
<1> USE DEF CollectInit
<1>1. TypeOK
  BY EpisodeInit
<1>2. trial \in TrialType
  BY EnvironmentAssumption DEF NewTrial, TrialType
<1> QED
  BY <1>1, <1>2
  DEF CollectInv, CollectTypeOK, Agreement, PassesAreReal, PatchIsRun, Init,
      NewTrial, NoRecord, Open

\* The invariant of a trial, for whatever the policy and the container do.
LEMMA CollectInvariant == CollectSpec => []CollectInv
<1>1. CollectInv /\ [CollectNext]_collectVars => CollectInv'
  BY CollectTypeStep, AgreementStep, PassesStep, PatchStep DEF CollectInv
<1> QED BY <1>1, CollectInvInit, PTL DEF CollectSpec

\* The collector overruns neither its own count nor a budget, and every field of the
\* trajectory has its type.
THEOREM CollectTypes == CollectSpec => []CollectTypeOK
BY CollectInvariant, PTL DEF CollectInv

\* Collector and environment agree on the steps taken, so no collected episode ends for
\* want of budget.
THEOREM CountsAgree == CollectSpec => []StepsAgree
<1>1. CollectInv => StepsAgree
  BY DEF CollectInv, Agreement, StepsAgree
<1> QED BY <1>1, CollectInvariant, PTL

\* Edits may fail after they wrote: still, no trial counts as a success unless the
\* repository that it ends with passes, some file counts as changed, and the policy did
\* not fail.
THEOREM SuccessesAreReal == CollectSpec => []SuccessIsReal
<1>1. CollectInit => SuccessIsReal
  BY DEF CollectInit, NewTrial, SuccessIsReal
<1>2. CollectInv /\ CollectInv' /\ SuccessIsReal /\ [CollectNext]_collectVars => SuccessIsReal'
  BY SuccessStep
<1> QED BY <1>1, <1>2, CollectInvariant, PTL DEF CollectSpec

\* verifier_run_after_patch is what it says, for every sequence of actions: a finish
\* answered from the cache and a request that the guard refused follow a run that counted.
THEOREM AfterPatchMeansRun == CollectSpec => []AfterPatchIsRun
<1>1. CollectInv => AfterPatchIsRun
  BY DEF CollectInv, PatchIsRun, AfterPatchIsRun
<1> QED BY <1>1, CollectInvariant, PTL

\* Where a failed edit has not changed its file, the verdict of a trial is of the files that
\* it is graded with.
THEOREM VerdictIsOfTheEnd ==
    ASSUME ~FailedWrite
    PROVE  CollectSpec => []FinalIsCurrent
<1>1. CollectInit => VerdictsAreTracked
  BY EnvironmentAssumption
  DEF CollectInit, Init, NewTrial, VerdictsAreTracked, VerdictIsFresh, EndsOnCurrentVerdict,
      Outcomes, Verdict
<1>2. CollectInv /\ VerdictsAreTracked /\ [CollectNext]_collectVars => VerdictsAreTracked'
  BY TrackedStep DEF CollectInv
<1>3. VerdictsAreTracked => FinalIsCurrent
  BY DEF VerdictsAreTracked, FinalIsCurrent
<1> QED BY <1>1, <1>2, <1>3, CollectInvariant, PTL DEF CollectSpec

----------------------------------------------------------------------------
(* ResumableRun: what the files of a resumable run say, for any plan, any  *)
(* number of faults and restarts.  The invariant says, for each program,   *)
(* how its memory stands to the files at each step of writing them.        *)

PCs == {"off", "records", "rows", "report", "next", "evaluating"}

DiskType == [made : BOOLEAN, records : [Trials -> Nat], rows : SUBSET Trials,
             failed : SUBSET Trials, stale : BOOLEAN, report : ReportType]
RunType  == [pc : PCs, fresh : BOOLEAN, mine : [Trials -> Nat], listed : SUBSET Trials,
             failed : SUBSET Trials, trial : Trials, left : Nat,
             complete : BOOLEAN, last : BOOLEAN]

Typed ==
    /\ program \in Programs
    /\ disk \in DiskType
    /\ run \in RunType
    /\ faults \in 0 .. MaxFaults

\* swe_gym_rollout: between the two writes the records are those in memory; a resumed or
\* a continued run holds at least what is on disk.
RolloutInv ==
    /\ run.left = 0
    /\ run.pc \in {"off", "records", "report", "next"}
    /\ \A t \in Trials : disk.records[t] <= 1 /\ run.mine[t] <= 1
    /\ run.pc = "records" =>
          Emptying \/ \A t \in Trials : disk.records[t] = 1 => run.mine[t] = 1
    /\ run.pc \in {"report", "next"} => disk.records = run.mine
    /\ run.pc # "off" /\ run.complete => Collected = Trials
    /\ ~disk.stale => \A t \in disk.report.listed : disk.records[t] = 1
    /\ disk.report.complete => disk.report.listed = Trials

\* diagnostic_probe: memory is ahead of the trajectories, these are ahead of the rows, and
\* the rows of the report.
ProbeBounds ==
    /\ run.left = 0
    /\ run.pc \in {"off", "records", "rows", "report", "next"}
    /\ \A t \in Trials : disk.records[t] <= 2
    /\ \A t \in Trials : run.mine[t] <= 2
ProbeReported ==
    /\ disk.report.listed \subseteq disk.rows
    /\ \A t \in disk.report.listed : disk.records[t] > 0
    /\ disk.report.complete => disk.rows = Trials
ProbeRowsBacked ==
    \A t \in disk.rows : t \notin disk.failed => disk.records[t] > 0
ProbeMemory ==
    run.pc # "off" =>
        /\ disk.rows \subseteq run.listed
        /\ \A t \in Trials : disk.records[t] > 0 => run.mine[t] > 0
        /\ \A t \in run.listed : t \notin run.failed => run.mine[t] > 0
ProbeWritten ==
    /\ run.pc \in {"rows", "report", "next"} => disk.records = run.mine
    /\ run.pc \in {"report", "next"} => disk.rows = run.listed
    /\ run.pc \in {"report", "next"} => disk.failed = run.failed

ProbeInv ==
    ProbeBounds /\ ProbeReported /\ ProbeRowsBacked /\ ProbeMemory /\ ProbeWritten

\* The evaluations: a listed trial has all its audit lines, and the trial that is being
\* evaluated is not listed.
AuditBounds ==
    /\ run.pc \in {"off", "report", "next", "evaluating"}
    /\ run.left <= PerTrial
    /\ \A t \in Trials : disk.records[t] <= MostRecords
    /\ \A t \in Trials : run.mine[t] = 0
AuditReported ==
    /\ ~disk.stale
    /\ \A t \in disk.report.listed : disk.records[t] = PerTrial
    /\ disk.report.complete => disk.report.listed = Trials
AuditFresh ==
    ~disk.made => /\ ~disk.report.complete
                  /\ disk.report.listed = {}
                  /\ \A t \in Trials : disk.records[t] = 0
AuditMemory ==
    run.pc # "off" =>
        /\ disk.made
        /\ disk.report.listed \subseteq run.listed
        /\ \A t \in run.listed : disk.records[t] = PerTrial
        /\ run.complete => run.listed = Trials
AuditTrial ==
    /\ run.pc = "evaluating" => run.trial \notin run.listed
    /\ program \in {"grpo_evaluate", "edit_action"} /\ run.pc = "evaluating" =>
          disk.records[run.trial] + run.left <= PerTrial
AuditAhead ==
    program = "edit_action" /\ run.pc # "off" =>
        \A t \in Trials \ run.listed :
            disk.records[t] = 0 \/ (run.pc = "evaluating" /\ t = run.trial)

AuditInv ==
    AuditBounds /\ AuditReported /\ AuditFresh /\ AuditMemory /\ AuditTrial /\ AuditAhead

Inv ==
    /\ Typed
    /\ program = "rollout" => RolloutInv
    /\ program = "probe" => ProbeInv
    /\ Audited => AuditInv

LEMMA Constants ==
    /\ Trials \subseteq Nat /\ 1 \in Trials
    /\ NoRecords \in [Trials -> Nat] /\ \A t \in Trials : NoRecords[t] = 0
    /\ NoRun \in RunType /\ NoRun.pc = "off" /\ NoRun.left = 0 /\ NoRun.mine = NoRecords
    /\ EmptyDisk \in DiskType
    /\ PerTrial \in Nat \ {0}
<1>1. Trials \subseteq Nat /\ 1 \in Trials
  BY ResumeAssumption DEF Trials
<1>2. NoRecords \in [Trials -> Nat] /\ \A t \in Trials : NoRecords[t] = 0
  BY DEF NoRecords
<1>3. NoRun \in RunType /\ NoRun.pc = "off" /\ NoRun.left = 0 /\ NoRun.mine = NoRecords
  BY <1>1, <1>2 DEF NoRun, RunType, PCs
<1>4. EmptyDisk \in DiskType
  BY <1>2 DEF EmptyDisk, DiskType, ReportType
<1>5. PerTrial \in Nat \ {0}
  BY ResumeAssumption DEF PerTrial
<1>6. QED BY <1>1, <1>2, <1>3, <1>4, <1>5

LEMMA OneMoreFacts ==
    ASSUME NEW n \in Nat
    PROVE  /\ OneMore(n) \in Nat \ {0}
           /\ n <= PerTrial + 1 => OneMore(n) <= PerTrial + 1
           /\ n < PerTrial => OneMore(n) = n + 1
BY Constants DEF OneMore

LEMMA InitInv == ResumeInit => Inv
<1> SUFFICES ASSUME ResumeInit PROVE Inv
  OBVIOUS
<1>1. Typed
  BY Constants, ResumeAssumption DEF ResumeInit, Typed
<1>2. RolloutInv /\ ProbeInv
  BY Constants DEF ResumeInit, RolloutInv, ProbeInv, ProbeBounds, ProbeReported, ProbeRowsBacked,
                   ProbeMemory, ProbeWritten, EmptyDisk
<1>3. AuditInv
  BY Constants DEF ResumeInit, AuditInv, AuditBounds, AuditReported, AuditFresh, AuditMemory,
                   AuditTrial, AuditAhead, EmptyDisk, MostRecords
<1>4. QED BY <1>1, <1>2, <1>3 DEF Inv

\* Each step keeps the types.
LEMMA ResumeTypeStep ==
    ASSUME Inv, ResumeNext PROVE Typed'
<1> USE Constants, ResumeAssumption DEF Inv, Typed
<1>1. CASE Crash /\ UNCHANGED program
  BY <1>1 DEF Crash, Fails
<1>2. ASSUME NEW resume \in BOOLEAN, Start(resume), UNCHANGED program PROVE Typed'
  <2> USE <1>2
  <2>1. CASE StartRollout(resume)
    BY <2>1 DEF StartRollout, RunType, DiskType, PCs
  <2>2. [disk EXCEPT !.made = TRUE] \in DiskType
    BY DEF DiskType
  <2>3. CASE StartProbe(resume)
    BY <2>2, <2>3 DEF StartProbe, RunType, DiskType, PCs
  <2>4. CASE StartFixedState(resume)
    <3>1. [NoRun EXCEPT !.pc = "report", !.fresh = ~resume, !.listed = disk.report.listed,
                        !.complete = disk.report.complete] \in RunType
      BY DEF RunType, DiskType, ReportType, PCs
    <3>2. QED BY <2>2, <2>4, <3>1 DEF StartFixedState
  <2>5. CASE StartEvaluate(resume)
    <3>1. [NoRun EXCEPT !.pc = "report", !.fresh = ~resume, !.listed = disk.report.listed]
             \in RunType
      BY DEF RunType, DiskType, ReportType, PCs
    <3>2. QED BY <2>2, <2>5, <3>1 DEF StartEvaluate
  <2>6. CASE StartEditAction
    BY <2>2, <2>6 DEF StartEditAction, RunType, PCs
  <2>7. QED BY <2>1, <2>3, <2>4, <2>5, <2>6 DEF Start
<1>3. CASE RolloutTrial /\ UNCHANGED program
  <2>1. ASSUME NEW t \in Trials
        PROVE  /\ [run EXCEPT !.mine[t] = 1, !.pc = "records"] \in RunType
               /\ [run EXCEPT !.mine[t] = 1, !.pc = "records", !.last = TRUE] \in RunType
    BY DEF RunType, PCs
  <2>2. faults' \in 0 .. MaxFaults /\ disk' = disk
    BY <1>3 DEF RolloutTrial, Fails
  <2>3. \E t \in Trials :
          \/ run' = [run EXCEPT !.mine[t] = 1, !.pc = "records"]
          \/ run' = [run EXCEPT !.mine[t] = 1, !.pc = "records", !.last = TRUE]
    BY <1>3 DEF RolloutTrial
  <2>4. run' \in RunType
    BY <2>1, <2>3
  <2>5. QED BY <1>3, <2>2, <2>4
<1>4. CASE (RolloutDone \/ RolloutRecords) /\ UNCHANGED program
  <2>1. [run EXCEPT !.pc = "records", !.last = TRUE, !.complete = TRUE] \in RunType
    BY DEF RunType, PCs
  <2>2. [run EXCEPT !.pc = "report"] \in RunType
    BY DEF RunType, PCs
  <2>3. [disk EXCEPT !.records = run.mine, !.stale = @ \/ Emptying] \in DiskType
    BY DEF RunType, DiskType, Emptying
  <2>4. QED BY <1>4, <2>1, <2>2, <2>3 DEF RolloutDone, RolloutRecords
<1>5. CASE ProbeTrial /\ UNCHANGED program
  <2>1. ASSUME NEW t \in Trials
        PROVE  /\ [run EXCEPT !.mine[t] = OneMore(@), !.listed = @ \cup {t},
                              !.pc = "records"] \in RunType
               /\ [run EXCEPT !.listed = @ \cup {t}, !.failed = @ \cup {t},
                              !.pc = "rows"] \in RunType
    <3>1. run.mine[t] \in Nat
      BY DEF RunType
    <3>2. OneMore(run.mine[t]) \in Nat
      BY <3>1, OneMoreFacts
    <3>3. QED BY <3>2 DEF RunType, PCs
  <2>2. faults' \in 0 .. MaxFaults /\ disk' = disk
    BY <1>5 DEF ProbeTrial, Fails
  <2>3. \E t \in Trials :
          \/ run' = [run EXCEPT !.mine[t] = OneMore(@), !.listed = @ \cup {t}, !.pc = "records"]
          \/ run' = [run EXCEPT !.listed = @ \cup {t}, !.failed = @ \cup {t}, !.pc = "rows"]
    BY <1>5 DEF ProbeTrial
  <2>4. run' \in RunType
    BY <2>1, <2>3
  <2>5. QED BY <1>5, <2>2, <2>4
<1>6. CASE (ProbeRecords \/ ProbeRows \/ ProbeReport \/ ProbeDone) /\ UNCHANGED program
  <2>1. \A p \in PCs : [run EXCEPT !.pc = p] \in RunType
    BY DEF RunType
  <2>2. [disk EXCEPT !.records = run.mine] \in DiskType
    BY DEF RunType, DiskType
  <2>3. [disk EXCEPT !.rows = run.listed, !.failed = run.failed] \in DiskType
    BY DEF RunType, DiskType
  <2>4. [disk EXCEPT !.report = [written |-> TRUE, listed |-> run.listed,
                                 complete |-> run.listed = Trials]] \in DiskType
    BY DEF RunType, DiskType, ReportType
  <2>5. [disk EXCEPT !.report.complete = disk.report.written] \in DiskType
    BY DEF DiskType, ReportType
  <2>6. CASE ProbeRecords \/ ProbeRows
    BY <1>6, <2>1, <2>2, <2>3, <2>6 DEF ProbeRecords, ProbeRows, PCs
  <2>7. CASE ProbeReport
    BY <1>6, <2>1, <2>4, <2>7 DEF ProbeReport, PCs
  <2>8. CASE ProbeDone
    BY <1>6, <2>5, <2>8 DEF ProbeDone
  <2>9. QED BY <1>6, <2>6, <2>7, <2>8
<1>7. CASE Evaluate /\ UNCHANGED program
  <2>1. ASSUME NEW t \in Trials
        PROVE  /\ [disk EXCEPT !.records[t] = 0] \in DiskType
               /\ [run EXCEPT !.pc = "evaluating", !.trial = t, !.left = PerTrial] \in RunType
    <3>1. [disk EXCEPT !.records[t] = 0] \in DiskType
      BY DEF DiskType
    <3>2. [run EXCEPT !.pc = "evaluating", !.trial = t, !.left = PerTrial] \in RunType
      BY DEF RunType, PCs
    <3>3. QED BY <3>1, <3>2
  <2>2. PICK t \in Trials :
          /\ disk' = [disk EXCEPT !.records[t] = 0] \/ disk' = disk
          /\ run' = [run EXCEPT !.pc = "evaluating", !.trial = t, !.left = PerTrial]
    BY <1>7 DEF Evaluate, SetAside
  <2>3. QED BY <1>7, <2>1, <2>2 DEF Evaluate
<1>8. CASE Audit /\ UNCHANGED program
  <2>1. OneMore(disk.records[run.trial]) \in Nat
    BY OneMoreFacts DEF RunType, DiskType
  <2>2. [disk EXCEPT !.records[run.trial] = OneMore(@)] \in DiskType
    BY <2>1 DEF DiskType
  <2>3. [run EXCEPT !.left = @ - 1] \in RunType
    BY <1>8 DEF Audit, RunType
  <2>4. QED BY <1>8, <2>2, <2>3 DEF Audit, Fails
<1>9. CASE (ListTrial \/ EvaluationDone) /\ UNCHANGED program
  <2>1. /\ [run EXCEPT !.listed = @ \cup {run.trial}, !.pc = "report"] \in RunType
        /\ [run EXCEPT !.pc = "report", !.complete = TRUE, !.last = TRUE] \in RunType
    BY DEF RunType, PCs
  <2>2. QED BY <1>9, <2>1 DEF ListTrial, EvaluationDone
<1>10. CASE SaveReport /\ UNCHANGED program
  <2>1. [run EXCEPT !.pc = "next"] \in RunType
    BY DEF RunType, PCs
  <2>2. (IF program = "rollout" THEN Collected ELSE run.listed) \subseteq Trials
    BY DEF Collected, RunType
  <2>3. [written |-> TRUE, complete |-> run.complete,
         listed |-> IF program = "rollout" THEN Collected ELSE run.listed] \in ReportType
    BY <2>2 DEF ReportType, RunType
  <2>4. \A r \in ReportType : [disk EXCEPT !.report = r, !.stale = FALSE] \in DiskType
    BY DEF DiskType
  <2>5. disk' \in DiskType
    BY <1>10, <2>3, <2>4 DEF SaveReport
  <2>6. QED BY <1>10, <2>1, <2>5 DEF SaveReport
<1>11. CASE Leave
  BY <1>11 DEF Leave, runVars
<1>12. QED
  BY <1>1, <1>2, <1>3, <1>4, <1>5, <1>6, <1>7, <1>8, <1>9, <1>10, <1>11 DEF ResumeNext, Working

LEMMA RolloutStep ==
    ASSUME Inv, ResumeNext, program = "rollout" PROVE RolloutInv'
<1> USE Constants DEF Inv, Typed, DiskType, RunType, ReportType
<1>0. program' = program /\ PerTrial = 1 /\ PerTrial' = 1
  BY DEF ResumeNext, Leave, runVars, PerTrial
<1>1. CASE Crash
  BY <1>1 DEF Crash, RolloutInv, Emptying, Collected
<1>2. ASSUME NEW resume \in BOOLEAN, StartRollout(resume) PROVE RolloutInv'
  <2>1. /\ disk' = disk /\ run'.pc = "records" /\ run'.left = 0 /\ run'.complete = FALSE
        /\ run'.fresh = ~resume
        /\ run'.mine = IF resume THEN disk.records ELSE NoRecords
    BY <1>2 DEF StartRollout, NoRun
  <2>2. resume \/ Emptying'
    BY <2>1 DEF Emptying
  <2>3. \A t \in Trials : run'.mine[t] <= 1
    BY <2>1 DEF RolloutInv
  <2>4. resume => \A t \in Trials : disk'.records[t] = 1 => run'.mine[t] = 1
    BY <2>1
  <2>5. QED BY <2>1, <2>2, <2>3, <2>4 DEF RolloutInv
<1>3. CASE RolloutTrial
  <2>1. PICK t \in Trials :
          \/ run' = [run EXCEPT !.mine[t] = 1, !.pc = "records"]
          \/ run' = [run EXCEPT !.mine[t] = 1, !.pc = "records", !.last = TRUE]
    BY <1>3 DEF RolloutTrial
  <2>2. /\ disk' = disk /\ run.pc = "next" /\ Collected # Trials
        /\ run'.mine = [run.mine EXCEPT ![t] = 1] /\ run'.pc = "records"
        /\ run'.complete = run.complete /\ run'.left = run.left
    <3>1. disk' = disk /\ run.pc = "next" /\ Collected # Trials
      BY <1>3 DEF RolloutTrial, At
    <3>2. CASE run' = [run EXCEPT !.mine[t] = 1, !.pc = "records"]
      BY <3>1, <3>2
    <3>3. CASE run' = [run EXCEPT !.mine[t] = 1, !.pc = "records", !.last = TRUE]
      BY <3>1, <3>3
    <3>4. QED BY <2>1, <3>2, <3>3
  <2>3. ~run.complete
    BY <2>2 DEF RolloutInv
  <2>4. QED BY <2>2, <2>3 DEF RolloutInv
<1>4. CASE RolloutDone
  BY <1>4 DEF RolloutDone, At, RolloutInv, Collected
<1>5. CASE RolloutRecords
  <2>1. /\ disk'.records = run.mine /\ disk'.report = disk.report
        /\ disk'.stale = (disk.stale \/ Emptying)
        /\ run'.pc = "report" /\ run'.mine = run.mine /\ run'.left = run.left
        /\ run'.complete = run.complete /\ run.pc = "records"
    <3>1. /\ disk' = [disk EXCEPT !.records = run.mine, !.stale = @ \/ Emptying]
          /\ run' = [run EXCEPT !.pc = "report"] /\ run.pc = "records"
      BY <1>5 DEF RolloutRecords, At
    <3>2. /\ disk'.records = run.mine /\ disk'.report = disk.report
          /\ disk'.stale = (disk.stale \/ Emptying)
      BY <3>1
    <3>3. /\ run'.pc = "report" /\ run'.mine = run.mine /\ run'.left = run.left
          /\ run'.complete = run.complete
      BY <3>1
    <3>4. QED BY <3>1, <3>2, <3>3
  <2>2. ASSUME ~disk'.stale PROVE \A t \in disk.report.listed : run.mine[t] = 1
    <3>1. ~disk.stale /\ ~Emptying
      BY <2>1, <2>2, Zenon
    <3>2. QED BY <2>1, <3>1 DEF RolloutInv
  <2>3. Collected' = Collected
    BY <2>1 DEF Collected
  <2>4. \A t \in Trials : disk'.records[t] <= 1 /\ run'.mine[t] <= 1
    BY <2>1 DEF RolloutInv
  <2>5. run'.complete => Collected' = Trials
    BY <2>1, <2>3 DEF RolloutInv
  <2>6. disk'.report.complete => disk'.report.listed = Trials
    BY <2>1 DEF RolloutInv
  <2>7. run'.left = 0 /\ run'.pc = "report" /\ disk'.records = run'.mine
    BY <2>1 DEF RolloutInv
  <2>8. ASSUME ~disk'.stale, NEW t \in disk'.report.listed PROVE disk'.records[t] = 1
    <3>1. t \in disk.report.listed /\ disk'.records = run.mine
      BY <2>1, <2>8
    <3>2. QED BY <2>2, <2>8, <3>1
  <2>9. QED BY <2>4, <2>5, <2>6, <2>7, <2>8 DEF RolloutInv
<1>6. CASE SaveReport
  <2>1. /\ disk'.report = [written |-> TRUE, complete |-> run.complete, listed |-> Collected]
        /\ disk'.records = disk.records /\ run.pc = "report"
        /\ run' = NoRun \/ run' = [run EXCEPT !.pc = "next"]
    BY <1>6 DEF SaveReport
  <2>2. \A t \in Collected : disk.records[t] = 1
    BY <2>1 DEF RolloutInv, Collected
  <2>3. CASE run' = NoRun
    BY <2>1, <2>2, <2>3 DEF RolloutInv, Collected
  <2>4. CASE run' = [run EXCEPT !.pc = "next"]
    BY <2>1, <2>2, <2>4 DEF RolloutInv, Collected
  <2>5. QED BY <2>1, <2>3, <2>4
<1>7. CASE Leave
  BY <1>7 DEF Leave, runVars, RolloutInv, Emptying, Collected
<1>8. QED
  BY <1>1, <1>2, <1>3, <1>4, <1>5, <1>6, <1>7
     DEF ResumeNext, Working, Start, StartProbe, StartFixedState, StartEvaluate, StartEditAction, At,
         ProbeTrial, ProbeRecords, ProbeRows, ProbeReport, ProbeDone, Audited, Evaluate, Audit,
         ListTrial, EvaluationDone

\* The conjuncts of ProbeInv, once what a step writes is known field by field.
LEMMA ProbeStep ==
    ASSUME Inv, ResumeNext, program = "probe" PROVE ProbeInv'
<1>0. program' = program /\ PerTrial = 1 /\ PerTrial' = 1
  BY DEF ResumeNext, Leave, runVars, PerTrial
<1>a. /\ disk \in DiskType /\ run \in RunType
      /\ disk.records \in [Trials -> Nat] /\ run.mine \in [Trials -> Nat]
      /\ disk.rows \subseteq Trials /\ disk.report.listed \subseteq Trials
      /\ run.listed \subseteq Trials
  BY DEF Inv, Typed, DiskType, RunType, ReportType
<1>b. ProbeBounds /\ ProbeReported /\ ProbeRowsBacked /\ ProbeMemory /\ ProbeWritten
  BY DEF Inv, ProbeInv
<1>c. NoRun.pc = "off" /\ NoRun.left = 0 /\ \A t \in Trials : NoRun.mine[t] = 0
  BY Constants
<1>1. CASE disk' = disk /\ run' = NoRun
  <2>1. disk'.records = disk.records /\ run'.pc = "off"
    BY <1>1, <1>c
  <2>2. ProbeBounds' /\ ProbeMemory' /\ ProbeWritten'
    BY <1>1, <1>b, <1>c, <2>1 DEF ProbeBounds, ProbeMemory, ProbeWritten
  <2>3. ProbeReported' /\ ProbeRowsBacked'
    BY <1>1, <1>b DEF ProbeReported, ProbeRowsBacked
  <2>4. QED BY <2>2, <2>3 DEF ProbeInv
<1>2. ASSUME NEW resume \in BOOLEAN, StartProbe(resume) PROVE ProbeInv'
  <2>1. /\ run'.pc = "next" /\ run'.mine = disk.records /\ run'.listed = disk.rows
        /\ run'.failed = disk.failed /\ run'.left = 0
    BY <1>2 DEF StartProbe, NoRun
  <2>2. /\ disk'.records = disk.records /\ disk'.report = disk.report
        /\ disk'.rows = disk.rows /\ disk'.failed = disk.failed
    BY <1>2, <1>a DEF StartProbe, DiskType
  <2>3. ProbeBounds'
    BY <1>b, <2>1, <2>2 DEF ProbeBounds
  <2>4. ProbeReported' /\ ProbeRowsBacked'
    BY <1>b, <2>2 DEF ProbeReported, ProbeRowsBacked
  <2>5. ProbeMemory' /\ ProbeWritten'
    BY <1>b, <2>1, <2>2 DEF ProbeMemory, ProbeWritten, ProbeRowsBacked
  <2>6. QED BY <2>3, <2>4, <2>5 DEF ProbeInv
<1>3. CASE ProbeTrial
  <2>1. PICK t \in Trials :
          \/ run' = [run EXCEPT !.mine[t] = OneMore(@), !.listed = @ \cup {t}, !.pc = "records"]
          \/ run' = [run EXCEPT !.listed = @ \cup {t}, !.failed = @ \cup {t}, !.pc = "rows"]
    BY <1>3 DEF ProbeTrial
  <2>2. disk' = disk /\ run.pc = "next"
    BY <1>3 DEF ProbeTrial, At
  <2>3. ProbeReported' /\ ProbeRowsBacked'
    BY <1>b, <2>2 DEF ProbeReported, ProbeRowsBacked
  <2>4. CASE run' = [run EXCEPT !.mine[t] = OneMore(@), !.listed = @ \cup {t}, !.pc = "records"]
    <3>1. /\ run'.mine = [run.mine EXCEPT ![t] = OneMore(run.mine[t])] /\ run'.pc = "records"
          /\ run'.listed = run.listed \cup {t} /\ run'.failed = run.failed
          /\ run'.left = run.left
      BY <1>a, <2>4 DEF RunType
    <3>2. run.mine[t] \in Nat /\ run.mine[t] <= 2
      BY <1>a, <1>b DEF ProbeBounds
    <3>3. OneMore(run.mine[t]) \in Nat \ {0} /\ OneMore(run.mine[t]) <= 2
      BY <1>0, <3>2, OneMoreFacts
    <3>4. /\ \A u \in Trials : run'.mine[u] = IF u = t THEN OneMore(run.mine[t]) ELSE run.mine[u]
          /\ \A u \in Trials : run'.mine[u] <= 2
          /\ \A u \in Trials : run.mine[u] > 0 => run'.mine[u] > 0
          /\ run'.mine[t] > 0
      BY <1>a, <1>b, <3>1, <3>3 DEF ProbeBounds
    <3>5. ProbeBounds'
      BY <1>b, <2>2, <3>1, <3>4 DEF ProbeBounds
    <3>6. ProbeMemory' /\ ProbeWritten'
      BY <1>a, <1>b, <2>2, <3>1, <3>4 DEF ProbeMemory, ProbeWritten
    <3>7. QED BY <2>3, <3>5, <3>6 DEF ProbeInv
  <2>5. CASE run' = [run EXCEPT !.listed = @ \cup {t}, !.failed = @ \cup {t}, !.pc = "rows"]
    <3>1. /\ run'.mine = run.mine /\ run'.pc = "rows"
          /\ run'.listed = run.listed \cup {t} /\ run'.failed = run.failed \cup {t}
          /\ run'.left = run.left
      BY <1>a, <2>5 DEF RunType
    <3>2. ProbeBounds'
      BY <1>b, <2>2, <3>1 DEF ProbeBounds
    <3>3. ProbeMemory' /\ ProbeWritten'
      BY <1>a, <1>b, <2>2, <3>1 DEF ProbeMemory, ProbeWritten
    <3>4. QED BY <2>3, <3>2, <3>3 DEF ProbeInv
  <2>6. QED BY <2>1, <2>4, <2>5
<1>4. CASE ProbeRecords
  <2>1. /\ disk'.records = run.mine /\ disk'.report = disk.report /\ disk'.rows = disk.rows
        /\ disk'.failed = disk.failed /\ run'.pc = "rows" /\ run'.mine = run.mine
        /\ run'.left = run.left /\ run'.listed = run.listed /\ run'.failed = run.failed
        /\ run.pc = "records"
    BY <1>4, <1>a DEF ProbeRecords, At, RunType, DiskType
  <2>2. \A t \in Trials : disk.records[t] > 0 => disk'.records[t] > 0
    BY <1>b, <2>1 DEF ProbeMemory
  <2>3. ProbeBounds'
    BY <1>b, <2>1 DEF ProbeBounds
  <2>4. ProbeReported' /\ ProbeRowsBacked'
    BY <1>a, <1>b, <2>1, <2>2 DEF ProbeReported, ProbeRowsBacked
  <2>5. ProbeMemory' /\ ProbeWritten'
    BY <1>b, <2>1 DEF ProbeMemory, ProbeWritten
  <2>6. QED BY <2>3, <2>4, <2>5 DEF ProbeInv
<1>5. CASE ProbeRows
  <2>1. /\ disk'.records = disk.records /\ disk'.report = disk.report
        /\ disk'.rows = run.listed /\ disk'.failed = run.failed
        /\ run'.pc = "report" /\ run'.mine = run.mine
        /\ run'.left = run.left /\ run'.listed = run.listed /\ run'.failed = run.failed
        /\ run.pc = "rows"
    BY <1>5, <1>a DEF ProbeRows, At, RunType, DiskType
  <2>2. disk.records = run.mine /\ disk.rows \subseteq run.listed
    BY <1>b, <2>1 DEF ProbeMemory, ProbeWritten
  <2>3. ProbeBounds'
    BY <1>b, <2>1 DEF ProbeBounds
  <2>4. ProbeReported'
    BY <1>a, <1>b, <2>1, <2>2 DEF ProbeReported
  <2>5. ProbeRowsBacked' /\ ProbeMemory' /\ ProbeWritten'
    BY <1>b, <2>1, <2>2 DEF ProbeRowsBacked, ProbeMemory, ProbeWritten
  <2>6. QED BY <2>3, <2>4, <2>5 DEF ProbeInv
<1>6. CASE ProbeReport /\ run.failed = {}
  <2>1. /\ run.pc = "report"
        /\ run' = [run EXCEPT !.pc = "next"]
        /\ disk' = [disk EXCEPT !.report = [written |-> TRUE, listed |-> run.listed,
                                            complete |-> run.listed = Trials]]
    BY <1>6 DEF ProbeReport, At
  <2>2. /\ disk'.report.listed = run.listed
        /\ disk'.report.complete => run.listed = Trials
    BY <1>a, <2>1 DEF DiskType
  <2>3. /\ disk'.records = disk.records /\ disk'.rows = disk.rows /\ disk'.failed = disk.failed
        /\ run'.pc = "next" /\ run'.mine = run.mine /\ run'.left = run.left
        /\ run'.listed = run.listed /\ run'.failed = run.failed
    BY <1>a, <2>1 DEF DiskType, RunType
  <2>4. disk.records = run.mine /\ disk.rows = run.listed /\ disk.failed = run.failed
    BY <1>b, <2>1 DEF ProbeWritten
  <2>5. ProbeBounds' /\ ProbeMemory' /\ ProbeWritten' /\ ProbeRowsBacked'
    BY <1>b, <2>1, <2>3, <2>4 DEF ProbeBounds, ProbeMemory, ProbeWritten, ProbeRowsBacked
  <2>6. ProbeReported'
    BY <1>6, <1>b, <2>2, <2>3, <2>4 DEF ProbeReported, ProbeRowsBacked
  <2>7. QED BY <2>5, <2>6 DEF ProbeInv
<1>7. CASE ProbeDone
  <2>1. /\ run' = NoRun /\ run.pc = "next" /\ run.listed = Trials
        /\ disk' = [disk EXCEPT !.report.complete = disk.report.written]
    BY <1>7 DEF ProbeDone, At
  <2>2. /\ disk'.records = disk.records /\ disk'.rows = disk.rows
        /\ disk'.failed = disk.failed /\ disk'.report.listed = disk.report.listed
    BY <1>a, <2>1 DEF DiskType, ReportType
  <2>3. disk.rows = Trials
    BY <1>b, <2>1 DEF ProbeWritten
  <2>4. ProbeReported' /\ ProbeRowsBacked'
    BY <1>b, <2>2, <2>3 DEF ProbeReported, ProbeRowsBacked
  <2>5. ProbeBounds' /\ ProbeMemory' /\ ProbeWritten'
    BY <1>b, <1>c, <2>1, <2>2 DEF ProbeBounds, ProbeMemory, ProbeWritten
  <2>6. QED BY <2>4, <2>5 DEF ProbeInv
<1>8. CASE UNCHANGED <<disk, run>>
  BY <1>b, <1>8
     DEF ProbeInv, ProbeBounds, ProbeReported, ProbeRowsBacked, ProbeMemory, ProbeWritten
<1>9. CASE Crash \/ ProbeReport
  <2>1. CASE Crash \/ (ProbeReport /\ run.failed # {})
    BY <1>1, <2>1 DEF Crash, ProbeReport
  <2>2. CASE ProbeReport /\ run.failed = {}
    BY <1>6, <2>2
  <2>3. QED BY <1>9, <2>1, <2>2
<1>10. \/ Crash \/ ProbeTrial \/ ProbeRecords \/ ProbeRows \/ ProbeReport \/ ProbeDone
       \/ UNCHANGED <<disk, run>>
       \/ \E resume \in BOOLEAN : StartProbe(resume)
  <2>1. CASE Working
    BY <2>1 DEF Working, At, RolloutTrial, RolloutDone, RolloutRecords, Audited, Evaluate, Audit,
                ListTrial, EvaluationDone, SaveReport
  <2>2. ASSUME NEW resume \in BOOLEAN, Start(resume) PROVE StartProbe(resume)
    BY <2>2 DEF Start, StartRollout, StartFixedState, StartEvaluate, StartEditAction, At
  <2>3. QED BY <2>1, <2>2 DEF ResumeNext, Leave, runVars
<1>11. QED
  BY <1>2, <1>3, <1>4, <1>5, <1>7, <1>8, <1>9, <1>10

\* The conjuncts of AuditInv.  A trial under way is not listed, so its lines may change.
LEMMA AuditStep ==
    ASSUME Inv, ResumeNext, Audited PROVE AuditInv'
<1>0. program' = program /\ PerTrial' = PerTrial /\ MostRecords' = MostRecords
  BY DEF ResumeNext, Leave, runVars, PerTrial, MostRecords
<1>a. /\ disk \in DiskType /\ run \in RunType
      /\ disk.records \in [Trials -> Nat] /\ run.mine \in [Trials -> Nat]
      /\ disk.report.listed \subseteq Trials /\ disk.report.complete \in BOOLEAN
      /\ run.listed \subseteq Trials /\ run.trial \in Trials /\ run.left \in Nat
  BY DEF Inv, Typed, DiskType, RunType, ReportType
<1>b. AuditBounds /\ AuditReported /\ AuditFresh /\ AuditMemory /\ AuditTrial /\ AuditAhead
  BY DEF Inv, AuditInv
<1>c. /\ NoRun.pc = "off" /\ NoRun.left = 0 /\ NoRun.listed = {} /\ NoRun.complete = FALSE
      /\ \A t \in Trials : NoRun.mine[t] = 0
  BY Constants DEF NoRun
<1>d. PerTrial \in Nat \ {0} /\ MostRecords \in Nat /\ PerTrial <= MostRecords
  BY Constants DEF MostRecords
<1>1. CASE disk' = disk /\ run' = NoRun
  <2>1. AuditBounds'
    BY <1>0, <1>1, <1>b, <1>c, <1>d DEF AuditBounds
  <2>2. AuditReported' /\ AuditFresh'
    BY <1>0, <1>1, <1>b DEF AuditReported, AuditFresh
  <2>3. AuditMemory' /\ AuditTrial' /\ AuditAhead'
    BY <1>1, <1>c DEF AuditMemory, AuditTrial, AuditAhead
  <2>4. QED BY <2>1, <2>2, <2>3 DEF AuditInv
<1>2. ASSUME NEW resume \in BOOLEAN,
             StartFixedState(resume) \/ StartEvaluate(resume) \/ StartEditAction
      PROVE  AuditInv'
  <2>1. disk' = [disk EXCEPT !.made = TRUE]
    BY <1>2 DEF StartFixedState, StartEvaluate, StartEditAction
  <2>2. /\ disk'.made /\ disk'.records = disk.records /\ disk'.report = disk.report
        /\ disk'.stale = disk.stale
    BY <1>a, <2>1 DEF DiskType
  <2>3. run'.pc = "report" /\ run'.left = 0 /\ \A t \in Trials : run'.mine[t] = 0
    <3>1. NoRun.mine = NoRecords
      BY Constants
    <3>2. run'.pc = "report" /\ run'.left = 0 /\ run'.mine = NoRecords
      BY <1>2 DEF StartFixedState, StartEvaluate, StartEditAction, NoRun
    <3>3. QED BY <3>1, <3>2, <1>c
  <2>4. run'.listed = disk.report.listed
    <3>1. CASE StartEditAction
      BY <3>1, <1>b DEF StartEditAction, NoRun, AuditFresh
    <3>2. CASE StartFixedState(resume) \/ StartEvaluate(resume)
      BY <3>2 DEF StartFixedState, StartEvaluate, NoRun
    <3>3. QED BY <1>2, <3>1, <3>2
  <2>5. run'.complete => disk.report.complete
    BY <1>2 DEF StartFixedState, StartEvaluate, StartEditAction, NoRun
  <2>6. program = "edit_action" => \A t \in Trials : disk.records[t] = 0
    BY <1>2, <1>b DEF StartFixedState, StartEvaluate, StartEditAction, At, AuditFresh
  <2>7. AuditBounds'
    BY <1>0, <1>b, <1>d, <2>2, <2>3 DEF AuditBounds
  <2>8. AuditReported' /\ AuditFresh'
    BY <1>0, <1>b, <2>2 DEF AuditReported, AuditFresh
  <2>9. AuditMemory'
    BY <1>0, <1>b, <2>2, <2>4, <2>5 DEF AuditMemory, AuditReported
  <2>10. AuditTrial' /\ AuditAhead'
    BY <1>0, <2>2, <2>3, <2>6 DEF AuditTrial, AuditAhead
  <2>11. QED BY <2>7, <2>8, <2>9, <2>10 DEF AuditInv
<1>3. CASE Evaluate
  <2>1. PICK t \in Trials :
          /\ t \notin run.listed /\ SetAside(t)
          /\ run' = [run EXCEPT !.pc = "evaluating", !.trial = t, !.left = PerTrial]
    BY <1>3 DEF Evaluate, IsNext
  <2>2. /\ run.pc = "next" /\ run'.pc = "evaluating" /\ run'.trial = t /\ run'.left = PerTrial
        /\ run'.mine = run.mine /\ run'.listed = run.listed /\ run'.complete = run.complete
    BY <1>3, <1>a, <2>1 DEF Evaluate, RunType
  <2>3. disk'.made = disk.made /\ disk'.report = disk.report /\ disk'.stale = disk.stale
    BY <1>a, <2>1 DEF SetAside, DiskType
  <2>4. /\ \A u \in Trials \ {t} : disk'.records[u] = disk.records[u]
        /\ disk'.records[t] \in {0, disk.records[t]}
        /\ program = "grpo_evaluate" => disk'.records[t] = 0
        /\ program = "edit_action" => disk'.records[t] = disk.records[t]
    <3>1. CASE program = "grpo_evaluate"
      <4>1. disk'.records = [disk.records EXCEPT ![t] = 0]
        BY <1>a, <2>1, <3>1 DEF SetAside, DiskType
      <4>2. QED BY <1>a, <3>1, <4>1
    <3>2. CASE program # "grpo_evaluate"
      BY <1>a, <2>1, <3>2 DEF SetAside
    <3>3. QED BY <3>1, <3>2
  <2>5. AuditBounds'
    BY <1>0, <1>a, <1>b, <1>d, <2>2, <2>4 DEF AuditBounds
  <2>6. AuditReported'
    BY <1>0, <1>a, <1>b, <2>1, <2>2, <2>3, <2>4 DEF AuditReported, AuditMemory
  <2>7. AuditFresh' /\ AuditMemory'
    BY <1>0, <1>a, <1>b, <2>1, <2>2, <2>3, <2>4 DEF AuditFresh, AuditMemory
  <2>8. AuditTrial' /\ AuditAhead'
    BY <1>0, <1>b, <1>d, <2>1, <2>2, <2>4 DEF AuditTrial, AuditAhead
  <2>9. QED BY <2>5, <2>6, <2>7, <2>8 DEF AuditInv
<1>4. CASE Audit
  <2>1. /\ run.pc = "evaluating" /\ run.left > 0 /\ run'.left = run.left - 1
        /\ run'.pc = run.pc /\ run'.trial = run.trial /\ run'.mine = run.mine
        /\ run'.listed = run.listed /\ run'.complete = run.complete
    BY <1>4, <1>a DEF Audit, RunType
  <2>2. run.trial \notin run.listed /\ disk.made
    BY <1>b, <2>1 DEF AuditTrial, AuditMemory
  <2>3. /\ disk.records[run.trial] \in Nat /\ disk.records[run.trial] <= MostRecords
        /\ program \in {"grpo_evaluate", "edit_action"} => disk.records[run.trial] < PerTrial
    BY <1>a, <1>b, <1>d, <2>1 DEF AuditBounds, AuditTrial
  <2>4. /\ disk'.made = disk.made /\ disk'.report = disk.report /\ disk'.stale = disk.stale
        /\ \A u \in Trials \ {run.trial} : disk'.records[u] = disk.records[u]
        /\ disk'.records[run.trial] \in {disk.records[run.trial],
                                         OneMore(disk.records[run.trial])}
    <3>1. CASE disk' = disk
      BY <3>1
    <3>2. CASE disk' = [disk EXCEPT !.records[run.trial] = OneMore(@)]
      <4>1. disk'.records = [disk.records EXCEPT ![run.trial] = OneMore(disk.records[run.trial])]
        BY <1>a, <3>2 DEF DiskType
      <4>2. disk'.made = disk.made /\ disk'.report = disk.report /\ disk'.stale = disk.stale
        BY <1>a, <3>2 DEF DiskType
      <4>3. QED BY <1>a, <4>1, <4>2
    <3>3. QED BY <1>4, <3>1, <3>2 DEF Audit
  <2>5. /\ disk'.records[run.trial] <= MostRecords
        /\ program \in {"grpo_evaluate", "edit_action"} =>
              /\ disk'.records[run.trial] \in Nat
              /\ disk'.records[run.trial] <= disk.records[run.trial] + 1
    BY <1>d, <2>3, <2>4, OneMoreFacts DEF MostRecords, Audited
  <2>6. AuditBounds'
    BY <1>0, <1>a, <1>b, <1>d, <2>1, <2>4, <2>5 DEF AuditBounds
  <2>7. AuditReported'
    BY <1>0, <1>a, <1>b, <2>1, <2>2, <2>4 DEF AuditReported, AuditMemory
  <2>8. AuditFresh' /\ AuditMemory'
    BY <1>0, <1>a, <1>b, <2>1, <2>2, <2>4 DEF AuditFresh, AuditMemory
  <2>9. AuditTrial' /\ AuditAhead'
    BY <1>0, <1>a, <1>b, <1>d, <2>1, <2>3, <2>4, <2>5 DEF AuditTrial, AuditAhead
  <2>10. QED BY <2>6, <2>7, <2>8, <2>9 DEF AuditInv
<1>5. CASE ListTrial /\ disk.records[run.trial] = PerTrial
  <2>1. disk' = disk /\ run.pc = "evaluating" /\ run.left = 0
    BY <1>5 DEF ListTrial
  <2>2. /\ run'.pc = "report" /\ run'.listed = run.listed \cup {run.trial}
        /\ run'.mine = run.mine /\ run'.left = run.left /\ run'.complete = run.complete
    BY <1>5, <1>a DEF ListTrial, RunType
  <2>3. AuditBounds' /\ AuditReported' /\ AuditFresh' /\ AuditTrial'
    BY <1>0, <1>b, <2>1, <2>2 DEF AuditBounds, AuditReported, AuditFresh, AuditTrial
  <2>4. AuditMemory'
    BY <1>0, <1>5, <1>a, <1>b, <2>1, <2>2 DEF AuditMemory
  <2>5. AuditAhead'
    BY <1>0, <1>b, <2>1, <2>2 DEF AuditAhead
  <2>6. QED BY <2>3, <2>4, <2>5 DEF AuditInv
<1>6. CASE EvaluationDone
  <2>1. disk' = disk /\ run.pc = "next" /\ run.listed = Trials
    BY <1>6 DEF EvaluationDone
  <2>2. /\ run'.pc = "report" /\ run'.listed = run.listed /\ run'.mine = run.mine
        /\ run'.left = run.left
    BY <1>6, <1>a DEF EvaluationDone, RunType
  <2>3. AuditBounds' /\ AuditReported' /\ AuditFresh' /\ AuditTrial' /\ AuditAhead'
    BY <1>0, <1>b, <2>1, <2>2
       DEF AuditBounds, AuditReported, AuditFresh, AuditTrial, AuditAhead
  <2>4. AuditMemory'
    BY <1>0, <1>b, <2>1, <2>2 DEF AuditMemory
  <2>5. QED BY <2>3, <2>4 DEF AuditInv
<1>7. CASE SaveReport
  <2>1. /\ run.pc = "report"
        /\ disk' = [disk EXCEPT
                      !.report = [written |-> TRUE, complete |-> run.complete,
                                  listed |-> run.listed],
                      !.stale = FALSE]
        /\ (run' = NoRun) \/ (run' = [run EXCEPT !.pc = "next"])
    BY <1>7 DEF SaveReport, Audited
  <2>2. /\ disk'.report.listed = run.listed /\ disk'.report.complete = run.complete
        /\ disk'.records = disk.records /\ disk'.made = disk.made /\ ~disk'.stale
    BY <1>a, <2>1 DEF DiskType
  <2>3. /\ disk.made /\ \A t \in run.listed : disk.records[t] = PerTrial
        /\ run.complete => run.listed = Trials
    BY <1>b, <2>1 DEF AuditMemory
  <2>4. AuditReported' /\ AuditFresh'
    BY <1>0, <2>2, <2>3 DEF AuditReported, AuditFresh
  <2>5. CASE run' = NoRun
    <3>1. AuditBounds'
      BY <1>0, <1>b, <1>c, <1>d, <2>2, <2>5 DEF AuditBounds
    <3>2. AuditMemory' /\ AuditTrial' /\ AuditAhead'
      BY <1>c, <2>5 DEF AuditMemory, AuditTrial, AuditAhead
    <3>3. QED BY <2>4, <3>1, <3>2 DEF AuditInv
  <2>6. CASE run' = [run EXCEPT !.pc = "next"]
    <3>1. /\ run'.pc = "next" /\ run'.listed = run.listed /\ run'.mine = run.mine
          /\ run'.left = run.left /\ run'.complete = run.complete
      BY <1>a, <2>6 DEF RunType
    <3>2. AuditBounds' /\ AuditTrial' /\ AuditAhead'
      BY <1>0, <1>b, <2>1, <2>2, <3>1 DEF AuditBounds, AuditTrial, AuditAhead
    <3>3. AuditMemory'
      BY <1>0, <2>2, <2>3, <3>1 DEF AuditMemory
    <3>4. QED BY <2>4, <3>2, <3>3 DEF AuditInv
  <2>7. QED BY <2>1, <2>5, <2>6
<1>8. CASE UNCHANGED <<disk, run>>
  BY <1>0, <1>b, <1>8
     DEF AuditInv, AuditBounds, AuditReported, AuditFresh, AuditMemory, AuditTrial, AuditAhead
<1>9. CASE Crash \/ ListTrial
  <2>1. CASE Crash \/ (ListTrial /\ disk.records[run.trial] # PerTrial)
    BY <1>1, <2>1 DEF Crash, ListTrial
  <2>2. CASE ListTrial /\ disk.records[run.trial] = PerTrial
    BY <1>5, <2>2
  <2>3. QED BY <1>9, <2>1, <2>2
<1>10. \/ Crash \/ Evaluate \/ Audit \/ ListTrial \/ EvaluationDone \/ SaveReport
       \/ UNCHANGED <<disk, run>>
       \/ \E resume \in BOOLEAN :
             StartFixedState(resume) \/ StartEvaluate(resume) \/ StartEditAction
  <2>1. CASE Working
    BY <2>1 DEF Working, At, Audited, RolloutTrial, RolloutDone, RolloutRecords, ProbeTrial,
                ProbeRecords, ProbeRows, ProbeReport, ProbeDone
  <2>2. ASSUME NEW resume \in BOOLEAN, Start(resume)
        PROVE  StartFixedState(resume) \/ StartEvaluate(resume) \/ StartEditAction
    BY <2>2 DEF Start, StartRollout, StartProbe, At, Audited
  <2>3. QED BY <2>1, <2>2 DEF ResumeNext, Leave, runVars
<1>11. QED
  BY <1>2, <1>3, <1>4, <1>6, <1>7, <1>8, <1>9, <1>10

\* Inv is an inductive invariant: one program at a time.
LEMMA NextInv == Inv /\ [ResumeNext]_runVars => Inv'
<1>1. ASSUME Inv, ResumeNext PROVE Inv'
  <2>1. Typed'
    BY <1>1, ResumeTypeStep
  <2>2. program' = program
    BY <1>1 DEF ResumeNext, Leave, runVars
  <2>3. program = "rollout" => RolloutInv'
    BY <1>1, RolloutStep
  <2>4. program = "probe" => ProbeInv'
    BY <1>1, ProbeStep
  <2>5. Audited => AuditInv'
    BY <1>1, AuditStep
  <2>6. QED BY <2>1, <2>2, <2>3, <2>4, <2>5 DEF Inv, Audited
<1>2. ASSUME Inv, UNCHANGED runVars PROVE Inv'
  BY <1>2 DEF runVars, Inv, Typed, Audited, RolloutInv, Emptying, Collected, ProbeInv, ProbeBounds,
       ProbeReported, ProbeRowsBacked, ProbeMemory, ProbeWritten, AuditInv, AuditBounds,
       AuditReported, AuditFresh, AuditMemory, AuditTrial, AuditAhead, PerTrial, MostRecords
<1>3. QED BY <1>1, <1>2

LEMMA AlwaysInv == ResumeSpec => []Inv
BY InitInv, NextInv, PTL DEF ResumeSpec

LEMMA WhichProgram == Inv => program = "rollout" \/ program = "probe" \/ Audited
BY ResumeAssumption DEF Inv, Typed, Audited

\* For any plan, any number of faults and restarts: the files and the memory of a run have
\* their types, and a trial has at most as many lines as its episodes, one more if its
\* program appends to what an interrupted run left (trajectory and audit files).
THEOREM ResumeTypes == ResumeSpec => []ResumeTypeOK
<1>1. Inv => ResumeTypeOK
  <2> SUFFICES ASSUME Inv PROVE ResumeTypeOK
    OBVIOUS
  <2>1. /\ disk \in DiskType /\ run \in RunType
        /\ disk.records \in [Trials -> Nat] /\ run.mine \in [Trials -> Nat] /\ run.left \in Nat
    BY DEF Inv, Typed, DiskType, RunType
  <2>2. PerTrial \in Nat \ {0} /\ MostRecords \in Nat
    BY Constants DEF MostRecords
  <2>3. /\ \A t \in Trials : disk.records[t] <= MostRecords
        /\ \A t \in Trials : run.mine[t] <= MostRecords
        /\ run.left <= PerTrial
    <3>1. CASE program = "rollout"
      BY <2>2, <3>1 DEF Inv, RolloutInv, MostRecords, PerTrial
    <3>2. CASE program = "probe"
      BY <2>2, <3>2 DEF Inv, ProbeInv, ProbeBounds, MostRecords, PerTrial
    <3>3. CASE Audited
      BY <2>2, <3>3 DEF Inv, AuditInv, AuditBounds
    <3>4. QED BY <3>1, <3>2, <3>3, WhichProgram
  <2>4. /\ disk.records \in [Trials -> 0 .. MostRecords]
        /\ run.mine \in [Trials -> 0 .. MostRecords] /\ run.left \in 0 .. PerTrial
    BY <2>1, <2>2, <2>3
  <2>5. QED
    BY <2>1, <2>4 DEF ResumeTypeOK, Inv, Typed, DiskType, RunType, PCs
<1>2. QED BY <1>1, AlwaysInv, PTL

\* A report never lists a trial whose record is not on disk, whichever write a crash fell
\* between (write_rollout_checkpoint, _checkpoint): resuming from it skips nothing.
THEOREM ReportsAreBacked == ResumeSpec => []ReportIsBacked
<1>1. Inv => ReportIsBacked
  <2>1. ASSUME Inv, program = "rollout" PROVE ReportIsBacked
    BY <2>1 DEF Inv, RolloutInv, ReportIsBacked, PerTrial
  <2>2. ASSUME Inv, program = "probe" PROVE ReportIsBacked
    BY <2>2 DEF Inv, ProbeInv, ProbeReported, ReportIsBacked
  <2>3. ASSUME Inv, Audited PROVE ReportIsBacked
    BY <2>3 DEF Inv, AuditInv, AuditReported, ReportIsBacked, Audited
  <2>4. QED BY <2>1, <2>2, <2>3, WhichProgram
<1>2. QED BY <1>1, AlwaysInv, PTL

\* run_complete in a report means that every trial of the plan is there, also after the
\* endpoint of a rollout died or a run was resumed.
THEOREM RunCompleteIsWhole == ResumeSpec => []CompleteIsWhole
<1>1. Inv => CompleteIsWhole
  <2>1. ASSUME Inv, program = "rollout" PROVE CompleteIsWhole
    BY <2>1 DEF Inv, RolloutInv, CompleteIsWhole
  <2>2. ASSUME Inv, program = "probe" PROVE CompleteIsWhole
    BY <2>2 DEF Inv, ProbeInv, ProbeReported, CompleteIsWhole
  <2>3. ASSUME Inv, Audited PROVE CompleteIsWhole
    BY <2>3 DEF Inv, AuditInv, AuditReported, CompleteIsWhole, Audited
  <2>4. QED BY <2>1, <2>2, <2>3, WhichProgram
<1>2. QED BY <1>1, AlwaysInv, PTL

----------------------------------------------------------------------------
(* What a step may do to the files                                         *)

\* The trials of a resumed run are kept by each program in a file of its own, and what
\* a step writes there is what it has in memory, which is at least what was there.
LEMMA RolloutKeeps ==
    ASSUME Inv, ResumeNext, program = "rollout",
           ~(At("rollout", "records") /\ Emptying)
    PROVE  \A t \in Trials : disk.records[t] = 1 => disk'.records[t] = 1
<1>1. disk \in DiskType /\ RolloutInv
  BY DEF Inv, Typed
<1>2. CASE RolloutRecords
  BY <1>1, <1>2 DEF RolloutRecords, RolloutInv, At, DiskType
<1>3. CASE SaveReport
  BY <1>1, <1>3 DEF SaveReport, DiskType
<1>4. CASE disk' = disk
  BY <1>4
<1>5. QED
  BY <1>2, <1>3, <1>4
     DEF ResumeNext, Working, Crash, Start, StartRollout, StartProbe, StartFixedState,
         StartEvaluate, StartEditAction, At, RolloutTrial, RolloutDone, Leave, runVars,
         ProbeTrial, ProbeRecords, ProbeRows, ProbeReport, ProbeDone, Audited, Evaluate,
         Audit, ListTrial, EvaluationDone

LEMMA ProbeKeeps ==
    ASSUME Inv, ResumeNext, program = "probe"
    PROVE  disk.rows \subseteq disk'.rows
<1>1. disk \in DiskType /\ ProbeMemory
  BY DEF Inv, Typed, ProbeInv
<1>2. CASE ProbeRows
  BY <1>1, <1>2 DEF ProbeRows, ProbeMemory, At, DiskType
<1>3. CASE ProbeRecords \/ ProbeReport \/ ProbeDone
  BY <1>1, <1>3 DEF ProbeRecords, ProbeReport, ProbeDone, DiskType
<1>4. CASE \E resume \in BOOLEAN : StartProbe(resume)
  BY <1>1, <1>4 DEF StartProbe, DiskType
<1>5. CASE disk' = disk
  BY <1>5
<1>6. QED
  BY <1>2, <1>3, <1>4, <1>5
     DEF ResumeNext, Working, Crash, Start, StartRollout, StartFixedState, StartEvaluate,
         StartEditAction, At, RolloutTrial, RolloutDone, RolloutRecords, Leave, runVars,
         ProbeTrial, Audited, Evaluate, Audit, ListTrial, EvaluationDone, SaveReport

LEMMA AuditKeeps ==
    ASSUME Inv, ResumeNext, Audited
    PROVE  disk.report.listed \subseteq disk'.report.listed
<1>1. disk \in DiskType /\ AuditMemory /\ program \notin {"rollout", "probe"}
  BY DEF Inv, Typed, AuditInv, Audited
<1>2. CASE SaveReport
  BY <1>1, <1>2 DEF SaveReport, AuditMemory, DiskType, ReportType
<1>3. CASE Evaluate \/ Audit
  BY <1>1, <1>3 DEF Evaluate, SetAside, Audit, DiskType
<1>4. CASE \E resume \in BOOLEAN : StartFixedState(resume) \/ StartEvaluate(resume)
  BY <1>1, <1>4 DEF StartFixedState, StartEvaluate, DiskType
<1>5. CASE StartEditAction
  BY <1>1, <1>5 DEF StartEditAction, DiskType
<1>6. CASE disk' = disk
  BY <1>6
<1>7. QED
  BY <1>1, <1>2, <1>3, <1>4, <1>5, <1>6
     DEF ResumeNext, Working, Crash, Start, StartRollout, StartProbe,
         At, RolloutTrial, RolloutDone, RolloutRecords, Leave, runVars,
         ProbeTrial, ProbeRecords, ProbeRows, ProbeReport, ProbeDone,
         ListTrial, EvaluationDone

\* No step of a program, no crash and no restart takes a finished trial out of the file
\* that --resume goes by, unless the operator starts a rollout afresh over it.
THEOREM DoneStaysDone == ResumeSpec => NothingLost
<1> DEFINE Afresh == At("rollout", "records") /\ Emptying
           Kept == Done \subseteq Done'
<1>1. ASSUME Inv, ResumeNext, ~Afresh
      PROVE  Kept
  <2>1. program' = program
    BY <1>1 DEF ResumeNext, Leave, runVars
  <2>2. CASE program = "rollout"
    BY <1>1, <2>1, <2>2, RolloutKeeps DEF Done
  <2>3. CASE program = "probe"
    BY <1>1, <2>1, <2>3, ProbeKeeps DEF Done
  <2>4. CASE Audited
    BY <1>1, <2>1, <2>4, AuditKeeps DEF Done, Audited
  <2>5. QED
    BY <1>1, <2>2, <2>3, <2>4, WhichProgram
<1>2. Inv /\ [ResumeNext]_runVars => [~Afresh => Kept]_runVars
  BY <1>1
<1>3. QED
  BY AlwaysInv, <1>2, PTL DEF ResumeSpec, NothingLost

----------------------------------------------------------------------------
(* DockerSandbox, for any number of episodes and any faults.               *)

\* What reset and close have established at each of their steps.
Stages ==
    /\ name = NoBox => ~started /\ \A f \in ClearedByClose : holds[f] = NoBox
    /\ pc = "naming" => name = NoBox
    /\ pc = "starting" => name # NoBox /\ task /\ ~started /\ name \notin acked
    /\ pc \in {"checking", "patching", "testing"} => name # NoBox /\ task /\ started
    /\ pc = "testing" => name \in patched /\ holds["protected_files"] = name

\* A container that docker run acknowledged is past every state before running.
AckedIsPast == \A b \in acked : boxes[b] \in {"running", "gone"}

Safe == AckedIsOwned /\ ActiveIsPrepared /\ NothingCarriesOver

SandboxInv == SandboxTypeOK /\ Stages /\ AckedIsPast /\ Safe

USE DEF Fields, Used, ClearedByClose, ClearedByReset, Without, With, Running, daemon

LEMMA SandboxInitInv == SandboxInit => SandboxInv
BY SandboxAssumption
   DEF SandboxInit, SandboxInv, SandboxTypeOK, Stages, AckedIsPast, Safe, AckedIsOwned, ActiveIsPrepared,
       NothingCarriesOver

\* What RemoveBox and Forget, called together, leave behind: an object without a
\* container, and no acknowledged container that still runs without excuse.
LEMMA CloseLemma ==
    ASSUME SandboxInv, RemoveBox, Forget
    PROVE  /\ name' = NoBox /\ task' = FALSE /\ started' = FALSE
           /\ holds' \in [Fields -> Boxes \cup {NoBox}]
           /\ \A f \in ClearedByClose : holds'[f] = NoBox
           /\ boxes' \in [Boxes -> {"unused", "named", "starting", "running", "gone"}]
           /\ excused' \subseteq Boxes
           /\ \A b \in acked : boxes'[b] \in {"running", "gone"}
           /\ \A b \in acked : boxes'[b] = "running" => b \in excused'
<1>1. /\ name' = NoBox /\ task' = FALSE /\ started' = FALSE
      /\ holds' \in [Fields -> Boxes \cup {NoBox}]
      /\ \A f \in ClearedByClose : holds'[f] = NoBox
  BY DEF Forget, SandboxInv, SandboxTypeOK
<1>2. CASE name # NoBox /\ started
  BY <1>1, <1>2 DEF RemoveBox, SandboxInv, SandboxTypeOK, AckedIsPast, Safe, AckedIsOwned
<1>3. CASE ~(name # NoBox /\ started)
  BY <1>1, <1>3 DEF RemoveBox, SandboxInv, SandboxTypeOK, Stages, AckedIsPast, Safe, AckedIsOwned
<1>4. QED BY <1>2, <1>3

\* A step that closes the environment, at rest or on the way into reset.
LEMMA SandboxClosed ==
    ASSUME SandboxInv, RemoveBox, Forget, pc' \in {"idle", "naming"},
           patched' \subseteq Boxes, UNCHANGED acked
    PROVE  SandboxInv'
<1>1. SandboxTypeOK'
  BY CloseLemma DEF SandboxTypeOK, SandboxInv
<1>2. Stages'
  BY CloseLemma DEF Stages
<1>3. AckedIsPast'
  BY CloseLemma DEF AckedIsPast
<1>4. Safe'
  BY CloseLemma DEF Safe, AckedIsOwned, ActiveIsPrepared, NothingCarriesOver
<1>5. QED BY <1>1, <1>2, <1>3, <1>4 DEF SandboxInv

LEMMA SandboxNextInv == SandboxInv /\ [SandboxNext]_sandboxVars => SandboxInv'
<1> SUFFICES ASSUME SandboxInv, [SandboxNext]_sandboxVars PROVE SandboxInv'
  OBVIOUS
<1> USE SandboxAssumption
<1>1. CASE Close
  BY <1>1, SandboxClosed DEF Close, SandboxInv, SandboxTypeOK
<1>2. CASE Reset
  BY <1>2, SandboxClosed DEF Reset, SandboxInv, SandboxTypeOK
<1>3. ASSUME NEW b \in Boxes, Name(b) PROVE SandboxInv'
  <2>1. SandboxTypeOK'
    BY <1>3 DEF Name, SandboxInv, SandboxTypeOK
  <2>2. Stages'
    BY <1>3 DEF Name, SandboxInv, SandboxTypeOK, Stages, AckedIsPast
  <2>3. AckedIsPast' /\ AckedIsOwned'
    BY <1>3 DEF Name, SandboxInv, SandboxTypeOK, Stages, AckedIsPast, Safe, AckedIsOwned
  <2>4. ActiveIsPrepared' /\ NothingCarriesOver'
    BY <1>3 DEF Name, SandboxInv, SandboxTypeOK, Stages, ActiveIsPrepared, NothingCarriesOver
  <2>5. QED BY <2>1, <2>2, <2>3, <2>4 DEF SandboxInv, Safe
<1>4. CASE StartBox
  <2>1. SandboxTypeOK'
    BY <1>4 DEF StartBox, SandboxInv, SandboxTypeOK, Stages
  <2>2. Stages' /\ ActiveIsPrepared' /\ NothingCarriesOver'
    BY <1>4 DEF StartBox, SandboxInv, SandboxTypeOK, Stages, Safe, ActiveIsPrepared, NothingCarriesOver
  <2>3. AckedIsPast' /\ AckedIsOwned'
    BY <1>4 DEF StartBox, SandboxInv, SandboxTypeOK, Stages, AckedIsPast, Safe, AckedIsOwned
  <2>4. QED BY <2>1, <2>2, <2>3 DEF SandboxInv, Safe
<1>5. CASE StartFails
  <2> DEFINE ended(how) == [boxes EXCEPT ![name] = how]
  <2>0. /\ name \in Boxes
        /\ \A how \in {"gone", "starting"} :
              ended(how) \in [Boxes -> {"unused", "named", "starting", "running", "gone"}]
    BY <1>5 DEF StartFails, SandboxInv, SandboxTypeOK, Stages
  <2>1. SandboxTypeOK'
    <3>1. holds' \in [Fields -> Boxes \cup {NoBox}]
      BY <1>5 DEF StartFails, Forget, SandboxInv, SandboxTypeOK
    <3>2. boxes' \in {ended("gone"), ended("starting")} /\ excused' \in {excused, excused \cup {name}}
      BY <1>5 DEF StartFails
    <3>3. boxes' \in [Boxes -> {"unused", "named", "starting", "running", "gone"}]
      BY <2>0, <3>2
    <3>4. QED BY <1>5, <2>0, <3>1, <3>2, <3>3 DEF StartFails, Forget, SandboxInv, SandboxTypeOK
  <2>2. Stages' /\ ActiveIsPrepared' /\ NothingCarriesOver'
    BY <1>5 DEF StartFails, Forget, Stages, ActiveIsPrepared, NothingCarriesOver
  <2>3. AckedIsPast' /\ AckedIsOwned'
    BY <1>5 DEF StartFails, Forget, SandboxInv, SandboxTypeOK, Stages, AckedIsPast, Safe, AckedIsOwned
  <2>4. QED BY <2>1, <2>2, <2>3 DEF SandboxInv, Safe
<1>6. CASE CheckCommit
  <2>1. CASE CloseAndRaise
    BY <1>6, <2>1, SandboxClosed DEF CheckCommit, CloseAndRaise, SandboxInv, SandboxTypeOK
  <2>2. CASE pc' = "patching" /\ UNCHANGED <<task, name, started, holds, boxes, excused>>
    BY <1>6, <2>2 DEF CheckCommit, SandboxInv, SandboxTypeOK, Stages, AckedIsPast, Safe, AckedIsOwned,
       ActiveIsPrepared, NothingCarriesOver
  <2>3. QED BY <1>6, <2>1, <2>2 DEF CheckCommit
<1>7. CASE ApplyTests
  <2>1. patched' \subseteq Boxes /\ UNCHANGED acked
    BY <1>7 DEF ApplyTests, SandboxInv, SandboxTypeOK, CloseAndRaise
  <2>2. CASE CloseAndRaise
    BY <2>1, <2>2, SandboxClosed DEF CloseAndRaise
  <2>3. CASE ~CloseAndRaise
    <3>1. /\ name \in Boxes /\ patched' = patched \cup {name}
          /\ holds' = With({"protected_files"}) /\ pc' = "testing"
          /\ UNCHANGED <<task, name, started, boxes, excused, acked>>
      BY <1>7, <2>3 DEF ApplyTests
    <3>2. SandboxTypeOK' /\ Stages' /\ NothingCarriesOver'
      BY <1>7, <3>1 DEF ApplyTests, SandboxInv, SandboxTypeOK, Stages, Safe, NothingCarriesOver
    <3>3. AckedIsPast' /\ AckedIsOwned' /\ ActiveIsPrepared'
      BY <3>1 DEF SandboxInv, AckedIsPast, Safe, AckedIsOwned, ActiveIsPrepared
    <3>4. QED BY <3>2, <3>3 DEF SandboxInv, Safe
  <2>4. QED BY <2>2, <2>3
<1>8. CASE Baseline
  <2>1. CASE CloseAndRaise
    BY <1>8, <2>1, SandboxClosed DEF Baseline, CloseAndRaise, SandboxInv, SandboxTypeOK
  <2>2. CASE /\ holds' = With({"test_results"}) /\ pc' = "idle"
             /\ UNCHANGED <<task, name, started, boxes, excused>>
    <3>1. SandboxTypeOK' /\ Stages' /\ NothingCarriesOver' /\ ActiveIsPrepared'
      BY <1>8, <2>2 DEF Baseline, SandboxInv, SandboxTypeOK, Stages, Safe, NothingCarriesOver,
         ActiveIsPrepared
    <3>2. AckedIsPast' /\ AckedIsOwned'
      BY <1>8, <2>2 DEF Baseline, SandboxInv, AckedIsPast, Safe, AckedIsOwned
    <3>3. QED BY <3>1, <3>2 DEF SandboxInv, Safe
  <2>3. QED BY <1>8, <2>1, <2>2 DEF Baseline
<1>9. CASE Use
  <2>1. PICK fields \in SUBSET Used : holds' = With(fields)
    BY <1>9 DEF Use
  <2>2. SandboxTypeOK' /\ Stages' /\ NothingCarriesOver' /\ ActiveIsPrepared'
    BY <1>9, <2>1 DEF Use, SandboxInv, SandboxTypeOK, Stages, Safe, NothingCarriesOver, ActiveIsPrepared
  <2>3. AckedIsPast' /\ AckedIsOwned'
    BY <1>9 DEF Use, SandboxInv, AckedIsPast, Safe, AckedIsOwned
  <2>4. QED BY <2>2, <2>3 DEF SandboxInv, Safe
<1>10. ASSUME NEW b \in Boxes, StartLate(b) \/ Die(b) PROVE SandboxInv'
  <2>1. SandboxTypeOK' /\ Stages' /\ NothingCarriesOver' /\ ActiveIsPrepared'
    BY <1>10 DEF StartLate, Die, SandboxInv, SandboxTypeOK, Stages, Safe, NothingCarriesOver,
       ActiveIsPrepared
  <2>2. AckedIsPast' /\ AckedIsOwned'
    BY <1>10 DEF StartLate, Die, SandboxInv, SandboxTypeOK, AckedIsPast, Safe, AckedIsOwned
  <2>3. QED BY <2>1, <2>2 DEF SandboxInv, Safe
<1>11. CASE UNCHANGED sandboxVars
  BY <1>11 DEF sandboxVars, SandboxInv, SandboxTypeOK, Stages, AckedIsPast, Safe, AckedIsOwned,
     ActiveIsPrepared, NothingCarriesOver
<1>12. QED
  BY <1>1, <1>2, <1>3, <1>4, <1>5, <1>6, <1>7, <1>8, <1>9, <1>10, <1>11 DEF SandboxNext, ResetStep

LEMMA SandboxSpecInv == SandboxSpec => []SandboxInv
<1>1. SandboxInit => SandboxInv
  BY SandboxInitInv
<1>2. SandboxInv /\ [SandboxNext]_sandboxVars => SandboxInv'
  BY SandboxNextInv
<1>3. QED BY <1>1, <1>2, PTL DEF SandboxSpec

\* Every variable of the sandbox keeps the type the code gives it, in any number of
\* episodes of one object.
THEOREM SandboxTypes == SandboxSpec => []SandboxTypeOK
<1>1. SandboxInv => SandboxTypeOK
  BY DEF SandboxInv
<1>2. QED BY <1>1, SandboxSpecInv, PTL

\* No container that docker run acknowledged falls out of the object unremoved, unless
\* docker rm itself failed: neither a raising reset nor a repeated one loses it.
THEOREM AcknowledgedBoxesAreOwned == SandboxSpec => []AckedIsOwned
<1>1. SandboxInv => AckedIsOwned
  BY DEF SandboxInv, Safe
<1>2. QED BY <1>1, SandboxSpecInv, PTL

\* A step is only ever accepted on a container that went through the whole of reset,
\* and no field of the object holds anything of an earlier episode.
THEOREM EpisodesAreSeparate == SandboxSpec => [](ActiveIsPrepared /\ NothingCarriesOver)
<1>1. SandboxInv => ActiveIsPrepared /\ NothingCarriesOver
  BY DEF SandboxInv, Safe
<1>2. QED BY <1>1, SandboxSpecInv, PTL
=============================================================================
