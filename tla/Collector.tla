----------------------------- MODULE Collector -----------------------------
(***************************************************************************)
(* RolloutCollector.collect: one trial of a policy in one environment, the *)
(* caller of ToolEnvironment that local rollouts and the diagnostic use.   *)
(* It counts its own steps, keeps the verdict the episode ended on, asks   *)
(* for one if there is none, and closes the environment whatever happens.  *)
(***************************************************************************)
EXTENDS ToolEnvironment

VARIABLES
    trial,     \* the local variables of collect, and where it is
    verified   \* history: the verifier ran after an edit was reported

collectVars == <<vars, trial, verified>>

\* How next_action may fail: a transport or a protocol violation of the policy.
Failures == {"policy_transport_error", "policy_protocol_error"}

\* pc; count: len(steps); edited and after_patch: edited, verifier_run_after_patch;
\* terminal: terminal_test_result, or "none"; failure: the policy's violation;
\* final and success: the verdict and the task_success of the trajectory.
NewTrial == [pc |-> "looping", count |-> 0, edited |-> FALSE, after_patch |-> FALSE,
             terminal |-> "none", failure |-> "none", final |-> "none", success |-> FALSE]

\* while len(steps) < task.max_steps
InLoop == trial.pc = "looping" /\ trial.count < MaxSteps

AsksVerifier(a) == a.kind \in {"run_tests", "finish"}

\* What collect notes of a step whose observation says "Updated", or does not.
StepNoted(a, updated) ==
    [trial EXCEPT
        !.count = @ + 1,
        !.after_patch = @ \/ (trial.edited /\ AsksVerifier(a)),
        !.edited = @ \/ updated,
        !.pc = IF ending'.how = "open" THEN "looping" ELSE "grading",
        !.terminal = IF ending'.how \in {"open", "violation"} THEN @ ELSE ending'.test]

\* The verifier ran in this step, or finish answered from the last run.
Runs(a) == a.kind = "run_tests" \/ (a.kind = "finish" /\ (last = "passed" \/ edited))

\* environment.step, and the trajectory step made of its result.
TakeStep(a) ==
    /\ InLoop
    /\ \/ Edit(a) /\ trial' = StepNoted(a, TRUE)
       \/ /\ \/ BudgetExhausted(a) \/ Reject(a) \/ ToolFails(a) \/ Navigate(a) \/ Read(a)
             \/ EditFails(a) \/ Violate(a) \/ RunTests(a) \/ Finish(a)
          /\ trial' = StepNoted(a, FALSE)
    /\ verified' = (verified \/ (changed # {} /\ ~Rejected(a) /\ Runs(a)))

\* Mutant: the fallback action of a failed policy is not recorded and the loop goes on.
PolicyFailsAgain ==
    /\ InLoop
    /\ \E f \in Failures : trial' = [trial EXCEPT !.failure = f]
    /\ UNCHANGED <<vars, verified>>

\* The decision is a fallback: it is recorded, never stepped, and the loop stops.
PolicyFails ==
    /\ InLoop
    /\ \E f \in Failures :
          trial' = [trial EXCEPT !.count = @ + 1, !.failure = f, !.pc = "grading"]
    /\ UNCHANGED <<vars, verified>>

\* len(steps) reached max_steps with the episode still open.
StepsUsedUp ==
    /\ trial.pc = "looping" /\ trial.count >= MaxSteps
    /\ trial' = [trial EXCEPT !.pc = "grading"]
    /\ UNCHANGED <<vars, verified>>

\* environment.changed_files(): what the container kept, or what the fixture compares.
ChangedFiles == IF sandbox = "docker" THEN changed ELSE {p \in Paths : files[p] # Original[p]}

\* Mutant: a verdict counts whatever the policy or the environment reported.
SucceededAnyway(test) == test = "passed" /\ ChangedFiles # {}

\* task_success: final.passed, some file changed, and no violation of either side.
Succeeded(test) ==
    /\ test = "passed" /\ ChangedFiles # {}
    /\ trial.failure = "none" /\ ending.how # "violation"

Graded(test) == [trial EXCEPT !.pc = "closed", !.final = test, !.success = Succeeded(test)]

\* terminal_test_result or environment.finalize(), then the reward, then close.
Grade ==
    /\ trial.pc = "grading"
    /\ \/ /\ trial.terminal # "none"
          /\ trial' = Graded(trial.terminal)
          /\ UNCHANGED vars
       \/ /\ trial.terminal = "none"
          /\ \E test \in Outcomes : last' = test /\ trial' = Graded(test)
          /\ edited' = FALSE
          /\ ending' = IF Open THEN [how |-> "finalize", test |-> last'] ELSE ending
          /\ UNCHANGED <<sandbox, steps, files, spans, changed, guard, seen, dirty>>
    /\ UNCHANGED verified

\* An exception leaves through the finally clause, without a trajectory.
Raise ==
    /\ trial.pc \in {"looping", "grading"}
    /\ trial' = [trial EXCEPT !.pc = "closed"]
    /\ UNCHANGED <<vars, verified>>

Closed == trial.pc = "closed" /\ UNCHANGED collectVars

CollectInit == Init /\ trial = NewTrial /\ verified = FALSE

Collecting == (\E a \in Actions : TakeStep(a)) \/ PolicyFails \/ StepsUsedUp \/ Grade

CollectNext == Collecting \/ Raise \/ Closed

CollectSpec == CollectInit /\ [][CollectNext]_collectVars

\* Every command and every request of the policy has a timeout.
CollectFairSpec == CollectSpec /\ WF_collectVars(Collecting)

----------------------------------------------------------------------------
TrialType ==
    [pc : {"looping", "grading", "closed"}, count : 0 .. MaxSteps, edited : BOOLEAN,
     after_patch : BOOLEAN, terminal : TestResults \cup {"none"},
     failure : Failures \cup {"none"}, final : TestResults \cup {"none"}, success : BOOLEAN]

\* Every variable has the type the code gives it.
CollectTypeOK == TypeOK /\ trial \in TrialType /\ verified \in BOOLEAN

\* The collector and the environment count the same steps, so the environment never
\* has to end a collected episode on a stale result for want of budget.
StepsAgree ==
    /\ trial.pc = "looping" => trial.count = steps
    /\ ending.how # "budget"

\* A trial that counts as a success repaired the repository, and the policy did it: no
\* verdict of an earlier state, and no fallback, is credited, whatever files a failed edit
\* left behind.
SuccessIsReal ==
    trial.success => files \in Passing /\ ChangedFiles # {} /\ trial.failure = "none"

\* verifier_run_after_patch, which collect derives from the actions it sent, is true
\* exactly when a step ran the verifier on a repository listed as changed, whatever
\* finish answered from its cache and the guard refused.
AfterPatchIsRun == trial.after_patch = verified

\* The verdict of a trial is that of the files it is graded with, also when the episode
\* ended on a violation.  (A failed edit that changed its file leaves the old verdict in
\* the cache, so the property is for edits that do not.)
FinalIsCurrent == trial.final # "none" => trial.final \in Outcomes

\* A trial ends, whatever the policy does.
TrialEnds == <>(trial.pc = "closed")
=============================================================================
