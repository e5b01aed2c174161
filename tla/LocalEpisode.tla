---------------------------- MODULE LocalEpisode ----------------------------
(***************************************************************************)
(* GRPOCodingEnvironment over LocalFixtureEnvironment: a trainer resets    *)
(* it, calls its tools and asks for a reward, in any order; the fixture is *)
(* copied into a temporary directory, and the verifier is a subprocess.    *)
(* Any of the calls into the file system or into the verifier may fail and *)
(* leave the call half done.                                               *)
(*                                                                         *)
(* What a single tool does is in ToolEnvironment.  It implements Episode,  *)
(* as the remote client does, and its results are graded a second time     *)
(* here by build_training_reward, as the collector and the worker do.      *)
(***************************************************************************)
EXTENDS RewardShaping

CONSTANTS
    Dirs,       \* names mkdtemp may return
    NoDir,
    Fixtures,   \* failing tests of the fixture repositories
    MaxSteps,   \* task.max_steps
    Faults      \* what may go wrong

ASSUME LocalAssumption ==
    /\ NoDir \notin Dirs
    /\ Fixtures \subseteq SUBSET Nodes
    /\ MaxSteps \in Nat
    /\ Faults \subseteq {"no_source", "copy", "verifier", "hashes", "write", "rmtree"}

VARIABLES
    held,       \* _environment is not None
    completed,  \* _completed
    reward,     \* _reward
    env,        \* the fields of the environment behind it
    tree,       \* the repository in its directory
    disk,       \* directories that exist
    audit       \* history: the present episode as it was graded, once it is completed

vars == <<held, completed, reward, env, tree, disk, audit>>

\* dir: workspace; ready: task and repository are set; hashed: _initial_hashes is not empty;
\* asked (history): a run_tests or a finish followed an edit; raised (history): an ending of
\* this episode, or its reset once the task was set, raised half way; torn (history): an edit
\* failed after it wrote to its file, and the verifier has not run since.
NewEnv == [dir |-> NoDir, ready |-> FALSE, hashed |-> FALSE, steps |-> 0,
           baseline |-> NoResult, last |-> NoResult, edited |-> FALSE, patched |-> FALSE,
           violated |-> FALSE, asked |-> FALSE, raised |-> FALSE, torn |-> FALSE]

\* failing: tests that fail; loads: the tests can be imported; differs: some file is not
\* as it was copied; whole: nothing was removed from it; first (history): the tests that
\* failed in the copy.
Tree == [failing : SUBSET Nodes, loads : BOOLEAN, differs : BOOLEAN, whole : BOOLEAN,
         first : SUBSET Nodes]

NoAudit == [kind |-> "none", raised |-> FALSE, torn |-> FALSE,
            grading |-> Grading(NoResult, NoResult, FALSE, FALSE, FALSE, FALSE),
            tree |-> [failing |-> {}, loads |-> TRUE, differs |-> FALSE, whole |-> TRUE,
                      first |-> {}]]

\* verifier.run: the result for the files, or a timeout.
Outcomes == {RunOf(tree.failing, tree.loads), TimedOut}

Active == held /\ ~completed

----------------------------------------------------------------------------
(* Closing                                                                 *)

\* rmtree may stop before it removed anything, or half way, and then what it leaves of the
\* files does not load.
Remnants(t) == {t, [t EXCEPT !.loads = FALSE, !.differs = TRUE, !.whole = FALSE]}

\* environment.close() then _environment = None.
Closed ==
    /\ held' = FALSE
    /\ env' = NewEnv
    /\ disk' = disk \ {env.dir}
    /\ tree' = NoAudit.tree

CloseRaises ==
    /\ "rmtree" \in Faults /\ env.dir \in disk
    /\ held' = held
    /\ tree' \in Remnants(tree)
    /\ UNCHANGED disk

\* changed_files # (): it compares with the hashes taken in reset, if there are any.
Differs(e) == tree.differs \/ ~e.hashed

\* The episode as it is graded, with the environment e.
Audit(kind, result, e) ==
    [kind |-> kind, tree |-> tree, raised |-> e.raised, torn |-> e.torn,
     grading |-> Grading(e.baseline, result, Differs(e), Differs(e) /\ tree.loads,
                         e.asked, e.violated)]

\* Mutant: the environment is closed before its changed files are counted.
CompleteClosed(kind, result, e) ==
    /\ reward' = 0
    /\ completed' = TRUE
    /\ audit' = Audit(kind, result, e)
    /\ Closed \/ (CloseRaises /\ env' = e)

\* _complete: the reward is stored before the environment is closed.  e is the environment
\* after the step that ended the episode.
Complete(kind, result, e) ==
    /\ reward' = IF result.given /\ result.passed /\ Differs(e) /\ ~e.violated THEN 1 ELSE 0
    /\ completed' = TRUE
    /\ audit' = Audit(kind, result, e)
    /\ Closed \/ (CloseRaises /\ env' = e)

\* changed_files reads every file, and raises what the file system does.
CompleteRaises(e) ==
    /\ "hashes" \in Faults
    /\ env' = [e EXCEPT !.raised = TRUE]
    /\ UNCHANGED <<held, completed, reward, tree, disk, audit>>

----------------------------------------------------------------------------
(* reset                                                                   *)

\* _close_environment raises: the old episode stays, on what is left of its files.
ResetFailsToClose ==
    /\ held /\ CloseRaises /\ UNCHANGED env
    /\ UNCHANGED <<completed, reward, audit>>

\* Mutant: a reset keeps the reward of the last episode.
RenewedKeepsReward(e) ==
    /\ held' = TRUE /\ completed' = FALSE /\ reward' = reward
    /\ env' = e
    /\ disk' = ((disk \ {env.dir}) \cup {e.dir}) \ {NoDir}
    /\ audit' = NoAudit

\* The last environment is closed, and a new one assigned before its reset is called.
Renewed(e) ==
    /\ held' = TRUE /\ completed' = FALSE /\ reward' = 0
    /\ env' = e
    /\ disk' = ((disk \ {env.dir}) \cup {e.dir}) \ {NoDir}
    /\ audit' = NoAudit

\* The fixture has no repository.
ResetWithoutSource == "no_source" \in Faults /\ Renewed(NewEnv) /\ tree' = NoAudit.tree

\* Mutant: the directory is noted once it holds the repository.
ResetFailsUnnoted ==
    /\ "copy" \in Faults
    /\ \E d \in Dirs \ disk :
          /\ held' = TRUE /\ completed' = FALSE /\ reward' = 0
          /\ env' = NewEnv /\ audit' = NoAudit
          /\ disk' = (disk \ {env.dir}) \cup {d}
    /\ tree' = NoAudit.tree

\* copytree fails: the directory is there and the task is not set.
ResetFailsToCopy ==
    /\ "copy" \in Faults
    /\ \E d \in Dirs \ disk : Renewed([NewEnv EXCEPT !.dir = d])
    /\ tree' = NoAudit.tree

\* The files of a fixture whose verifier fails these tests, and the environment that has
\* copied it into d.
Copy(failing) == [failing |-> failing, loads |-> TRUE, differs |-> FALSE, whole |-> TRUE,
                  first |-> failing]
Copied(d) == [NewEnv EXCEPT !.dir = d, !.ready = TRUE]
Hashed(d) == [Copied(d) EXCEPT !.hashed = TRUE]
Based(d, result) == [Hashed(d) EXCEPT !.baseline = result, !.last = result]

\* _file_hashes raises once the task is set: the tools work, and every file will count as
\* changed.
ResetFailsToHash(d, failing) ==
    /\ "hashes" \in Faults
    /\ Renewed([Copied(d) EXCEPT !.raised = TRUE])
    /\ tree' = Copy(failing)

\* The verifier cannot be started, and the tools work without a baseline.
ResetFailsToVerify(d, failing) ==
    /\ "verifier" \in Faults
    /\ Renewed(Hashed(d))
    /\ tree' = Copy(failing)

\* A baseline that passes is refused, after a close that may raise as any other does: the
\* tools then work on what it left, with the passing result.
ResetRefuses(d, failing) ==
    LET result == RunOf(failing, TRUE) IN
    /\ result.passed
    /\ \/ Renewed(NewEnv) /\ tree' = NoAudit.tree
       \/ /\ "rmtree" \in Faults
          /\ Renewed([Based(d, result) EXCEPT !.raised = TRUE])
          /\ tree' \in Remnants(Copy(failing))

\* The fixture is copied and its verifier run, which fails.
ResetCopies(d, failing) ==
    /\ \E result \in {RunOf(failing, TRUE), TimedOut} : ~result.passed /\ Renewed(Based(d, result))
    /\ tree' = Copy(failing)

----------------------------------------------------------------------------
(* The tools                                                               *)

\* _act while the environment was never reset: EnvironmentError, and the episode is over.
ActUnready ==
    /\ Active /\ ~env.ready
    /\ reward' = 0 /\ completed' = TRUE
    /\ Closed \/ (CloseRaises /\ UNCHANGED env)
    /\ UNCHANGED audit

Stepped == [env EXCEPT !.steps = @ + 1]
Acting == Active /\ env.ready /\ env.steps < MaxSteps

\* The step is not the last one.
Continues(e) == env' = e /\ UNCHANGED <<held, completed, reward, disk, audit>>

\* A terminated result is graded at once.
Ends(kind, result, e) == Complete(kind, result, e) \/ CompleteRaises(e)

ActOverBudget ==
    /\ Active /\ env.ready /\ env.steps >= MaxSteps
    /\ Ends("budget", env.last, env)

\* list, search, read, a refusal of the guard, or a tool error.
ActLooks == Acting /\ Continues(Stepped) /\ UNCHANGED tree

\* An edit that is applied leaves any tests failing, or a repository that does not load.
ActEdits ==
    /\ Acting
    /\ \E failing \in SUBSET Nodes, loads \in BOOLEAN :
          tree' = [tree EXCEPT !.failing = failing, !.loads = loads, !.differs = TRUE]
    /\ Continues([Stepped EXCEPT !.edited = TRUE, !.patched = TRUE])

\* write_text opens the file for writing, which empties it, before it may raise: a tool error
\* that leaves some other file behind and nothing noted.
ActEditFails ==
    /\ "write" \in Faults /\ Acting
    /\ \E failing \in SUBSET Nodes, loads \in BOOLEAN :
          tree' = [tree EXCEPT !.failing = failing, !.loads = loads, !.differs = TRUE]
    /\ Continues([Stepped EXCEPT !.torn = TRUE])

ActViolates ==
    /\ Acting
    /\ Ends("violation", env.last, [Stepped EXCEPT !.violated = TRUE])

Asked == [Stepped EXCEPT !.asked = @ \/ env.patched]
Verified(result) == [Asked EXCEPT !.last = result, !.edited = FALSE, !.torn = FALSE]

\* The verifier cannot be started, which is a tool error.
VerifierRaises == "verifier" \in Faults /\ Continues(Asked) /\ UNCHANGED tree

ActRunsTests ==
    /\ Acting
    /\ \/ VerifierRaises
       \/ \E result \in Outcomes :
             IF result.passed THEN Ends("run_tests", result, Verified(result))
             ELSE Continues(Verified(result)) /\ UNCHANGED tree

\* finish reuses a failure that no edit followed, and refuses to end on one too early.
ActFinishes ==
    /\ Acting
    /\ LET reruns == ~env.last.given \/ env.last.passed \/ env.edited IN
       \/ reruns /\ VerifierRaises
       \/ \E result \in (IF reruns THEN Outcomes ELSE {env.last}) :
             LET e == IF reruns THEN Verified(result) ELSE Asked IN
             IF ~result.passed /\ ~result.timed_out /\ MaxSteps - (env.steps + 1) >= 2
             THEN Continues(e) /\ UNCHANGED tree
             ELSE Ends("finish", result, e)

\* get_reward finalizes a running episode; what it raises leaves the episode running.
GetReward ==
    /\ Active /\ env.ready
    /\ \E result \in Outcomes :
          Ends("finalize", result, [env EXCEPT !.last = result, !.edited = FALSE, !.torn = FALSE])

----------------------------------------------------------------------------
Init ==
    /\ held = FALSE /\ completed = FALSE /\ reward = 0
    /\ env = NewEnv /\ disk = {} /\ audit = NoAudit
    /\ tree = NoAudit.tree

Reset ==
    \/ ResetFailsToClose \/ ResetWithoutSource \/ ResetFailsToCopy
    \/ \E d \in Dirs \ disk, failing \in Fixtures :
          \/ ResetFailsToHash(d, failing) \/ ResetFailsToVerify(d, failing)
          \/ ResetRefuses(d, failing) \/ ResetCopies(d, failing)

Act ==
    \/ ActUnready \/ ActOverBudget \/ ActLooks \/ ActEdits \/ ActEditFails
    \/ ActViolates \/ ActRunsTests \/ ActFinishes

Next == Reset \/ Act \/ GetReward

Spec == Init /\ [][Next]_vars

----------------------------------------------------------------------------
\* Whichever call of a reset, a step or a close fails, a directory that was made stays with
\* the object whose next reset removes it: there is never more than that one.
DirectoriesAreOwned == disk \subseteq {env.dir} /\ (disk # {} => held)

\* The reward is 1 exactly for the episodes that earned it: the tests pass on the files as
\* they were graded, the policy changed them and did nothing forbidden.  The converse is
\* for the endings that ran the verifier last, or reused a failure of these files: not after
\* an edit that failed and yet wrote.  The exception of the first half is an episode that
\* goes on although a grading of it, or its reset, raised half way: ended on its budget, it
\* is credited with a passing result that its later edits undid, or that was the baseline's;
\* without hashes it is credited with a change it did not make.
RewardIsEarned ==
    LET repaired == /\ audit.tree.failing = {} /\ audit.tree.loads /\ audit.tree.differs
                    /\ ~audit.grading.violated
    IN  /\ reward = 1 /\ ~audit.raised => repaired
        /\ /\ completed /\ repaired /\ audit.kind \in {"finish", "finalize", "run_tests"}
           /\ ~audit.grading.final.timed_out /\ ~audit.torn /\ ~held
           => reward = 1

\* Without the exception it does not hold.
EveryRewardIsEarned ==
    reward = 1 => audit.tree.failing = {} /\ audit.tree.loads /\ audit.tree.differs

\* The trainer, the worker and the collector agree on what a success is, and no partial
\* credit comes near one: -1 for a violation, 1 for a success, at most a half otherwise, and
\* conservative-v2 never pays more than legacy-v1.
RewardsAgree ==
    LET g == audit.grading
        c == TrainingReward(g, "conservative-v2")
        l == TrainingReward(g, "legacy-v1")
    IN  /\ audit.kind # "none" => (reward = 1 <=> c = 10000)
        /\ c <= l
        /\ (c \in {-10000, 10000} \/ c \in 0 .. 5000) /\ (l \in {-10000, 10000} \/ l \in 0 .. 5000)
        /\ c = 10000 <=> l = 10000

\* reward_shaping.py: "Unknown status, invalid patches and newly failing tests earn nothing."
\* (But for an episode that ends on its budget, which is graded on its last result, as it is;
\* the collector never lets one; and for a finish that follows an edit which failed and yet
\* wrote, and reuses the failure from before.)
NewFailuresEarnNothing ==
    LET t == audit.tree
        credit == TrainingReward(audit.grading, "conservative-v2")
    IN  t.whole /\ audit.kind # "budget" /\ ~audit.torn /\ 0 < credit /\ credit < 10000 =>
            t.loads /\ t.failing \subseteq t.first

\* regression_free says that no test but the declared FAIL_TO_PASS nodes fails.
RegressionFreeIsReal ==
    audit.kind \notin {"none", "violation", "budget"} /\ audit.tree.whole /\ ~audit.torn
    /\ RegressionFree(audit.grading.final)
        => audit.tree.loads /\ audit.tree.failing \subseteq FailToPass

\* The episode the trainer sees.
Local == INSTANCE Episode WITH
            phase <- IF Active THEN "running" ELSE IF completed THEN "over" ELSE "none",
            reward <- reward, Grades <- {0, 1}, NoReward <- 0
ImplementsEpisode == Local!Spec
=============================================================================
