------------------------- MODULE LocalEpisodeProofs -------------------------
(***************************************************************************)
(* Proofs about LocalEpisode, for every repository, task and set of        *)
(* faults: directories stay owned, the reward is the one the files earned, *)
(* and the environment implements Episode.                                 *)
(***************************************************************************)
EXTENDS LocalEpisode, FiniteSetTheorems, TLAPS

\* The results an environment may hold.
Results == {NoResult, TimedOut} \cup {RunOf(f, l) : f \in SUBSET Nodes, l \in BOOLEAN}

Envs == [dir : Dirs \cup {NoDir}, ready : BOOLEAN, hashed : BOOLEAN, steps : Nat,
         baseline : Results, last : Results, edited : BOOLEAN, patched : BOOLEAN,
         violated : BOOLEAN, asked : BOOLEAN, raised : BOOLEAN, torn : BOOLEAN]

\* The tests of a repository pass.
Repaired(t) == t.failing = {} /\ t.loads

\* A running environment holds a passing result, or no hashes, only if its reset or the
\* ending it asked for raised, and a failure that no edit followed is one of the files as
\* they are.
Remembers(e, t) ==
    /\ e.ready => e.hashed \/ e.raised
    /\ e.last.passed => e.raised
    /\ ~e.edited /\ ~e.torn /\ e.last.given /\ ~e.last.timed_out /\ ~e.last.passed
       => ~Repaired(t)

\* The parts of the inductive invariant.
Typed == env \in Envs /\ tree \in Tree /\ held \in BOOLEAN /\ completed \in BOOLEAN
Running == Active => reward = 0 /\ audit = NoAudit /\ Remembers(env, tree)
Waiting == reward = 1 => completed

IInv == Typed /\ DirectoriesAreOwned /\ NoDir \notin disk /\ Running /\ Waiting /\ RewardIsEarned

----------------------------------------------------------------------------
(* Results                                                                 *)

\* What a verifier run that ended reports: it passes if and only if the files are repaired.
LEMMA RunFacts ==
    ASSUME NEW f, NEW l \in BOOLEAN
    PROVE  /\ RunOf(f, l).given /\ ~RunOf(f, l).timed_out
           /\ RunOf(f, l).passed \in BOOLEAN
           /\ RunOf(f, l).passed <=> f = {} /\ l
<1>1. CASE f = {} /\ l
    BY <1>1 DEF RunOf, Passed, NoResult
<1>2. CASE ~(f = {} /\ l)
    <2> DEFINE result == [NoResult EXCEPT !.given = TRUE, !.exit = 1]
    <2>1. RunOf(f, l) = Failed(f, l)
        BY <1>2 DEF RunOf
    <2>2. Failed(f, l).given = TRUE /\ Failed(f, l).timed_out = FALSE /\ Failed(f, l).passed = FALSE
        <3>1. CASE Runner = "pytest" /\ l
            BY <3>1 DEF Failed, NoResult
        <3>2. CASE Runner = "pytest" /\ ~l
            BY <3>2 DEF Failed, NoResult
        <3>3. CASE Runner = "unittest" /\ l
            BY <3>3 DEF Failed, NoResult
        <3>4. CASE Runner = "unittest" /\ ~l
            BY <3>4 DEF Failed, NoResult
        <3> QED
            BY <3>1, <3>2, <3>3, <3>4, ShapingAssumption
    <2> QED
        BY <1>2, <2>1, <2>2
<1> QED
    BY <1>1, <1>2

LEMMA RunType ==
    ASSUME NEW f \in SUBSET Nodes, NEW l \in BOOLEAN
    PROVE  RunOf(f, l) \in Results
BY DEF Results

LEMMA NoResultFacts ==
    /\ ~NoResult.given /\ ~NoResult.passed /\ ~NoResult.timed_out
    /\ TimedOut.given /\ ~TimedOut.passed /\ TimedOut.timed_out
BY DEF NoResult, TimedOut

\* The results the verifier may give for the files.
LEMMA OutcomeFacts ==
    ASSUME tree \in Tree, NEW result \in Outcomes
    PROVE  /\ result \in Results /\ result.given
           /\ result.passed => Repaired(tree)
           /\ ~result.timed_out => (result.passed <=> Repaired(tree))
<1>1. tree.failing \in SUBSET Nodes /\ tree.loads \in BOOLEAN
    BY DEF Tree
<1>2. CASE result = TimedOut
    BY <1>2, NoResultFacts DEF Results
<1>3. CASE result = RunOf(tree.failing, tree.loads)
    <2>1. result \in Results
        BY <1>1, <1>3 DEF Results
    <2>2. result.given /\ (result.passed <=> tree.failing = {} /\ tree.loads)
        BY <1>1, <1>3, RunFacts
    <2> QED
        BY <2>1, <2>2 DEF Repaired
<1> QED
    BY <1>2, <1>3 DEF Outcomes

LEMMA NewEnvType == NewEnv \in Envs
BY DEF NewEnv, Envs, Results

LEMMA NewTreeType == NoAudit.tree \in Tree
BY DEF NoAudit, Tree

----------------------------------------------------------------------------
(* Closing and endings                                                     *)

LEMMA RemnantFacts ==
    ASSUME NEW t \in Tree, NEW u \in Remnants(t)
    PROVE  u \in Tree /\ (u = t \/ (~Repaired(u) /\ ~u.whole))
<1> DEFINE v == [t EXCEPT !.loads = FALSE, !.differs = TRUE, !.whole = FALSE]
<1>1. v \in Tree /\ ~v.loads /\ ~v.whole
    BY DEF Tree
<1>2. u = t \/ u = v
    BY DEF Remnants
<1> HIDE DEF v
<1> QED
    BY <1>1, <1>2 DEF Repaired

LEMMA CloseRaisesFacts ==
    ASSUME tree \in Tree, CloseRaises
    PROVE  /\ tree' \in Tree /\ held' = held /\ disk' = disk
           /\ tree' = tree \/ (~Repaired(tree') /\ ~tree'.whole)
BY RemnantFacts DEF CloseRaises

\* What a result must be for the reward of an ending to be right.
Settles(kind, result, e) ==
    /\ result.passed /\ ~e.raised /\ ~e.violated => Repaired(tree)
    /\ e.hashed \/ e.raised
    /\ /\ kind \in {"finish", "finalize", "run_tests"} /\ ~result.timed_out /\ ~e.torn
       /\ Repaired(tree)
       => result.given /\ result.passed

LEMMA CompleteInv ==
    ASSUME IInv, Active, NEW kind, NEW result, NEW e \in Envs, e.dir = env.dir,
           Settles(kind, result, e), Complete(kind, result, e)
    PROVE  IInv'
<1>1. completed' = TRUE /\ reward' \in {0, 1} /\ ~Active'
    BY DEF Complete, Active
<1>2. Typed'
    <2>1. CASE Closed
        BY <1>1, <2>1, NewEnvType, NewTreeType DEF Closed, Typed
    <2>2. CASE CloseRaises /\ env' = e
        <3>1. tree' \in Tree /\ held' = held
            BY <2>2, CloseRaisesFacts DEF IInv, Typed
        <3> QED
            BY <1>1, <2>2, <3>1 DEF IInv, Typed
    <2> QED
        BY <2>1, <2>2 DEF Complete
<1>3. DirectoriesAreOwned' /\ NoDir \notin disk'
    <2>1. CASE Closed
        BY <2>1 DEF Closed, DirectoriesAreOwned, IInv
    <2>2. CASE CloseRaises /\ env' = e
        BY <2>2, CloseRaisesFacts DEF DirectoriesAreOwned, IInv, Typed
    <2> QED
        BY <2>1, <2>2 DEF Complete
<1>4. /\ audit'.kind = kind /\ audit'.tree = tree /\ audit'.raised = e.raised
      /\ audit'.torn = e.torn
      /\ audit'.grading.violated = e.violated /\ audit'.grading.final = result
    <2>1. audit' = Audit(kind, result, e)
        BY DEF Complete
    <2> QED
        BY <2>1 DEF Audit, Grading
<1>5. reward' = IF result.given /\ result.passed /\ Differs(e) /\ ~e.violated THEN 1 ELSE 0
    BY DEF Complete
<1>6. RewardIsEarned'
    <2>1. ASSUME reward' = 1, ~audit'.raised
          PROVE  audit'.tree.failing = {} /\ audit'.tree.loads /\ audit'.tree.differs
                 /\ ~audit'.grading.violated
        BY <1>4, <1>5, <2>1 DEF Settles, Repaired, Differs
    <2>2. ASSUME audit'.tree.failing = {}, audit'.tree.loads, audit'.tree.differs,
                 ~audit'.grading.violated,
                 audit'.kind \in {"finish", "finalize", "run_tests"},
                 ~audit'.grading.final.timed_out, ~audit'.torn
          PROVE  reward' = 1
        BY <1>4, <1>5, <2>2 DEF Settles, Repaired, Differs
    <2> QED
        BY <2>1, <2>2 DEF RewardIsEarned
<1>7. Running' /\ Waiting'
    BY <1>1 DEF Running, Waiting
<1> QED
    BY <1>2, <1>3, <1>6, <1>7 DEF IInv

\* A call after which the episode goes on with the environment e.
LEMMA GoesOnInv ==
    ASSUME IInv, Active, NEW e \in Envs, e.dir = env.dir, env' = e, tree' \in Tree,
           Remembers(e, tree'), UNCHANGED <<held, completed, reward, disk, audit>>
    PROVE  IInv'
<1>1. Typed'
    BY DEF IInv, Typed
<1>2. DirectoriesAreOwned' /\ NoDir \notin disk'
    BY DEF IInv, DirectoriesAreOwned
<1>3. Running' /\ Waiting'
    BY DEF IInv, Running, Waiting, Active
<1>4. RewardIsEarned'
    BY DEF IInv, RewardIsEarned
<1> QED
    BY <1>1, <1>2, <1>3, <1>4 DEF IInv

\* An ending is graded, or raises and is taken back.
LEMMA EndsInv ==
    ASSUME IInv, Active, NEW kind, NEW result, NEW e \in Envs, e.dir = env.dir,
           Settles(kind, result, e), Ends(kind, result, e),
           Remembers([e EXCEPT !.raised = TRUE], tree)
    PROVE  IInv'
<1>1. CASE Complete(kind, result, e)
    BY <1>1, CompleteInv
<1>2. CASE CompleteRaises(e)
    <2> DEFINE f == [e EXCEPT !.raised = TRUE]
    <2>1. f \in Envs /\ f.dir = env.dir /\ env' = f
        BY <1>2 DEF CompleteRaises, Envs
    <2>2. UNCHANGED <<held, completed, reward, disk, audit>> /\ tree' = tree
        BY <1>2 DEF CompleteRaises
    <2>3. tree' \in Tree /\ Remembers(f, tree')
        BY <2>2 DEF IInv, Typed
    <2> HIDE DEF f
    <2> QED
        BY <2>1, <2>2, <2>3, GoesOnInv
<1> QED
    BY <1>1, <1>2 DEF Ends

----------------------------------------------------------------------------
(* reset                                                                   *)

LEMMA RenewedInv ==
    ASSUME IInv, NEW e \in Envs, Renewed(e), tree' \in Tree, Remembers(e, tree')
    PROVE  IInv'
<1>1. Typed'
    BY DEF Renewed, Typed
<1>2. DirectoriesAreOwned' /\ NoDir \notin disk'
    BY DEF Renewed, DirectoriesAreOwned, IInv
<1>3. Running' /\ Waiting'
    BY DEF Renewed, Running, Waiting
<1>4. RewardIsEarned'
    BY DEF Renewed, RewardIsEarned
<1> QED
    BY <1>1, <1>2, <1>3, <1>4 DEF IInv

\* The environments a reset that copied the fixture may leave.
LEMMA CopiedFacts ==
    ASSUME NEW d \in Dirs
    PROVE  /\ Copied(d) \in Envs /\ Copied(d).last = NewEnv.last
           /\ Copied(d).baseline = NewEnv.baseline
           /\ Hashed(d) \in Envs /\ Hashed(d).last = NewEnv.last /\ Hashed(d).hashed = TRUE
           /\ Hashed(d).baseline = NewEnv.baseline
<1>1. Copied(d) \in Envs /\ Copied(d).last = NewEnv.last /\ Copied(d).baseline = NewEnv.baseline
    BY NewEnvType DEF Copied, Envs
<1> HIDE DEF Copied
<1> QED
    BY <1>1 DEF Hashed, Envs

LEMMA BasedFacts ==
    ASSUME NEW d \in Dirs, NEW result \in Results
    PROVE  /\ Based(d, result) \in Envs /\ Based(d, result).last = result
           /\ Based(d, result).baseline = result /\ Based(d, result).hashed = TRUE
BY CopiedFacts DEF Based, Envs

LEMMA ResetInv ==
    ASSUME IInv, Reset
    PROVE  IInv'
<1>0. ~NewEnv.last.passed /\ ~NewEnv.last.given /\ ~NewEnv.ready
    BY NoResultFacts DEF NewEnv
<1>1. CASE ResetFailsToClose
    <2>1. /\ tree' \in Tree /\ held' = held /\ disk' = disk
          /\ tree' = tree \/ ~Repaired(tree')
        BY <1>1, CloseRaisesFacts DEF ResetFailsToClose, IInv, Typed
    <2>2. held /\ UNCHANGED <<env, completed, reward, audit>>
        BY <1>1 DEF ResetFailsToClose
    <2>3. Typed' /\ DirectoriesAreOwned' /\ NoDir \notin disk'
        BY <2>1, <2>2 DEF IInv, Typed, DirectoriesAreOwned
    <2>4. Running' /\ Waiting'
        BY <2>1, <2>2 DEF IInv, Running, Waiting, Active, Remembers
    <2>5. RewardIsEarned'
        BY <2>1, <2>2 DEF IInv, RewardIsEarned
    <2> QED
        BY <2>3, <2>4, <2>5 DEF IInv
<1>2. CASE ResetWithoutSource
    <2>1. Renewed(NewEnv) /\ tree' \in Tree
        BY <1>2, NewTreeType DEF ResetWithoutSource
    <2>2. Remembers(NewEnv, tree')
        BY <1>0 DEF Remembers
    <2> QED
        BY <2>1, <2>2, NewEnvType, RenewedInv
<1>3. CASE ResetFailsToCopy
    <2> PICK d \in Dirs \ disk : Renewed([NewEnv EXCEPT !.dir = d])
        BY <1>3 DEF ResetFailsToCopy
    <2> DEFINE e == [NewEnv EXCEPT !.dir = d]
    <2>1. e \in Envs /\ e.last = NewEnv.last /\ e.ready = NewEnv.ready
        BY NewEnvType DEF Envs
    <2>2. tree' \in Tree
        BY <1>3, NewTreeType DEF ResetFailsToCopy
    <2>3. Remembers(e, tree')
        BY <1>0, <2>1 DEF Remembers
    <2>4. Renewed(e)
        OBVIOUS
    <2> HIDE DEF e
    <2> QED
        BY <2>1, <2>2, <2>3, <2>4, RenewedInv
<1>4. ASSUME NEW d \in Dirs \ disk, NEW failing \in Fixtures,
             \/ ResetFailsToHash(d, failing) \/ ResetFailsToVerify(d, failing)
             \/ ResetRefuses(d, failing) \/ ResetCopies(d, failing)
      PROVE  IInv'
    <2>1. failing \in SUBSET Nodes
        BY LocalAssumption
    <2>2. Copy(failing) \in Tree /\ (Repaired(Copy(failing)) <=> failing = {})
        BY <2>1 DEF Copy, Tree, Repaired
    <2>3. /\ RunOf(failing, TRUE) \in Results
          /\ RunOf(failing, TRUE).passed <=> failing = {}
        <3>1. RunOf(failing, TRUE) \in Results
            BY <2>1, RunType
        <3>2. RunOf(failing, TRUE).passed <=> failing = {}
            BY RunFacts
        <3> QED
            BY <3>1, <3>2
    <2>4. CASE ResetFailsToHash(d, failing)
        <3> DEFINE e == [Copied(d) EXCEPT !.raised = TRUE]
        <3>1. e \in Envs /\ e.last = NewEnv.last /\ e.raised = TRUE
            BY CopiedFacts DEF Envs
        <3>2. Renewed(e) /\ tree' = Copy(failing)
            BY <2>4 DEF ResetFailsToHash
        <3> HIDE DEF e
        <3>3. Remembers(e, tree')
            BY <1>0, <3>1 DEF Remembers
        <3> QED
            BY <2>2, <3>1, <3>2, <3>3, RenewedInv
    <2>5. CASE ResetFailsToVerify(d, failing)
        <3>1. Renewed(Hashed(d)) /\ tree' = Copy(failing)
            BY <2>5 DEF ResetFailsToVerify
        <3>2. Remembers(Hashed(d), tree')
            BY <1>0, CopiedFacts DEF Remembers
        <3> QED
            BY <2>2, <3>1, <3>2, CopiedFacts, RenewedInv
    <2>6. CASE Renewed(NewEnv) /\ tree' = NoAudit.tree
        <3>1. Remembers(NewEnv, tree')
            BY <1>0 DEF Remembers
        <3> QED
            BY <2>6, <3>1, NewEnvType, NewTreeType, RenewedInv
    <2> DEFINE run == RunOf(failing, TRUE)
               e == [Based(d, run) EXCEPT !.raised = TRUE]
    <2>7. CASE run.passed /\ Renewed(e) /\ tree' \in Remnants(Copy(failing))
        <3>1. Based(d, run) \in Envs /\ Based(d, run).last = run
            BY <2>3, BasedFacts
        <3>2. e \in Envs /\ e.last = run /\ e.raised = TRUE
            <4> HIDE DEF run
            <4> QED
                BY <3>1 DEF Envs
        <3>3. tree' \in Tree
            BY <2>2, <2>7, RemnantFacts
        <3> HIDE DEF e, run
        <3>4. Remembers(e, tree')
            BY <2>7, <3>2 DEF Remembers
        <3> QED
            BY <2>7, <3>2, <3>3, <3>4, RenewedInv
    <2>8. ASSUME NEW result \in {run, TimedOut}, ~result.passed, Renewed(Based(d, result)),
                 tree' = Copy(failing)
          PROVE  IInv'
        <3>1. result \in Results
            <4>1. TimedOut \in Results
                BY DEF Results
            <4> QED
                BY <2>3, <4>1
        <3>2. ~result.timed_out => ~Repaired(tree')
            BY <2>2, <2>3, <2>8, NoResultFacts
        <3>3. Remembers(Based(d, result), tree')
            <4> HIDE DEF run
            <4> QED
                BY <2>8, <3>1, <3>2, BasedFacts DEF Remembers
        <3> QED
            BY <2>2, <2>8, <3>1, <3>3, BasedFacts, RenewedInv
    <2>9. CASE ResetRefuses(d, failing)
        BY <2>6, <2>7, <2>9 DEF ResetRefuses
    <2>10. CASE ResetCopies(d, failing)
        BY <2>8, <2>10 DEF ResetCopies
    <2> QED
        BY <1>4, <2>4, <2>5, <2>9, <2>10
<1> QED
    BY <1>1, <1>2, <1>3, <1>4 DEF Reset

----------------------------------------------------------------------------
(* The tools                                                               *)

LEMMA SteppedFacts ==
    ASSUME env \in Envs
    PROVE  /\ Stepped \in Envs /\ Stepped.dir = env.dir /\ Stepped.last = env.last
           /\ Stepped.edited = env.edited /\ Stepped.raised = env.raised
           /\ Stepped.violated = env.violated /\ Stepped.torn = env.torn
           /\ Stepped.hashed = env.hashed /\ Stepped.ready = env.ready
           /\ Asked \in Envs /\ Asked.dir = env.dir /\ Asked.last = env.last
           /\ Asked.edited = env.edited /\ Asked.raised = env.raised
           /\ Asked.violated = env.violated /\ Asked.torn = env.torn
           /\ Asked.hashed = env.hashed /\ Asked.ready = env.ready
<1>1. /\ Stepped \in Envs /\ Stepped.dir = env.dir /\ Stepped.last = env.last
      /\ Stepped.edited = env.edited /\ Stepped.raised = env.raised
      /\ Stepped.violated = env.violated /\ Stepped.torn = env.torn
      /\ Stepped.hashed = env.hashed /\ Stepped.ready = env.ready
    BY DEF Stepped, Envs
<1>2. (Stepped.asked \/ env.patched) \in BOOLEAN
    OBVIOUS
<1>3. Asked = [Stepped EXCEPT !.asked = Stepped.asked \/ env.patched]
    BY DEF Asked
<1> HIDE DEF Stepped
<1> QED
    BY <1>1, <1>2, <1>3 DEF Envs

LEMMA VerifiedFacts ==
    ASSUME env \in Envs, NEW result \in Results
    PROVE  /\ Verified(result) \in Envs /\ Verified(result).dir = env.dir
           /\ Verified(result).last = result /\ ~Verified(result).edited
           /\ ~Verified(result).torn
           /\ Verified(result).hashed = env.hashed /\ Verified(result).ready = env.ready
           /\ Verified(result).raised = env.raised /\ Verified(result).violated = env.violated
<1>1. Verified(result) = [Asked EXCEPT !.last = result, !.edited = FALSE, !.torn = FALSE]
    BY DEF Verified
<1> QED
    BY <1>1, SteppedFacts DEF Envs

\* An environment remembers as well when an ending raised as it did before.
LEMMA RaisedRemembers ==
    ASSUME NEW e \in Envs,
           ~e.edited /\ ~e.torn /\ e.last.given /\ ~e.last.timed_out /\ ~e.last.passed
           => ~Repaired(tree)
    PROVE  Remembers([e EXCEPT !.raised = TRUE], tree)
<1> DEFINE f == [e EXCEPT !.raised = TRUE]
<1>1. f.raised = TRUE /\ f.edited = e.edited /\ f.torn = e.torn /\ f.last = e.last
    BY DEF Envs
<1> HIDE DEF f
<1>2. Remembers(f, tree)
    BY <1>1 DEF Remembers
<1> QED
    BY <1>2 DEF f

\* A result that is the verifier's word on the files settles an ending.
LEMMA OutcomeSettles ==
    ASSUME tree \in Tree, NEW result \in Outcomes, NEW kind, NEW e, e.hashed \/ e.raised
    PROVE  Settles(kind, result, e)
BY OutcomeFacts DEF Settles

LEMMA ActUnreadyInv ==
    ASSUME IInv, ActUnready
    PROVE  IInv'
<1>1. reward = 0 /\ audit = NoAudit /\ Active
    BY DEF ActUnready, IInv, Running
<1>2. completed' = TRUE /\ reward' = 0 /\ audit' = audit /\ ~Active'
    BY DEF ActUnready, Active
<1>3. Typed'
    <2>1. CASE Closed
        BY <1>2, <2>1, NewEnvType, NewTreeType DEF Closed, Typed
    <2>2. CASE CloseRaises /\ env' = env
        BY <1>2, <2>2, CloseRaisesFacts DEF IInv, Typed
    <2> QED
        BY <2>1, <2>2 DEF ActUnready
<1>4. DirectoriesAreOwned' /\ NoDir \notin disk'
    <2>1. CASE Closed
        BY <2>1 DEF Closed, DirectoriesAreOwned, IInv
    <2>2. CASE CloseRaises /\ env' = env
        BY <2>2, CloseRaisesFacts DEF DirectoriesAreOwned, IInv, Typed
    <2> QED
        BY <2>1, <2>2 DEF ActUnready
<1>5. audit'.kind = "none"
    BY <1>1, <1>2 DEF NoAudit
<1>6. RewardIsEarned' /\ Running' /\ Waiting'
    BY <1>2, <1>5 DEF RewardIsEarned, Running, Waiting
<1> QED
    BY <1>3, <1>4, <1>6 DEF IInv

LEMMA ActInv ==
    ASSUME IInv, Act
    PROVE  IInv'
<1>0. env \in Envs /\ tree \in Tree
    BY DEF IInv, Typed
<1>1. ASSUME Active PROVE Remembers(env, tree)
    BY <1>1 DEF IInv, Running
<1>a. ASSUME Active, env.ready PROVE env.hashed \/ env.raised
    BY <1>1, <1>a DEF Remembers
<1>2. CASE ActUnready
    BY <1>2, ActUnreadyInv
<1>3. CASE ActOverBudget
    <2>1. Active /\ env.ready /\ Ends("budget", env.last, env)
        BY <1>3 DEF ActOverBudget
    <2>2. Remembers(env, tree)
        BY <1>1, <2>1
    <2>3. Settles("budget", env.last, env)
        BY <2>1, <2>2 DEF Settles, Remembers
    <2>4. Remembers([env EXCEPT !.raised = TRUE], tree)
        BY <1>0, <2>2, RaisedRemembers DEF Remembers
    <2> QED
        BY <1>0, <2>1, <2>3, <2>4, EndsInv
<1>4. CASE ActLooks
    <2>1. Active /\ Continues(Stepped) /\ tree' = tree
        BY <1>4 DEF ActLooks, Acting
    <2>2. Remembers(Stepped, tree')
        BY <1>0, <1>1, <2>1, SteppedFacts DEF Remembers
    <2>3. env' = Stepped /\ UNCHANGED <<held, completed, reward, disk, audit>> /\ tree' \in Tree
        BY <1>0, <2>1 DEF Continues
    <2> QED
        BY <1>0, <2>1, <2>2, <2>3, SteppedFacts, GoesOnInv
<1>5. CASE ActEdits
    <2> DEFINE e == [Stepped EXCEPT !.edited = TRUE, !.patched = TRUE]
    <2>1. Active /\ Continues(e)
        BY <1>5 DEF ActEdits, Acting
    <2>2. /\ e \in Envs /\ e.dir = env.dir /\ e.edited = TRUE /\ e.last = env.last
          /\ e.raised = env.raised /\ e.hashed = env.hashed /\ e.ready = env.ready
        BY <1>0, SteppedFacts DEF Envs
    <2>3. tree' \in Tree
        <3> PICK failing \in SUBSET Nodes, loads \in BOOLEAN :
                tree' = [tree EXCEPT !.failing = failing, !.loads = loads, !.differs = TRUE]
            BY <1>5 DEF ActEdits
        <3> QED
            BY <1>0 DEF Tree
    <2> HIDE DEF e
    <2>4. Remembers(e, tree')
        BY <1>1, <2>1, <2>2 DEF Remembers
    <2>5. env' = e /\ UNCHANGED <<held, completed, reward, disk, audit>>
        BY <2>1 DEF Continues
    <2> QED
        BY <2>1, <2>2, <2>3, <2>4, <2>5, GoesOnInv
<1>b. CASE ActEditFails
    <2> DEFINE e == [Stepped EXCEPT !.torn = TRUE]
    <2>1. Active /\ Continues(e)
        BY <1>b DEF ActEditFails, Acting
    <2>2. /\ e \in Envs /\ e.dir = env.dir /\ e.torn = TRUE /\ e.last = env.last
          /\ e.raised = env.raised /\ e.hashed = env.hashed /\ e.ready = env.ready
        BY <1>0, SteppedFacts DEF Envs
    <2>3. tree' \in Tree
        <3> PICK failing \in SUBSET Nodes, loads \in BOOLEAN :
                tree' = [tree EXCEPT !.failing = failing, !.loads = loads, !.differs = TRUE]
            BY <1>b DEF ActEditFails
        <3> QED
            BY <1>0 DEF Tree
    <2> HIDE DEF e
    <2>4. Remembers(e, tree')
        BY <1>1, <2>1, <2>2 DEF Remembers
    <2>5. env' = e /\ UNCHANGED <<held, completed, reward, disk, audit>>
        BY <2>1 DEF Continues
    <2> QED
        BY <2>1, <2>2, <2>3, <2>4, <2>5, GoesOnInv
<1>6. CASE ActViolates
    <2> DEFINE e == [Stepped EXCEPT !.violated = TRUE]
    <2>1. Active /\ env.ready /\ Ends("violation", env.last, e)
        BY <1>6 DEF ActViolates, Acting
    <2>2. /\ e \in Envs /\ e.dir = env.dir /\ e.edited = env.edited /\ e.last = env.last
          /\ e.violated = TRUE /\ e.torn = env.torn /\ e.hashed = env.hashed
          /\ e.raised = env.raised
        BY <1>0, SteppedFacts DEF Envs
    <2> HIDE DEF e
    <2>3. Settles("violation", env.last, e)
        BY <1>a, <2>1, <2>2 DEF Settles
    <2>4. Remembers([e EXCEPT !.raised = TRUE], tree)
        BY <1>1, <2>1, <2>2, RaisedRemembers DEF Remembers
    <2> QED
        BY <2>1, <2>2, <2>3, <2>4, EndsInv
<1>7. ASSUME Active, VerifierRaises PROVE IInv'
    <2>1. env' = Asked /\ UNCHANGED <<held, completed, reward, disk, audit>> /\ tree' = tree
        BY <1>7 DEF VerifierRaises, Continues
    <2>2. Remembers(Asked, tree')
        BY <1>0, <1>1, <1>7, <2>1, SteppedFacts DEF Remembers
    <2> QED
        BY <1>0, <1>7, <2>1, <2>2, SteppedFacts, GoesOnInv
\* An answer of the verifier, or the one that finish has, ends the episode or goes on with it.
<1>8. ASSUME Active, env.ready, NEW result \in Results, NEW kind, NEW e \in Envs, e.dir = env.dir,
             e.last = result, Settles(kind, result, e),
             ~e.torn /\ ~result.timed_out /\ result.given /\ ~result.passed => ~Repaired(tree),
             Ends(kind, result, e) \/ (~result.passed /\ Continues(e) /\ tree' = tree)
      PROVE  IInv'
    <2>2. CASE Ends(kind, result, e)
        <3>1. Remembers([e EXCEPT !.raised = TRUE], tree)
            BY <1>8, RaisedRemembers
        <3> QED
            BY <1>8, <2>2, <3>1, EndsInv
    <2>3. CASE ~result.passed /\ Continues(e) /\ tree' = tree
        <3>1. Remembers(e, tree')
            BY <1>8, <2>3 DEF Remembers, Settles
        <3>2. env' = e /\ UNCHANGED <<held, completed, reward, disk, audit>>
            BY <2>3 DEF Continues
        <3> QED
            BY <1>0, <1>8, <2>3, <3>1, <3>2, GoesOnInv
    <2> QED
        BY <1>8, <2>2, <2>3
<1>c. ASSUME Active, env.ready, NEW result \in Outcomes, NEW kind
      PROVE  /\ result \in Results /\ Verified(result) \in Envs
             /\ Verified(result).dir = env.dir /\ Verified(result).last = result
             /\ Settles(kind, result, Verified(result))
             /\ ~result.timed_out /\ result.given /\ ~result.passed => ~Repaired(tree)
    <2>1. result \in Results
        BY <1>0, OutcomeFacts
    <2>2. Verified(result).hashed \/ Verified(result).raised
        BY <1>0, <1>a, <1>c, <2>1, VerifiedFacts
    <2>3. Settles(kind, result, Verified(result))
        BY <1>0, <2>2, OutcomeSettles
    <2> QED
        BY <1>0, <2>1, <2>3, OutcomeFacts, VerifiedFacts
<1>9. CASE ActRunsTests
    <2>1. Active /\ env.ready
        BY <1>9 DEF ActRunsTests, Acting
    <2>2. ASSUME NEW result \in Outcomes,
                 IF result.passed THEN Ends("run_tests", result, Verified(result))
                 ELSE Continues(Verified(result)) /\ UNCHANGED tree
          PROVE  IInv'
        <3>1. \/ Ends("run_tests", result, Verified(result))
              \/ ~result.passed /\ Continues(Verified(result)) /\ tree' = tree
            BY <2>2
        <3> QED
            BY <1>8, <1>c, <2>1, <3>1
    <2> QED
        BY <1>7, <1>9, <2>1, <2>2 DEF ActRunsTests
<1>10. CASE ActFinishes
    <2> DEFINE reruns == ~env.last.given \/ env.last.passed \/ env.edited
    <2>1. Active /\ env.ready
        BY <1>10 DEF ActFinishes, Acting
    <2>2. ASSUME NEW result \in Outcomes,
                 \/ Ends("finish", result, Verified(result))
                 \/ ~result.passed /\ Continues(Verified(result)) /\ tree' = tree
          PROVE  IInv'
        BY <1>8, <1>c, <2>1, <2>2
    <2>3. ASSUME ~reruns,
                 \/ Ends("finish", env.last, Asked)
                 \/ ~env.last.passed /\ Continues(Asked) /\ tree' = tree
          PROVE  IInv'
        <3>1. env.last \in Results
            BY <1>0 DEF Envs
        <3>2. ~Asked.torn /\ ~env.last.timed_out => ~Repaired(tree)
            BY <1>0, <1>1, <2>1, <2>3, SteppedFacts DEF Remembers
        <3>3. Settles("finish", env.last, Asked)
            BY <1>0, <1>a, <2>1, <2>3, <3>2, SteppedFacts DEF Settles
        <3> QED
            BY <1>0, <1>8, <2>1, <2>3, <3>1, <3>2, <3>3, SteppedFacts
    <2>4. \/ VerifierRaises
          \/ \E result \in (IF reruns THEN Outcomes ELSE {env.last}) :
                LET e == IF reruns THEN Verified(result) ELSE Asked IN
                IF ~result.passed /\ ~result.timed_out /\ MaxSteps - (env.steps + 1) >= 2
                THEN Continues(e) /\ UNCHANGED tree
                ELSE Ends("finish", result, e)
        BY <1>10 DEF ActFinishes
    <2> HIDE DEF reruns
    <2> QED
        BY <1>7, <2>1, <2>2, <2>3, <2>4
<1> QED
    BY <1>2, <1>3, <1>4, <1>5, <1>b, <1>6, <1>9, <1>10 DEF Act

LEMMA GetRewardInv ==
    ASSUME IInv, GetReward
    PROVE  IInv'
<1>0. env \in Envs /\ tree \in Tree /\ Active /\ (env.hashed \/ env.raised)
    BY DEF IInv, Typed, GetReward, Running, Remembers
<1> PICK result \in Outcomes :
        Ends("finalize", result, [env EXCEPT !.last = result, !.edited = FALSE, !.torn = FALSE])
    BY DEF GetReward
<1> DEFINE e == [env EXCEPT !.last = result, !.edited = FALSE, !.torn = FALSE]
<1>1. /\ result \in Results
      /\ ~result.timed_out /\ result.given /\ ~result.passed => ~Repaired(tree)
    BY <1>0, OutcomeFacts
<1>2. /\ e \in Envs /\ e.dir = env.dir /\ e.last = result
      /\ e.hashed = env.hashed /\ e.raised = env.raised
    BY <1>0, <1>1 DEF Envs
<1>3. Ends("finalize", result, e)
    OBVIOUS
<1> HIDE DEF e
<1>5. Settles("finalize", result, e)
    BY <1>0, <1>2, OutcomeSettles
<1>4. Remembers([e EXCEPT !.raised = TRUE], tree)
    BY <1>1, <1>2, RaisedRemembers
<1> QED
    BY <1>0, <1>1, <1>2, <1>3, <1>4, <1>5, EndsInv

----------------------------------------------------------------------------
THEOREM Invariant == Spec => []IInv
<1>1. Init => IInv
    <2> SUFFICES ASSUME Init PROVE IInv
        OBVIOUS
    <2>1. Typed
        BY NewEnvType, NewTreeType DEF Init, Typed
    <2>2. DirectoriesAreOwned /\ NoDir \notin disk /\ Running /\ Waiting
        BY DEF Init, DirectoriesAreOwned, Running, Waiting, Active
    <2>3. RewardIsEarned
        BY DEF Init, RewardIsEarned
    <2> QED
        BY <2>1, <2>2, <2>3 DEF IInv
<1>2. IInv /\ [Next]_vars => IInv'
    <2> SUFFICES ASSUME IInv, [Next]_vars PROVE IInv'
        OBVIOUS
    <2>1. CASE UNCHANGED vars
        BY <2>1 DEF vars, IInv, Typed, DirectoriesAreOwned, Running, Waiting, RewardIsEarned, Active
    <2> QED
        BY <2>1, ResetInv, ActInv, GetRewardInv DEF Next
<1> QED
    BY <1>1, <1>2, PTL DEF Spec

\* Whatever fails in a reset, a step or a close, there is at most one directory, and the
\* object that made it still holds its name.
THEOREM OwnedDirectories == Spec => []DirectoriesAreOwned
<1>1. IInv => DirectoriesAreOwned
    BY DEF IInv
<1> QED
    BY Invariant, <1>1, PTL

\* The trainer is paid for a repair if and only if there is one, but for an episode whose reset
\* or grading raised and an edit that failed and yet wrote: the cached result finish may reuse
\* is one of the files as they are.
THEOREM EarnedReward == Spec => []RewardIsEarned
<1>1. IInv => RewardIsEarned
    BY DEF IInv
<1> QED
    BY Invariant, <1>1, PTL

----------------------------------------------------------------------------
(* Partial credit                                                          *)

\* What the environment still knows of the repository: its first run is one of the copied
\* files, and a failure that no edit followed is the very run of the files as they are.
\* A directory that a close left in pieces is known to nobody.
Readings(failing, loads) == {NoResult, TimedOut, RunOf(failing, loads)}
FirstReadings(first) == {NoResult, TimedOut, RunOf(first, TRUE)}
Told(e, t) ==
    t.whole =>
        /\ e.baseline \in FirstReadings(t.first)
        /\ ~e.edited /\ ~e.torn /\ e.last.given /\ ~e.last.timed_out /\ ~e.last.passed
           => e.last = RunOf(t.failing, t.loads)

\* NewFailuresEarnNothing, of the graded episode a.
EarnsFairly(a) ==
    /\ a.tree.whole /\ a.kind # "budget" /\ ~a.torn
    /\ 0 < TrainingReward(a.grading, "conservative-v2")
    /\ TrainingReward(a.grading, "conservative-v2") < 10000
    => a.tree.loads /\ a.tree.failing \subseteq a.tree.first

CInv == (Active => Told(env, tree)) /\ EarnsFairly(audit)

LEMMA AllShown ==
    ASSUME IsFiniteSet(Nodes), Cardinality(Nodes) <= Visible, NEW failing \in SUBSET Nodes
    PROVE  Shown(failing) = failing
<1>1. ASSUME NEW n \in failing PROVE n \in Shown(failing)
    <2> DEFINE above == {m \in failing : m > n}
    <2>1. IsFiniteSet(Nodes \ {n}) /\ Cardinality(Nodes \ {n}) = Cardinality(Nodes) - 1
        BY FS_RemoveElement
    <2>2. above \subseteq Nodes \ {n}
        <3> SUFFICES ASSUME NEW m \in failing, m > n PROVE m \in Nodes /\ m # n
            OBVIOUS
        <3>1. n \in Nat /\ m \in Nat
            BY ShapingAssumption
        <3> QED
            BY <3>1
    <2>3. Cardinality(above) <= Cardinality(Nodes \ {n})
        BY <2>1, <2>2, FS_Subset
    <2>4. Cardinality(above) \in Nat /\ Cardinality(Nodes) \in Nat
        BY <2>1, <2>2, FS_Subset, FS_CardinalityType
    <2> HIDE DEF above
    <2>5. Cardinality(above) < Visible
        BY <2>1, <2>3, <2>4, ShapingAssumption
    <2> QED
        BY <2>5 DEF above, Shown
<1> QED
    BY <1>1 DEF Shown

LEMMA ExitCodes == NoResult.exit # 1 /\ TimedOut.exit # 1 /\ Passed.exit # 1
BY DEF NoResult, TimedOut, Passed, Unknown

\* When every FAILED line is kept, the report of a run that pytest could collect names the
\* tests that failed, and no other result has its exit code.
LEMMA ReportNamesFailures ==
    ASSUME Runner = "pytest", IsFiniteSet(Nodes), Cardinality(Nodes) <= Visible,
           NEW failing \in SUBSET Nodes, NEW loads \in BOOLEAN,
           NEW result \in Readings(failing, loads), result.exit = 1
    PROVE  loads /\ FailureIds(result) = failing
<1>1. result = Failed(failing, loads)
    BY ExitCodes DEF Readings, RunOf
<1>2. CASE ~loads
    <2>1. result.exit = 2
        BY <1>1, <1>2 DEF Failed, NoResult
    <2> QED
        BY <2>1
<1>3. CASE loads
    <2>1. result.given = TRUE /\ result.passed = FALSE /\ result.ids = Shown(failing)
        BY <1>1, <1>3 DEF Failed, NoResult
    <2>3. Shown(failing) = failing
        BY AllShown
    <2> QED
        BY <1>3, <2>1, <2>3 DEF FailureIds
<1> QED
    BY <1>2, <1>3

LEMMA FirstReportNamesFailures ==
    ASSUME Runner = "pytest", IsFiniteSet(Nodes), Cardinality(Nodes) <= Visible,
           NEW failing \in SUBSET Nodes,
           NEW result \in FirstReadings(failing), result.exit = 1
    PROVE  FailureIds(result) = failing
<1>1. result = Failed(failing, TRUE)
    BY ExitCodes DEF FirstReadings, RunOf
<1>2. result.given = TRUE /\ result.passed = FALSE /\ result.ids = Shown(failing)
    BY <1>1 DEF Failed, NoResult
<1> QED
    BY <1>2, AllShown DEF FailureIds

\* Partial credit is for two runs of the tests that can be compared, and the second fails in
\* nothing the first did not.
LEMMA CreditIsComparable ==
    ASSUME Runner = "pytest", IsFiniteSet(Nodes), Cardinality(Nodes) <= Visible,
           NEW first \in SUBSET Nodes, NEW failing \in SUBSET Nodes, NEW loads \in BOOLEAN,
           NEW g, g.baseline \in FirstReadings(first),
           g.final \in Readings(failing, loads),
           0 < TrainingReward(g, "conservative-v2"), TrainingReward(g, "conservative-v2") < 10000
    PROVE  loads /\ failing \subseteq first
<1>1. Comparable(g)
    <2>1. 0 < Conservative(g)
        BY DEF TrainingReward
    <2> QED
        BY <2>1 DEF Conservative
<1>2. g.baseline.exit = 1 /\ g.final.exit = 1 /\ FailureIds(g.baseline) # {}
      /\ FailureIds(g.final) # {} /\ NewFailureCount(g) = 0
    BY <1>1 DEF Comparable
<1>3. FailureIds(g.baseline) = first
    BY <1>2, FirstReportNamesFailures
<1>4. loads /\ FailureIds(g.final) = failing
    BY <1>2, ReportNamesFailures
<1>5. g.final.given
    BY <1>2 DEF FailureIds
<1>6. Cardinality(failing \ first) = 0
    BY <1>2, <1>3, <1>4, <1>5 DEF NewFailureCount
<1>7. IsFiniteSet(failing \ first)
    BY FS_Subset
<1>8. failing \ first = {}
    BY <1>6, <1>7, FS_EmptySet
<1> QED
    BY <1>4, <1>8

LEMMA NoCreditOpen == TrainingReward(NoAudit.grading, "conservative-v2") = 0
BY DEF NoAudit, Grading, NoResult, TrainingReward, StrictSuccess

\* The result an ending is graded on, when it is not graded on its budget: a run of the files
\* as they are, unless the episode did something forbidden.
IsTold(kind, result, e) ==
    tree.whole /\ kind # "budget" /\ ~e.torn =>
        e.violated \/ result \in Readings(tree.failing, tree.loads)

LEMMA CompleteCredit ==
    ASSUME Runner = "pytest", IsFiniteSet(Nodes), Cardinality(Nodes) <= Visible, tree \in Tree,
           NEW kind, NEW result, NEW e, Told(e, tree), IsTold(kind, result, e),
           Complete(kind, result, e)
    PROVE  CInv'
<1>1. completed' = TRUE /\ ~Active'
    BY DEF Complete, Active
<1> DEFINE g == Grading(e.baseline, result, Differs(e), Differs(e) /\ tree.loads, e.asked, e.violated)
<1>2. audit'.kind = kind /\ audit'.tree = tree /\ audit'.torn = e.torn /\ audit'.grading = g
    BY DEF Complete, Audit
<1>3. g.baseline = e.baseline /\ g.final = result /\ g.violated = e.violated
    BY DEF Grading
<1> HIDE DEF g
<1>4. tree.first \in SUBSET Nodes /\ tree.failing \in SUBSET Nodes /\ tree.loads \in BOOLEAN
    BY DEF Tree
<1>5. ASSUME tree.whole, kind # "budget", ~e.torn, 0 < TrainingReward(g, "conservative-v2"),
             TrainingReward(g, "conservative-v2") < 10000
      PROVE  tree.loads /\ tree.failing \subseteq tree.first
    <2>2. ~e.violated
        BY <1>3, <1>5 DEF TrainingReward
    <2>3. result \in Readings(tree.failing, tree.loads)
        BY <1>5, <2>2 DEF IsTold
    <2>4. e.baseline \in FirstReadings(tree.first)
        BY <1>5 DEF Told
    <2> QED
        BY <1>3, <1>4, <1>5, <2>3, <2>4, CreditIsComparable
<1>6. EarnsFairly(audit)'
    BY <1>2, <1>5 DEF EarnsFairly
<1> QED
    BY <1>1, <1>6 DEF CInv

\* An ending is graded, or raises and is taken back.
LEMMA EndsCredit ==
    ASSUME Runner = "pytest", IsFiniteSet(Nodes), Cardinality(Nodes) <= Visible, tree \in Tree,
           CInv, NEW kind, NEW result, NEW e \in Envs, Told(e, tree), IsTold(kind, result, e),
           Ends(kind, result, e)
    PROVE  CInv'
<1>1. CASE Complete(kind, result, e)
    BY <1>1, CompleteCredit
<1>2. CASE CompleteRaises(e)
    <2> DEFINE f == [e EXCEPT !.raised = TRUE]
    <2>1. f.baseline = e.baseline /\ f.edited = e.edited /\ f.torn = e.torn /\ f.last = e.last
        BY DEF Envs
    <2>2. env' = f /\ tree' = tree /\ audit' = audit
        BY <1>2 DEF CompleteRaises
    <2> HIDE DEF f
    <2>3. Told(f, tree)
        BY <2>1 DEF Told
    <2> QED
        BY <1>2, <2>2, <2>3 DEF CompleteRaises, CInv, Active
<1> QED
    BY <1>1, <1>2 DEF Ends

LEMMA GoesOnCredit ==
    ASSUME CInv, NEW e, Continues(e), Told(e, tree')
    PROVE  CInv'
BY DEF CInv, Continues, Active

LEMMA RenewedCredit ==
    ASSUME NEW e, Renewed(e), Told(e, tree')
    PROVE  CInv'
<1>1. env' = e /\ audit' = NoAudit
    BY DEF Renewed
<1>2. EarnsFairly(audit)'
    BY <1>1, NoCreditOpen DEF EarnsFairly
<1> QED
    BY <1>1, <1>2 DEF CInv

LEMMA ResetCredit ==
    ASSUME Reset, CInv, tree \in Tree
    PROVE  CInv'
<1>0. /\ NewEnv.baseline = NoResult /\ NewEnv.last = NoResult /\ ~NoResult.given
      /\ NewEnv \in Envs
    BY NoResultFacts, NewEnvType DEF NewEnv
<1>1. ASSUME NEW t PROVE Told(NewEnv, t)
    BY <1>0 DEF Told, FirstReadings, Readings
<1>2. CASE ResetFailsToClose
    <2>1. tree' = tree \/ ~tree'.whole
        BY <1>2, CloseRaisesFacts DEF ResetFailsToClose
    <2>2. UNCHANGED <<env, held, completed, audit>>
        BY <1>2 DEF ResetFailsToClose, CloseRaises
    <2> QED
        BY <2>1, <2>2 DEF CInv, Told, Active
<1>3. CASE ResetWithoutSource
    BY <1>1, <1>3, RenewedCredit DEF ResetWithoutSource
<1>4. CASE ResetFailsToCopy
    <2> PICK d \in Dirs \ disk : Renewed([NewEnv EXCEPT !.dir = d])
        BY <1>4 DEF ResetFailsToCopy
    <2> DEFINE e == [NewEnv EXCEPT !.dir = d]
    <2>1. e.baseline = NewEnv.baseline /\ e.last = NewEnv.last
        BY <1>0 DEF Envs
    <2>2. Renewed(e)
        OBVIOUS
    <2> HIDE DEF e
    <2>3. Told(e, tree')
        BY <1>0, <2>1 DEF Told, FirstReadings, Readings
    <2> QED
        BY <2>2, <2>3, RenewedCredit
<1>5. ASSUME NEW d \in Dirs \ disk, NEW failing \in Fixtures,
             \/ ResetFailsToHash(d, failing) \/ ResetFailsToVerify(d, failing)
             \/ ResetRefuses(d, failing) \/ ResetCopies(d, failing)
      PROVE  CInv'
    <2> DEFINE run == RunOf(failing, TRUE)
    <2>1. /\ Copy(failing).first = failing /\ Copy(failing).failing = failing
          /\ Copy(failing).loads = TRUE /\ Copy(failing) \in Tree
        BY LocalAssumption DEF Copy, Tree
    <2>2. run \in Results
        BY LocalAssumption, RunType
    <2> HIDE DEF run
    <2>3. CASE ResetFailsToHash(d, failing)
        <3> DEFINE e == [Copied(d) EXCEPT !.raised = TRUE]
        <3>1. e.baseline = NewEnv.baseline /\ e.last = NewEnv.last
            BY CopiedFacts DEF Envs
        <3>2. Renewed(e)
            BY <2>3 DEF ResetFailsToHash
        <3> HIDE DEF e
        <3>3. Told(e, tree')
            BY <1>0, <3>1 DEF Told, FirstReadings, Readings
        <3> QED
            BY <3>2, <3>3, RenewedCredit
    <2>4. CASE ResetFailsToVerify(d, failing)
        <3>1. Told(Hashed(d), tree')
            BY <1>0, CopiedFacts DEF Told, FirstReadings, Readings
        <3> QED
            BY <2>4, <3>1, RenewedCredit DEF ResetFailsToVerify
    <2>5. CASE ResetRefuses(d, failing)
        <3> DEFINE e == [Based(d, run) EXCEPT !.raised = TRUE]
        <3>1. e.baseline = run /\ e.last = run
            <4>1. /\ Based(d, run) \in Envs /\ Based(d, run).baseline = run
                  /\ Based(d, run).last = run
                BY <2>2, BasedFacts
            <4> QED
                BY <4>1 DEF Envs
        <3>2. run.passed
            BY <2>5 DEF ResetRefuses, run
        <3>3. ASSUME tree' \in Remnants(Copy(failing)) PROVE Told(e, tree')
            <4>1. tree' = Copy(failing) \/ ~tree'.whole
                BY <2>1, <3>3, RemnantFacts
            <4>2. tree'.whole => run \in FirstReadings(tree'.first)
                BY <2>1, <4>1 DEF FirstReadings, run
            <4> HIDE DEF e
            <4> QED
                BY <3>1, <3>2, <4>2 DEF Told
        <3>4. Renewed(NewEnv) \/ (Renewed(e) /\ tree' \in Remnants(Copy(failing)))
            BY <2>5 DEF ResetRefuses, run
        <3> HIDE DEF e
        <3> QED
            BY <1>1, <3>3, <3>4, RenewedCredit
    <2>6. ASSUME NEW result \in {run, TimedOut}, Renewed(Based(d, result)), tree' = Copy(failing)
          PROVE  CInv'
        <3>1. result \in Results
            BY <2>2 DEF Results
        <3>2. result = TimedOut \/ result = RunOf(tree'.failing, tree'.loads)
            BY <2>1, <2>6 DEF run
        <3>3. result \in FirstReadings(tree'.first)
            BY <2>1, <2>6 DEF FirstReadings, run
        <3>4. Told(Based(d, result), tree')
            BY <3>1, <3>2, <3>3, BasedFacts, NoResultFacts DEF Told
        <3> QED
            BY <2>6, <3>4, RenewedCredit
    <2>7. CASE ResetCopies(d, failing)
        BY <2>6, <2>7 DEF ResetCopies, run
    <2> QED
        BY <1>5, <2>3, <2>4, <2>5, <2>7
<1> QED
    BY <1>2, <1>3, <1>4, <1>5 DEF Reset

LEMMA OutcomeTold ==
    ASSUME NEW result \in Outcomes, NEW e, e.last = result, NEW b, b.baseline = e.baseline,
           Told(b, tree)
    PROVE  Told(e, tree) /\ \A kind : IsTold(kind, result, e)
<1>1. result.timed_out \/ result = RunOf(tree.failing, tree.loads)
    BY NoResultFacts DEF Outcomes
<1>2. result \in Readings(tree.failing, tree.loads)
    BY DEF Outcomes, Readings
<1> QED
    BY <1>1, <1>2 DEF Told, IsTold

LEMMA StepBaselines ==
    ASSUME env \in Envs
    PROVE  /\ Stepped.baseline = env.baseline /\ Asked.baseline = env.baseline
           /\ \A result : Verified(result).baseline = env.baseline /\ Verified(result).last = result
                          /\ Verified(result).edited = FALSE
<1>1. Stepped \in Envs /\ Stepped.baseline = env.baseline
    BY DEF Stepped, Envs
<1>2. Asked = [Stepped EXCEPT !.asked = Stepped.asked \/ env.patched]
    BY DEF Asked
<1> HIDE DEF Stepped
<1>3. Asked \in Envs /\ Asked.baseline = env.baseline
    BY <1>1, <1>2, SteppedFacts DEF Envs
<1>4. ASSUME NEW result
      PROVE  /\ Verified(result).baseline = env.baseline /\ Verified(result).last = result
             /\ Verified(result).edited = FALSE
    <2>1. Verified(result) = [Asked EXCEPT !.last = result, !.edited = FALSE, !.torn = FALSE]
        BY DEF Verified
    <2> QED
        BY <1>3, <2>1 DEF Envs
<1> QED
    BY <1>1, <1>3, <1>4

LEMMA ActCredit ==
    ASSUME Runner = "pytest", IsFiniteSet(Nodes), Cardinality(Nodes) <= Visible, IInv, CInv, Act
    PROVE  CInv'
<1>0. env \in Envs /\ tree \in Tree
    BY DEF IInv, Typed
<1>1. ASSUME Active PROVE Told(env, tree)
    BY <1>1 DEF CInv
<1>2. CASE ActUnready
    <2>1. completed' = TRUE /\ audit' = audit /\ ~Active'
        BY <1>2 DEF ActUnready, Active
    <2> QED
        BY <2>1 DEF CInv
<1>3. CASE ActOverBudget
    <2>1. Active /\ Ends("budget", env.last, env)
        BY <1>3 DEF ActOverBudget
    <2>2. IsTold("budget", env.last, env)
        BY DEF IsTold
    <2> QED
        BY <1>0, <1>1, <2>1, <2>2, EndsCredit
<1>4. CASE ActLooks
    <2>1. Active /\ Continues(Stepped) /\ tree' = tree
        BY <1>4 DEF ActLooks, Acting
    <2>2. Told(Stepped, tree')
        BY <1>0, <1>1, <2>1, SteppedFacts, StepBaselines DEF Told
    <2> QED
        BY <2>1, <2>2, GoesOnCredit
<1>5. CASE ActEdits
    <2> DEFINE e == [Stepped EXCEPT !.edited = TRUE, !.patched = TRUE]
    <2>1. Active /\ Continues(e)
        BY <1>5 DEF ActEdits, Acting
    <2>2. e.edited = TRUE /\ e.baseline = env.baseline
        BY <1>0, SteppedFacts, StepBaselines DEF Envs
    <2>3. tree'.whole = tree.whole /\ tree'.first = tree.first
        BY <1>0, <1>5 DEF ActEdits, Tree
    <2> HIDE DEF e
    <2>4. Told(e, tree')
        BY <1>1, <2>1, <2>2, <2>3 DEF Told
    <2> QED
        BY <2>1, <2>4, GoesOnCredit
<1>a. CASE ActEditFails
    <2> DEFINE e == [Stepped EXCEPT !.torn = TRUE]
    <2>1. Active /\ Continues(e)
        BY <1>a DEF ActEditFails, Acting
    <2>2. e.torn = TRUE /\ e.baseline = env.baseline
        BY <1>0, SteppedFacts, StepBaselines DEF Envs
    <2>3. tree'.whole = tree.whole /\ tree'.first = tree.first
        BY <1>0, <1>a DEF ActEditFails, Tree
    <2> HIDE DEF e
    <2>4. Told(e, tree')
        BY <1>1, <2>1, <2>2, <2>3 DEF Told
    <2> QED
        BY <2>1, <2>4, GoesOnCredit
<1>6. CASE ActViolates
    <2> DEFINE e == [Stepped EXCEPT !.violated = TRUE]
    <2>1. Active /\ Ends("violation", env.last, e)
        BY <1>6 DEF ActViolates, Acting
    <2>2. /\ e \in Envs /\ e.baseline = env.baseline /\ e.edited = env.edited
          /\ e.torn = env.torn /\ e.last = env.last /\ e.violated = TRUE
        BY <1>0, SteppedFacts, StepBaselines DEF Envs
    <2> HIDE DEF e
    <2>3. Told(e, tree) /\ IsTold("violation", env.last, e)
        BY <1>1, <2>1, <2>2 DEF Told, IsTold
    <2> QED
        BY <1>0, <2>1, <2>2, <2>3, EndsCredit
<1>7. ASSUME Active, VerifierRaises PROVE CInv'
    <2>1. Continues(Asked) /\ tree' = tree
        BY <1>7 DEF VerifierRaises
    <2>2. Told(Asked, tree')
        BY <1>0, <1>1, <1>7, <2>1, SteppedFacts, StepBaselines DEF Told
    <2> QED
        BY <2>1, <2>2, GoesOnCredit
<1>8. ASSUME NEW result, NEW kind, NEW e \in Envs, Told(e, tree), IsTold(kind, result, e),
             Ends(kind, result, e) \/ (Continues(e) /\ tree' = tree)
      PROVE  CInv'
    <2>1. CASE Ends(kind, result, e)
        BY <1>0, <1>8, <2>1, EndsCredit
    <2>2. CASE Continues(e) /\ tree' = tree
        <3>1. Told(e, tree')
            BY <1>8, <2>2
        <3> QED
            BY <2>2, <3>1, GoesOnCredit
    <2> QED
        BY <1>8, <2>1, <2>2
<1>9. ASSUME Active, NEW result \in Outcomes, NEW kind
      PROVE  /\ Verified(result) \in Envs /\ Told(Verified(result), tree)
             /\ IsTold(kind, result, Verified(result))
    <2>1. Verified(result) \in Envs
        BY <1>0, OutcomeFacts, VerifiedFacts
    <2>2. Told(env, tree) /\ Verified(result).baseline = env.baseline /\ Verified(result).last = result
        BY <1>0, <1>1, <1>9, StepBaselines
    <2> QED
        BY <2>1, <2>2, OutcomeTold
<1>10. CASE ActRunsTests
    <2>1. Active
        BY <1>10 DEF ActRunsTests, Acting
    <2>2. VerifierRaises \/ \E result \in Outcomes :
            \/ Ends("run_tests", result, Verified(result))
            \/ Continues(Verified(result)) /\ tree' = tree
        BY <1>10 DEF ActRunsTests
    <2> QED
        BY <1>7, <1>8, <1>9, <2>1, <2>2
<1>11. CASE ActFinishes
    <2> DEFINE reruns == ~env.last.given \/ env.last.passed \/ env.edited
    <2>1. Active
        BY <1>11 DEF ActFinishes, Acting
    <2>2. \/ VerifierRaises
          \/ \E result \in (IF reruns THEN Outcomes ELSE {env.last}) :
                LET e == IF reruns THEN Verified(result) ELSE Asked IN
                Ends("finish", result, e) \/ (Continues(e) /\ tree' = tree)
        BY <1>11 DEF ActFinishes
    <2>3. ASSUME NEW result \in Outcomes,
                 \/ Ends("finish", result, Verified(result))
                 \/ Continues(Verified(result)) /\ tree' = tree
          PROVE  CInv'
        BY <1>8, <1>9, <2>1, <2>3
    <2>4. ASSUME ~reruns, Ends("finish", env.last, Asked) \/ (Continues(Asked) /\ tree' = tree)
          PROVE  CInv'
        <3>1. env.last \in Results /\ Told(env, tree)
            BY <1>0, <1>1, <2>1 DEF Envs
        <3>2. /\ Asked \in Envs /\ Asked.baseline = env.baseline /\ Asked.last = env.last
              /\ Asked.edited = env.edited /\ Asked.torn = env.torn
            BY <1>0, SteppedFacts, StepBaselines
        <3>3. Told(Asked, tree)
            BY <3>1, <3>2 DEF Told
        <3>4. tree.whole /\ ~env.torn =>
                 env.last.timed_out \/ env.last = RunOf(tree.failing, tree.loads)
            BY <2>4, <3>1 DEF Told
        <3>5. env.last.timed_out => env.last = TimedOut
            BY <3>1, NoResultFacts, RunFacts DEF Results
        <3>6. IsTold("finish", env.last, Asked)
            BY <3>2, <3>4, <3>5 DEF IsTold, Readings
        <3> QED
            BY <1>8, <2>4, <3>2, <3>3, <3>6
    <2> HIDE DEF reruns
    <2> QED
        BY <1>7, <2>1, <2>2, <2>3, <2>4
<1> QED
    BY <1>2, <1>3, <1>4, <1>5, <1>a, <1>6, <1>10, <1>11 DEF Act

LEMMA GetRewardCredit ==
    ASSUME Runner = "pytest", IsFiniteSet(Nodes), Cardinality(Nodes) <= Visible,
           IInv, CInv, GetReward
    PROVE  CInv'
<1>0. env \in Envs /\ tree \in Tree /\ Active /\ Told(env, tree)
    BY DEF IInv, Typed, GetReward, CInv
<1> PICK result \in Outcomes :
        Ends("finalize", result, [env EXCEPT !.last = result, !.edited = FALSE, !.torn = FALSE])
    BY DEF GetReward
<1> DEFINE e == [env EXCEPT !.last = result, !.edited = FALSE, !.torn = FALSE]
<1>1. result \in Results
    BY <1>0, OutcomeFacts
<1>2. e \in Envs /\ e.last = result /\ e.baseline = env.baseline
    BY <1>0, <1>1 DEF Envs
<1>3. Ends("finalize", result, e)
    OBVIOUS
<1> HIDE DEF e
<1>4. Told(e, tree) /\ IsTold("finalize", result, e)
    BY <1>0, <1>2, OutcomeTold
<1> QED
    BY <1>0, <1>2, <1>3, <1>4, EndsCredit

\* reward_shaping.py: "Unknown status, invalid patches and newly failing tests earn nothing."
\* It holds for any repository and any budget, under the pytest runner and when the part of
\* the output that is kept has room for a FAILED line of every test: without the first the
\* failures have no names, and without the second those of the last tests stand for all.
THEOREM PartialCreditIsComparable ==
    ASSUME Runner = "pytest", Cardinality(Nodes) <= Visible
    PROVE  Spec => []NewFailuresEarnNothing
<1>0. IsFiniteSet(Nodes)
    BY ShapingAssumption
<1>1. Init => CInv
    <2> SUFFICES ASSUME Init PROVE CInv
        OBVIOUS
    <2>1. ~Active /\ audit = NoAudit
        BY DEF Init, Active
    <2> QED
        BY <2>1, NoCreditOpen DEF CInv, EarnsFairly
<1>2. IInv /\ CInv /\ [Next]_vars => CInv'
    <2> SUFFICES ASSUME IInv, CInv, [Next]_vars PROVE CInv'
        OBVIOUS
    <2>1. tree \in Tree
        BY DEF IInv, Typed
    <2>2. CASE UNCHANGED vars
        BY <2>2 DEF vars, CInv, Active
    <2> QED
        BY <1>0, <2>1, <2>2, ResetCredit, ActCredit, GetRewardCredit DEF Next
<1>3. CInv => NewFailuresEarnNothing
    BY DEF CInv, EarnsFairly, NewFailuresEarnNothing
<1> QED
    BY Invariant, <1>1, <1>2, <1>3, PTL DEF Spec

----------------------------------------------------------------------------
\* The local environment keeps the promise of Episode, which the remote client keeps too:
\* one episode at a time, one reward for each, which stands until the next one starts.
THEOREM LocalImplementsEpisode == Spec => ImplementsEpisode
<1> DEFINE phase == IF Active THEN "running" ELSE IF completed THEN "over" ELSE "none"
<1>1. Init => Local!Init
    BY DEF Init, Local!Init, Active
<1>2. [Next]_vars => [Local!Next]_<<phase, reward>>
    <2> SUFFICES ASSUME [Next]_vars PROVE [Local!Next]_<<phase, reward>>
        OBVIOUS
    <2>1. ASSUME NEW kind, NEW result, NEW e, Active, Complete(kind, result, e) PROVE Local!End
        BY <2>1 DEF Complete, Local!End, Active
    <2>2. ASSUME NEW e, CompleteRaises(e) \/ Continues(e) PROVE UNCHANGED <<phase, reward>>
        BY <2>2 DEF CompleteRaises, Continues, Active
    <2>3. ASSUME NEW kind, NEW result, NEW e, Active, Ends(kind, result, e)
          PROVE  Local!End \/ UNCHANGED <<phase, reward>>
        BY <2>1, <2>2, <2>3 DEF Ends
    <2>4. ASSUME NEW e, Renewed(e) PROVE Local!Start
        BY <2>4 DEF Renewed, Local!Start, Active
    <2>5. CASE Reset
        <3>1. CASE ResetFailsToClose
            BY <3>1 DEF ResetFailsToClose, CloseRaises, Active
        <3>2. ASSUME ~ResetFailsToClose PROVE Local!Next
            <4>1. \E e : Renewed(e)
                BY <2>5, <3>2
                DEF Reset, ResetWithoutSource, ResetFailsToCopy, ResetFailsToHash,
                    ResetFailsToVerify, ResetRefuses, ResetCopies
            <4> QED
                BY <2>4, <4>1 DEF Local!Next
        <3> QED
            BY <3>1, <3>2
    <2>6. CASE Act
        <3>1. CASE ActUnready
            BY <3>1 DEF ActUnready, Active, Local!Next, Local!End
        <3>2. CASE ActOverBudget \/ ActViolates
            BY <2>3, <3>2 DEF ActOverBudget, ActViolates, Acting, Local!Next
        <3>3. CASE ActLooks \/ ActEdits \/ ActEditFails
            BY <2>2, <3>3 DEF ActLooks, ActEdits, ActEditFails
        <3>4. CASE ActRunsTests
            <4>1. Active
                BY <3>4 DEF ActRunsTests, Acting
            <4>2. CASE VerifierRaises
                BY <2>2, <4>2 DEF VerifierRaises
            <4>3. ASSUME NEW result \in Outcomes,
                         \/ Ends("run_tests", result, Verified(result))
                         \/ Continues(Verified(result))
                  PROVE  Local!End \/ UNCHANGED <<phase, reward>>
                BY <2>2, <2>3, <4>1, <4>3
            <4> QED
                BY <3>4, <4>2, <4>3 DEF ActRunsTests, Local!Next
        <3>5. CASE ActFinishes
            <4>1. Active
                BY <3>5 DEF ActFinishes, Acting
            <4>2. CASE VerifierRaises
                BY <2>2, <4>2 DEF VerifierRaises
            <4>3. ASSUME NEW result, NEW e, Ends("finish", result, e) \/ Continues(e)
                  PROVE  Local!End \/ UNCHANGED <<phase, reward>>
                BY <2>2, <2>3, <4>1, <4>3
            <4> QED
                BY <3>5, <4>2, <4>3 DEF ActFinishes, Local!Next
        <3> QED
            BY <2>6, <3>1, <3>2, <3>3, <3>4, <3>5 DEF Act
    <2>7. CASE GetReward
        BY <2>3, <2>7 DEF GetReward, Local!Next
    <2>8. CASE UNCHANGED vars
        BY <2>8 DEF vars, Active
    <2> QED
        BY <2>5, <2>6, <2>7, <2>8 DEF Next
<1> QED
    BY <1>1, <1>2, PTL DEF Spec, ImplementsEpisode, Local!Spec
=============================================================================
