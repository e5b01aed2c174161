--------------------------- MODULE RewardShaping ---------------------------
(***************************************************************************)
(* How a verifier result becomes a training reward: the failure lists that *)
(* are read off its output, build_training_reward in its two versions, and *)
(* the breakdown onto the declared nodes.  Rewards are in ten-thousandths. *)
(***************************************************************************)
EXTENDS Integers, FiniteSets

CONSTANTS
    Nodes,      \* tests of a repository, in the order they are reported
    Visible,    \* how many FAILED lines fit in the part of the output that is kept
    Runner,     \* "pytest" or "unittest"
    FailToPass, \* the declared nodes
    PassToPass

ASSUME ShapingAssumption ==
    /\ Nodes \subseteq Nat /\ IsFiniteSet(Nodes)
    /\ Visible \in Nat
    /\ Runner \in {"pytest", "unittest"}
    /\ FailToPass \subseteq Nodes /\ PassToPass \subseteq Nodes

Unknown == -1

\* A TestResult, as far as the patterns of reward_shaping read it: ids are the matches of
\* "FAILED <word>", count that of "<n> failed", collection that of "<n> errors".
NoResult == [given |-> FALSE, passed |-> FALSE, timed_out |-> FALSE, exit |-> Unknown,
             ids |-> {}, count |-> Unknown, collection |-> FALSE]
Passed   == [NoResult EXCEPT !.given = TRUE, !.passed = TRUE, !.exit = 0]
TimedOut == [NoResult EXCEPT !.given = TRUE, !.timed_out = TRUE]

\* The last FAILED lines, which are the ones that are kept.
Shown(failing) == {n \in failing : Cardinality({m \in failing : m > n}) < Visible}

\* A run whose tests do not pass.  unittest names no test in its last line, which reads
\* "FAILED (failures=2)": the pattern takes "(failures=2)" for the name of one.
Failed(failing, loads) ==
    LET result == [NoResult EXCEPT !.given = TRUE, !.exit = 1] IN
    CASE Runner = "pytest" /\ loads ->
            [result EXCEPT !.ids = Shown(failing), !.count = Cardinality(failing)]
      [] Runner = "pytest" /\ ~loads ->
            [result EXCEPT !.exit = 2, !.collection = TRUE]
      [] Runner = "unittest" /\ loads ->
            [result EXCEPT !.ids = {<<"failures", Cardinality(failing)>>}]
      [] OTHER ->
            [result EXCEPT !.ids = {<<"errors", 1>>}]

\* What the verifier reports of a repository in which these tests fail.
RunOf(failing, loads) == IF failing = {} /\ loads THEN Passed ELSE Failed(failing, loads)

----------------------------------------------------------------------------
FailureIds(result) == IF ~result.given \/ result.passed THEN {} ELSE result.ids

FailureCount(result) ==
    IF ~result.given THEN Unknown
    ELSE IF result.passed THEN 0
    ELSE IF FailureIds(result) # {} THEN Cardinality(FailureIds(result))
    ELSE result.count

CollectionError(result) == result.given /\ result.collection

\* What is graded: the two results, and what the caller knows of the episode.
Grading(baseline, final, created, valid, verified, violated) ==
    [baseline |-> baseline, final |-> final, created |-> created, valid |-> valid,
     verified |-> verified, violated |-> violated]

StrictSuccess(g) == g.final.given /\ g.final.passed /\ g.created /\ ~g.violated

ResolvedCount(g) ==
    LET before == FailureCount(g.baseline)
        after  == FailureCount(g.final)
    IN  IF Unknown \in {before, after} \/ after > before THEN 0 ELSE before - after

NewFailureCount(g) ==
    IF /\ FailureIds(g.baseline) # {}
       /\ g.final.given /\ (g.final.passed \/ FailureIds(g.final) # {})
    THEN Cardinality(FailureIds(g.final) \ FailureIds(g.baseline))
    ELSE Unknown

\* round(0.25 * resolved_count / baseline_count, 4)
Share(g) == (5000 * ResolvedCount(g) + FailureCount(g.baseline)) \div (2 * FailureCount(g.baseline))

\* Mutant: the final run may report failures the first one had not.
ComparableAnyway(g) ==
    /\ g.baseline.exit = 1 /\ g.final.exit = 1
    /\ FailureIds(g.baseline) # {} /\ FailureIds(g.final) # {}
    /\ g.valid /\ g.verified

\* Only complete, comparable verifier failures can earn partial credit.
Comparable(g) ==
    /\ g.baseline.given /\ ~g.baseline.timed_out
    /\ g.baseline.exit = 1 /\ g.final.exit = 1
    /\ FailureCount(g.baseline) \notin {0, Unknown} /\ FailureCount(g.final) # Unknown
    /\ FailureIds(g.baseline) # {} /\ FailureIds(g.final) # {}
    /\ NewFailureCount(g) = 0
    /\ g.valid /\ g.verified
    /\ ~CollectionError(g.final)

Conservative(g) ==
    IF ~Comparable(g) THEN 0
    ELSE 300 + (IF ResolvedCount(g) = 0 THEN 0 ELSE Share(g) + 1000)

Legacy(g) ==
    LET progress == /\ FailureCount(g.baseline) \notin {0, Unknown}
                    /\ FailureCount(g.final) # Unknown
                    /\ FailureCount(g.final) < FailureCount(g.baseline)
        sum == (IF progress THEN Share(g) ELSE 0)
                 + (IF progress /\ NewFailureCount(g) = 0 THEN 1000 ELSE 0)
                 + (IF g.valid /\ g.verified THEN 1500 ELSE 0)
    IN  IF sum > 5000 THEN 5000 ELSE sum

\* build_training_reward(...).training_reward
TrainingReward(g, version) ==
    IF g.violated THEN -10000
    ELSE IF StrictSuccess(g) THEN 10000
    ELSE IF ~g.final.given \/ g.final.timed_out \/ ~g.created THEN 0
    ELSE IF version = "conservative-v2" THEN Conservative(g)
    ELSE Legacy(g)

\* verifier_breakdown: resolved and regressed are Unknown without a per-test summary.
Breakdown(final) ==
    LET failed == FailureIds(final)
        unread == CollectionError(final) \/ (~final.passed /\ failed = {})
    IN  [resolved  |-> IF unread THEN Unknown ELSE Cardinality(FailToPass \ failed),
         regressed |-> IF unread THEN Unknown ELSE Cardinality(failed \cap PassToPass),
         ungraded  |-> IF unread THEN {} ELSE failed \ (FailToPass \cup PassToPass),
         declared  |-> FailToPass \cup PassToPass # {},
         collection |-> CollectionError(final)]

\* regression_free of a trajectory: from the breakdown when the task names its nodes.
RegressionFree(final) ==
    LET b == Breakdown(final) IN
    IF b.declared /\ ~b.collection THEN b.regressed = 0 /\ b.ungraded = {} ELSE final.passed
=============================================================================
