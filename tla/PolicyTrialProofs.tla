------------------------- MODULE PolicyTrialProofs -------------------------
(***************************************************************************)
(* Proofs about PolicyTrial, for any number of trials, steps, attempts and *)
(* any strides: the type invariant, the removal of containers, the record  *)
(* of time-outs and the freshness of seeds.                                *)
(***************************************************************************)
EXTENDS PolicyTrial, TLAPS

Violations == {"none", "policy_transport_error", "policy_protocol_error"}
Calls == [attempt : 1 .. Attempts, output : Nat \X Nat, violation : Violations]
Requests == [trial : 1 .. Trials, step : 0 .. MaxSteps - 1, attempt : 1 .. Attempts, seed : Int]

\* The parts of the inductive invariant.
Shape ==
    /\ trial \in 1 .. Trials + 1 /\ pc \in Positions
    /\ call \in Calls
    /\ started \in BOOLEAN /\ alarm \in {"armed", "fired", "off"} /\ ending \in Endings
    /\ running \subseteq 1 .. Trials /\ late \subseteq 1 .. Trials
    /\ recorded \in [1 .. Trials -> Endings]

\* The step counted next is within the budget.
Budget ==
    /\ history \in Seq(Sizes) /\ Len(history) <= MaxSteps
    /\ pc \in {"asking", "stepping"} => Len(history) < MaxSteps

\* The loop over the trials is done when there is no trial left.
Placed ==
    /\ pc = "done" => trial = Trials + 1
    /\ pc # "done" => trial \in 1 .. Trials

\* Every request carries the seed of its trial, step and attempt.
Seeded ==
    \A r \in requests : r \in Requests /\ r.seed = Seed(r.trial, r.step, r.attempt)

\* A container outlives the collect of its trial only if it is late.
Contained ==
    /\ \A t \in running : t = trial \/ t \in late
    /\ pc = "leaving" /\ trial \in running => trial \in late
    /\ pc \in {"looping", "asking", "stepping", "grading"} => started

Ended == {"closing", "removing", "leaving"}

\* The alarm is recorded: nothing between it and the record changes the ending.
Timed ==
    /\ alarm = "fired" => ending = "timeout" /\ pc \in Ended
    /\ pc \in Ended => ending # "none"
    /\ pc = "done" => alarm = "off"
    /\ pc # "done" => alarm # "off"
    /\ \A t \in 1 .. Trials : t < trial => recorded[t] # "none"

IInv == Shape /\ Budget /\ Placed /\ Seeded /\ Contained /\ Timed

----------------------------------------------------------------------------
LEMMA InitInv == Init => IInv
<1> SUFFICES ASSUME Init PROVE IInv
    OBVIOUS
<1> USE TrialAssumption DEF Init
<1>1. call \in Calls
    BY DEF NewCall, Nothing, Calls, Violations
<1>2. Shape
    <2>1. recorded \in [1 .. Trials -> Endings]
        BY DEF Endings
    <2>2. trial \in 1 .. Trials + 1 /\ pc \in Positions
        BY DEF Positions
    <2>3. started \in BOOLEAN /\ alarm \in {"armed", "fired", "off"} /\ ending \in Endings
        BY DEF Endings
    <2> QED
        BY <1>1, <2>1, <2>2, <2>3 DEF Shape
<1>3. Budget
    BY DEF Budget
<1>4. Placed
    BY DEF Placed
<1>5. Seeded
    BY DEF Seeded
<1>6. Contained
    BY DEF Contained
<1>7. Timed
    BY DEF Timed, Ended
<1> QED
    BY <1>2, <1>3, <1>4, <1>5, <1>6, <1>7 DEF IInv

\* What next_action holds is of the right type after an attempt that failed.
LEMMA FailsShape ==
    ASSUME call \in Calls, pc = "asking", NEW next \in Calls, next.attempt = call.attempt, Fails(next)
    PROVE  call' \in Calls /\ pc' \in {"asking", "grading"}
<1> USE TrialAssumption
<1>1. CASE call.attempt < Attempts
    <2>1. call' = [next EXCEPT !.attempt = @ + 1] /\ pc' = pc
        BY <1>1 DEF Fails
    <2>2. next.attempt + 1 \in 1 .. Attempts
        BY <1>1 DEF Calls
    <2>3. call' \in Calls
        BY <2>1, <2>2 DEF Calls
    <2> QED
        BY <2>1, <2>3
<1>2. CASE ~(call.attempt < Attempts)
    BY <1>2 DEF Fails, Go
<1> QED
    BY <1>1, <1>2

\* The three ways an attempt fails, by what they leave in call.
LEMMA AttemptShape ==
    ASSUME Shape, Budget, Malformed \/ Empty \/ Down
    PROVE  /\ call' \in Calls /\ pc = "asking" /\ pc' \in {"asking", "grading"}
           /\ requests' = requests \cup {Request}
           /\ UNCHANGED <<trial, history, boxes, alarm, ending, recorded>>
<1>0. call \in Calls /\ pc = "asking" /\ requests' = requests \cup {Request}
      /\ UNCHANGED <<trial, history, boxes, alarm, ending, recorded>>
    BY DEF Shape, Malformed, Empty, Down, Sent, At
<1>1. Reply \in Nat \X Nat
    <2>1. Len(history) \in Nat
        BY DEF Budget
    <2>2. call.attempt \in Nat
        BY <1>0, TrialAssumption DEF Calls
    <2> QED
        BY <2>1, <2>2 DEF Reply, Count
<1>2. CASE Malformed
    <2> DEFINE next == [call EXCEPT !.output = Reply, !.violation = "policy_protocol_error"]
    <2>1. next \in Calls /\ next.attempt = call.attempt
        BY <1>0, <1>1 DEF Calls, Violations
    <2>2. Fails(next)
        BY <1>2 DEF Malformed
    <2> HIDE DEF next
    <2> QED
        BY <1>0, <2>1, <2>2, FailsShape
<1>3. CASE Empty
    <2> DEFINE next == [call EXCEPT !.violation = "policy_protocol_error"]
    <2>1. next \in Calls /\ next.attempt = call.attempt
        BY <1>0 DEF Calls, Violations
    <2>2. Fails(next)
        BY <1>3 DEF Empty
    <2> HIDE DEF next
    <2> QED
        BY <1>0, <2>1, <2>2, FailsShape
<1>4. CASE Down
    <2> DEFINE next == [call EXCEPT !.violation = "policy_transport_error"]
    <2>1. next \in Calls /\ next.attempt = call.attempt
        BY <1>0 DEF Calls, Violations
    <2>2. Fails(next)
        BY <1>4 DEF Down
    <2> HIDE DEF next
    <2> QED
        BY <1>0, <2>1, <2>2, FailsShape
<1> QED
    BY <1>2, <1>3, <1>4

\* A fresh call, and what an action that parses makes of it, have the type of a call.
LEMMA CallShape ==
    ASSUME Shape, Budget, Ask \/ Decides \/ Record
    PROVE  call' \in Calls
<1>1. NewCall \in Calls /\ [NewCall EXCEPT !.violation = "policy_transport_error"] \in Calls
    BY TrialAssumption DEF NewCall, Nothing, Calls, Violations
<1>2. CASE Ask
    BY <1>1, <1>2 DEF Ask, FreshCall
<1>3. CASE Decides
    <2>1. Len(history) \in Nat
        BY DEF Budget
    <2>2. call.attempt \in Nat
        BY TrialAssumption DEF Calls, Shape
    <2>3. Reply \in Nat \X Nat
        BY <2>1, <2>2 DEF Reply, Count
    <2>4. [call EXCEPT !.output = Reply] \in Calls
        BY <2>3 DEF Calls, Shape
    <2> QED
        BY <1>3, <2>4 DEF Decides
<1>4. CASE Record
    BY <1>1, <1>4 DEF Record
<1> QED
    BY <1>2, <1>3, <1>4

LEMMA ShapeStep == IInv /\ [Next]_vars => Shape'
<1> SUFFICES ASSUME Shape, Budget, Placed, [Next]_vars PROVE Shape'
    BY DEF IInv
<1> USE TrialAssumption
<1>0. Positions = {"creating", "marking", "looping", "asking", "stepping", "grading",
                   "closing", "removing", "leaving", "done"}
      /\ Endings = {"none", "trajectory", "failure", "timeout"}
    BY DEF Positions, Endings
<1>1. CASE Create
    BY <1>0, <1>1 DEF Create, Shape, Placed, local, At, Go
<1>2. CASE Mark
    BY <1>0, <1>2 DEF Mark, Shape, local, At, Go
<1>3. CASE ResetFails
    BY <1>0, <1>3 DEF ResetFails, Shape, local, boxes, Go
<1>4. CASE Ask
    <2>1. call' \in Calls
        BY <1>4, CallShape
    <2>2. pc' \in Positions
        BY <1>0, <1>4 DEF Ask, Go
    <2> QED
        BY <1>4, <2>1, <2>2 DEF Ask, Shape, boxes
<1>5. CASE Decides
    <2>1. call' \in Calls
        BY <1>5, CallShape
    <2> QED
        BY <1>0, <1>5, <2>1 DEF Decides, Shape, boxes, Go
<1>6. CASE Malformed \/ Empty \/ Down
    <2>1. call' \in Calls /\ pc' \in {"asking", "grading"}
          /\ UNCHANGED <<trial, history, boxes, alarm, ending, recorded>>
        BY <1>6, AttemptShape
    <2> QED
        BY <1>0, <2>1 DEF Shape, boxes
<1>7. CASE Cut
    BY <1>0, <1>7 DEF Cut, Shape, local, boxes, Go
<1>8. CASE Step
    BY <1>0, <1>8 DEF Step, Shape, boxes, Go
<1>9. CASE StepsUsedUp
    BY <1>0, <1>9 DEF StepsUsedUp, Shape, local, boxes, Go
<1>10. CASE Grade
    BY <1>0, <1>10 DEF Grade, Shape, local, boxes, Go
<1>11. CASE Raises
    BY <1>0, <1>11 DEF Raises, Shape, local, boxes, Go
<1>12. CASE CloseBegin
    BY <1>0, <1>12 DEF CloseBegin, Shape, Placed, local, At, Go
<1>13. CASE Remove
    BY <1>0, <1>13 DEF Remove, Shape, Placed, local, At, Go
<1>14. CASE Record
    <2>1. call' \in Calls
        BY <1>14, CallShape
    <2>2. trial \in 1 .. Trials
        BY <1>14 DEF Record, Placed, At
    <2>3. trial' \in 1 .. Trials + 1
        BY <1>14, <2>2 DEF Record
    <2>4. recorded' \in [1 .. Trials -> Endings]
        BY <1>14 DEF Record, Shape
    <2> QED
        BY <1>0, <1>14, <2>1, <2>3, <2>4 DEF Record, Shape, Disarmed, Go
<1>15. CASE Alarm
    BY <1>0, <1>15 DEF Alarm, Shape, local, At, Go
<1>16. CASE UNCHANGED vars
    BY <1>16 DEF Shape, vars
<1> QED
    BY <1>1, <1>2, <1>3, <1>4, <1>5, <1>6, <1>7, <1>8, <1>9, <1>10, <1>11, <1>12, <1>13,
       <1>14, <1>15, <1>16 DEF Next, Runs, Done

LEMMA BudgetStep == IInv /\ [Next]_vars => Budget'
<1> SUFFICES ASSUME Shape, Budget, [Next]_vars PROVE Budget'
    BY DEF IInv
<1> USE TrialAssumption
<1>1. CASE Ask
    BY <1>1 DEF Ask, Budget, Count, Go
<1>2. CASE Step
    <2> PICK size \in Sizes : history' = Append(history, size)
        BY <1>2 DEF Step
    <2>1. history' \in Seq(Sizes) /\ Len(history') = Len(history) + 1
        BY DEF Budget
    <2>2. Len(history) < MaxSteps /\ Len(history) \in Nat
        BY <1>2 DEF Step, Budget, At
    <2>3. pc' \in {"looping", "grading"}
        BY <1>2 DEF Step, Go
    <2> QED
        BY <2>1, <2>2, <2>3 DEF Budget
<1>3. CASE Record
    <2>1. history' = <<>> /\ pc' \in {"creating", "done"}
        BY <1>3 DEF Record, Go
    <2> QED
        BY <2>1 DEF Budget
<1>4. CASE Malformed \/ Empty \/ Down
    <2>1. pc = "asking" /\ pc' \in {"asking", "grading"} /\ history' = history
        BY <1>4, AttemptShape
    <2> QED
        BY <2>1 DEF Budget
<1>5. CASE Decides
    BY <1>5 DEF Decides, Sent, Budget, At, Go
<1>6. CASE Create \/ Mark \/ ResetFails \/ Cut \/ StepsUsedUp \/ Grade \/ Raises
           \/ CloseBegin \/ Remove \/ Alarm
    <2>1. history' = history /\ pc' \notin {"asking", "stepping"}
        BY <1>6 DEF Create, Mark, ResetFails, Cut, StepsUsedUp, Grade, Raises, CloseBegin,
                    Remove, Alarm, local, Go
    <2> QED
        BY <2>1 DEF Budget
<1>7. CASE UNCHANGED vars
    BY <1>7 DEF Budget, vars
<1> QED
    BY <1>1, <1>2, <1>3, <1>4, <1>5, <1>6, <1>7 DEF Next, Runs, Done

LEMMA PlacedStep == IInv /\ [Next]_vars => Placed'
<1> SUFFICES ASSUME Shape, Budget, Placed, [Next]_vars PROVE Placed'
    BY DEF IInv
<1> USE TrialAssumption
<1>1. CASE Record
    <2>1. trial \in 1 .. Trials
        BY <1>1 DEF Record, Placed, At
    <2>2. trial' = trial + 1 /\ pc' = (IF trial < Trials THEN "creating" ELSE "done")
        BY <1>1 DEF Record, Go
    <2> QED
        BY <2>1, <2>2 DEF Placed
<1>2. CASE Malformed \/ Empty \/ Down
    <2>1. pc = "asking" /\ pc' \in {"asking", "grading"} /\ trial' = trial
        BY <1>2, AttemptShape
    <2> QED
        BY <2>1 DEF Placed
<1>3. CASE Create \/ Mark \/ ResetFails \/ Ask \/ Decides \/ Cut \/ Step \/ StepsUsedUp
           \/ Grade \/ Raises \/ CloseBegin \/ Remove \/ Alarm
    <2>1. trial' = trial /\ pc # "done" /\ pc' # "done"
        BY <1>3 DEF Create, Mark, ResetFails, Ask, Decides, Cut, Step, StepsUsedUp, Grade, Raises,
                    CloseBegin, Remove, Alarm, Sent, local, At, Go
    <2> QED
        BY <2>1 DEF Placed
<1>4. CASE UNCHANGED vars
    BY <1>4 DEF Placed, vars
<1> QED
    BY <1>1, <1>2, <1>3, <1>4 DEF Next, Runs, Done

LEMMA SeededStep == IInv /\ [Next]_vars => Seeded'
<1> SUFFICES ASSUME Shape, Budget, Placed, Seeded, [Next]_vars PROVE Seeded'
    BY DEF IInv
<1> USE TrialAssumption
<1>1. CASE requests' = requests
    BY <1>1 DEF Seeded
<1>2. CASE pc = "asking" /\ requests' = requests \cup {Request}
    <2>1. trial \in 1 .. Trials
        BY <1>2 DEF Placed
    <2>2. Len(history) \in 0 .. MaxSteps - 1
        BY <1>2 DEF Budget
    <2>3. call.attempt \in 1 .. Attempts
        BY DEF Shape, Calls
    <2>4. Seed(trial, Count, call.attempt) \in Int
        BY <2>1, <2>2, <2>3 DEF Seed, Count
    <2>5. Request \in Requests
        BY <2>1, <2>2, <2>3, <2>4 DEF Request, Requests, Count
    <2>6. Request.seed = Seed(Request.trial, Request.step, Request.attempt)
        BY DEF Request
    <2> QED
        BY <1>2, <2>5, <2>6 DEF Seeded
<1>3. requests' = requests \/ (pc = "asking" /\ requests' = requests \cup {Request})
    <2>1. CASE Malformed \/ Empty \/ Down \/ Decides \/ Cut
        BY <2>1 DEF Malformed, Empty, Down, Decides, Cut, Sent, At
    <2>2. CASE ~(Malformed \/ Empty \/ Down \/ Decides \/ Cut)
        BY <2>2 DEF Next, Runs, Done, vars, Create, Mark, ResetFails, Ask, Step, StepsUsedUp, Grade,
                    Raises, CloseBegin, Remove, Record, Alarm
    <2> QED
        BY <2>1, <2>2
<1> QED
    BY <1>1, <1>2, <1>3

LEMMA ContainedStep == IInv /\ [Next]_vars => Contained'
<1> SUFFICES ASSUME Shape, Budget, Placed, Contained, [Next]_vars PROVE Contained'
    BY DEF IInv
<1>1. CASE Create
    BY <1>1 DEF Create, Contained, local, Go
<1>2. CASE Mark
    BY <1>2 DEF Mark, Contained, local, Go
<1>3. CASE ResetFails \/ Cut \/ Grade \/ Raises
    <2>1. pc' = "closing" /\ UNCHANGED <<trial, running, late>>
        BY <1>3 DEF ResetFails, Cut, Grade, Raises, local, boxes, Go
    <2> QED
        BY <2>1 DEF Contained
<1>4. CASE Ask \/ Decides \/ Malformed \/ Empty \/ Down \/ Step \/ StepsUsedUp
    <2>1. pc \in {"looping", "asking", "stepping"} /\ pc' \in {"looping", "asking", "stepping", "grading"}
          /\ UNCHANGED <<trial, started, running, late>>
        <3>1. CASE Malformed \/ Empty \/ Down
            BY <3>1, AttemptShape DEF boxes
        <3>2. CASE ~(Malformed \/ Empty \/ Down)
            BY <1>4, <3>2 DEF Ask, Decides, Step, StepsUsedUp, Sent, local, boxes, At, Go
        <3> QED
            BY <3>1, <3>2
    <2> QED
        BY <2>1 DEF Contained
<1>5. CASE CloseBegin
    BY <1>5 DEF CloseBegin, Contained, local, Go
<1>6. CASE Remove
    BY <1>6 DEF Remove, Contained, local, Go
<1>7. CASE Record
    <2>1. pc = "leaving" /\ pc' \in {"creating", "done"} /\ UNCHANGED <<running, late>>
        BY <1>7 DEF Record, At, Go
    <2>2. \A t \in running : t \in late
        BY <2>1 DEF Contained
    <2> QED
        BY <2>1, <2>2 DEF Contained
<1>8. CASE Alarm
    <2>1. pc' \in {"leaving", "closing"} /\ UNCHANGED <<trial, started, running>>
        BY <1>8 DEF Alarm, local, Go
    <2>2. late \subseteq late' /\ (pc' = "leaving" /\ trial \in running => trial \in late')
        BY <1>8 DEF Alarm, Go
    <2> QED
        BY <2>1, <2>2 DEF Contained
<1>9. CASE UNCHANGED vars
    BY <1>9 DEF Contained, vars
<1> QED
    BY <1>1, <1>2, <1>3, <1>4, <1>5, <1>6, <1>7, <1>8, <1>9 DEF Next, Runs, Done

LEMMA TimedStep == IInv /\ [Next]_vars => Timed'
<1> SUFFICES ASSUME Shape, Budget, Placed, Timed, [Next]_vars PROVE Timed'
    BY DEF IInv
<1> USE DEF Ended
<1>1. CASE Create \/ Mark \/ Ask \/ Decides \/ Malformed \/ Empty \/ Down \/ Step \/ StepsUsedUp
    <2>1. pc \notin Ended \cup {"done"} /\ pc' \notin Ended \cup {"done"}
          /\ UNCHANGED <<trial, alarm, recorded>>
        <3>1. CASE Malformed \/ Empty \/ Down
            BY <3>1, AttemptShape
        <3>2. CASE ~(Malformed \/ Empty \/ Down)
            BY <1>1, <3>2 DEF Create, Mark, Ask, Decides, Step, StepsUsedUp, Sent, local, At, Go
        <3> QED
            BY <3>1, <3>2
    <2> QED
        BY <2>1 DEF Timed
<1>2. CASE ResetFails \/ Cut \/ Grade \/ Raises
    <2>1. /\ pc \notin Ended \cup {"done"} /\ pc' = "closing"
          /\ ending' \in {"failure", "trajectory"}
          /\ UNCHANGED <<trial, alarm, recorded>>
        BY <1>2 DEF ResetFails, Cut, Grade, Raises, Sent, local, At, Go
    <2> QED
        BY <2>1 DEF Timed
<1>3. CASE CloseBegin \/ Remove
    <2>1. pc \in Ended /\ pc' \in Ended /\ UNCHANGED <<trial, alarm, ending, recorded>>
        BY <1>3 DEF CloseBegin, Remove, local, At, Go
    <2> QED
        BY <2>1 DEF Timed
<1>4. CASE Record
    <2>1. trial \in 1 .. Trials /\ ending # "none"
        BY <1>4 DEF Record, Placed, Timed, At
    <2>2. /\ recorded' = [recorded EXCEPT ![trial] = ending] /\ trial' = trial + 1
          /\ pc' = (IF trial < Trials THEN "creating" ELSE "done") /\ alarm' = Disarmed
        BY <1>4 DEF Record, Go
    <2>3. \A t \in 1 .. Trials : t < trial' => recorded'[t] # "none"
        BY <2>1, <2>2, TrialAssumption DEF Timed, Shape
    <2>4. alarm' # "fired" /\ (pc' = "done" => alarm' = "off") /\ (pc' # "done" => alarm' # "off")
        BY <2>2 DEF Disarmed
    <2>5. pc' \notin Ended
        BY <2>2
    <2> QED
        BY <2>3, <2>4, <2>5 DEF Timed
<1>5. CASE Alarm
    <2>1. /\ alarm' = "fired" /\ ending' = "timeout" /\ pc' \in Ended
          /\ UNCHANGED <<trial, recorded>>
        BY <1>5 DEF Alarm, local, Go
    <2> QED
        BY <2>1 DEF Timed
<1>6. CASE UNCHANGED vars
    BY <1>6 DEF Timed, vars
<1> QED
    BY <1>1, <1>2, <1>3, <1>4, <1>5, <1>6 DEF Next, Runs, Done

----------------------------------------------------------------------------
(* Seeds                                                                   *)

\* Two numbers with two digits to the base K are equal only digit by digit.
LEMMA Digits ==
    ASSUME NEW K \in Nat, NEW i \in Int, NEW j \in Int, NEW x \in 0 .. K - 1, NEW y \in 0 .. K - 1,
           i * K + x = j * K + y
    PROVE  i = j /\ x = y
<1>1. ASSUME NEW p \in Int, NEW q \in Int, NEW v \in 0 .. K - 1, NEW w \in 0 .. K - 1,
             p * K + v = q * K + w, p < q
      PROVE  FALSE
    <2> DEFINE d == q - p
    <2>1. d \in Nat /\ d >= 1 /\ q = p + d
        BY <1>1
    <2>2. (p + d) * K = p * K + d * K
        BY <2>1
    <2>3. d * K >= K
        BY <2>1
    <2> HIDE DEF d
    <2>4. p * K \in Int /\ d * K \in Int
        BY <2>1
    <2>5. p * K + v = p * K + d * K + w
        BY <1>1, <2>1, <2>2
    <2> QED
        BY <2>3, <2>4, <2>5
<1>2. ~(i < j) /\ ~(j < i)
    BY <1>1
<1>3. i = j
    BY <1>2
<1> QED
    BY <1>3

\* What step and attempt add to the seed of a trial stays below the next trial's.
LEMMA Offset ==
    ASSUME SeedsAreApart, NEW n \in 0 .. MaxSteps - 1, NEW a \in 1 .. Attempts
    PROVE  n + (a - 1) * RetryStride \in 0 .. Stride - 1
<1> USE TrialAssumption
<1>1. (a - 1) * RetryStride \in Nat
    BY DEF SeedsAreApart
<1>2. (a - 1) * RetryStride <= (Attempts - 1) * RetryStride
    <2> DEFINE d == Attempts - a
    <2>1. d \in Nat /\ Attempts - 1 = (a - 1) + d
        OBVIOUS
    <2>2. ((a - 1) + d) * RetryStride = (a - 1) * RetryStride + d * RetryStride
        BY <2>1
    <2>3. d * RetryStride \in Nat
        BY <2>1
    <2> HIDE DEF d
    <2> QED
        BY <1>1, <2>1, <2>2, <2>3
<1>3. (Attempts - 1) * RetryStride \in Int /\ (Attempts - 1) * RetryStride + MaxSteps <= Stride
    BY DEF SeedsAreApart
<1> HIDE TrialAssumption
<1> QED
    BY <1>1, <1>2, <1>3, TrialAssumption

\* Seed is injective over the trials, steps and attempts of a run.
LEMMA SeedInjective ==
    ASSUME SeedsAreApart,
           NEW t \in 1 .. Trials, NEW n \in 0 .. MaxSteps - 1, NEW a \in 1 .. Attempts,
           NEW u \in 1 .. Trials, NEW m \in 0 .. MaxSteps - 1, NEW b \in 1 .. Attempts,
           Seed(t, n, a) = Seed(u, m, b)
    PROVE  t = u /\ n = m /\ a = b
<1> DEFINE x == n + (a - 1) * RetryStride
           y == m + (b - 1) * RetryStride
<1>1. x \in 0 .. Stride - 1 /\ y \in 0 .. Stride - 1
    BY Offset
<1>2. (t - 1) \in Int /\ (u - 1) \in Int /\ Stride \in Nat
    BY TrialAssumption
<1>3. (t - 1) * Stride + x = (u - 1) * Stride + y
    <2>1. (t - 1) * Stride \in Int /\ (u - 1) * Stride \in Int
          /\ (a - 1) * RetryStride \in Int /\ (b - 1) * RetryStride \in Int
        BY TrialAssumption
    <2> QED
        BY <2>1 DEF Seed
<1>4. t - 1 = u - 1 /\ x = y
    <2> HIDE DEF x, y
    <2> QED
        BY <1>1, <1>2, <1>3, Digits
<1>5. (a - 1) * RetryStride + n = (b - 1) * RetryStride + m
    <2>1. (a - 1) * RetryStride \in Int /\ (b - 1) * RetryStride \in Int
        BY TrialAssumption
    <2> QED
        BY <1>4, <2>1
<1>6. n \in 0 .. RetryStride - 1 /\ m \in 0 .. RetryStride - 1
    BY TrialAssumption DEF SeedsAreApart
<1>7. a - 1 = b - 1 /\ n = m
    BY <1>5, <1>6, Digits, TrialAssumption
<1> QED
    BY <1>4, <1>7

----------------------------------------------------------------------------
THEOREM Invariant == Spec => []IInv
<1>1. IInv /\ [Next]_vars => IInv'
    BY ShapeStep, BudgetStep, PlacedStep, SeededStep, ContainedStep, TimedStep DEF IInv
<1> QED
    BY InitInv, <1>1, PTL DEF Spec

\* Every variable keeps the type the code gives it: among others a trial never takes more
\* steps than its task allows, nor a decision more attempts.
THEOREM TypeCorrect == Spec => []TrialTypeOK
<1>1. IInv => TrialTypeOK
    BY DEF IInv, Shape, Budget, Calls, TrialTypeOK, Count
<1> QED
    BY Invariant, <1>1, PTL

\* With strides that are far enough apart, no two requests of a run share a seed: repeated
\* trials are sampled independently, and a retry is no repetition of another step.
THEOREM FreshSeeds == Spec => []SeedsAreFresh
<1>1. IInv => SeedsAreFresh
    <2> SUFFICES ASSUME Seeded, SeedsAreApart, NEW r \in requests, NEW s \in requests, r.seed = s.seed
                 PROVE  r = s
        BY DEF IInv, SeedsAreFresh
    <2>1. r \in Requests /\ s \in Requests
        BY DEF Seeded
    <2>2. Seed(r.trial, r.step, r.attempt) = Seed(s.trial, s.step, s.attempt)
        BY DEF Seeded
    <2>3. r.trial = s.trial /\ r.step = s.step /\ r.attempt = s.attempt
        BY <2>1, <2>2, SeedInjective DEF Requests
    <2> QED
        BY <2>1, <2>3 DEF Requests
<1> QED
    BY Invariant, <1>1, PTL

\* A container is left running by its trial only if the alarm went off before the container
\* was marked or while it was being removed, or if docker rm failed.
THEOREM RemovedContainers == Spec => []ContainersAreRemoved
<1>1. IInv => ContainersAreRemoved
    BY DEF IInv, Contained, ContainersAreRemoved
<1> QED
    BY Invariant, <1>1, PTL

\* A wall-clock limit that struck is recorded as a time-out of the trial it was set for, and
\* when the probe is done every trial is recorded and the timer is off.
THEOREM RecordedTimeouts == Spec => []TimeoutsAreRecorded
<1>1. IInv => TimeoutsAreRecorded
    <2> SUFFICES ASSUME IInv PROVE TimeoutsAreRecorded
        OBVIOUS
    <2>1. ASSUME pc = "done", NEW t \in 1 .. Trials PROVE recorded[t] # "none"
        <3>1. trial = Trials + 1
            BY <2>1 DEF IInv, Placed
        <3>2. t < trial
            BY <3>1, TrialAssumption
        <3> QED
            BY <3>2 DEF IInv, Timed
    <2> QED
        BY <2>1 DEF IInv, Timed, TimeoutsAreRecorded, At
<1> QED
    BY Invariant, <1>1, PTL
=============================================================================
