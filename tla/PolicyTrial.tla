---------------------------- MODULE PolicyTrial ----------------------------
(***************************************************************************)
(* The trials of a served model: OpenAICompatiblePolicy.next_action with   *)
(* its attempts, corrections and seeds, asked step by step by              *)
(* RolloutCollector.collect in a Docker environment, one trial after       *)
(* another under the wall-clock limit of the diagnostic probe.             *)
(*                                                                         *)
(* The limit is a signal: it raises between any two statements of a trial, *)
(* those of reset and close included.  What a step does to the repository  *)
(* is in ToolEnvironment, the rest of the container in DockerSandbox.      *)
(***************************************************************************)
EXTENDS Integers, Sequences

CONSTANTS
    Trials,      \* number of trials, tasks and repetitions in the order they are run
    MaxSteps,    \* task.max_steps
    Attempts,    \* max_attempts
    Stride,      \* 10_000: between the seeds of two trials
    RetryStride, \* RETRY_SEED_STRIDE
    Sizes,       \* how long an observation may be
    MaxObservation, MaxHistory, Window,  \* the limits on a prompt, in the same unit
    Faults       \* what may go wrong

ASSUME TrialAssumption ==
    /\ Trials \in Nat /\ MaxSteps \in Nat \ {0} /\ Attempts \in Nat \ {0}
    /\ Stride \in Nat /\ RetryStride \in Nat
    /\ Sizes \subseteq Nat /\ MaxObservation \in Nat \ {0} /\ MaxHistory \in Nat \ {0}
    /\ Window \in Nat
    /\ Faults \subseteq {"down", "cut", "reset", "step", "remove", "alarm"}

\* Seeds of different trials, steps and attempts are apart.  The code checks only that
\* Stride is at least MaxSteps; with 1009, 10000 and 2 attempts it holds to 1009 steps.
SeedsAreApart ==
    /\ MaxSteps <= RetryStride
    /\ (Attempts - 1) * RetryStride + MaxSteps <= Stride

VARIABLES
    trial,       \* the trial being run, Trials + 1 when all are
    pc,          \* where it is
    history,     \* lengths of the observations of its steps
    call,        \* the local variables of next_action
    started,     \* _container_started and container_name of its environment
    alarm,       \* ITIMER_REAL
    ending,      \* how collect will end: its value or the exception on its way out
    running,     \* trials whose container runs
    recorded,    \* recorded[t]: how trial t was recorded
    requests,    \* history: the requests sent, with their seeds
    corrections, \* history: <<reply quoted, reply corrected>> of the present prompt
    late         \* history: trials whose container the alarm, or the daemon, kept

vars == <<trial, pc, history, call, started, alarm, ending, running, recorded,
          requests, corrections, late>>
local == <<trial, history, call, corrections>>   \* what only the loop changes
boxes == <<started, running, late>>

\* attempt; output: the step and the attempt that output_text and last_response_metadata are
\* of, or Nothing; violation: of the decision.
Nothing == <<0, 0>>
NewCall == [attempt |-> 1, output |-> Nothing, violation |-> "none"]

Positions == {"creating", "marking", "looping", "asking", "stepping", "grading",
              "closing", "removing", "leaving", "done"}
Endings == {"none", "trajectory", "failure", "timeout"}

At(p) == pc = p
Go(p) == pc' = p
Count == Len(history)

----------------------------------------------------------------------------
(* The prompt                                                              *)

Least(a, b) == IF a <= b THEN a ELSE b

\* observation[-max_observation_chars:][-remaining_history_chars:], or "" when none remain
Kept(size, left) == IF left = 0 THEN 0 ELSE Least(Least(size, MaxObservation), left)

\* Left(sizes)[n]: the history budget the newest n observations leave.
Left(sizes) ==
    LET left[n \in 0 .. Len(sizes)] ==
            IF n = 0 THEN MaxHistory
            ELSE left[n - 1] - Kept(sizes[Len(sizes) - n + 1], left[n - 1])
    IN  left

\* The history of a prompt: what is kept of each observation.
HistoryPayload(sizes) ==
    [n \in 1 .. Len(sizes) |-> Kept(sizes[n], Left(sizes)[Len(sizes) - n])]

\* estimate_prompt_tokens and max_tokens against the context window.
Overflows == MaxHistory - Left(history)[Count] > Window

----------------------------------------------------------------------------
(* reset                                                                   *)

\* docker run starts the container ...
Create ==
    /\ At("creating")
    /\ running' = running \cup {trial} /\ Go("marking")
    /\ UNCHANGED <<local, started, alarm, ending, recorded, requests, late>>

\* ... and reset marks it as started.
Mark ==
    /\ At("marking")
    /\ started' = TRUE /\ Go("looping")
    /\ UNCHANGED <<local, alarm, ending, running, recorded, requests, late>>

\* A command of reset fails; reset closes what it has, and collect closes again.
ResetFails ==
    /\ "reset" \in Faults /\ pc \in {"creating", "looping"} /\ Count = 0
    /\ Go("closing") /\ ending' = "failure"
    /\ UNCHANGED <<local, boxes, alarm, recorded, requests>>

----------------------------------------------------------------------------
(* next_action                                                             *)

FreshCall == NewCall

\* A prompt that does not fit is not sent: the decision is a fallback.
Ask ==
    /\ At("looping") /\ Count < MaxSteps
    /\ IF Overflows
       THEN /\ call' = [FreshCall EXCEPT !.violation = "policy_transport_error"]
            /\ Go("grading")
       ELSE call' = FreshCall /\ Go("asking")
    /\ corrections' = <<>>
    /\ UNCHANGED <<trial, history, boxes, alarm, ending, recorded, requests>>

\* Mutant: every attempt uses the seed of the step.
SeedOfStep(t, n, attempt) == (t - 1) * Stride + n

\* seed + (attempt - 1) * RETRY_SEED_STRIDE, over the seed of the trial and its step
Seed(t, n, attempt) == (t - 1) * Stride + n + (attempt - 1) * RetryStride

Request == [trial |-> trial, step |-> Count, attempt |-> call.attempt,
            seed |-> Seed(trial, Count, call.attempt)]

Sent == At("asking") /\ requests' = requests \cup {Request}

\* The reply being read: _response_content found a completion in it.
Reply == <<Count, call.attempt>>

\* An action that parses.
Decides ==
    /\ Sent /\ Go("stepping")
    /\ call' = [call EXCEPT !.output = Reply]
    /\ UNCHANGED <<trial, history, corrections, boxes, alarm, ending, recorded>>

\* Mutant: a failed attempt is made again.
FailsAgain(next) == call' = next /\ UNCHANGED pc

\* An attempt that failed: the next one, or a fallback that ends the episode.
Fails(next) ==
    IF call.attempt < Attempts
    THEN call' = [next EXCEPT !.attempt = @ + 1] /\ UNCHANGED pc
    ELSE call' = next /\ Go("grading")

\* What is appended to the messages after a protocol error, if there is an output to quote.
Corrects(output) ==
    corrections' = IF output # Nothing /\ call.attempt < Attempts
                   THEN Append(corrections, <<output, Reply>>) ELSE corrections

\* A completion that is no action, or is cut off at max_tokens.
Malformed ==
    /\ Sent
    /\ Fails([call EXCEPT !.output = Reply, !.violation = "policy_protocol_error"])
    /\ Corrects(Reply)
    /\ UNCHANGED <<trial, history, boxes, alarm, ending, recorded>>

\* An answer without a completion: output_text stays what it was.
Empty ==
    /\ Sent
    /\ Fails([call EXCEPT !.violation = "policy_protocol_error"])
    /\ Corrects(call.output)
    /\ UNCHANGED <<trial, history, boxes, alarm, ending, recorded>>

\* HTTP error, refused connection, timeout.
Down ==
    /\ "down" \in Faults /\ Sent
    /\ Fails([call EXCEPT !.violation = "policy_transport_error"])
    /\ UNCHANGED <<trial, history, corrections, boxes, alarm, ending, recorded>>

\* A body that ends early is no OSError: it leaves post_json, next_action and collect.
Cut ==
    /\ "cut" \in Faults /\ Sent
    /\ Go("closing") /\ ending' = "failure"
    /\ UNCHANGED <<local, boxes, alarm, recorded>>

----------------------------------------------------------------------------
(* collect                                                                 *)

\* environment.step(decision.action), which may end the episode.
Step ==
    /\ At("stepping")
    /\ \E size \in Sizes : history' = Append(history, size)
    /\ \E next \in {"looping", "grading"} : Go(next)
    /\ UNCHANGED <<trial, call, corrections, boxes, alarm, ending, recorded, requests>>

StepsUsedUp ==
    /\ At("looping") /\ Count >= MaxSteps
    /\ Go("grading")
    /\ UNCHANGED <<local, boxes, alarm, ending, recorded, requests>>

\* The last grading and the trajectory made of it.
Grade ==
    /\ At("grading")
    /\ Go("closing") /\ ending' = "trajectory"
    /\ UNCHANGED <<local, boxes, alarm, recorded, requests>>

\* A tool or the grading raises something that is no tool error.
Raises ==
    /\ "step" \in Faults /\ pc \in {"stepping", "grading"}
    /\ Go("closing") /\ ending' = "failure"
    /\ UNCHANGED <<local, boxes, alarm, recorded, requests>>

\* Mutant: close clears the flag before it tests it.
CloseCleared ==
    /\ At("closing") /\ Go("leaving") /\ started' = FALSE
    /\ UNCHANGED <<local, late, alarm, ending, running, recorded, requests>>

\* close forgets the name first ...
CloseBegin ==
    /\ At("closing")
    /\ Go(IF started THEN "removing" ELSE "leaving") /\ started' = FALSE
    /\ late' = IF started THEN late ELSE late \cup ({trial} \cap running)
    /\ UNCHANGED <<local, alarm, ending, running, recorded, requests>>

\* ... and then sends docker rm, whose result it ignores.
Remove ==
    /\ At("removing") /\ Go("leaving")
    /\ \/ running' = running \ {trial} /\ UNCHANGED late
       \/ "remove" \in Faults /\ late' = late \cup {trial} /\ UNCHANGED running
    /\ UNCHANGED <<local, started, alarm, ending, recorded, requests>>

----------------------------------------------------------------------------
(* The probe                                                               *)

\* SIGALRM: the finally clause of collect still closes the environment, unless it raises
\* there; after collect it takes the trajectory with it.
Alarm ==
    /\ "alarm" \in Faults /\ alarm = "armed" /\ ~At("done")
    /\ alarm' = "fired" /\ ending' = "timeout"
    /\ IF pc \in {"closing", "removing", "leaving"}
       THEN Go("leaving") /\ late' = late \cup ({trial} \cap running)
       ELSE Go("closing") /\ UNCHANGED late
    /\ UNCHANGED <<local, started, running, recorded, requests>>

\* The finally clause of hard_timeout, and the signal.setitimer of the next trial.
Disarmed == IF trial < Trials THEN "armed" ELSE "off"

\* The trial is recorded, its exception as an infrastructure failure, and the next one runs
\* with an environment of its own.
Record ==
    /\ At("leaving")
    /\ recorded' = [recorded EXCEPT ![trial] = ending]
    /\ trial' = trial + 1 /\ Go(IF trial < Trials THEN "creating" ELSE "done")
    /\ alarm' = Disarmed /\ ending' = "none" /\ started' = FALSE
    /\ history' = <<>> /\ call' = NewCall /\ corrections' = <<>>
    /\ UNCHANGED <<running, requests, late>>

Done == At("done") /\ UNCHANGED vars

Init ==
    /\ trial = 1 /\ pc = (IF Trials = 0 THEN "done" ELSE "creating")
    /\ history = <<>> /\ call = NewCall /\ corrections = <<>>
    /\ started = FALSE /\ running = {} /\ late = {}
    /\ alarm = (IF Trials = 0 THEN "off" ELSE "armed") /\ ending = "none"
    /\ recorded = [t \in 1 .. Trials |-> "none"]
    /\ requests = {}

Runs ==
    \/ Create \/ Mark \/ ResetFails \/ Ask \/ Decides \/ Malformed \/ Empty \/ Down \/ Cut
    \/ Step \/ StepsUsedUp \/ Grade \/ Raises \/ CloseBegin \/ Remove \/ Record

Next == Runs \/ Alarm \/ Done

Spec == Init /\ [][Next]_vars

\* Requests and commands have timeouts, and the programs run on.
FairSpec == Spec /\ WF_vars(Runs)

----------------------------------------------------------------------------
\* Every variable has the type the code gives it.
TrialTypeOK ==
    /\ trial \in 1 .. Trials + 1 /\ pc \in Positions
    /\ history \in Seq(Sizes) /\ Count <= MaxSteps
    /\ call.attempt \in 1 .. Attempts
    /\ started \in BOOLEAN /\ alarm \in {"armed", "fired", "off"} /\ ending \in Endings
    /\ running \subseteq 1 .. Trials /\ late \subseteq 1 .. Trials
    /\ recorded \in [1 .. Trials -> Endings]

\* No two requests of a run share a seed, whichever trial, step or attempt they are of: the
\* trials that are reported as independent samples are.
SeedsAreFresh ==
    SeedsAreApart => \A r, s \in requests : r.seed = s.seed => r = s

\* A correction quotes the reply it corrects.  (With a third attempt it would not: an empty
\* second reply is corrected by quoting the first one again.)
CorrectionQuotesItsReply ==
    Attempts <= 2 => \A n \in 1 .. Len(corrections) : corrections[n][1] = corrections[n][2]

\* The history of a prompt keeps to its budget, and takes it from the oldest observations:
\* one that is cut short has nothing before it.
HistoryFits ==
    LET payload == HistoryPayload(history) IN
    /\ \A n \in 0 .. Count : Left(history)[n] \in 0 .. MaxHistory
    /\ \A n \in 1 .. Count :
          payload[n] < Least(history[n], MaxObservation) => \A m \in 1 .. n - 1 : payload[m] = 0

\* A container outlives its trial only if the alarm went off in reset before the container
\* was marked, or inside close, or if docker rm failed.
ContainersAreRemoved == \A t \in running : t = trial \/ t \in late

\* A wall-clock limit is recorded as such, and belongs to the trial it was set for; a
\* trajectory is recorded only of a trial that came to its end.
TimeoutsAreRecorded ==
    /\ alarm = "fired" => ending = "timeout"
    /\ ~At("done") => alarm # "off"
    /\ At("done") => alarm = "off" /\ \A t \in 1 .. Trials : recorded[t] # "none"

\* Every trial comes to an end and is recorded, whatever model, network and daemon do.
TrialsEnd == <>At("done")
=============================================================================
