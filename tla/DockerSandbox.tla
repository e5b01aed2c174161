--------------------------- MODULE DockerSandbox ---------------------------
(***************************************************************************)
(* The lifecycle of DockerSandboxEnvironment: reset, close and what an     *)
(* episode leaves in the object, in front of a Docker daemon that answers  *)
(* late, fails, or loses a container.  One environment object, whose       *)
(* caller resets and closes it any number of times, in any order.          *)
(*                                                                         *)
(* A container is named afresh by every reset, so its name also stands for *)
(* the episode that reset starts.  What an episode does between reset and  *)
(* close is in ToolEnvironment; two threads in one environment are in      *)
(* GRPOWorker.                                                             *)
(***************************************************************************)
EXTENDS Naturals, FiniteSets

CONSTANTS Boxes,         \* container names _container_name may draw
          NoBox,         \* container_name is None
          DaemonFaults   \* what may go wrong in the daemon

ASSUME SandboxAssumption ==
    NoBox \notin Boxes /\ DaemonFaults \subseteq {"start_timeout", "rm_fails", "box_dies"}

VARIABLES
    pc,       \* where reset is, or "idle" between the calls of the owner
    task,     \* self.task is not None
    name,     \* container_name
    started,  \* _container_started
    holds,    \* for each field that an episode fills, the episode it was filled in
    boxes,    \* the containers of the daemon
    patched,  \* containers at the base commit that hold the verifier's tests
    acked,    \* history: containers whose docker run returned 0
    excused   \* history: containers whose docker run timed out or docker rm failed

sandboxVars == <<pc, task, name, started, holds, boxes, patched, acked, excused>>
daemon == <<boxes, patched, acked, excused>>

Fields == {"test_results", "changed_files", "protected_files", "read_spans", "edited",
           "counters", "guard"}

\* What a tool call of the episode may fill; counters are steps, tool_calls, violations.
Used == Fields \ {"protected_files"}

\* The fields that close() clears; reset() clears ClearedByReset after it.
ClearedByClose == Fields \ {"counters"}
ClearedByReset == {"counters", "read_spans", "guard"}

Without(fields) == [f \in Fields |-> IF f \in fields THEN NoBox ELSE holds[f]]

With(fields)    == [f \in Fields |-> IF f \in fields THEN name ELSE holds[f]]

Running == {b \in Boxes : boxes[b] = "running"}

----------------------------------------------------------------------------
(* close                                                                   *)

\* Mutant: close leaves the flag of an unverified edit.
ForgetKeepsEdited ==
    /\ name' = NoBox /\ started' = FALSE /\ task' = FALSE
    /\ holds' = Without(ClearedByClose \ {"edited"})

\* The name is dropped first, then every field but the counters.
Forget ==
    /\ name' = NoBox /\ started' = FALSE /\ task' = FALSE
    /\ holds' = Without(ClearedByClose)

\* docker rm --force, only for a container whose docker run returned 0.  What it
\* returns, a timeout included, is not looked at.
RemoveBox ==
    \/ /\ name # NoBox /\ started
       /\ \/ /\ boxes' = [boxes EXCEPT ![name] = "gone"]
             /\ UNCHANGED excused
          \/ /\ "rm_fails" \in DaemonFaults
             /\ excused' = excused \cup {name}
             /\ UNCHANGED boxes
    \/ /\ ~(name # NoBox /\ started)
       /\ UNCHANGED <<boxes, excused>>

Close ==
    /\ pc = "idle"
    /\ RemoveBox /\ Forget
    /\ UNCHANGED <<pc, patched, acked>>

\* except Exception: self.close(); raise
CloseAndRaise ==
    /\ pc' = "idle"
    /\ RemoveBox /\ Forget

----------------------------------------------------------------------------
(* reset                                                                   *)

\* reset closes the last episode first, and refuses a task that is not its own.
\* A name is drawn in the next step (guard: the bound on Boxes).
Reset ==
    /\ pc = "idle"
    /\ \E b \in Boxes : boxes[b] = "unused"
    /\ RemoveBox /\ Forget
    /\ pc' \in {"idle", "naming"}
    /\ UNCHANGED <<patched, acked>>

Name(b) ==
    /\ pc = "naming"
    /\ boxes[b] = "unused"
    /\ boxes' = [boxes EXCEPT ![b] = "named"]
    /\ task' = TRUE /\ name' = b
    /\ holds' = Without(ClearedByReset)
    /\ pc' = "starting"
    /\ UNCHANGED <<started, patched, acked, excused>>

\* Mutant: the container counts as started once its commit is checked.
StartUnmarked ==
    /\ pc = "starting"
    /\ boxes' = [boxes EXCEPT ![name] = "running"]
    /\ acked' = acked \cup {name}
    /\ pc' = "checking"
    /\ UNCHANGED <<task, name, started, holds, patched, excused>>

\* docker run --detach returns 0.
StartBox ==
    /\ pc = "starting"
    /\ boxes' = [boxes EXCEPT ![name] = "running"]
    /\ started' = TRUE
    /\ acked' = acked \cup {name}
    /\ pc' = "checking"
    /\ UNCHANGED <<task, name, holds, patched, excused>>

\* docker run fails, or its client is killed after startup_timeout_seconds while
\* the daemon goes on: _fail_and_close.  started is still false, so close leaves
\* the container alone.
StartFails ==
    /\ pc = "starting"
    /\ pc' = "idle"
    /\ Forget
    /\ \/ /\ boxes' = [boxes EXCEPT ![name] = "gone"]
          /\ UNCHANGED excused
       \/ /\ "start_timeout" \in DaemonFaults
          /\ boxes' = [boxes EXCEPT ![name] = "starting"]
          /\ excused' = excused \cup {name}
    /\ UNCHANGED <<patched, acked>>

\* git rev-parse HEAD says base_commit; or it does not, fails or times out.
CheckCommit ==
    /\ pc = "checking"
    /\ \/ /\ name \in Running
          /\ pc' = "patching"
          /\ UNCHANGED <<task, name, started, holds, boxes, excused>>
       \/ CloseAndRaise
    /\ UNCHANGED <<patched, acked>>

\* git apply of the verifier's test patch, then the files it declares.
ApplyTests ==
    /\ pc = "patching"
    /\ \/ /\ name \in Running
          /\ patched' = patched \cup {name}
          /\ \/ /\ holds' = With({"protected_files"})
                /\ pc' = "testing"
                /\ UNCHANGED <<task, name, started, boxes, excused>>
             \/ CloseAndRaise                            \* it declares no file
       \/ /\ CloseAndRaise
          /\ UNCHANGED patched
    /\ UNCHANGED acked

\* The baseline fails or times out, which a container that died does as well; or
\* it passes, and the task is invalid.
Baseline ==
    /\ pc = "testing"
    /\ \/ /\ holds' = With({"test_results"})
          /\ pc' = "idle"
          /\ UNCHANGED <<task, name, started, boxes, excused>>
       \/ /\ name \in Running
          /\ CloseAndRaise
    /\ UNCHANGED <<patched, acked>>

----------------------------------------------------------------------------
(* The episode, and the daemon                                             *)

\* step or finalize: _require_active, then the fields a tool call may fill.
Use ==
    /\ pc = "idle" /\ task /\ name # NoBox
    /\ \E fields \in SUBSET Used : holds' = With(fields)
    /\ UNCHANGED <<pc, task, name, started>> /\ UNCHANGED daemon

\* The daemon starts a container nobody waits for any more, or drops the request.
StartLate(b) ==
    /\ boxes[b] = "starting"
    /\ boxes' = [boxes EXCEPT ![b] = "running"]
    /\ UNCHANGED <<pc, task, name, started, holds, patched, acked, excused>>

\* The sleep of a container is killed (its memory limit), and --rm removes it.
Die(b) ==
    /\ "box_dies" \in DaemonFaults
    /\ boxes[b] = "running"
    /\ boxes' = [boxes EXCEPT ![b] = "gone"]
    /\ UNCHANGED <<pc, task, name, started, holds, patched, acked, excused>>

----------------------------------------------------------------------------
SandboxInit ==
    /\ pc = "idle" /\ task = FALSE /\ name = NoBox /\ started = FALSE
    /\ holds = [f \in Fields |-> NoBox]
    /\ boxes = [b \in Boxes |-> "unused"]
    /\ patched = {} /\ acked = {} /\ excused = {}

ResetStep ==
    \/ (\E b \in Boxes : Name(b))
    \/ StartBox \/ StartFails \/ CheckCommit \/ ApplyTests \/ Baseline

SandboxNext ==
    \/ Reset \/ ResetStep \/ Close \/ Use
    \/ \E b \in Boxes : StartLate(b) \/ Die(b)

\* Every docker command has a timeout, so reset ends; and the owner closes the
\* environment in a finally clause (RolloutCollector.collect, the smoke, the worker's
\* create and delete).  The daemon need not start what it was asked for.
SandboxSpec == SandboxInit /\ [][SandboxNext]_sandboxVars
FairSandboxSpec == SandboxSpec /\ WF_sandboxVars(ResetStep) /\ WF_sandboxVars(Close)

----------------------------------------------------------------------------
\* Every variable has the type the code gives it.
SandboxTypeOK ==
    /\ pc \in {"idle", "naming", "starting", "checking", "patching", "testing"}
    /\ task \in BOOLEAN /\ started \in BOOLEAN
    /\ name \in Boxes \cup {NoBox}
    /\ holds \in [Fields -> Boxes \cup {NoBox}]
    /\ boxes \in [Boxes -> {"unused", "named", "starting", "running", "gone"}]
    /\ patched \subseteq Boxes /\ acked \subseteq Boxes /\ excused \subseteq Boxes

\* A container that docker run acknowledged runs only as long as the environment can
\* still name it to docker rm: whatever reset trips over, and however often it is
\* called again, no acknowledged container falls out of the object unremoved.
AckedIsOwned ==
    \A b \in acked : boxes[b] = "running" => (name = b /\ started) \/ b \in excused

\* An environment that accepts a step is bound to a container that passed the whole of
\* reset: commit checked, verifier's tests in place and known as protected.  A reset
\* that raised leaves nothing that a later step could act on.
ActiveIsPrepared ==
    pc = "idle" /\ name # NoBox =>
        task /\ started /\ name \in patched /\ holds["protected_files"] = name

\* No field carries over: reset clears some and relies on close for the others, so
\* a finish cannot be answered from the previous episode's verifier run, nor an edit
\* be allowed by the previous episode's reads.
NothingCarriesOver ==
    name # NoBox => \A f \in Fields : holds[f] \in {NoBox, name}

\* A container that runs is removed once its owner is done, unless Docker refused:
\* the client gave up on docker run, or docker rm failed.
Released == \A b \in Boxes : boxes[b] = "running" ~> (boxes[b] # "running" \/ b \in excused)

\* README: the provider implements the container's forced cleanup.
ForcedCleanup == \A b \in Boxes : boxes[b] = "running" ~> boxes[b] # "running"
=============================================================================
