--------------------------- MODULE RemoteEpisode ---------------------------
(***************************************************************************)
(* RemoteGRPOCodingEnvironment, the tool environment that the trainer      *)
(* calls, in front of the worker of GRPOWorker.  The client makes one      *)
(* request at a time; a request may be lost on its way, and its reply may  *)
(* be lost or come after the 900 seconds the client waits for it, while    *)
(* the handler goes on: a test run alone may take 1800.                    *)
(*                                                                         *)
(* The worker is not shut down here: what server_close does to the         *)
(* sessions is checked in GRPOWorker.                                      *)
(***************************************************************************)
EXTENDS GRPOWorker, Sequences

CONSTANTS Faults,   \* the requests that may fail on the network
          MaxLost   \* how many of them do, in all (a bound for TLC)

Requests == {"create", "action", "finalize", "delete"}

NoThread == "nothread"

ASSUME RemoteAssumption ==
    /\ Faults \subseteq Requests /\ MaxLost \in Nat
    /\ NoThread \notin Threads /\ NoSid \notin Sessions

VARIABLES
    client,     \* RemoteGRPOCodingEnvironment, and the call it is in
    audit,      \* per session, the rewards _audit_reward appended to the file
    orphaned,   \* history: sessions of which a create reply or a delete was lost
    lost        \* how many requests failed on the network

remoteVars == <<vars, client, audit, orphaned, lost>>

\* method: the public call in progress; request, target, kind, thread: what it has
\* sent and the handler that has it; session_id, completed, reward: the attributes;
\* episode: history, the last session that reset returned.
NewClient == [method |-> "none", request |-> "none", target |-> NoSid, kind |-> "inspect",
              thread |-> NoThread, session_id |-> NoSid, completed |-> FALSE,
              reward |-> "zero", episode |-> NoSid]

Idle == client.request = "none"

\* _require_session
Active == client.session_id # NoSid /\ ~client.completed

----------------------------------------------------------------------------
(* The calls of the trainer                                                *)

\* reset: _delete forgets the session before it asks the worker to delete it.
Reset ==
    /\ Idle
    /\ client' = [client EXCEPT !.method = "reset", !.session_id = NoSid,
                                !.target = client.session_id,
                                !.request = IF client.session_id = NoSid THEN "create" ELSE "delete"]
    /\ UNCHANGED <<vars, audit, orphaned, lost>>

\* A tool: _act
Act(kind) ==
    /\ Idle /\ Active
    /\ client' = [client EXCEPT !.method = "act", !.request = "action", !.kind = kind,
                                !.target = client.session_id]
    /\ UNCHANGED <<vars, audit, orphaned, lost>>

\* get_reward asks the worker only while the episode has no reward.
GetReward ==
    /\ Idle /\ Active
    /\ client' = [client EXCEPT !.method = "get_reward", !.request = "finalize",
                                !.target = client.session_id]
    /\ UNCHANGED <<vars, audit, orphaned, lost>>

----------------------------------------------------------------------------
(* What a call does with the answer to its request                         *)

\* The call returns, or raises.
Returned(c) == [c EXCEPT !.method = "none", !.request = "none", !.target = NoSid,
                         !.thread = NoThread]

\* _delete: the session is forgotten first, and a failure is ignored.
Deleting(c) == [c EXCEPT !.session_id = NoSid, !.request = "delete", !.thread = NoThread]

Ended(c, r) == [c EXCEPT !.completed = TRUE, !.reward = r]

\* payload.get("reward") or 0.0
RewardIn(reply) == IF reply.reward = "unset" THEN "zero" ELSE reply.reward

\* After the delete: reset goes on to create, any other call is done.
AfterDelete(c) ==
    IF c.method = "reset" THEN [c EXCEPT !.request = "create", !.target = NoSid, !.thread = NoThread]
                          ELSE Returned(c)

\* Mutant: a failed action gives its session up without a delete.
FailedForgets(c) ==
    CASE c.request = "create"   -> Returned(c)
      [] c.request = "delete"   -> AfterDelete(c)
      [] c.request = "finalize" -> Returned(c)
      [] c.request = "action"   -> Returned([Ended(c, "zero") EXCEPT !.session_id = NoSid])

\* _request raised GRPOEnvironmentError.
Failed(c) ==
    CASE c.request = "create"   -> Returned(c)
      [] c.request = "delete"   -> AfterDelete(c)
      [] c.request = "finalize" -> Returned(c)
      [] c.request = "action"   -> Deleting(Ended(c, "zero"))

\* Mutant: reset keeps the reward of the last episode.
CreatedKeepsReward(c, s) ==
    Returned([c EXCEPT !.session_id = s, !.episode = s, !.completed = FALSE])

\* reset returns the observation of a new session.
Created(c, s) ==
    Returned([c EXCEPT !.session_id = s, !.episode = s, !.completed = FALSE, !.reward = "zero"])

\* A reply that ends the episode: a terminated action, or any answer to finalize.
Completes(c, reply) ==
    reply.status = "ok" /\ (c.request = "finalize" \/ (c.request = "action" /\ reply.terminated))

\* Mutant: get_reward does not remember that it has the reward.
AnsweredForgetful(c, s, reply) ==
    CASE reply.status # "ok"    -> Failed(c)
      [] reply.status = "ok" /\ c.request = "create" -> Created(c, s)
      [] reply.status = "ok" /\ c.request = "delete" -> AfterDelete(c)
      [] reply.status = "ok" /\ c.request = "finalize" ->
            Returned([c EXCEPT !.reward = RewardIn(reply)])
      [] reply.status = "ok" /\ c.request = "action" ->
            IF Completes(c, reply) THEN Deleting(Ended(c, RewardIn(reply))) ELSE Returned(c)

\* The answer of the worker to the request of c, from a handler that served s.
Answered(c, s, reply) ==
    CASE reply.status # "ok"    -> Failed(c)
      [] reply.status = "ok" /\ c.request = "create" -> Created(c, s)
      [] reply.status = "ok" /\ c.request = "delete" -> AfterDelete(c)
      [] reply.status = "ok" /\ c.request \in {"action", "finalize"} ->
            IF Completes(c, reply) THEN Deleting(Ended(c, RewardIn(reply))) ELSE Returned(c)

\* _audit_reward: one line per reply that ends an episode.
Audited(c, reply) ==
    IF Completes(c, reply) THEN [audit EXCEPT ![c.target] = Append(@, RewardIn(reply))] ELSE audit

----------------------------------------------------------------------------
(* The network                                                             *)

\* The request reaches the worker, which serves it in a thread of its own.
Arrive(t) ==
    /\ client.request # "none" /\ client.thread = NoThread
    /\ server.phase # "exited"
    /\ \/ client.request = "create" /\ \E s \in Sessions : AcceptCreate(t, s)
       \/ client.request = "action" /\ AcceptCall(t, "action", client.target, client.kind)
       \/ client.request = "finalize" /\ AcceptCall(t, "finalize", client.target, "inspect")
       \/ client.request = "delete" /\ AcceptDelete(t, client.target)
    /\ client' = [client EXCEPT !.thread = t]
    /\ UNCHANGED <<audit, orphaned, lost>>

\* The handler's answer reaches the client.
Reply(t) ==
    /\ client.thread = t
    /\ Hangup(t)
    /\ client' = Answered(client, Sid(t), call[t].reply)
    /\ audit' = Audited(client, call[t].reply)
    /\ UNCHANGED <<orphaned, lost>>

\* The request is lost, or the client stops waiting for its handler.
Lose ==
    /\ client.request \in Faults /\ lost < MaxLost
    /\ lost' = lost + 1
    /\ client' = Failed(client)
    /\ orphaned' = orphaned \cup
          {s \in Sessions :
              \/ client.request = "delete" /\ client.thread = NoThread /\ s = client.target
              \/ client.request = "create" /\ client.thread # NoThread /\ s = Sid(client.thread)}
    /\ UNCHANGED <<vars, audit>>

\* Nobody waits for the answer of this handler any more.
Unheard(t) == client.thread # t /\ Hangup(t) /\ UNCHANGED <<client, audit, orphaned, lost>>

Worker(t) == ThreadStep(t) /\ UNCHANGED <<client, audit, orphaned, lost>>

----------------------------------------------------------------------------
RemoteInit ==
    /\ Init
    /\ client = NewClient
    /\ audit = [s \in Sessions |-> << >>]
    /\ orphaned = {}
    /\ lost = 0

RemoteNext ==
    \/ Reset \/ (\E k \in Asked : Act(k)) \/ GetReward
    \/ Lose
    \/ \E t \in Threads : Arrive(t) \/ Reply(t) \/ Unheard(t) \/ Worker(t)

\* The worker's handlers all end (GRPOWorker); a request in flight is served, heard
\* or lost; nothing obliges the trainer to make a call.
RemoteFairness ==
    /\ \A t \in Threads : WF_remoteVars(Worker(t)) /\ WF_remoteVars(Unheard(t))
    /\ WF_remoteVars(Lose \/ \E t \in Threads : Arrive(t) \/ Reply(t))

RemoteSpec     == RemoteInit /\ [][RemoteNext]_remoteVars
RemoteFairSpec == RemoteSpec /\ RemoteFairness

----------------------------------------------------------------------------
ClientType ==
    [method : {"none", "reset", "act", "get_reward"}, request : {"none"} \cup Requests,
     target : Sessions \cup {NoSid}, kind : Kinds, thread : Threads \cup {NoThread},
     session_id : Sessions \cup {NoSid}, completed : BOOLEAN, reward : Rewards,
     episode : Sessions \cup {NoSid}]

\* Every variable has the type the code gives it.
RemoteTypeOK ==
    /\ TypeOK
    /\ client \in ClientType
    /\ audit \in [Sessions -> Seq(Rewards)]
    /\ orphaned \in SUBSET Sessions
    /\ lost \in 0 .. MaxLost

\* The audit file and the trainer see the same rewards: an episode has at most one
\* line, with the reward the client reports for it; an episode without a line (its
\* action failed) is reported as 0.0.  grpo_evaluate counts on it.
AuditMatchesReward ==
    /\ \A s \in Sessions : Len(audit[s]) <= 1
    /\ \A s \in {client.episode} \ {NoSid} :
          IF audit[s] = << >> THEN client.reward = "zero"
          ELSE client.completed /\ audit[s] = <<client.reward>>

\* A container the worker started for this client goes when its episode does, unless
\* the client lost the id (a create it gave up) or the delete, or the handlers of an
\* abandoned action and of the delete raced in close: whatever else they are doing.
EpisodeReleases ==
    \A s \in Sessions :
        box[s] = "running" ~>
            (box[s] = "removed" \/ client.session_id = s \/ s \in orphaned \/ env[s].raced)

\* get_reward: the reward of an episode is deterministic.  Once the worker holds the
\* reward of a session, no later request changes it.
RewardStands ==
    [][\A s \in Sessions : session[s].completed => session'[s].reward = session[s].reward]_remoteVars

\* Where the client is in the episode the trainer counts on.
Phase == IF client.session_id # NoSid THEN "running"
         ELSE IF client.completed THEN "over" ELSE "none"

TrainerEpisode == INSTANCE Episode WITH
    Grades <- Rewards, NoReward <- "zero", phase <- Phase, reward <- client.reward

\* The client implements the abstract episode: one reward per episode, which stands
\* until reset has started the next, however its requests fail.
ImplementsEpisode == TrainerEpisode!Spec
=============================================================================
