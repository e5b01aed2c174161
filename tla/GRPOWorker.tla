---------------------------- MODULE GRPOWorker ----------------------------
(***************************************************************************)
(* The loopback GRPO worker of grpo_remote.py: a threaded HTTP server in   *)
(* front of a dictionary of sessions, each of which owns one task          *)
(* environment (one container).  The lock of the worker protects only the  *)
(* dictionary; everything a handler does to a session object and to its    *)
(* environment runs outside it, so handlers of the same session            *)
(* interleave at every step below.                                         *)
(*                                                                         *)
(* One process per handler thread, plus Main, the thread that leaves       *)
(* serve_forever and runs server_close.  A session and the environment it  *)
(* wraps share one identifier: ids are uuids and are never reused.         *)
(***************************************************************************)
EXTENDS Integers, FiniteSets

CONSTANTS Threads,      \* handler threads of the ThreadingHTTPServer
          Main,         \* the thread that shuts the server down
          Sessions,     \* session ids
          Asked         \* the kinds of action clients send (all, or fewer for TLC)

VARIABLES
    navigation_only, \* worker started with --navigation-only
    sessions,        \* keys of GRPOWorker._sessions
    session,         \* the _WorkerSession objects, kept after they are popped
    env,             \* the CodingEnvironment object of each session
    box,             \* the container behind each environment
    pc,              \* where each thread is
    call,            \* what each thread is working on, with its captured values
    server           \* [phase, ids, left]: server_close, the ids it took, those to do

vars == <<navigation_only, sessions, session, env, box, pc, call, server>>

Procs == Threads \cup {Main}

Kinds    == {"inspect", "edit", "run_tests", "finish", "forbidden"}

ASSUME WorkerAssumption == Main \notin Threads /\ Asked \subseteq Kinds

Contents == {"base", "broken", "fixed"}   \* what the repository holds
Results  == {"none", "failed", "passed"}  \* None, or a run that timed out, is "none"
\* "unset" is the 0.0 a session is born with, before anything graded it.
Rewards  == {"unset", "zero", "partial", "success", "violation"}
Ops      == {"none", "create", "action", "finalize", "delete", "shutdown"}
PCs == {"idle", "preparing", "registering", "admitting", "stepping",
        "executing", "recording", "deciding", "grabbing", "grading", "publishing",
        "marking", "dropping", "dereferencing", "closing", "taking", "testing",
        "removing", "clearing", "answered"}

NoReply == [status |-> "none", terminated |-> FALSE, reward |-> "unset"]
NoSid   == "nosession"
NoCall  == [op |-> "none", sid |-> NoSid, kind |-> "inspect", before |-> FALSE,
            result |-> "none", ended |-> FALSE, failed |-> FALSE,
            grade |-> "unset", reply |-> NoReply]

NewSession == [attached |-> TRUE, completed |-> FALSE, reward |-> "unset",
               verified |-> FALSE, pending |-> 0]
\* state is "closing" from the moment container_name is None; started is
\* _container_started; raced is a history: a close cleared started under another one
\* that had found the name and not yet asked for the flag.
NewEnv     == [state |-> "fresh", content |-> "base", last |-> "none",
               violated |-> FALSE, started |-> FALSE, raced |-> FALSE]

----------------------------------------------------------------------------
(* What the handlers ask of the environment and of the reward.             *)

\* The verifier on a repository content: a patch that repairs the task passes.
Verdict(content) == IF content = "fixed" THEN "passed" ELSE "failed"

\* changed_files() is non-empty.
Changed(s) == env[s].content # "base"

\* build_training_reward, legacy-v1, with the failure counts left out.
RewardOf(result, patched, verified, violated) ==
    CASE violated                                  -> "violation"
      [] ~violated /\ patched /\ result = "passed" -> "success"
      [] ~violated /\ patched /\ result = "failed" /\ verified -> "partial"
      [] OTHER                                     -> "zero"

\* Whether run_tests or finish ends the episode on this result.  A failing finish
\* ends it only when the step budget leaves no repair (module ToolEnvironment);
\* the budget is not counted here.
MayEnd(kind, result) ==
    IF result \in {"passed", "none"} THEN {TRUE}
    ELSE IF kind = "finish" THEN BOOLEAN ELSE {FALSE}

Sid(t)     == call[t].sid
At(t, l)   == pc[t] = l
Goto(t, l) == pc' = [pc EXCEPT ![t] = l]
Note(t, c) == call' = [call EXCEPT ![t] = c]


\* The handler of t, serving c, answers.  Main runs delete as a plain call: it
\* goes on with its list of ids.
AnswerCall(t, c, status, terminated, reward) ==
    IF t = Main
    THEN Goto(t, "idle") /\ Note(t, NoCall)
    ELSE /\ Goto(t, "answered")
         /\ Note(t, [NoCall EXCEPT !.op = c.op, !.sid = c.sid, !.reply =
                [status |-> status, terminated |-> terminated, reward |-> reward]])

Answer(t, status, terminated, reward) ==
    AnswerCall(t, call[t], status, terminated, reward)

Reject(t)   == Answer(t, "rejected", FALSE, "unset")  \* GRPOWorkerError: HTTP 409
DropConn(t) == Answer(t, "dropped", FALSE, "unset")   \* an exception do_POST lets through

\* _action_response: the terminated and reward fields are read from the session
\* object at that moment, whoever wrote them.
ActionResponse(t) ==
    LET done == session[Sid(t)].completed
    IN  Answer(t, "ok", done, IF done THEN session[Sid(t)].reward ELSE "unset")

\* finalize answers with session.reward whether or not this call graded it.
FinalizeResponse(t) == Answer(t, "ok", TRUE, session[Sid(t)].reward)

SetSession(s, r) == session' = [session EXCEPT ![s] = r]
SetEnv(s, e)     == env' = [env EXCEPT ![s] = e]

----------------------------------------------------------------------------
(* A request arrives and a fresh thread takes it.                          *)

\* do_POST /v1/sessions: provider.create, then reset starts the container.
AcceptCreate(t, s) ==
    /\ At(t, "idle") /\ env[s].state = "fresh"
    /\ SetEnv(s, [env[s] EXCEPT !.state = "open", !.started = TRUE])
    /\ box' = [box EXCEPT ![s] = "running"]
    /\ Goto(t, "preparing")
    /\ Note(t, [NoCall EXCEPT !.op = "create", !.sid = s])
    /\ UNCHANGED <<navigation_only, sessions, session, server>>

\* do_POST on a session, then _session: the dictionary lookup, under the lock.
AcceptCall(t, op, s, kind) ==
    LET c == [NoCall EXCEPT !.op = op, !.sid = s, !.kind = kind] IN
    /\ At(t, "idle") /\ env[s].state # "fresh"
    /\ \/ /\ s \in sessions
          /\ Goto(t, IF op = "action" THEN "admitting" ELSE "deciding")
          /\ Note(t, c)
       \/ /\ s \notin sessions
          /\ AnswerCall(t, c, "rejected", FALSE, "unset")
    /\ UNCHANGED <<navigation_only, sessions, session, env, box, server>>

\* delete, under the lock: sessions.pop(session_id, None).
Pop(t, op, s) ==
    LET c == [NoCall EXCEPT !.op = op, !.sid = s] IN
    /\ At(t, "idle")
    /\ sessions' = sessions \ {s}
    /\ \/ /\ s \in sessions
          /\ Goto(t, "dropping")
          /\ Note(t, c)
       \/ /\ s \notin sessions
          /\ AnswerCall(t, c, "ok", FALSE, "unset")
    /\ UNCHANGED <<navigation_only, session, env, box>>

\* do_DELETE
AcceptDelete(t, s) ==
    /\ env[s].state # "fresh"
    /\ Pop(t, "delete", s)
    /\ UNCHANGED server

----------------------------------------------------------------------------
(* create                                                                  *)

\* Mutant: create without its except clause.
ResetDoneNoClose(t) ==
    LET s == Sid(t) IN
    /\ At(t, "preparing")
    /\ \/ /\ SetEnv(s, [env[s] EXCEPT !.last = "failed"])
          /\ Goto(t, "registering")
          /\ UNCHANGED call
       \/ /\ DropConn(t)
          /\ UNCHANGED env
    /\ UNCHANGED <<navigation_only, sessions, session, box, server>>

\* reset returns (the baseline fails, as it must) or raises: then create closes
\* the environment before it lets the exception out.
ResetDone(t) ==
    LET s == Sid(t) IN
    /\ At(t, "preparing")
    /\ \/ /\ SetEnv(s, [env[s] EXCEPT !.last = "failed"])
          /\ Goto(t, "registering")
          /\ UNCHANGED call
       \/ /\ Goto(t, "closing")
          /\ Note(t, [call[t] EXCEPT !.failed = TRUE])
          /\ UNCHANGED env
    /\ UNCHANGED <<navigation_only, sessions, session, box, server>>

\* Under the lock: the session becomes reachable by its id.
Register(t) ==
    LET s == Sid(t) IN
    /\ At(t, "registering")
    /\ sessions' = sessions \cup {s}
    /\ SetSession(s, NewSession)
    /\ Answer(t, "ok", FALSE, "unset")
    /\ UNCHANGED <<navigation_only, env, box, server>>

----------------------------------------------------------------------------
(* action and finalize                                                     *)

\* _active_environment, the append to action_kinds, the two shortcuts of a
\* navigation-only worker, and patch_existed_before_action.
Admit(t) ==
    LET s == Sid(t)
        r == session[s]
        counted == [r EXCEPT !.pending = @ + 1]
    IN
    /\ At(t, "admitting")
    /\ \/ /\ r.completed \/ ~r.attached
          /\ Reject(t)
          /\ UNCHANGED session
       \/ /\ ~r.completed /\ r.attached
          /\ \/ /\ ~(navigation_only /\ call[t].kind \in {"run_tests", "finish"})
                /\ SetSession(s, counted)
                /\ Goto(t, "stepping")
                /\ Note(t, [call[t] EXCEPT !.before = Changed(s)])
             \/ /\ navigation_only /\ call[t].kind = "run_tests"
                /\ UNCHANGED session
                /\ ActionResponse(t)
             \/ /\ navigation_only /\ call[t].kind = "finish"
                /\ UNCHANGED session
                /\ Goto(t, "grabbing")
                /\ UNCHANGED call
    /\ UNCHANGED <<navigation_only, sessions, env, box, server>>

\* environment.step up to the container command.  A closed environment raises
\* EnvironmentError, which ends the session without a test result.
Step(t) ==
    LET s == Sid(t)
        e == env[s]
        Returns(result, ended) ==
            /\ Goto(t, "recording")
            /\ Note(t, [call[t] EXCEPT !.result = result, !.ended = ended])
    IN
    /\ At(t, "stepping")
    /\ \/ /\ e.state # "open"
          /\ SetSession(s, [session[s] EXCEPT !.pending = @ - 1])
          /\ Goto(t, "grabbing")
          /\ Note(t, [call[t] EXCEPT !.failed = TRUE])
          /\ UNCHANGED env
       \/ /\ e.state = "open"
          /\ UNCHANGED session
          /\ \/ /\ Returns(e.last, TRUE)                 \* step budget exhausted
                /\ UNCHANGED env
             \/ /\ call[t].kind = "inspect"
                /\ Returns("none", FALSE)
                /\ UNCHANGED env
             \/ /\ call[t].kind = "edit"
                /\ \E c \in Contents \ {"base"} : SetEnv(s, [e EXCEPT !.content = c])
                /\ Returns("none", FALSE)
             \/ /\ call[t].kind = "forbidden"
                /\ SetEnv(s, [e EXCEPT !.violated = TRUE])
                /\ Returns(e.last, TRUE)
             \/ /\ call[t].kind \in {"run_tests", "finish"}
                /\ Goto(t, "executing")
                /\ UNCHANGED <<call, env>>
    /\ UNCHANGED <<navigation_only, sessions, box, server>>

\* The verifier command of run_tests, finish or finalize returns.  When another
\* handler closed the environment meanwhile, the command fails with its
\* container, or its next check raises: inside step that is a violation
\* (environment_state), inside finalize it escapes.
Execute(t) ==
    LET s == Sid(t)
        e == env[s]
        Returns(result, ended) ==
            /\ Goto(t, IF call[t].op = "action" THEN "recording" ELSE "grabbing")
            /\ Note(t, [call[t] EXCEPT !.result = result, !.ended = ended])
    IN
    /\ At(t, "executing")
    /\ \/ \E result \in (IF e.state = "open" THEN {Verdict(e.content), "none"}
                                            ELSE {"failed"}) :
             /\ SetEnv(s, [e EXCEPT !.last = result])
             /\ \E ended \in MayEnd(call[t].kind, result) : Returns(result, ended)
       \/ /\ e.state # "open" /\ call[t].op = "action"
          /\ SetEnv(s, [e EXCEPT !.violated = TRUE])
          /\ Returns(e.last, TRUE)
       \/ /\ e.state # "open" /\ call[t].op = "finalize"
          /\ DropConn(t)
          /\ UNCHANGED env
    /\ UNCHANGED <<navigation_only, sessions, session, box, server>>

\* The outcome, the verifier-after-patch flag, and whether to grade.
Record(t) ==
    LET s == Sid(t)
        r == session[s]
        checks == call[t].before /\ call[t].kind \in {"run_tests", "finish"}
    IN
    /\ At(t, "recording")
    /\ SetSession(s, [r EXCEPT !.pending = @ - 1, !.verified = @ \/ checks])
    /\ IF call[t].ended THEN Goto(t, "grabbing") /\ UNCHANGED call
                        ELSE ActionResponse(t)
    /\ UNCHANGED <<navigation_only, sessions, env, box, server>>

\* finalize: a completed session answers with what it has; an open one is run
\* through the verifier unless the worker only navigates.
Decide(t) ==
    LET r == session[Sid(t)] IN
    /\ At(t, "deciding")
    /\ \/ /\ r.completed
          /\ FinalizeResponse(t)
       \/ /\ ~r.completed /\ ~r.attached
          /\ Reject(t)
       \/ /\ ~r.completed /\ r.attached
          /\ \/ /\ navigation_only
                /\ Goto(t, "grabbing")
                /\ UNCHANGED call
             \/ /\ ~navigation_only /\ env[Sid(t)].state = "open"
                /\ Goto(t, "executing")
                /\ UNCHANGED call
             \/ /\ ~navigation_only /\ env[Sid(t)].state # "open"
                /\ DropConn(t)
    /\ UNCHANGED <<navigation_only, sessions, session, env, box, server>>

----------------------------------------------------------------------------
(* _complete                                                               *)

\* What is left of the call once its values are graded.
Graded(t) == [NoCall EXCEPT !.op = call[t].op, !.sid = Sid(t), !.failed = call[t].failed]

\* What follows _complete in its caller.
AfterComplete(t) ==
    IF call[t].op = "finalize" THEN FinalizeResponse(t)
    ELSE IF call[t].failed THEN Reject(t) ELSE ActionResponse(t)

\* environment = session.environment; None means another handler graded it.
Grab(t) ==
    /\ At(t, "grabbing")
    /\ \/ /\ ~session[Sid(t)].attached
          /\ AfterComplete(t)
       \/ /\ session[Sid(t)].attached
          /\ Goto(t, "grading")
          /\ UNCHANGED call
    /\ UNCHANGED <<navigation_only, sessions, session, env, box, server>>

\* Mutant: completed is set before the reward is stored.
GradeThenMark(t) ==
    /\ At(t, "grading")
    /\ Goto(t, "marking")
    /\ Note(t, [Graded(t) EXCEPT !.grade = RewardOf(call[t].result, Changed(Sid(t)),
                          session[Sid(t)].verified, env[Sid(t)].violated)])
    /\ UNCHANGED <<navigation_only, sessions, session, env, box, server>>

\* The reward is computed from the environment as it is now.  While another
\* handler waits for the container to go, the paths are still listed but
\* patch_is_valid raises.
Grade(t) ==
    LET s == Sid(t)
        e == env[s]
    IN
    /\ At(t, "grading")
    /\ \/ /\ e.state = "closing" /\ Changed(s)
          /\ Goto(t, "closing")
          /\ Note(t, Graded(t))
       \/ /\ ~(e.state = "closing" /\ Changed(s))
          /\ Goto(t, "publishing")
          /\ Note(t, [Graded(t) EXCEPT !.grade =
                RewardOf(call[t].result, Changed(s), session[s].verified, e.violated)])
    /\ UNCHANGED <<navigation_only, sessions, session, env, box, server>>

\* session.reward, strict_reward and reward_components
Publish(t) ==
    /\ At(t, "publishing")
    /\ SetSession(Sid(t), [session[Sid(t)] EXCEPT !.reward = call[t].grade])
    /\ Goto(t, "marking")
    /\ UNCHANGED <<navigation_only, sessions, env, box, call, server>>

\* session.completed = True
Mark(t) ==
    /\ At(t, "marking")
    /\ SetSession(Sid(t), [session[Sid(t)] EXCEPT !.completed = TRUE])
    /\ Goto(t, "closing")
    /\ UNCHANGED <<navigation_only, sessions, env, box, call, server>>

----------------------------------------------------------------------------
(* environment.close, and what its callers do next                         *)

\* container_name = self.container_name: a second closer may find None.
CloseBegin(t) ==
    /\ At(t, "closing")
    /\ Goto(t, IF env[Sid(t)].state = "open" THEN "taking" ELSE "clearing")
    /\ UNCHANGED <<navigation_only, sessions, session, env, box, call, server>>

\* self.container_name = None
Take(t) ==
    LET s == Sid(t) IN
    /\ At(t, "taking")
    /\ SetEnv(s, [env[s] EXCEPT !.state = IF @ = "open" THEN "closing" ELSE @])
    /\ Goto(t, "testing")
    /\ UNCHANGED <<navigation_only, sessions, session, box, call, server>>

\* if container_name is not None and self._container_started: the flag is read from
\* the object, and a second closer may have cleared it by now.
Test(t) ==
    /\ At(t, "testing")
    /\ Goto(t, IF env[Sid(t)].started THEN "removing" ELSE "clearing")
    /\ UNCHANGED <<navigation_only, sessions, session, env, box, call, server>>

\* Another close than that of t found the name of s, and has not tested the flag.
Held(s, t) == \E u \in Procs \ {t} : Sid(u) = s /\ pc[u] \in {"taking", "testing"}

\* docker rm --force returns
Remove(t) ==
    /\ At(t, "removing")
    /\ box' = [box EXCEPT ![Sid(t)] = "removed"]
    /\ Goto(t, "clearing")
    /\ UNCHANGED <<navigation_only, sessions, session, env, call, server>>

\* The rest of close clears the flag, whoever holds the name, and forgets the results
\* and the changed files, and the caller goes on: create re-raises; delete answers;
\* _complete detaches the environment, and answers unless grading raised.
Clear(t) ==
    LET s == Sid(t) IN
    /\ At(t, "clearing")
    /\ SetEnv(s, [env[s] EXCEPT !.state = "closed", !.last = "none", !.content = "base",
                                !.started = FALSE,
                                !.raced = @ \/ (box[s] = "running" /\ Held(s, t))])
    /\ \/ /\ call[t].op \in {"delete", "shutdown"}
          /\ Answer(t, "ok", FALSE, "unset")
          /\ UNCHANGED session
       \/ /\ call[t].op = "create"
          /\ DropConn(t)
          /\ UNCHANGED session
       \/ /\ call[t].op \in {"action", "finalize"}
          /\ SetSession(s, [session[s] EXCEPT !.attached = FALSE])
          /\ IF call[t].grade = "unset" THEN DropConn(t) ELSE AfterComplete(t)
    /\ UNCHANGED <<navigation_only, sessions, box, server>>

----------------------------------------------------------------------------
(* delete, after the pop                                                   *)

\* session.environment is not None
Drop(t) ==
    /\ At(t, "dropping")
    /\ \/ /\ session[Sid(t)].attached
          /\ Goto(t, "dereferencing")
          /\ UNCHANGED call
       \/ /\ ~session[Sid(t)].attached
          /\ Answer(t, "ok", FALSE, "unset")
    /\ UNCHANGED <<navigation_only, sessions, session, env, box, server>>

\* session.environment.close(): the attribute is read again, and may be None by
\* now.  In a handler the AttributeError drops the connection.
Dereference(t) ==
    /\ At(t, "dereferencing")
    /\ \/ /\ session[Sid(t)].attached
          /\ Goto(t, "closing")
          /\ UNCHANGED call
       \/ /\ ~session[Sid(t)].attached /\ t # Main
          /\ DropConn(t)
    /\ UNCHANGED <<navigation_only, sessions, session, env, box, server>>

----------------------------------------------------------------------------
(* The client has the answer; the thread ends.                             *)
Hangup(t) ==
    /\ At(t, "answered")
    /\ Goto(t, "idle")
    /\ Note(t, NoCall)
    /\ UNCHANGED <<navigation_only, sessions, session, env, box, server>>

----------------------------------------------------------------------------
(* server_close: worker.close, then the process ends and its daemon handler *)
(* threads with it.                                                         *)

\* serve_forever has returned; close() copies the ids under the lock.
Shutdown ==
    /\ server.phase = "serving"
    /\ server' = [phase |-> "closing", ids |-> sessions, left |-> sessions]
    /\ UNCHANGED <<navigation_only, sessions, session, env, box, pc, call>>

\* Mutant: close forgets the sessions without closing their environments.
NextDeleteForgets(s) ==
    /\ server.phase = "closing"
    /\ s \in server.left
    /\ server' = [server EXCEPT !.left = @ \ {s}]
    /\ sessions' = sessions \ {s}
    /\ UNCHANGED <<navigation_only, session, env, box, pc, call>>

\* for session_id in session_ids: self.delete(session_id)
NextDelete(s) ==
    /\ server.phase = "closing"
    /\ s \in server.left
    /\ server' = [server EXCEPT !.left = @ \ {s}]
    /\ Pop(Main, "shutdown", s)

\* The process ends: after the last delete, or because a delete raised.
Exit ==
    /\ server.phase = "closing"
    /\ \/ At(Main, "idle") /\ server.left = {}
       \/ At(Main, "dereferencing") /\ ~session[Sid(Main)].attached
    /\ server' = [server EXCEPT !.phase = "exited"]
    /\ pc' = [t \in Procs |-> "idle"]
    /\ call' = [t \in Procs |-> NoCall]
    /\ UNCHANGED <<navigation_only, sessions, session, env, box>>

Exited == server.phase = "exited" /\ UNCHANGED vars

----------------------------------------------------------------------------
Init ==
    /\ navigation_only \in BOOLEAN
    /\ sessions = {}
    /\ session = [s \in Sessions |-> NewSession]
    /\ env = [s \in Sessions |-> NewEnv]
    /\ box = [s \in Sessions |-> "none"]
    /\ pc = [t \in Procs |-> "idle"]
    /\ call = [t \in Procs |-> NoCall]
    /\ server = [phase |-> "serving", ids |-> {}, left |-> {}]

\* One step of a thread that is serving a call.
ThreadStep(t) ==
    \/ ResetDone(t) \/ Register(t)
    \/ Admit(t) \/ Step(t) \/ Execute(t) \/ Record(t)
    \/ Decide(t)
    \/ Grab(t) \/ Grade(t) \/ Publish(t) \/ Mark(t)
    \/ CloseBegin(t) \/ Take(t) \/ Test(t) \/ Remove(t) \/ Clear(t)
    \/ Drop(t) \/ Dereference(t)

\* A connection that was accepted before serve_forever returned is still served
\* while server_close runs.
Accept(t) ==
    /\ server.phase # "exited"
    /\ \/ \E s \in Sessions : AcceptCreate(t, s)
       \/ \E s \in Sessions, k \in Asked : AcceptCall(t, "action", s, k)
       \/ \E s \in Sessions : AcceptCall(t, "finalize", s, "inspect")
       \/ \E s \in Sessions : AcceptDelete(t, s)

Next ==
    \/ \E t \in Threads : Accept(t) \/ Hangup(t)
    \/ \E t \in Procs : ThreadStep(t)
    \/ Shutdown \/ (\E s \in Sessions : NextDelete(s)) \/ Exit
    \/ Exited

Spec == Init /\ [][Next]_vars

----------------------------------------------------------------------------
(* Properties.  Serving(t, ls): t works on a session and is at one of ls.   *)

SessionType == [attached : BOOLEAN, completed : BOOLEAN, reward : Rewards,
                verified : BOOLEAN, pending : Int]
EnvType   == [state : {"fresh", "open", "closing", "closed"}, content : Contents,
              last : Results, violated : BOOLEAN, started : BOOLEAN, raced : BOOLEAN]
ReplyType == [status : {"none", "ok", "rejected", "dropped"}, terminated : BOOLEAN,
              reward : Rewards]
CallType  == [op : Ops, sid : Sessions \cup {NoSid}, kind : Kinds, before : BOOLEAN,
              result : Results, ended : BOOLEAN, failed : BOOLEAN,
              grade : Rewards, reply : ReplyType]

\* Every variable has the type the code gives it.
TypeOK ==
    /\ navigation_only \in BOOLEAN
    /\ sessions \in SUBSET Sessions
    /\ session \in [Sessions -> SessionType]
    /\ env \in [Sessions -> EnvType]
    /\ box \in [Sessions -> {"none", "running", "removed"}]
    /\ pc \in [Procs -> PCs]
    /\ call \in [Procs -> CallType]
    /\ server \in [phase : {"serving", "closing", "exited"},
                   ids : SUBSET Sessions, left : SUBSET Sessions]

Serving(t, s, ls) == Sid(t) = s /\ pc[t] \in ls

\* Where a thread is that will still remove the container of its session.
Removers == {"preparing", "registering", "dropping", "dereferencing", "closing",
             "taking", "testing", "removing"}

\* A running container has an owner: a session that a delete can still find, with its
\* environment attached, or a handler that is on its way to removing it.
Reachable(s) ==
    \/ s \in sessions /\ session[s].attached
    \/ \E t \in Procs : Serving(t, s, Removers)

\* While the worker runs, a running container has an owner, unless one close cleared
\* _container_started between another's taking the name and its asking for the flag.
\* create, delete and _complete hand the container over without a lock, so each of
\* their interleavings but that one must keep an owner.
NoStrandedContainer ==
    server.phase # "exited" =>
        \A s \in Sessions : box[s] = "running" => env[s].raced \/ Reachable(s)

\* Does not hold: no interleaving strands a container.  Two closes of one session
\* do when the second clears the flag before the first asks for it.
NoInterleavingStrands ==
    server.phase # "exited" => \A s \in Sessions : box[s] = "running" => Reachable(s)

\* A session that says it is completed carries its reward: _action_response and
\* finalize read completed first and the reward after it, with no lock, so a
\* reply that says terminated never carries a missing reward.
CompletedIsGraded ==
    \A s \in Sessions : session[s].completed => session[s].reward # "unset"

\* action_outcomes lags action_kinds by exactly the actions still in flight: every
\* path out of action, errors included, appends the outcome of the kind it logged.
OutcomePerKind ==
    server.phase # "exited" =>
        \A s \in Sessions :
            session[s].pending = Cardinality({t \in Threads :
                /\ call[t].op = "action"
                /\ Serving(t, s, {"stepping", "executing", "recording"})})

\* When the process ends, a session server_close had come to has lost its container,
\* or a handler is removing it, unless two closes of it raced: also where a delete
\* raised and ended the loop, as the session it raised on was closed by another.
ShutdownReleases ==
    [][(server.phase = "closing" /\ server'.phase = "exited") =>
        \A s \in server.ids \ server.left : box[s] = "running" =>
            env[s].raced \/ \E t \in Threads : Serving(t, s, Removers)]_vars

\* Does not hold: server_close comes to every session it copied the id of.  The delete
\* of one that a handler detaches meanwhile raises AttributeError, out of the loop.
ShutdownComesToAll ==
    [][(server.phase = "closing" /\ server'.phase = "exited") => server.left = {}]_vars

\* Once a session is out of the dictionary nobody can ask for it again, so its container
\* goes without help from a client, as every command of a handler has a timeout, unless
\* two closes of it raced.
PoppedIsReleased ==
    \A s \in Sessions :
        (s \notin sessions /\ box[s] = "running")
            ~> (s \in sessions \/ box[s] = "removed" \/ env[s].raced \/ server.phase = "exited")
=============================================================================
