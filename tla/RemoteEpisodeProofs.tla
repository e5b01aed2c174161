------------------------ MODULE RemoteEpisodeProofs ------------------------
(***************************************************************************)
(* Proofs about the worker and its client, for any number of handler       *)
(* threads and sessions, any kinds of action and any requests lost.  Of    *)
(* GRPOWorker: types, the owner of every container, the reward of every    *)
(* completed session, and what server_close leaves.  Of RemoteEpisode,     *)
(* which extends it: the audit file agrees with what the trainer is told,  *)
(* and the client implements the abstract Episode; there a step of the     *)
(* worker only has to keep the session its handler works on.               *)
(***************************************************************************)
EXTENDS RemoteEpisode, TLAPS

\* A thread at one of these works on the session of its call.
Working == PCs \ {"idle", "answered"}

\* A working thread has a real session.
Owned == \A t \in Procs : pc[t] \in Working => Sid(t) \in Sessions

Typed == TypeOK /\ Owned

----------------------------------------------------------------------------
(* Types                                                                   *)

\* The record constructors of the module build records of their types.
LEMMA Records ==
    /\ NoCall \in CallType
    /\ NewSession \in SessionType
    /\ NewEnv \in EnvType
BY DEF NoCall, CallType, NoReply, ReplyType, NewSession, SessionType, NewEnv, EnvType,
       Ops, Kinds, Results, Rewards, Contents

\* An answer leaves its thread idle or answered, with a well-typed call.
LEMMA AnswerTyped ==
    ASSUME TypeOK, NEW t \in Procs, NEW c \in CallType,
           NEW status \in {"ok", "rejected", "dropped"},
           NEW terminated \in BOOLEAN, NEW reward \in Rewards,
           AnswerCall(t, c, status, terminated, reward)
    PROVE  /\ pc' \in [Procs -> PCs]
           /\ call' \in [Procs -> CallType]
           /\ pc' = [pc EXCEPT ![t] = pc'[t]]
           /\ pc'[t] \notin Working
<1> USE DEF Goto, Note, AnswerCall
<1>1. CASE t = Main
  BY <1>1, Records DEF TypeOK, PCs, Working
<1>2. CASE t # Main
  <2>1. [NoCall EXCEPT !.op = c.op, !.sid = c.sid, !.reply =
           [status |-> status, terminated |-> terminated, reward |-> reward]] \in CallType
    BY Records DEF CallType, ReplyType, NoCall, NoReply
  <2>2. QED
    BY <1>2, <2>1 DEF TypeOK, PCs, Working
<1>3. QED
  BY <1>1, <1>2

\* The ways a thread moves: it answers, or it goes on with the session of its call.
Answers(t) ==
    \/ \E terminated \in BOOLEAN, reward \in Rewards,
          status \in {"ok", "rejected", "dropped"} : Answer(t, status, terminated, reward)
    \/ Reject(t) \/ DropConn(t) \/ ActionResponse(t) \/ FinalizeResponse(t)
    \/ AfterComplete(t)
Goes(t) == \E l \in PCs, c \in CallType : Goto(t, l) /\ Note(t, c) /\ c.sid = Sid(t)
Moves(t) == Answers(t) \/ Goes(t)

\* What all answers have in common.
LEMMA Answering ==
    ASSUME TypeOK, NEW t \in Procs, Sid(t) \in Sessions, Answers(t)
    PROVE  /\ pc' \in [Procs -> PCs]
           /\ call' \in [Procs -> CallType]
           /\ pc' = [pc EXCEPT ![t] = pc'[t]]
           /\ call' = [call EXCEPT ![t] = call'[t]]
           /\ pc'[t] \notin Working
<1>1. call[t] \in CallType /\ session[Sid(t)] \in SessionType
  BY DEF TypeOK
<1>2. session[Sid(t)].reward \in Rewards /\ session[Sid(t)].completed \in BOOLEAN
  BY <1>1 DEF SessionType
<1>3. "unset" \in Rewards
  BY DEF Rewards
<1>4. PICK terminated \in BOOLEAN, reward \in Rewards,
           status \in {"ok", "rejected", "dropped"} :
           AnswerCall(t, call[t], status, terminated, reward)
  BY <1>2, <1>3 DEF Answers, Answer, Reject, DropConn, ActionResponse, FinalizeResponse,
     AfterComplete
<1>5. call' = [call EXCEPT ![t] = call'[t]]
  BY <1>4 DEF AnswerCall, Note, TypeOK
<1>6. QED
  BY <1>1, <1>4, <1>5, AnswerTyped

\* The pop of delete keeps the types, whatever becomes of the server's list.
LEMMA PopTyped ==
    ASSUME Typed, NEW t \in Procs, NEW op \in Ops, NEW s \in Sessions, Pop(t, op, s),
           server' \in [phase : {"serving", "closing", "exited"},
                        ids : SUBSET Sessions, left : SUBSET Sessions]
    PROVE  Typed'
<1> USE DEF Typed
<1> DEFINE c == [NoCall EXCEPT !.op = op, !.sid = s]
<1>1. c \in CallType /\ c.sid = s
  BY Records DEF CallType, NoCall
<1>2. CASE AnswerCall(t, c, "ok", FALSE, "unset")
  <2>1. /\ pc' \in [Procs -> PCs]
        /\ call' \in [Procs -> CallType]
        /\ pc' = [pc EXCEPT ![t] = pc'[t]]
        /\ pc'[t] \notin Working
    BY <1>1, <1>2, AnswerTyped DEF Rewards
  <2>2. call' = [call EXCEPT ![t] = call'[t]]
    BY <1>2 DEF AnswerCall, Note, TypeOK
  <2>3. QED
    BY <2>1, <2>2 DEF Pop, TypeOK, Owned, Sid
<1>3. CASE Goto(t, "dropping") /\ Note(t, c)
  BY <1>1, <1>3 DEF Pop, Goto, Note, TypeOK, Owned, Sid, PCs
<1>4. QED
  BY <1>2, <1>3 DEF Pop

\* The requests that a thread takes keep the types.
LEMMA AcceptTyped ==
    ASSUME Typed, NEW t \in Threads, Accept(t)
    PROVE  Typed'
<1> USE DEF Typed
<1>0. t \in Procs
  BY DEF Procs
<1>1. ASSUME NEW s \in Sessions, AcceptCreate(t, s)
      PROVE  Typed'
  <2>1. [NoCall EXCEPT !.op = "create", !.sid = s] \in CallType
    BY Records DEF CallType, Ops, NoCall
  <2>2. [env[s] EXCEPT !.state = "open", !.started = TRUE] \in EnvType
    <3>1. env[s] \in EnvType
      BY DEF TypeOK
    <3>2. QED
      BY <3>1 DEF EnvType
  <2>3. TypeOK'
    BY <1>0, <1>1, <2>1, <2>2 DEF TypeOK, AcceptCreate, SetEnv, Goto, Note, PCs
  <2>4. Owned'
    BY <1>0, <1>1, <2>1 DEF Owned, AcceptCreate, Goto, Note, Sid, TypeOK, NoCall
  <2>5. QED
    BY <2>3, <2>4
<1>2. ASSUME NEW op \in {"action", "finalize"}, NEW s \in Sessions, NEW k \in Kinds,
             AcceptCall(t, op, s, k)
      PROVE  Typed'
  <2> DEFINE c == [NoCall EXCEPT !.op = op, !.sid = s, !.kind = k]
  <2>1. c \in CallType /\ c.sid = s
    BY Records DEF CallType, Ops, NoCall
  <2>2. \/ AnswerCall(t, c, "rejected", FALSE, "unset")
        \/ /\ Goto(t, IF op = "action" THEN "admitting" ELSE "deciding")
           /\ Note(t, c)
    BY <1>2 DEF AcceptCall
  <2>3. CASE AnswerCall(t, c, "rejected", FALSE, "unset")
    <3>1. /\ pc' \in [Procs -> PCs]
          /\ call' \in [Procs -> CallType]
          /\ pc' = [pc EXCEPT ![t] = pc'[t]]
          /\ pc'[t] \notin Working
      BY <1>0, <2>1, <2>3, AnswerTyped DEF Rewards
    <3>2. call' = [call EXCEPT ![t] = call'[t]]
      BY <2>3 DEF AnswerCall, Note, TypeOK
    <3>3. QED
      BY <1>0, <1>2, <3>1, <3>2 DEF AcceptCall, TypeOK, Owned, Sid
  <2>4. CASE Goto(t, IF op = "action" THEN "admitting" ELSE "deciding") /\ Note(t, c)
    BY <1>0, <1>2, <2>1, <2>4 DEF AcceptCall, Goto, Note, TypeOK, Owned, Sid, PCs
  <2>5. QED
    BY <2>2, <2>3, <2>4
<1>3. ASSUME NEW s \in Sessions, AcceptDelete(t, s)
      PROVE  Typed'
  <2>1. UNCHANGED server /\ Pop(t, "delete", s)
    BY <1>3 DEF AcceptDelete
  <2>2. QED
    BY <1>0, <2>1, PopTyped DEF Ops, TypeOK
<1>4. QED
  BY <1>1, <1>2, <1>3, WorkerAssumption DEF Accept, Kinds

\* TypeOK and Owned, split into the threads and what they work on.
ThreadsTyped == pc \in [Procs -> PCs] /\ call \in [Procs -> CallType] /\ Owned
DataTyped ==
    /\ navigation_only \in BOOLEAN
    /\ sessions \in SUBSET Sessions
    /\ session \in [Sessions -> SessionType]
    /\ env \in [Sessions -> EnvType]
    /\ box \in [Sessions -> {"none", "running", "removed"}]
    /\ server \in [phase : {"serving", "closing", "exited"},
                   ids : SUBSET Sessions, left : SUBSET Sessions]

\* The three shapes of a move in the module.
LEMMA AnswerMoves ==
    ASSUME NEW t \in Procs,
           \/ \E terminated \in BOOLEAN, reward \in Rewards,
                 status \in {"ok", "rejected", "dropped"} :
                 Answer(t, status, terminated, reward)
           \/ Reject(t) \/ DropConn(t) \/ ActionResponse(t) \/ FinalizeResponse(t)
           \/ AfterComplete(t)
    PROVE  Moves(t)
BY DEF Moves, Answers

LEMMA GoMoves ==
    ASSUME NEW t \in Procs, NEW l \in PCs, Goto(t, l),
           NEW c \in CallType, c.sid = Sid(t), Note(t, c)
    PROVE  Moves(t)
BY DEF Moves, Goes

LEMMA StayMoves ==
    ASSUME TypeOK, NEW t \in Procs, NEW l \in PCs, Goto(t, l), UNCHANGED call
    PROVE  Moves(t)
<1>1. call[t] \in CallType /\ Note(t, call[t]) /\ call[t].sid = Sid(t)
  BY DEF TypeOK, Note, Sid
<1>2. QED
  BY <1>1 DEF Moves, Goes

\* A move keeps the types of the threads, touches no other thread, and stays with
\* its session.
LEMMA MoveFrame ==
    ASSUME Typed, NEW t \in Procs, Sid(t) \in Sessions, Moves(t)
    PROVE  /\ ThreadsTyped'
           /\ pc'[t] \in Working => Sid(t)' = Sid(t)
           /\ \A u \in Procs \ {t} : pc'[u] = pc[u] /\ Sid(u)' = Sid(u)
<1>1. CASE Answers(t)
  BY <1>1, Answering DEF Typed, ThreadsTyped, Owned, Sid, TypeOK
<1>2. CASE Goes(t)
  BY <1>2 DEF Goes, Goto, Note, Typed, ThreadsTyped, Owned, Sid, TypeOK
<1>3. QED
  BY <1>1, <1>2 DEF Moves

\* Every step of a thread at work is a move, and keeps the types of the rest.
LEMMA ThreadMoves ==
    ASSUME Typed, NEW t \in Procs, ThreadStep(t)
    PROVE  Moves(t) /\ DataTyped' /\ Sid(t) \in Sessions
<1> DEFINE s == Sid(t)
<1>1. s \in Sessions
  BY DEF Typed, TypeOK, Owned, Working, PCs, ThreadStep, At, ResetDone, Register, Admit,
     Step, Execute, Record, Decide, Grab, Grade, Publish, Mark, CloseBegin, Take, Test, Remove,
     Clear, Drop, Dereference
<1>2. /\ DataTyped
      /\ session[s] \in SessionType /\ env[s] \in EnvType /\ call[t] \in CallType
      /\ call[t].sid = s /\ TypeOK
  BY <1>1 DEF Typed, TypeOK, DataTyped, Sid
<1>3. SUFFICES Moves(t) /\ DataTyped'
  BY <1>1
<1>4. CASE ResetDone(t)
  <2>1. DataTyped'
    <3>1. [env[s] EXCEPT !.last = "failed"] \in EnvType
      BY <1>2 DEF EnvType, Results
    <3>2. QED
      BY <1>1, <1>2, <1>4, <3>1 DEF ResetDone, SetEnv, DataTyped
  <2>2. Moves(t)
    <3>1. [call[t] EXCEPT !.failed = TRUE] \in CallType
          /\ [call[t] EXCEPT !.failed = TRUE].sid = s
      BY <1>2 DEF CallType
    <3>2. QED
      BY <1>1, <1>4, <3>1, GoMoves, <1>2, StayMoves DEF ResetDone, PCs
  <2>3. QED
    BY <2>1, <2>2
<1>5. CASE Register(t)
  <2>1. DataTyped'
    BY <1>1, <1>2, <1>5, Records DEF Register, SetSession, DataTyped
  <2>2. Moves(t)
    BY <1>1, <1>5, AnswerMoves DEF Register, Rewards
  <2>3. QED
    BY <2>1, <2>2
<1>6. CASE Admit(t)
  <2>1. DataTyped'
    <3>1. [session[s] EXCEPT !.pending = @ + 1] \in SessionType
      BY <1>2 DEF SessionType
    <3>2. QED
      BY <1>1, <1>2, <1>6, <3>1 DEF Admit, SetSession, DataTyped
  <2>2. Moves(t)
    <3>1. [call[t] EXCEPT !.before = Changed(s)] \in CallType
          /\ [call[t] EXCEPT !.before = Changed(s)].sid = s
      BY <1>2 DEF CallType, Changed
    <3>2. QED
      BY <1>1, <1>6, <3>1, GoMoves, <1>2, StayMoves, AnswerMoves DEF Admit, PCs
  <2>3. QED
    BY <2>1, <2>2
<1>7. CASE Step(t)
  <2>1. DataTyped'
    <3>1. [session[s] EXCEPT !.pending = @ - 1] \in SessionType
      BY <1>2 DEF SessionType
    <3>2. /\ \A x \in Contents : [env[s] EXCEPT !.content = x] \in EnvType
          /\ [env[s] EXCEPT !.violated = TRUE] \in EnvType
      BY <1>2 DEF EnvType
    <3>3. QED
      BY <1>1, <1>2, <1>7, <3>1, <3>2 DEF Step, SetSession, SetEnv, DataTyped
  <2>2. Moves(t)
    <3>1. /\ [call[t] EXCEPT !.failed = TRUE] \in CallType
          /\ [call[t] EXCEPT !.failed = TRUE].sid = s
      BY <1>2 DEF CallType
    <3>2. \A result \in Results, ended \in BOOLEAN :
             /\ [call[t] EXCEPT !.result = result, !.ended = ended] \in CallType
             /\ [call[t] EXCEPT !.result = result, !.ended = ended].sid = s
      BY <1>2 DEF CallType
    <3>3. env[s].last \in Results /\ "none" \in Results
      BY <1>2 DEF EnvType, Results
    <3>4. QED
      BY <1>1, <1>7, <3>1, <3>2, <3>3, GoMoves, <1>2, StayMoves DEF Step, PCs
  <2>3. QED
    BY <2>1, <2>2
<1>8. CASE Execute(t)
  <2> DEFINE l == IF call[t].op = "action" THEN "recording" ELSE "grabbing"
             c(result, ended) == [call[t] EXCEPT !.result = result, !.ended = ended]
  <2>1. \A result \in Results, ended \in BOOLEAN :
             c(result, ended) \in CallType /\ c(result, ended).sid = s
    BY <1>2 DEF CallType
  <2>2. l \in PCs /\ env[s].last \in Results
    BY <1>2 DEF PCs, EnvType
  <2>3. UNCHANGED <<navigation_only, sessions, session, box, server>>
    BY <1>8 DEF Execute
  <2>4. ASSUME NEW result \in Results, NEW ended \in BOOLEAN,
               SetEnv(s, [env[s] EXCEPT !.last = result]),
               Goto(t, l), Note(t, c(result, ended))
        PROVE  Moves(t) /\ DataTyped'
    <3>1. [env[s] EXCEPT !.last = result] \in EnvType
      BY <1>2 DEF EnvType
    <3>2. DataTyped'
      BY <1>1, <1>2, <2>3, <2>4, <3>1 DEF SetEnv, DataTyped
    <3>3. Moves(t)
      BY <1>1, <2>1, <2>2, <2>4, GoMoves
    <3>4. QED
      BY <3>2, <3>3
  <2>5. ASSUME SetEnv(s, [env[s] EXCEPT !.violated = TRUE]),
               Goto(t, l), Note(t, c(env[s].last, TRUE))
        PROVE  Moves(t) /\ DataTyped'
    <3>1. [env[s] EXCEPT !.violated = TRUE] \in EnvType
      BY <1>2 DEF EnvType
    <3>2. DataTyped'
      BY <1>1, <1>2, <2>3, <2>5, <3>1 DEF SetEnv, DataTyped
    <3>3. Moves(t)
      BY <1>1, <2>1, <2>2, <2>5, GoMoves
    <3>4. QED
      BY <3>2, <3>3
  <2>6. ASSUME DropConn(t), UNCHANGED env
        PROVE  Moves(t) /\ DataTyped'
    BY <1>1, <1>2, <2>3, <2>6, AnswerMoves DEF DataTyped
  <2>7. CASE \E result \in (IF env[s].state = "open" THEN {Verdict(env[s].content), "none"}
                                                     ELSE {"failed"}) :
               /\ SetEnv(s, [env[s] EXCEPT !.last = result])
               /\ \E ended \in MayEnd(call[t].kind, result) :
                     Goto(t, l) /\ Note(t, c(result, ended))
    <3>1. PICK result \in (IF env[s].state = "open"
                           THEN {Verdict(env[s].content), "none"} ELSE {"failed"}) :
               /\ SetEnv(s, [env[s] EXCEPT !.last = result])
               /\ \E ended \in MayEnd(call[t].kind, result) :
                     Goto(t, l) /\ Note(t, c(result, ended))
      BY <2>7
    <3>2. PICK ended \in MayEnd(call[t].kind, result) :
               Goto(t, l) /\ Note(t, c(result, ended))
      BY <3>1
    <3>3. result \in Results
      BY DEF Results, Verdict
    <3>4. ended \in BOOLEAN
      BY DEF MayEnd
    <3>5. QED
      BY <2>4, <3>1, <3>2, <3>3, <3>4
  <2>8. QED
    BY <1>8, <2>5, <2>6, <2>7 DEF Execute
<1>9. CASE Record(t)
  <2>1. DataTyped'
    <3> DEFINE checks == call[t].before /\ call[t].kind \in {"run_tests", "finish"}
               verified == session[s].verified \/ checks
               r == [session[s] EXCEPT !.pending = @ - 1, !.verified = verified]
    <3>1. verified \in BOOLEAN
      OBVIOUS
    <3>2. SetSession(s, r) /\ UNCHANGED <<navigation_only, sessions, env, box, server>>
      BY <1>9 DEF Record
    <3> HIDE DEF verified
    <3>3. r \in SessionType
      <4>1. ASSUME NEW x \in SessionType, NEW p \in Int, NEW v \in BOOLEAN
            PROVE  [x EXCEPT !.pending = p, !.verified = v] \in SessionType
        BY DEF SessionType
      <4>2. session[s].pending - 1 \in Int
        BY <1>2 DEF SessionType
      <4>3. QED
        BY <1>2, <3>1, <4>1, <4>2
    <3> HIDE DEF r
    <3>4. QED
      BY <1>1, <1>2, <3>2, <3>3 DEF SetSession, DataTyped
  <2>2. Moves(t)
    BY <1>1, <1>9, <1>2, StayMoves, AnswerMoves DEF Record, PCs
  <2>3. QED
    BY <2>1, <2>2
<1>10. CASE Decide(t) \/ Grab(t) \/ Drop(t) \/ Dereference(t)
  <2>1. DataTyped'
    BY <1>2, <1>10 DEF Decide, Grab, Drop, Dereference, DataTyped
  <2>2. Moves(t)
    BY <1>1, <1>10, <1>2, StayMoves, AnswerMoves
       DEF Decide, Grab, Drop, Dereference, PCs, Rewards
  <2>3. QED
    BY <2>1, <2>2
<1>11. CASE Grade(t)
  <2>1. DataTyped'
    BY <1>2, <1>11 DEF Grade, DataTyped
  <2>2. Moves(t)
    <3>1. Graded(t) \in CallType /\ Graded(t).sid = s
      BY <1>2, Records DEF Graded, CallType, NoCall
    <3>2. \A x \in Rewards : [Graded(t) EXCEPT !.grade = x] \in CallType
                             /\ [Graded(t) EXCEPT !.grade = x].sid = s
      BY <3>1 DEF CallType
    <3>3. RewardOf(call[t].result, Changed(s), session[s].verified, env[s].violated)
              \in Rewards
      BY DEF RewardOf, Rewards
    <3>4. QED
      BY <1>1, <1>11, <3>1, <3>2, <3>3, GoMoves DEF Grade, PCs
  <2>3. QED
    BY <2>1, <2>2
<1>12. CASE Publish(t) \/ Mark(t) \/ CloseBegin(t) \/ Take(t) \/ Test(t) \/ Remove(t)
  <2>1. DataTyped'
    <3>1. /\ [session[s] EXCEPT !.reward = call[t].grade] \in SessionType
          /\ [session[s] EXCEPT !.completed = TRUE] \in SessionType
          /\ [env[s] EXCEPT !.state = IF @ = "open" THEN "closing" ELSE @] \in EnvType
      BY <1>2 DEF SessionType, EnvType, CallType
    <3>2. QED
      BY <1>1, <1>2, <1>12, <3>1
         DEF Publish, Mark, CloseBegin, Take, Test, Remove, SetSession, SetEnv, DataTyped
  <2>2. Moves(t)
    BY <1>1, <1>12, <1>2, StayMoves DEF Publish, Mark, CloseBegin, Take, Test, Remove, PCs
  <2>3. QED
    BY <2>1, <2>2
<1>13. CASE Clear(t)
  <2>1. DataTyped'
    <3>1. /\ [session[s] EXCEPT !.attached = FALSE] \in SessionType
          /\ \A raced \in BOOLEAN :
                [env[s] EXCEPT !.state = "closed", !.last = "none", !.content = "base",
                               !.started = FALSE, !.raced = raced] \in EnvType
          /\ (env[s].raced \/ (box[s] = "running" /\ Held(s, t))) \in BOOLEAN
      BY <1>2 DEF SessionType, EnvType, Results, Contents
    <3>2. QED
      BY <1>1, <1>2, <1>13, <3>1 DEF Clear, SetSession, SetEnv, DataTyped
  <2>2. Moves(t)
    BY <1>1, <1>13, AnswerMoves DEF Clear, Rewards
  <2>3. QED
    BY <2>1, <2>2
<1>14. QED
  BY <1>4, <1>5, <1>6, <1>7, <1>8, <1>9, <1>10, <1>11, <1>12, <1>13 DEF ThreadStep

LEMMA ThreadTyped ==
    ASSUME Typed, NEW t \in Procs, ThreadStep(t)
    PROVE  Typed'
BY ThreadMoves, MoveFrame DEF Typed, TypeOK, DataTyped, ThreadsTyped

\* The server's own steps keep the types.
LEMMA ServerTyped ==
    ASSUME Typed,
           Shutdown \/ (\E s \in Sessions : NextDelete(s)) \/ Exit
    PROVE  Typed'
<1>1. CASE Shutdown
  BY <1>1 DEF Shutdown, Typed, TypeOK, Owned, Sid
<1>2. ASSUME NEW s \in Sessions, NextDelete(s)
      PROVE  Typed'
  <2>1. server' \in [phase : {"serving", "closing", "exited"},
                     ids : SUBSET Sessions, left : SUBSET Sessions]
    BY <1>2 DEF NextDelete, Typed, TypeOK
  <2>2. Main \in Procs /\ "shutdown" \in Ops
    BY DEF Procs, Ops
  <2>3. QED
    BY <1>2, <2>1, <2>2, PopTyped DEF NextDelete
<1>3. CASE Exit
  <2>1. TypeOK'
    BY <1>3, Records DEF Exit, Typed, TypeOK, PCs
  <2>2. Owned'
    BY <1>3 DEF Exit, Owned, Working
  <2>3. QED
    BY <2>1, <2>2 DEF Typed
<1>4. QED
  BY <1>1, <1>2, <1>3

LEMMA TypedStep ==
    ASSUME Typed, [Next]_vars
    PROVE  Typed'
<1>1. CASE \E t \in Threads : Accept(t)
  BY <1>1, AcceptTyped
<1>2. ASSUME NEW t \in Threads, Hangup(t)
      PROVE  Typed'
  <2>1. t \in Procs /\ "idle" \in PCs
    BY DEF Procs, PCs
  <2>2. TypeOK'
    BY <1>2, <2>1, Records DEF Hangup, Goto, Note, Typed, TypeOK
  <2>3. Owned'
    BY <1>2, <2>1 DEF Hangup, Goto, Note, Typed, TypeOK, Owned, Working, Sid
  <2>4. QED
    BY <2>2, <2>3 DEF Typed
<1>3. CASE \E t \in Procs : ThreadStep(t)
  BY <1>3, ThreadTyped
<1>4. CASE Shutdown \/ (\E s \in Sessions : NextDelete(s)) \/ Exit
  BY <1>4, ServerTyped
<1>5. CASE Exited \/ UNCHANGED vars
  BY <1>5 DEF Exited, vars, Typed, TypeOK, Owned, Sid
<1>6. QED
  BY <1>1, <1>2, <1>3, <1>4, <1>5 DEF Next

LEMMA TypedInit == Init => Typed
<1>1. "idle" \in PCs \ Working
  BY DEF PCs, Working
<1>2. Init => TypeOK
  BY Records, <1>1 DEF Init, TypeOK
<1>3. Init => Owned
  BY <1>1 DEF Init, Owned
<1>4. QED
  BY <1>2, <1>3 DEF Typed

\* Every variable keeps its type, and a handler that is at work on a session works
\* on one that exists, whatever the handlers and the shutdown do to each other.
THEOREM TypeSafety == Spec => []TypeOK
<1>1. Typed => TypeOK
  BY DEF Typed
<1>2. QED
  BY TypedInit, TypedStep, <1>1, PTL DEF Spec

----------------------------------------------------------------------------
(* Every running container has an owner                                    *)

\* A thread at work on a session whose environment is no longer fresh, and that is
\* past the point of no return once the thread has taken the name.
Past == {"testing", "removing", "clearing"}
ThreadInv(t) ==
    /\ pc[t] \in Working => env[Sid(t)].state # "fresh"
    /\ pc[t] \in Past => env[Sid(t)].state \in {"closing", "closed"}

\* Who removes the container of s: the closer that is sending docker rm, the one that
\* has the name and will find the flag set or, while nobody took the name, whoever can
\* reach the environment.
Owner(s) ==
    \/ env[s].state = "open" /\ Reachable(s)
    \/ env[s].started /\ \E t \in Procs : Serving(t, s, {"taking", "testing"})
    \/ \E t \in Procs : Serving(t, s, {"removing"})

SessionInv(s) ==
    /\ ~session[s].attached => env[s].state \in {"closing", "closed"}
    /\ env[s].state = "fresh" => box[s] = "none" /\ s \notin sessions
    /\ env[s].state = "open" => env[s].started
    /\ box[s] = "running" => env[s].raced \/ Owner(s)

\* The inductive invariant.  NoStrandedContainer alone is not inductive: a handler
\* that finds the environment closed or detached gives up its claim, which is right
\* only because somebody else is then at "removing".
OwnersInv ==
    /\ Typed
    /\ server.phase = "exited" => \A t \in Procs : pc[t] = "idle"
    /\ server.phase # "exited" => /\ \A t \in Procs : ThreadInv(t)
                                  /\ \A s \in Sessions : SessionInv(s)

\* What a step of one thread leaves alone.
LEMMA ThreadFrame ==
    ASSUME Typed, NEW t \in Procs, ThreadStep(t)
    PROVE  /\ pc[t] \in Working /\ Sid(t) \in Sessions
           /\ pc'[t] \in Working => Sid(t)' = Sid(t)
           /\ \A u \in Procs \ {t} : pc'[u] = pc[u] /\ Sid(u)' = Sid(u)
           /\ \A s \in Sessions \ {Sid(t)} :
                 /\ session'[s] = session[s] /\ env'[s] = env[s] /\ box'[s] = box[s]
                 /\ s \in sessions' <=> s \in sessions
           /\ UNCHANGED server
<1>1. pc[t] \in Working
  BY DEF Working, PCs, ThreadStep, At, ResetDone, Register, Admit,
     Step, Execute, Record, Decide, Grab, Grade, Publish, Mark, CloseBegin, Take, Test, Remove,
     Clear, Drop, Dereference
<1>2. Sid(t) \in Sessions
  BY ThreadMoves
<1>3. /\ \A s \in Sessions \ {Sid(t)} :
            /\ session'[s] = session[s] /\ env'[s] = env[s] /\ box'[s] = box[s]
            /\ s \in sessions' <=> s \in sessions
      /\ UNCHANGED server
  <2> USE DEF Typed, TypeOK, SetSession, SetEnv
  <2>1. CASE ResetDone(t) \/ Register(t) \/ Admit(t)
    BY <2>1 DEF ResetDone, Register, Admit
  <2>2. CASE Step(t) \/ Execute(t)
    BY <2>2 DEF Step, Execute
  <2>3. CASE Record(t) \/ Decide(t) \/ Grab(t) \/ Grade(t)
    BY <2>3 DEF Record, Decide, Grab, Grade
  <2>4. CASE Publish(t) \/ Mark(t) \/ CloseBegin(t) \/ Take(t) \/ Test(t) \/ Remove(t)
    BY <2>4 DEF Publish, Mark, CloseBegin, Take, Test, Remove
  <2>5. CASE Clear(t) \/ Drop(t) \/ Dereference(t)
    BY <2>5 DEF Clear, Drop, Dereference
  <2>6. QED
    BY <2>1, <2>2, <2>3, <2>4, <2>5 DEF ThreadStep
<1>4. QED
  BY <1>1, <1>2, <1>3, ThreadMoves, MoveFrame

\* The steps that hand no container over.
Quiet(t) ==
    \/ Admit(t) \/ Step(t) \/ Execute(t) \/ Record(t) \/ Decide(t)
    \/ Grab(t) \/ Grade(t) \/ Publish(t) \/ Mark(t)

LEMMA QuietFrame ==
    ASSUME Typed, NEW t \in Procs, Quiet(t), Sid(t) \in Sessions
    PROVE  LET s == Sid(t) IN
           /\ env'[s].state = env[s].state /\ env'[s].started = env[s].started
           /\ env'[s].raced = env[s].raced
           /\ session'[s].attached = session[s].attached
           /\ box' = box /\ sessions' = sessions
           /\ pc[t] \notin Removers
           /\ pc'[t] \notin Past
<1> DEFINE s == Sid(t)
<1>1. /\ session[s] \in SessionType /\ env[s] \in EnvType
      /\ session \in [Sessions -> SessionType] /\ env \in [Sessions -> EnvType]
      /\ pc \in [Procs -> PCs]
  BY DEF Typed, TypeOK
<1>2. Answers(t) => pc'[t] \notin Working
  BY Answering DEF Typed
<1>3. \A l \in PCs : Goto(t, l) => pc'[t] = l
  BY <1>1 DEF Goto
<1>4. CASE Admit(t) \/ Record(t)
  <2>1. pc'[t] \notin Past
    BY <1>2, <1>3, <1>4 DEF Admit, Record, Answers, Working, PCs, Past
  <2>2. QED
    BY <1>1, <1>4, <2>1, ZenonT(40) DEF Admit, Record, SetSession, At, Removers, SessionType
<1>5. CASE Step(t) \/ Execute(t)
  <2>1. pc'[t] \notin Past
    <3>1. CASE Step(t)
      <4>1. Goto(t, "grabbing") \/ Goto(t, "recording") \/ Goto(t, "executing")
        BY <3>1, Zenon DEF Step
      <4>2. \A l \in {"grabbing", "recording", "executing"} : Goto(t, l) => pc'[t] = l
        BY <1>3 DEF PCs
      <4>3. QED
        BY <4>1, <4>2 DEF Past
    <3>2. CASE Execute(t)
      <4>1. \/ Answers(t)
            \/ Goto(t, IF call[t].op = "action" THEN "recording" ELSE "grabbing")
            \/ Goto(t, "recording")
        BY <3>2, Zenon DEF Execute, Answers
      <4>2. Past \subseteq Working /\ "recording" \notin Past /\ "grabbing" \notin Past
        BY DEF Past, Working, PCs
      <4>3. \A l \in {"recording", "grabbing"} : Goto(t, l) => pc'[t] = l
        BY <1>3 DEF PCs
      <4>4. QED
        BY <1>2, <4>1, <4>2, <4>3
    <3>3. QED
      BY <1>5, <3>1, <3>2
  <2>2. /\ pc[t] \notin Removers /\ box' = box /\ sessions' = sessions
    BY <1>5 DEF Step, Execute, At, Removers
  <2>3. session'[s].attached = session[s].attached
    BY <1>1, <1>5 DEF Step, Execute, SetSession, SessionType
  <2>4. /\ env'[s].state = env[s].state /\ env'[s].started = env[s].started
        /\ env'[s].raced = env[s].raced
    <3>1. env' = env \/ \E e \in EnvType :
            /\ SetEnv(s, e) /\ e.state = env[s].state
            /\ e.started = env[s].started /\ e.raced = env[s].raced
      <4>1. /\ \A x \in Contents : [env[s] EXCEPT !.content = x] \in EnvType
            /\ \A x \in Results : [env[s] EXCEPT !.last = x] \in EnvType
            /\ [env[s] EXCEPT !.violated = TRUE] \in EnvType
        BY <1>1 DEF EnvType
      <4>2. CASE Step(t)
        <5>1. \/ env' = env
              \/ \E x \in Contents : SetEnv(s, [env[s] EXCEPT !.content = x])
              \/ SetEnv(s, [env[s] EXCEPT !.violated = TRUE])
          BY <4>2, Zenon DEF Step
        <5>2. \A x \in Contents :
                 LET e == [env[s] EXCEPT !.content = x]
                 IN  e.state = env[s].state /\ e.started = env[s].started /\ e.raced = env[s].raced
          BY <1>1 DEF EnvType
        <5>3. LET e == [env[s] EXCEPT !.violated = TRUE]
              IN  e.state = env[s].state /\ e.started = env[s].started /\ e.raced = env[s].raced
          BY <1>1 DEF EnvType
        <5>4. QED
          BY <4>1, <5>1, <5>2, <5>3
      <4>3. CASE Execute(t)
        <5>1. \A result \in (IF env[s].state = "open" THEN {Verdict(env[s].content), "none"}
                                                       ELSE {"failed"}) : result \in Results
          BY DEF Results, Verdict
        <5>2. \A x \in Results :
                 LET e == [env[s] EXCEPT !.last = x]
                 IN  e.state = env[s].state /\ e.started = env[s].started /\ e.raced = env[s].raced
          BY <1>1 DEF EnvType
        <5>3. LET e == [env[s] EXCEPT !.violated = TRUE]
              IN  e.state = env[s].state /\ e.started = env[s].started /\ e.raced = env[s].raced
          BY <1>1 DEF EnvType
        <5>4. QED
          BY <4>1, <4>3, <5>1, <5>2, <5>3 DEF Execute
      <4>4. QED
        BY <1>5, <4>2, <4>3
    <3>2. QED
      BY <1>1, <3>1 DEF SetEnv
  <2>5. QED
    BY <2>1, <2>2, <2>3, <2>4
<1>6. CASE Decide(t) \/ Grab(t) \/ Grade(t)
  <2>1. pc'[t] \notin Past
    BY <1>2, <1>3, <1>6 DEF Decide, Grab, Grade, Answers, Working, PCs, Past
  <2>2. QED
    BY <1>6, <2>1 DEF Decide, Grab, Grade, At, Removers
<1>7. CASE Publish(t) \/ Mark(t)
  BY <1>1, <1>3, <1>7 DEF Publish, Mark, SetSession, At, Removers, SessionType, PCs, Past
<1>8. QED
  BY <1>4, <1>5, <1>6, <1>7 DEF Quiet

\* A thread at work keeps the owners.
LEMMA ThreadOwners ==
    ASSUME OwnersInv, NEW t \in Procs, ThreadStep(t)
    PROVE  OwnersInv'
<1>0. PICK s \in Sessions : s = Sid(t)
  BY ThreadFrame DEF OwnersInv
<1>1. /\ Typed /\ pc \in [Procs -> PCs] /\ s = Sid(t) /\ pc[t] \in Working
      /\ session \in [Sessions -> SessionType] /\ env \in [Sessions -> EnvType]
      /\ box \in [Sessions -> {"none", "running", "removed"}]
      /\ session[s] \in SessionType /\ env[s] \in EnvType
  BY <1>0, ThreadFrame DEF OwnersInv, Typed, TypeOK
<1>2. /\ \A u \in Procs : ThreadInv(u)
      /\ \A x \in Sessions : SessionInv(x)
      /\ server.phase # "exited"
  BY <1>1 DEF OwnersInv, Working
<1>3. /\ env[s].state # "fresh"
      /\ pc[t] \in Past => env[s].state \in {"closing", "closed"}
      /\ ~session[s].attached => env[s].state \in {"closing", "closed"}
      /\ env[s].state = "open" => env[s].started
      /\ box[s] = "running" => env[s].raced \/ Owner(s)
  BY <1>0, <1>1, <1>2 DEF ThreadInv, SessionInv
<1>4. Answers(t) => pc'[t] \notin Working
  BY <1>1, Answering DEF Typed
<1>5. \A l \in PCs : Goto(t, l) => pc'[t] = l
  BY <1>1 DEF Goto
<1>6. /\ pc'[t] \in Working => Sid(t)' = s
      /\ \A u \in Procs \ {t} : pc'[u] = pc[u] /\ Sid(u)' = Sid(u)
      /\ \A x \in Sessions \ {s} :
            /\ session'[x] = session[x] /\ env'[x] = env[x] /\ box'[x] = box[x]
            /\ x \in sessions' <=> x \in sessions
      /\ UNCHANGED server
  BY <1>1, ThreadFrame
\* The thread and its session, action by action.
<1>7. /\ ThreadInv(t)' /\ SessionInv(s)' /\ env'[s].state # "fresh"
      /\ env[s].state \in {"closing", "closed"} => env'[s].state \in {"closing", "closed"}
  <2>1. CASE Quiet(t)
    <3>1. /\ env'[s].state = env[s].state /\ env'[s].started = env[s].started
          /\ env'[s].raced = env[s].raced
          /\ session'[s].attached = session[s].attached
          /\ box' = box /\ sessions' = sessions
          /\ pc[t] \notin Removers
          /\ pc'[t] \notin Past
      BY <1>1, <2>1, QuietFrame
    <3>2. Owner(s) => Owner(s)'
      BY <1>6, <3>1 DEF Owner, Reachable, Serving, Removers
    <3>3. QED
      BY <1>0, <1>1, <1>3, <1>6, <3>1, <3>2 DEF ThreadInv, SessionInv, Working, PCs, Past
  <2>2. CASE ResetDone(t)
    <3>1. /\ pc'[t] \in {"registering", "closing"} /\ pc[t] = "preparing"
          /\ session' = session /\ box' = box /\ sessions' = sessions
          /\ env'[s].state = env[s].state /\ env'[s].started = env[s].started
          /\ env'[s].raced = env[s].raced
      BY <1>1, <1>5, <2>2 DEF ResetDone, SetEnv, At, PCs, EnvType
    <3>2. Owner(s) => Owner(s)'
      BY <1>1, <1>6, <3>1 DEF Owner, Reachable, Serving, Removers, Working, PCs
    <3>3. QED
      BY <1>0, <1>1, <1>3, <1>6, <3>1, <3>2 DEF ThreadInv, SessionInv, Working, PCs, Past
  <2>3. CASE Register(t)
    <3>1. /\ pc'[t] \notin Working /\ pc[t] = "registering"
          /\ session'[s].attached /\ s \in sessions' /\ box' = box /\ env' = env
      BY <1>1, <1>4, <2>3 DEF Register, SetSession, At, NewSession, Answers, Rewards
    <3>2. Owner(s) => Owner(s)'
      BY <1>1, <1>6, <3>1 DEF Owner, Reachable, Serving
    <3>3. QED
      BY <1>0, <1>1, <1>3, <1>6, <3>1, <3>2 DEF ThreadInv, SessionInv, Working, PCs, Past
  <2>4. CASE CloseBegin(t)
    <3>1. /\ pc[t] = "closing" /\ session' = session /\ box' = box /\ sessions' = sessions
          /\ env' = env
      BY <2>4 DEF CloseBegin, At
    <3>2. CASE env[s].state = "open"
      <4>1. pc'[t] = "taking"
        BY <1>0, <1>1, <1>5, <2>4, <3>2 DEF CloseBegin, PCs
      <4>2. Owner(s)'
        BY <1>3, <1>6, <3>1, <3>2, <4>1 DEF Owner, Serving, Working, PCs
      <4>3. QED
        BY <1>0, <1>1, <1>3, <1>6, <3>1, <3>2, <4>1, <4>2 DEF ThreadInv, SessionInv, Working, PCs, Past
    <3>3. CASE env[s].state # "open"
      <4>1. pc'[t] = "clearing"
        BY <1>0, <1>1, <1>5, <2>4, <3>3 DEF CloseBegin, PCs
      <4>2. Owner(s) => Owner(s)'
        BY <1>6, <3>1, <3>3, <4>1 DEF Owner, Serving
      <4>3. env[s].state \in {"closing", "closed"}
        BY <1>1, <1>3, <3>3 DEF EnvType
      <4>4. QED
        BY <1>0, <1>1, <1>3, <1>6, <3>1, <4>1, <4>2, <4>3 DEF ThreadInv, SessionInv, Working, PCs, Past
    <3>4. QED
      BY <3>2, <3>3
  <2>5. CASE Take(t)
    <3>1. /\ pc[t] = "taking" /\ pc'[t] = "testing"
          /\ session' = session /\ box' = box /\ sessions' = sessions
          /\ env'[s].state = IF env[s].state = "open" THEN "closing" ELSE env[s].state
          /\ env'[s].started = env[s].started /\ env'[s].raced = env[s].raced
      BY <1>0, <1>1, <1>5, <2>5 DEF Take, SetEnv, At, PCs, EnvType
    <3>2. env'[s].state \in {"closing", "closed"}
      BY <1>1, <1>3, <3>1 DEF EnvType
    <3>3. Owner(s) => Owner(s)'
      BY <1>1, <1>3, <1>6, <3>1 DEF Owner, Serving, Working, PCs
    <3>4. QED
      BY <1>0, <1>1, <1>3, <1>6, <3>1, <3>2, <3>3 DEF ThreadInv, SessionInv, Working, PCs, Past
  <2>6. CASE Test(t)
    <3>1. /\ pc[t] = "testing" /\ pc'[t] = IF env[s].started THEN "removing" ELSE "clearing"
          /\ session' = session /\ box' = box /\ sessions' = sessions /\ env' = env
      BY <1>0, <1>1, <1>5, <2>6 DEF Test, At, PCs
    <3>2. env[s].state \in {"closing", "closed"}
      BY <1>3, <3>1 DEF Past
    <3>3. Owner(s) => Owner(s)'
      BY <1>1, <1>6, <3>1, <3>2 DEF Owner, Serving, Working, PCs
    <3>4. QED
      BY <1>0, <1>1, <1>3, <1>6, <3>1, <3>2, <3>3 DEF ThreadInv, SessionInv, Working, PCs, Past
  <2>7. CASE Remove(t)
    <3>1. /\ pc[t] = "removing" /\ pc'[t] = "clearing" /\ box'[s] = "removed"
          /\ session' = session /\ env' = env /\ sessions' = sessions
      BY <1>1, <1>5, <2>7 DEF Remove, At, PCs
    <3>2. QED
      BY <1>0, <1>1, <1>3, <1>6, <3>1 DEF ThreadInv, SessionInv, Working, PCs, Past
  <2>8. CASE Clear(t)
    <3>1. /\ pc[t] = "clearing" /\ pc'[t] \notin Working
          /\ box' = box /\ sessions' = sessions /\ env'[s].state = "closed"
          /\ env'[s].raced <=> (env[s].raced \/ (box[s] = "running" /\ Held(s, t)))
      BY <1>1, <1>4, <2>8 DEF Clear, SetEnv, At, Answers, EnvType, Rewards
    <3>2. env[s].state \in {"closing", "closed"}
      BY <1>3, <3>1 DEF Past
    <3>3. Owner(s) => Held(s, t) \/ Owner(s)'
      <4>1. Owner(s) => \E u \in Procs : Serving(u, s, {"taking", "testing", "removing"})
        BY <3>2 DEF Owner, Serving
      <4>2. ASSUME NEW u \in Procs, Serving(u, s, {"taking", "testing", "removing"})
            PROVE  Held(s, t) \/ Owner(s)'
        <5>1. u # t /\ pc'[u] = pc[u] /\ Sid(u)' = Sid(u)
          BY <1>6, <3>1, <4>2 DEF Serving
        <5>2. QED
          BY <4>2, <5>1 DEF Held, Owner, Serving
      <4>3. QED
        BY <4>1, <4>2
    <3>4. QED
      BY <1>0, <1>1, <1>3, <1>6, <3>1, <3>3 DEF ThreadInv, SessionInv, Working, PCs, Past
  <2>9. CASE Drop(t) \/ Dereference(t)
    <3>1. /\ pc[t] \in {"dropping", "dereferencing"}
          /\ session' = session /\ box' = box /\ sessions' = sessions /\ env' = env
      BY <2>9 DEF Drop, Dereference, At
    <3>2. CASE session[s].attached
      <4>1. pc'[t] \in {"dereferencing", "closing"}
        BY <1>1, <1>5, <2>9, <3>2 DEF Drop, Dereference, PCs
      <4>2. Owner(s) => Owner(s)'
        BY <1>1, <1>6, <3>1, <4>1 DEF Owner, Reachable, Serving, Removers, Working, PCs
      <4>3. QED
        BY <1>0, <1>1, <1>3, <1>6, <3>1, <4>1, <4>2 DEF ThreadInv, SessionInv, Working, PCs, Past
    <3>3. CASE ~session[s].attached
      <4>1. pc'[t] \notin Working
        BY <1>1, <1>4, <2>9, <3>3 DEF Drop, Dereference, Answers, Rewards
      <4>2. env[s].state \in {"closing", "closed"}
        BY <1>3, <3>3
      <4>3. Owner(s) => Owner(s)'
        BY <1>1, <1>6, <3>1, <4>1, <4>2 DEF Owner, Reachable, Serving
      <4>4. QED
        BY <1>0, <1>1, <1>3, <1>6, <3>1, <4>1, <4>2, <4>3 DEF ThreadInv, SessionInv, Working, PCs, Past
    <3>4. QED
      BY <3>2, <3>3
  <2>10. QED
    BY <2>1, <2>2, <2>3, <2>4, <2>5, <2>6, <2>7, <2>8, <2>9 DEF ThreadStep, Quiet
\* The other threads and sessions.
<1>8. ASSUME NEW u \in Procs PROVE ThreadInv(u)'
  <2>1. CASE u = t
    BY <1>7, <2>1
  <2>2. CASE u # t
    <3>1. pc'[u] = pc[u] /\ Sid(u)' = Sid(u)
      BY <1>6, <2>2
    <3>2. pc[u] \in Working => Sid(u) \in Sessions
      BY <1>1 DEF Typed, Owned
    <3>3. ThreadInv(u)
      BY <1>2
    <3>4. Past \subseteq Working
      BY DEF Working, PCs, Past
    <3>5. CASE Sid(u) = s
      BY <1>7, <3>1, <3>3, <3>5 DEF ThreadInv
    <3>6. CASE Sid(u) # s
      BY <1>6, <3>1, <3>2, <3>3, <3>4, <3>6 DEF ThreadInv
    <3>7. QED
      BY <3>5, <3>6
  <2>3. QED
    BY <2>1, <2>2
<1>9. ASSUME NEW x \in Sessions PROVE SessionInv(x)'
  <2>1. CASE x = s
    BY <1>7, <2>1
  <2>2. CASE x # s
    <3>1. SessionInv(x)
      BY <1>2
    <3>2. /\ session'[x] = session[x] /\ env'[x] = env[x] /\ box'[x] = box[x]
          /\ x \in sessions' <=> x \in sessions
      BY <1>6, <2>2
    <3>3. Owner(x) => Owner(x)'
      BY <1>0, <1>6, <2>2, <3>2 DEF Owner, Reachable, Serving
    <3>4. QED
      BY <3>1, <3>2, <3>3 DEF SessionInv
  <2>3. QED
    BY <2>1, <2>2
<1>10. Typed' /\ server'.phase # "exited"
  BY <1>1, <1>2, <1>6, ThreadTyped
<1>11. QED
  BY <1>8, <1>9, <1>10 DEF OwnersInv

\* A request that a thread takes keeps the owners: a new container belongs to the
\* thread that prepares it, a popped session to the thread that popped it.
LEMMA PopOwners ==
    ASSUME OwnersInv, NEW t \in Procs, NEW op \in Ops, NEW x \in Sessions, Pop(t, op, x),
           Typed', server.phase # "exited", server'.phase # "exited"
    PROVE  OwnersInv'
<1>1. /\ pc \in [Procs -> PCs] /\ call \in [Procs -> CallType]
      /\ pc[t] = "idle"
      /\ UNCHANGED <<session, env, box>>
      /\ sessions' = sessions \ {x}
      /\ \A u \in Procs : ThreadInv(u)
      /\ \A s \in Sessions : SessionInv(s)
  BY DEF OwnersInv, Typed, TypeOK, Pop, At
<1>2. \A u \in Procs \ {t} : pc'[u] = pc[u] /\ Sid(u)' = Sid(u)
  BY <1>1 DEF Pop, Goto, Note, AnswerCall, Sid
<1>3. /\ pc'[t] \notin Past
      /\ pc'[t] \in Working => Sid(t)' = x /\ x \in sessions
  BY <1>1, Records, ZenonT(40) DEF Pop, Goto, Note, AnswerCall, Sid, Working, PCs, Past, CallType
<1>4. \A u \in Procs : ThreadInv(u)'
  BY <1>1, <1>2, <1>3 DEF ThreadInv, SessionInv
<1>5. ASSUME NEW s \in Sessions PROVE SessionInv(s)'
  <2>1. Owner(s) => Owner(s)'
    <3>1. CASE s = x /\ x \in sessions
      <4>1. pc'[t] = "dropping" /\ Sid(t)' = s
        BY <1>1, <3>1, Records, ZenonT(40) DEF Pop, Goto, Note, AnswerCall, Sid, CallType, PCs
      <4>2. QED
        BY <1>1, <1>2, <3>1, <4>1 DEF Owner, Reachable, Serving, Removers
    <3>2. CASE ~(s = x /\ x \in sessions)
      BY <1>1, <1>2, <3>2 DEF Owner, Reachable, Serving, Removers
    <3>3. QED
      BY <3>1, <3>2
  <2>2. QED
    BY <1>1, <2>1 DEF SessionInv
<1>6. QED
  BY <1>4, <1>5 DEF OwnersInv

LEMMA AcceptOwners ==
    ASSUME OwnersInv, NEW t \in Threads, Accept(t)
    PROVE  OwnersInv'
<1>0. t \in Procs /\ Typed /\ Typed' /\ server.phase # "exited" /\ server' = server
  BY AcceptTyped DEF OwnersInv, Procs, Accept, AcceptCreate, AcceptCall, AcceptDelete
<1>1. /\ pc \in [Procs -> PCs] /\ call \in [Procs -> CallType]
      /\ env \in [Sessions -> EnvType] /\ box \in [Sessions -> {"none", "running", "removed"}]
      /\ \A u \in Procs : ThreadInv(u)
      /\ \A s \in Sessions : SessionInv(s)
  BY <1>0 DEF OwnersInv, Typed, TypeOK
<1>2. ASSUME NEW x \in Sessions, AcceptCreate(t, x)
      PROVE  OwnersInv'
  <2>1. /\ pc[t] = "idle" /\ env[x].state = "fresh" /\ env'[x].state = "open"
        /\ env'[x].started
        /\ \A s \in Sessions \ {x} : env'[s] = env[s] /\ box'[s] = box[s]
        /\ UNCHANGED <<sessions, session>>
        /\ pc'[t] = "preparing" /\ Sid(t)' = x
    BY <1>0, <1>1, <1>2, Records
       DEF AcceptCreate, At, SetEnv, Goto, Note, Sid, PCs, CallType, EnvType
  <2>2. \A u \in Procs \ {t} : pc'[u] = pc[u] /\ Sid(u)' = Sid(u)
    BY <1>0, <1>1, <1>2 DEF AcceptCreate, Goto, Note, Sid
  <2>3. ASSUME NEW u \in Procs PROVE ThreadInv(u)'
    <3>1. ThreadInv(u) /\ (pc[u] \in Working => Sid(u) \in Sessions)
      BY <1>0, <1>1 DEF Typed, Owned
    <3>2. QED
      BY <2>1, <2>2, <3>1 DEF ThreadInv, Working, PCs, Past
  <2>4. ASSUME NEW s \in Sessions PROVE SessionInv(s)'
    <3>1. CASE s = x
      BY <1>0, <1>1, <2>1, <3>1 DEF SessionInv, Owner, Reachable, Serving, Removers
    <3>2. CASE s # x
      <4>1. Owner(s) => Owner(s)'
        BY <1>0, <2>1, <2>2, <3>2 DEF Owner, Reachable, Serving, Removers
      <4>2. QED
        BY <1>1, <2>1, <3>2, <4>1 DEF SessionInv
    <3>3. QED
      BY <3>1, <3>2
  <2>5. QED
    BY <1>0, <2>3, <2>4 DEF OwnersInv
<1>3. ASSUME NEW op, NEW x \in Sessions, NEW k, op \in {"action", "finalize"},
             AcceptCall(t, op, x, k)
      PROVE  OwnersInv'
  <2>1. /\ pc[t] = "idle" /\ env[x].state # "fresh"
        /\ UNCHANGED <<sessions, session, env, box>>
        /\ pc'[t] \notin Past
        /\ pc'[t] \in Working => Sid(t)' = x
    <3>1. CASE x \in sessions
      <4>1. /\ pc'[t] \in {"admitting", "deciding"}
            /\ call'[t] = [NoCall EXCEPT !.op = op, !.sid = x, !.kind = k]
        BY <1>0, <1>1, <1>3, <3>1 DEF AcceptCall, Goto, Note
      <4>2. [NoCall EXCEPT !.op = op, !.sid = x, !.kind = k].sid = x
        BY Records DEF CallType
      <4>3. QED
        BY <1>3, <4>1, <4>2 DEF AcceptCall, At, Sid, Past
    <3>2. CASE x \notin sessions
      BY <1>0, <1>1, <1>3, <3>2 DEF AcceptCall, AnswerCall, At, Goto, Note, Working, PCs, Past
    <3>3. QED
      BY <3>1, <3>2
  <2>2. \A u \in Procs \ {t} : pc'[u] = pc[u] /\ Sid(u)' = Sid(u)
    BY <1>0, <1>1, <1>3 DEF AcceptCall, AnswerCall, Goto, Note, Sid
  <2>3. \A u \in Procs : ThreadInv(u)'
    BY <1>1, <2>1, <2>2 DEF ThreadInv
  <2>4. \A s \in Sessions : Owner(s) => Owner(s)'
    BY <2>1, <2>2 DEF Owner, Reachable, Serving, Removers
  <2>5. QED
    BY <1>0, <1>1, <2>1, <2>3, <2>4 DEF OwnersInv, SessionInv
<1>4. ASSUME NEW x \in Sessions, AcceptDelete(t, x)
      PROVE  OwnersInv'
  BY <1>0, <1>4, PopOwners DEF AcceptDelete, Ops
<1>5. QED
  BY <1>2, <1>3, <1>4 DEF Accept

\* The inductive step, and the theorem.
LEMMA OwnersStep ==
    ASSUME OwnersInv, [Next]_vars
    PROVE  OwnersInv'
<1>1. Typed /\ Typed'
  BY TypedStep DEF OwnersInv
<1>2. ASSUME UNCHANGED vars \/ Exited
      PROVE  OwnersInv'
  BY <1>1, <1>2
     DEF Exited, vars, OwnersInv, ThreadInv, SessionInv, Owner, Reachable, Serving, Sid
<1>3. CASE \E t \in Threads : Accept(t)
  BY <1>3, AcceptOwners
<1>4. CASE \E t \in Procs : ThreadStep(t)
  BY <1>4, ThreadOwners
<1>5. ASSUME NEW t \in Threads, Hangup(t)
      PROVE  OwnersInv'
  <2>1. /\ t \in Procs /\ pc[t] = "answered" /\ pc'[t] = "idle"
        /\ UNCHANGED <<sessions, session, env, box, server>>
        /\ \A u \in Procs \ {t} : pc'[u] = pc[u] /\ Sid(u)' = Sid(u)
    BY <1>1, <1>5 DEF Hangup, At, Goto, Note, Procs, Typed, TypeOK, Sid
  <2>2. \A u \in Procs : ThreadInv(u) => ThreadInv(u)'
    BY <2>1 DEF ThreadInv, Working, Past
  <2>3. \A s \in Sessions : Owner(s) => Owner(s)'
    BY <2>1 DEF Owner, Reachable, Serving, Removers
  <2>4. QED
    BY <1>1, <2>1, <2>2, <2>3 DEF OwnersInv, SessionInv
<1>6. CASE Shutdown
  <2>1. /\ UNCHANGED <<sessions, session, env, box, pc, call>>
        /\ server.phase # "exited" /\ server'.phase # "exited"
    BY <1>6 DEF Shutdown
  <2>2. QED
    BY <1>1, <2>1 DEF OwnersInv, ThreadInv, SessionInv, Owner, Reachable, Serving, Sid
<1>7. ASSUME NEW x \in Sessions, NextDelete(x)
      PROVE  OwnersInv'
  <2>1. /\ Pop(Main, "shutdown", x) /\ Main \in Procs /\ "shutdown" \in Ops
        /\ server.phase # "exited" /\ server'.phase # "exited"
    BY <1>1, <1>7 DEF NextDelete, Procs, Ops, Typed, TypeOK
  <2>2. QED
    BY <1>1, <2>1, PopOwners
<1>8. CASE Exit
  BY <1>1, <1>8 DEF Exit, OwnersInv, Typed, TypeOK
<1>9. QED
  BY <1>2, <1>3, <1>4, <1>5, <1>6, <1>7, <1>8 DEF Next

LEMMA OwnersInit == Init => OwnersInv
<1>1. Init => Typed
  BY TypedInit
<1>2. Init => \A s \in Sessions : SessionInv(s)
  BY DEF Init, SessionInv, NewSession, NewEnv
<1>3. Init => \A t \in Procs : ThreadInv(t)
  BY DEF Init, ThreadInv, Working, Past
<1>4. QED
  BY <1>1, <1>2, <1>3 DEF Init, OwnersInv

\* While the worker runs, a running container can still be found by a delete or is
\* on its way out, however create, action, finalize, delete and server_close
\* interleave on it, but for one race: a close that clears _container_started under
\* another.
THEOREM ContainersAreOwned == Spec => []NoStrandedContainer
<1>1. OwnersInv => NoStrandedContainer
  BY DEF OwnersInv, SessionInv, Owner, NoStrandedContainer, Reachable, Serving, Removers
<1>2. QED
  BY OwnersInit, OwnersStep, <1>1, PTL DEF Spec

----------------------------------------------------------------------------
(* A completed session carries its reward                                  *)

\* What a grading thread holds, and that nobody works on a session that is still
\* being created: registering it overwrites the session object.
GradeInv(t) ==
    /\ pc[t] = "publishing" => call[t].grade # "unset"
    /\ pc[t] = "marking" => session[Sid(t)].reward # "unset"
    /\ pc[t] \in {"preparing", "registering"} =>
          /\ Sid(t) \notin sessions
          /\ \A u \in Procs \ {t} : pc[u] \in Working => Sid(u) # Sid(t)

GradesInv ==
    /\ OwnersInv
    /\ CompletedIsGraded
    /\ \A t \in Procs : GradeInv(t)

LEMMA ThreadGrades ==
    ASSUME GradesInv, NEW t \in Procs, ThreadStep(t)
    PROVE  GradesInv'
<1>0. PICK s \in Sessions : s = Sid(t)
  BY ThreadFrame DEF GradesInv, OwnersInv
<1>1. /\ Typed /\ pc \in [Procs -> PCs] /\ s = Sid(t) /\ pc[t] \in Working
      /\ call \in [Procs -> CallType] /\ session \in [Sessions -> SessionType]
      /\ session[s] \in SessionType
      /\ \A x \in Sessions : session[x].completed => session[x].reward # "unset"
      /\ \A u \in Procs : GradeInv(u)
  BY <1>0, ThreadFrame DEF GradesInv, OwnersInv, Typed, TypeOK, CompletedIsGraded
<1>2. /\ pc'[t] \in Working => Sid(t)' = s
      /\ \A u \in Procs \ {t} : pc'[u] = pc[u] /\ Sid(u)' = Sid(u)
      /\ \A x \in Sessions \ {s} : session'[x] = session[x] /\ (x \in sessions' <=> x \in sessions)
  BY <1>1, ThreadFrame
<1>3. \A u \in Procs \ {t} : call'[u] = call[u]
  <2>1. Moves(t) /\ Sid(t) \in Sessions
    BY <1>1, ThreadMoves
  <2>2. CASE Answers(t)
    BY <1>1, <2>1, <2>2, Answering DEF Typed
  <2>3. CASE Goes(t)
    BY <1>1, <2>3 DEF Goes, Note
  <2>4. QED
    BY <2>1, <2>2, <2>3 DEF Moves
<1>4. Answers(t) => pc'[t] \notin Working
  BY <1>0, <1>1, Answering DEF Typed
<1>5. \A l \in PCs : Goto(t, l) => pc'[t] = l
  BY <1>1 DEF Goto
\* The thread's own claims, and the rewards it leaves.
<1>6. /\ pc'[t] = "publishing" => call'[t].grade # "unset"
      /\ pc'[t] = "marking" => session'[s].reward # "unset"
      /\ pc'[t] \in {"preparing", "registering"} => pc[t] = "preparing" /\ sessions' = sessions
      /\ session'[s].completed => session'[s].reward # "unset"
      /\ session[s].reward # "unset" => session'[s].reward # "unset" \/ pc[t] = "registering"
      /\ s \in sessions' /\ s \notin sessions => pc[t] = "registering"
  <2>1. CASE Register(t)
    BY <1>0, <1>1, <1>4, <2>1
       DEF Register, SetSession, NewSession, At, Answers, Working, PCs, Rewards
  <2>2. CASE Admit(t)
    <3>1. session'[s].completed = session[s].completed
          /\ session'[s].reward = session[s].reward /\ sessions' = sessions
      BY <1>0, <1>1, <2>2 DEF Admit, SetSession, SessionType
    <3>2. pc'[t] \notin {"publishing", "marking", "preparing", "registering"}
      BY <1>4, <1>5, <2>2 DEF Admit, Answers, Working, PCs
    <3>3. QED
      BY <1>1, <3>1, <3>2
  <2>3. CASE Step(t) \/ Record(t)
    <3>1. session'[s].completed = session[s].completed
          /\ session'[s].reward = session[s].reward /\ sessions' = sessions
      <4>1. \/ session' = session
            \/ \E p \in Int, v \in BOOLEAN : SetSession(s, [session[s] EXCEPT
                   !.pending = p, !.verified = v])
        <5>1. session[s].pending - 1 \in Int /\ session[s].verified \in BOOLEAN
          BY <1>1 DEF SessionType
        <5>2. CASE Step(t) /\ SetSession(s, [session[s] EXCEPT !.pending = @ - 1])
          <6>1. [session[s] EXCEPT !.pending = @ - 1]
                  = [session[s] EXCEPT !.pending = @ - 1, !.verified = session[s].verified]
            BY <1>1 DEF SessionType
          <6>2. QED
            BY <5>1, <5>2, <6>1
        <5>3. CASE Record(t)
          BY <1>0, <5>1, <5>3 DEF Record
        <5>4. QED
          BY <1>0, <2>3, <5>2, <5>3 DEF Step
      <4>2. sessions' = sessions
        BY <2>3 DEF Step, Record
      <4>3. QED
        BY <1>1, <4>1, <4>2 DEF SetSession, SessionType
    <3>2. pc'[t] \notin {"publishing", "marking", "preparing", "registering"}
      BY <1>4, <1>5, <2>3 DEF Step, Record, Answers, Working, PCs
    <3>3. QED
      BY <1>1, <3>1, <3>2
  <2>4. CASE \/ ResetDone(t) \/ Execute(t) \/ Decide(t) \/ Grab(t)
             \/ CloseBegin(t) \/ Take(t) \/ Test(t) \/ Remove(t) \/ Drop(t) \/ Dereference(t)
    <3>1. session' = session /\ sessions' = sessions
      BY <2>4 DEF ResetDone, Execute, Decide, Grab, CloseBegin, Take, Test, Remove, Drop, Dereference
    <3>2. CASE ResetDone(t)
      BY <1>1, <1>5, <3>1, <3>2 DEF ResetDone, At, PCs
    <3>3. CASE Execute(t) \/ Decide(t) \/ Grab(t)
      <4>1. pc'[t] \notin {"publishing", "marking", "preparing", "registering"}
        BY <1>4, <1>5, <3>3 DEF Execute, Decide, Grab, Answers, Working, PCs
      <4>2. QED
        BY <1>1, <3>1, <4>1
    <3>4. CASE CloseBegin(t) \/ Take(t) \/ Test(t) \/ Remove(t) \/ Drop(t) \/ Dereference(t)
      <4>1. pc'[t] \notin {"publishing", "marking", "preparing", "registering"}
        BY <1>4, <1>5, <3>4
           DEF CloseBegin, Take, Test, Remove, Drop, Dereference, Answers, Working, PCs, Rewards
      <4>2. QED
        BY <1>1, <3>1, <4>1
    <3>5. QED
      BY <2>4, <3>2, <3>3, <3>4
  <2>5. CASE Grade(t)
    <3>1. session' = session /\ sessions' = sessions
      BY <2>5 DEF Grade
    <3>2. pc'[t] = "closing" \/ (pc'[t] = "publishing" /\ call'[t].grade # "unset")
      <4>1. Graded(t) \in CallType
        BY <1>1, Records DEF Graded, CallType, NoCall
      <4>2. \A x \in Rewards : [Graded(t) EXCEPT !.grade = x].grade = x
        BY <4>1 DEF CallType
      <4>3. \A result, patched, verified, violated :
               RewardOf(result, patched, verified, violated) \in Rewards \ {"unset"}
        BY DEF RewardOf, Rewards
      <4>4. PICK x \in Rewards \ {"unset"} :
                 x = RewardOf(call[t].result, Changed(s), session[s].verified, env[s].violated)
        BY <4>3
      <4>5. \/ Goto(t, "closing")
            \/ Goto(t, "publishing") /\ call'[t] = [Graded(t) EXCEPT !.grade = x]
        BY <1>0, <1>1, <2>5, <4>4 DEF Grade, Note
      <4>6. QED
        BY <1>5, <4>2, <4>5 DEF PCs
    <3>3. QED
      BY <1>1, <3>1, <3>2
  <2>6. CASE Publish(t)
    <3>1. /\ pc'[t] = "marking" /\ sessions' = sessions
          /\ session'[s].reward = call[t].grade
          /\ call[t].grade # "unset"
      BY <1>0, <1>1, <1>5, <2>6 DEF Publish, SetSession, At, GradeInv, PCs, SessionType
    <3>2. QED
      BY <3>1
  <2>7. CASE Mark(t)
    <3>1. /\ pc'[t] = "closing" /\ sessions' = sessions
          /\ session'[s].reward = session[s].reward
          /\ session[s].reward # "unset"
      BY <1>0, <1>1, <1>5, <2>7 DEF Mark, SetSession, At, GradeInv, PCs, SessionType
    <3>2. QED
      BY <3>1
  <2>8. CASE Clear(t)
    <3>1. /\ pc'[t] \notin Working /\ sessions' = sessions
          /\ session'[s].completed = session[s].completed
          /\ session'[s].reward = session[s].reward
      <4>1. pc'[t] \notin Working /\ sessions' = sessions
        BY <1>4, <2>8 DEF Clear, Answers, Rewards
      <4>2. session' = session \/ SetSession(s, [session[s] EXCEPT !.attached = FALSE])
        BY <1>0, <2>8 DEF Clear
      <4>3. QED
        BY <1>1, <4>1, <4>2 DEF SetSession, SessionType
    <3>2. QED
      BY <1>1, <3>1 DEF Working, PCs
  <2>9. QED
    BY <2>1, <2>2, <2>3, <2>4, <2>5, <2>6, <2>7, <2>8 DEF ThreadStep
<1>7. CompletedIsGraded'
  BY <1>1, <1>2, <1>6 DEF CompletedIsGraded
<1>8. ASSUME NEW u \in Procs PROVE GradeInv(u)'
  <2>1. GradeInv(u) /\ GradeInv(t)
    BY <1>1
  <2>2. CASE u = t
    BY <1>0, <1>1, <1>2, <1>6, <2>1, <2>2 DEF GradeInv, Working, PCs
  <2>3. CASE u # t
    <3>1. pc'[u] = pc[u] /\ Sid(u)' = Sid(u) /\ call'[u] = call[u]
      BY <1>2, <1>3, <2>3
    <3>2. pc[u] \in Working => Sid(u) \in Sessions
      BY <1>1 DEF Typed, Owned
    <3>3. pc[u] = "marking" => session'[Sid(u)].reward # "unset"
      BY <1>0, <1>1, <1>2, <1>6, <2>1, <2>3, <3>2 DEF GradeInv, Working, PCs
    <3>4. ASSUME pc[u] \in {"preparing", "registering"}
          PROVE  /\ Sid(u) \notin sessions'
                 /\ \A v \in Procs \ {u} : pc'[v] \in Working => Sid(v)' # Sid(u)
      <4>1. Sid(u) # s
        BY <1>1, <2>1, <2>3, <3>4 DEF GradeInv
      <4>2. QED
        BY <1>2, <2>1, <3>2, <3>4, <4>1 DEF GradeInv, Working, PCs
    <3>5. QED
      BY <2>1, <3>1, <3>3, <3>4 DEF GradeInv
  <2>4. QED
    BY <2>2, <2>3
<1>9. QED
  BY <1>7, <1>8, ThreadOwners DEF GradesInv

\* A thread that takes a request works on a session that is registered, or on a
\* fresh one that nobody else knows; the rest of the worker does not notice.
LEMMA AcceptGrades ==
    ASSUME GradesInv, NEW t \in Procs, pc[t] = "idle",
           NEW x \in Sessions, Typed', OwnersInv', server.phase # "exited",
           UNCHANGED session, sessions' \subseteq sessions,
           \A u \in Procs \ {t} : pc'[u] = pc[u] /\ call'[u] = call[u],
           \/ pc'[t] \notin Working
           \/ /\ Sid(t)' = x /\ x \in sessions
              /\ pc'[t] \in {"admitting", "deciding", "dropping"}
           \/ Sid(t)' = x /\ env[x].state = "fresh" /\ pc'[t] = "preparing"
    PROVE  GradesInv'
<1>1. /\ \A u \in Procs : GradeInv(u) /\ ThreadInv(u)
      /\ \A s \in Sessions : SessionInv(s)
      /\ \A u \in Procs : pc[u] \in Working => Sid(u) \in Sessions
  BY DEF GradesInv, OwnersInv, Typed, Owned
<1>2. \A u \in Procs \ {t} : Sid(u)' = Sid(u)
  BY DEF Sid
<1>3. CompletedIsGraded'
  BY DEF GradesInv, CompletedIsGraded
<1>4. ASSUME NEW u \in Procs PROVE GradeInv(u)'
  <2>1. CASE u # t
    <3>1. GradeInv(u) /\ ThreadInv(u)
      BY <1>1
    <3>2. pc[u] \in {"preparing", "registering"} => pc[u] \in Working
      BY DEF Working, PCs
    <3>3. pc[u] \in {"preparing", "registering"} /\ pc'[t] \in Working => Sid(t)' # Sid(u)
      BY <1>1, <3>1, <3>2 DEF GradeInv, ThreadInv, Working, PCs
    <3>4. QED
      BY <1>2, <2>1, <3>1, <3>3 DEF GradeInv
  <2>2. CASE u = t
    <3>1. CASE pc'[t] \notin Working
      BY <2>2, <3>1 DEF GradeInv, Working, PCs
    <3>2. CASE pc'[t] \in {"admitting", "deciding", "dropping"}
      BY <2>2, <3>2 DEF GradeInv
    <3>3. CASE Sid(t)' = x /\ env[x].state = "fresh" /\ pc'[t] = "preparing"
      <4>1. x \notin sessions
        BY <1>1, <3>3 DEF SessionInv
      <4>2. \A v \in Procs \ {t} : pc'[v] \in Working => Sid(v)' # x
        BY <1>1, <1>2, <3>3 DEF ThreadInv
      <4>3. QED
        BY <2>2, <3>3, <4>1, <4>2 DEF GradeInv
    <3>4. QED
      BY <3>1, <3>2, <3>3
  <2>3. QED
    BY <2>1, <2>2
<1>5. QED
  BY <1>3, <1>4 DEF GradesInv

LEMMA PopGrades ==
    ASSUME GradesInv, NEW t \in Procs, NEW op \in Ops, NEW x \in Sessions, Pop(t, op, x),
           Typed', OwnersInv', server.phase # "exited"
    PROVE  GradesInv'
<1>1. /\ pc \in [Procs -> PCs] /\ call \in [Procs -> CallType]
      /\ pc[t] = "idle" /\ UNCHANGED session /\ sessions' \subseteq sessions
  BY DEF GradesInv, OwnersInv, Typed, TypeOK, Pop, At
<1>2. \A u \in Procs \ {t} : pc'[u] = pc[u] /\ call'[u] = call[u]
  BY <1>1 DEF Pop, Goto, Note, AnswerCall
<1>3. CASE x \in sessions
  <2>1. pc'[t] = "dropping" /\ call'[t] = [NoCall EXCEPT !.op = op, !.sid = x]
    BY <1>1, <1>3 DEF Pop, Goto, Note
  <2>2. [NoCall EXCEPT !.op = op, !.sid = x].sid = x
    BY Records DEF CallType
  <2>3. QED
    BY <1>1, <1>2, <1>3, <2>1, <2>2, AcceptGrades DEF Sid
<1>4. CASE x \notin sessions
  <2>1. pc'[t] \notin Working
    BY <1>1, <1>4 DEF Pop, Goto, AnswerCall, Working
  <2>2. QED
    BY <1>1, <1>2, <2>1, AcceptGrades
<1>5. QED
  BY <1>3, <1>4

LEMMA GradesStep ==
    ASSUME GradesInv, [Next]_vars
    PROVE  GradesInv'
<1>1. /\ Typed /\ Typed' /\ OwnersInv'
      /\ pc \in [Procs -> PCs] /\ call \in [Procs -> CallType]
  BY OwnersStep, TypedStep DEF GradesInv, OwnersInv, Typed, TypeOK
<1>2. CASE UNCHANGED vars \/ Exited
  BY <1>1, <1>2 DEF Exited, vars, GradesInv, GradeInv, CompletedIsGraded, Sid
<1>3. ASSUME NEW t \in Threads, Accept(t)
      PROVE  GradesInv'
  <2>1. t \in Procs /\ server.phase # "exited"
    BY <1>3 DEF Procs, Accept
  <2>2. ASSUME NEW x \in Sessions, AcceptCreate(t, x)
        PROVE  GradesInv'
    <3>1. /\ pc[t] = "idle" /\ env[x].state = "fresh" /\ pc'[t] = "preparing"
          /\ call'[t] = [NoCall EXCEPT !.op = "create", !.sid = x]
          /\ UNCHANGED <<session, sessions>>
          /\ \A u \in Procs \ {t} : pc'[u] = pc[u] /\ call'[u] = call[u]
      BY <1>1, <2>1, <2>2 DEF AcceptCreate, At, Goto, Note
    <3>2. [NoCall EXCEPT !.op = "create", !.sid = x].sid = x
      BY Records DEF CallType
    <3>3. Sid(t)' = x /\ sessions' \subseteq sessions
      BY <3>1, <3>2 DEF Sid
    <3>4. QED
      BY <1>1, <2>1, <3>1, <3>3, AcceptGrades
  <2>3. ASSUME NEW op, NEW x \in Sessions, NEW k, op \in {"action", "finalize"},
               AcceptCall(t, op, x, k)
        PROVE  GradesInv'
    <3>1. /\ pc[t] = "idle" /\ UNCHANGED <<session, sessions>>
          /\ \A u \in Procs \ {t} : pc'[u] = pc[u] /\ call'[u] = call[u]
      BY <1>1, <2>1, <2>3 DEF AcceptCall, AnswerCall, At, Goto, Note
    <3>2. CASE x \in sessions
      <4>1. /\ pc'[t] \in {"admitting", "deciding"}
            /\ call'[t] = [NoCall EXCEPT !.op = op, !.sid = x, !.kind = k]
        BY <1>1, <2>1, <2>3, <3>2 DEF AcceptCall, Goto, Note
      <4>2. [NoCall EXCEPT !.op = op, !.sid = x, !.kind = k].sid = x
        BY Records DEF CallType
      <4>3. QED
        BY <1>1, <2>1, <3>1, <3>2, <4>1, <4>2, AcceptGrades DEF Sid
    <3>3. CASE x \notin sessions
      <4>1. pc'[t] \notin Working
        BY <1>1, <2>1, <2>3, <3>3 DEF AcceptCall, AnswerCall, Goto, Working
      <4>2. QED
        BY <1>1, <2>1, <3>1, <4>1, AcceptGrades
    <3>4. QED
      BY <3>2, <3>3
  <2>4. ASSUME NEW x \in Sessions, AcceptDelete(t, x)
        PROVE  GradesInv'
    BY <1>1, <2>1, <2>4, PopGrades DEF AcceptDelete, Ops
  <2>5. QED
    BY <1>3, <2>2, <2>3, <2>4 DEF Accept
<1>4. CASE \E t \in Procs : ThreadStep(t)
  BY <1>4, ThreadGrades
<1>5. ASSUME NEW t \in Threads, Hangup(t)
      PROVE  GradesInv'
  <2>1. /\ t \in Procs /\ pc'[t] = "idle"
        /\ UNCHANGED <<sessions, session>>
        /\ \A u \in Procs \ {t} : pc'[u] = pc[u] /\ call'[u] = call[u]
    BY <1>1, <1>5 DEF Hangup, Goto, Note, Procs
  <2>2. \A u \in Procs : GradeInv(u) => GradeInv(u)'
    BY <2>1 DEF GradeInv, Sid, Working
  <2>3. QED
    BY <1>1, <2>1, <2>2 DEF GradesInv, CompletedIsGraded
<1>6. CASE Shutdown
  BY <1>1, <1>6 DEF Shutdown, GradesInv, GradeInv, CompletedIsGraded, Sid
<1>7. ASSUME NEW x \in Sessions, NextDelete(x)
      PROVE  GradesInv'
  <2>1. /\ Pop(Main, "shutdown", x) /\ Main \in Procs /\ "shutdown" \in Ops
        /\ server.phase # "exited"
    BY <1>7 DEF NextDelete, Procs, Ops
  <2>2. QED
    BY <1>1, <2>1, PopGrades
<1>8. CASE Exit
  BY <1>1, <1>8 DEF Exit, GradesInv, GradeInv, CompletedIsGraded
<1>9. QED
  BY <1>2, <1>3, <1>4, <1>5, <1>6, <1>7, <1>8 DEF Next

LEMMA GradesInit == Init => GradesInv
BY OwnersInit DEF Init, GradesInv, GradeInv, CompletedIsGraded, NewSession

\* A session that reads completed has been given its reward, so no reply says
\* terminated and carries the reward the session was born with.
THEOREM CompletedCarriesReward == Spec => []CompletedIsGraded
<1>1. GradesInv => CompletedIsGraded
  BY DEF GradesInv
<1>2. QED
  BY GradesInit, GradesStep, <1>1, PTL DEF Spec

----------------------------------------------------------------------------
(* What server_close leaves behind                                         *)

\* The ids that server_close copied: their sessions exist, nobody is creating them
\* any more, and one that is still in the dictionary is still on the list of close.
\* So a session that close has done with cannot come back into the dictionary.
TakenInv ==
    server.phase = "closing" =>
        \A s \in server.ids :
            /\ env[s].state # "fresh"
            /\ s \in sessions => s \in server.left
            /\ \A t \in Procs : Sid(t) = s => pc[t] \notin {"preparing", "registering"}

ClosingInv == GradesInv /\ TakenInv

\* A thread at work neither goes back to creating its session nor makes its
\* environment fresh again, and only Register adds to the dictionary.
LEMMA ThreadTaken ==
    ASSUME Typed, NEW t \in Procs, ThreadStep(t), env[Sid(t)].state # "fresh"
    PROVE  /\ env'[Sid(t)].state # "fresh"
           /\ pc'[t] \in {"preparing", "registering"} => pc[t] = "preparing"
           /\ Sid(t) \in sessions' /\ Sid(t) \notin sessions => pc[t] = "registering"
<1> DEFINE s == Sid(t)
<1>1. /\ s \in Sessions /\ pc[t] \in Working
      /\ pc \in [Procs -> PCs] /\ env \in [Sessions -> EnvType] /\ env[s] \in EnvType
  BY ThreadFrame DEF Typed, TypeOK
<1>2. Answers(t) => pc'[t] \notin Working
  BY <1>1, Answering DEF Typed
<1>3. \A l \in PCs : Goto(t, l) => pc'[t] = l
  BY <1>1 DEF Goto
<1>4. CASE Quiet(t)
  <2>1. env'[s].state = env[s].state /\ sessions' = sessions
    BY <1>1, <1>4, QuietFrame
  <2>2. pc'[t] \notin {"preparing", "registering"}
    <3>1. CASE Admit(t) \/ Record(t)
      <4>1. \/ Answers(t)
            \/ Goto(t, "stepping") \/ Goto(t, "grabbing")
        BY <3>1 DEF Admit, Record, Answers
      <4>2. QED
        BY <1>2, <1>3, <4>1 DEF Working, PCs
    <3>2. CASE Step(t)
      BY <1>3, <3>2 DEF Step, PCs
    <3>3. CASE Execute(t)
      <4>1. DropConn(t) \/ Goto(t, IF call[t].op = "action" THEN "recording" ELSE "grabbing")
        BY <3>3, Zenon DEF Execute
      <4>2. QED
        BY <1>1, <1>2, <4>1 DEF Answers, Goto, Working, PCs
    <3>4. CASE Decide(t) \/ Grab(t) \/ Grade(t) \/ Publish(t) \/ Mark(t)
      BY <1>2, <1>3, <3>4 DEF Decide, Grab, Grade, Publish, Mark, Answers, Working, PCs
    <3>5. QED
      BY <1>4, <3>1, <3>2, <3>3, <3>4 DEF Quiet
  <2>3. QED
    BY <2>1, <2>2
<1>5. CASE ResetDone(t)
  BY <1>1, <1>5 DEF ResetDone, SetEnv, At, EnvType
<1>6. CASE Register(t)
  BY <1>1, <1>2, <1>6 DEF Register, At, Answers, Working, PCs, Rewards
<1>7. CASE CloseBegin(t) \/ Test(t) \/ Remove(t)
  BY <1>1, <1>3, <1>7 DEF CloseBegin, Test, Remove, PCs
<1>8. CASE Take(t)
  BY <1>1, <1>3, <1>8 DEF Take, SetEnv, EnvType, PCs
<1>9. CASE Clear(t)
  BY <1>1, <1>2, <1>9 DEF Clear, SetEnv, EnvType, Answers, Working, PCs, Rewards
<1>10. CASE Drop(t) \/ Dereference(t)
  BY <1>1, <1>2, <1>3, <1>10 DEF Drop, Dereference, Answers, Working, PCs, Rewards
<1>11. QED
  BY <1>4, <1>5, <1>6, <1>7, <1>8, <1>9, <1>10 DEF ThreadStep, Quiet

\* A request leaves server_close alone.
LEMMA AcceptFrame ==
    ASSUME NEW t \in Threads, Accept(t)
    PROVE  server' = server
<1>1. \A s \in Sessions : AcceptCreate(t, s) => server' = server
  BY DEF AcceptCreate
<1>2. \A op, s, k : AcceptCall(t, op, s, k) => server' = server
  BY DEF AcceptCall
<1>3. \A s \in Sessions : AcceptDelete(t, s) => server' = server
  BY DEF AcceptDelete
<1>4. QED
  BY <1>1, <1>2, <1>3 DEF Accept

LEMMA ClosingStep ==
    ASSUME ClosingInv, [Next]_vars
    PROVE  ClosingInv'
<1>1. /\ GradesInv /\ GradesInv' /\ Typed /\ OwnersInv /\ TakenInv
      /\ pc \in [Procs -> PCs] /\ call \in [Procs -> CallType]
      /\ env \in [Sessions -> EnvType]
      /\ server \in [phase : {"serving", "closing", "exited"},
                     ids : SUBSET Sessions, left : SUBSET Sessions]
  BY GradesStep DEF ClosingInv, GradesInv, OwnersInv, Typed, TypeOK
<1>2. SUFFICES TakenInv'
  BY <1>1 DEF ClosingInv
<1>3. CASE UNCHANGED vars \/ Exited
  BY <1>1, <1>3 DEF Exited, vars, TakenInv, Sid
<1>4. ASSUME NEW t \in Threads, Accept(t)
      PROVE  TakenInv'
  <2>1. t \in Procs /\ server' = server
    BY <1>4, AcceptFrame DEF Procs
  <2>2. ASSUME NEW x \in Sessions, AcceptCreate(t, x)
        PROVE  TakenInv'
    <3>1. /\ env[x].state = "fresh" /\ sessions' = sessions
          /\ \A s \in Sessions \ {x} : env'[s] = env[s]
          /\ pc'[t] = "preparing" /\ Sid(t)' = x
          /\ \A u \in Procs \ {t} : pc'[u] = pc[u] /\ Sid(u)' = Sid(u)
      BY <1>1, <2>1, <2>2, Records
         DEF AcceptCreate, At, SetEnv, Goto, Note, Sid, PCs, CallType
    <3>2. QED
      BY <1>1, <2>1, <3>1 DEF TakenInv
  <2>3. ASSUME NEW op, NEW x \in Sessions, NEW k, op \in {"action", "finalize"},
               AcceptCall(t, op, x, k)
        PROVE  TakenInv'
    <3>1. /\ UNCHANGED <<sessions, env>>
          /\ pc'[t] \notin {"preparing", "registering"}
          /\ \A u \in Procs \ {t} : pc'[u] = pc[u] /\ Sid(u)' = Sid(u)
      BY <1>1, <2>1, <2>3 DEF AcceptCall, AnswerCall, Goto, Note, Sid
    <3>2. QED
      BY <1>1, <2>1, <3>1 DEF TakenInv
  <2>4. ASSUME NEW x \in Sessions, AcceptDelete(t, x)
        PROVE  TakenInv'
    <3>1. /\ env' = env /\ sessions' \subseteq sessions
          /\ pc'[t] \notin {"preparing", "registering"}
          /\ \A u \in Procs \ {t} : pc'[u] = pc[u] /\ Sid(u)' = Sid(u)
      BY <1>1, <2>1, <2>4 DEF AcceptDelete, Pop, AnswerCall, Goto, Note, Sid
    <3>2. QED
      BY <1>1, <2>1, <3>1 DEF TakenInv
  <2>5. QED
    BY <1>4, <2>2, <2>3, <2>4 DEF Accept
<1>5. ASSUME NEW t \in Procs, ThreadStep(t)
      PROVE  TakenInv'
  <2>1. /\ pc[t] \in Working /\ Sid(t) \in Sessions
        /\ pc'[t] \in Working => Sid(t)' = Sid(t)
        /\ \A u \in Procs \ {t} : pc'[u] = pc[u] /\ Sid(u)' = Sid(u)
        /\ \A s \in Sessions \ {Sid(t)} :
              env'[s] = env[s] /\ (s \in sessions' <=> s \in sessions)
        /\ server' = server
    BY <1>1, <1>5, ThreadFrame
  <2>2. server.phase # "exited" /\ env[Sid(t)].state # "fresh"
    BY <1>1, <2>1 DEF OwnersInv, ThreadInv, Working
  <2>3. /\ env'[Sid(t)].state # "fresh"
        /\ pc'[t] \in {"preparing", "registering"} => pc[t] = "preparing"
        /\ Sid(t) \in sessions' /\ Sid(t) \notin sessions => pc[t] = "registering"
    BY <1>1, <1>5, <2>2, ThreadTaken
  <2>4. SUFFICES ASSUME server.phase = "closing", NEW s \in server.ids
                 PROVE  /\ env'[s].state # "fresh"
                        /\ s \in sessions' => s \in server.left
                        /\ \A u \in Procs : Sid(u)' = s =>
                              pc'[u] \notin {"preparing", "registering"}
    BY <2>1 DEF TakenInv
  <2>5. /\ s \in Sessions /\ env[s].state # "fresh"
        /\ s \in sessions => s \in server.left
        /\ \A u \in Procs : Sid(u) = s => pc[u] \notin {"preparing", "registering"}
    BY <1>1, <2>4 DEF TakenInv
  <2>6. env'[s].state # "fresh"
    BY <2>1, <2>3, <2>5
  <2>7. s \in sessions' => s \in server.left
    BY <2>1, <2>3, <2>5
  <2>8. ASSUME NEW u \in Procs, Sid(u)' = s
        PROVE  pc'[u] \notin {"preparing", "registering"}
    <3>1. CASE u = t
      BY <2>1, <2>3, <2>5, <2>8, <3>1 DEF Working, PCs
    <3>2. CASE u # t
      BY <2>1, <2>5, <2>8, <3>2
    <3>3. QED
      BY <3>1, <3>2
  <2>9. QED
    BY <2>6, <2>7, <2>8
<1>6. ASSUME NEW t \in Threads, Hangup(t)
      PROVE  TakenInv'
  <2>1. /\ t \in Procs /\ pc'[t] = "idle"
        /\ UNCHANGED <<sessions, env, server>>
        /\ \A u \in Procs \ {t} : pc'[u] = pc[u] /\ Sid(u)' = Sid(u)
    BY <1>1, <1>6 DEF Hangup, Goto, Note, Procs, Sid
  <2>2. QED
    BY <1>1, <2>1 DEF TakenInv
\* The ids are the keys of the dictionary, and a session in it is past its creation.
<1>7. CASE Shutdown
  <2>1. /\ server.phase = "serving"
        /\ server'.ids = sessions /\ server'.left = sessions
        /\ UNCHANGED <<sessions, env, pc, call>>
    BY <1>7 DEF Shutdown
  <2>2. /\ sessions \subseteq Sessions
        /\ \A s \in Sessions : SessionInv(s)
        /\ \A t \in Procs : GradeInv(t)
    BY <1>1, <2>1 DEF GradesInv, OwnersInv, Typed, TypeOK
  <2>3. QED
    BY <2>1, <2>2 DEF TakenInv, SessionInv, GradeInv, Sid
<1>8. ASSUME NEW x \in Sessions, NextDelete(x)
      PROVE  TakenInv'
  <2>1. /\ Main \in Procs /\ server.phase = "closing"
        /\ server'.ids = server.ids /\ server'.left = server.left \ {x}
        /\ sessions' = sessions \ {x} /\ env' = env
    BY <1>1, <1>8 DEF NextDelete, Pop, Procs
  <2>2. /\ pc'[Main] \notin {"preparing", "registering"}
        /\ \A u \in Procs \ {Main} : pc'[u] = pc[u] /\ Sid(u)' = Sid(u)
    BY <1>1, <1>8, <2>1 DEF NextDelete, Pop, AnswerCall, Goto, Note, Sid
  <2>3. QED
    BY <1>1, <2>1, <2>2 DEF TakenInv
<1>9. CASE Exit
  BY <1>1, <1>9 DEF Exit, TakenInv
<1>10. QED
  BY <1>3, <1>4, <1>5, <1>6, <1>7, <1>8, <1>9 DEF Next

LEMMA ClosingInit == Init => ClosingInv
BY GradesInit DEF Init, ClosingInv, TakenInv

\* When the process ends, a container of a session server_close had come to is gone,
\* or a handler is on its way to removing it, or two closes raced, though handlers go
\* on popping, detaching and closing the same sessions while it runs.
THEOREM ServerCloseReleases == Spec => ShutdownReleases
<1> DEFINE Ends == server.phase = "closing" /\ server'.phase = "exited"
           Kept == \A s \in server.ids \ server.left : box[s] = "running" =>
                      env[s].raced \/ \E t \in Threads : Serving(t, s, Removers)
<1>1. ASSUME ClosingInv, [Next]_vars, Ends
      PROVE  Kept
  <2>1. /\ Typed /\ TakenInv /\ Main \in Procs
        /\ \A s \in Sessions : SessionInv(s)
        /\ server \in [phase : {"serving", "closing", "exited"},
                       ids : SUBSET Sessions, left : SUBSET Sessions]
    BY <1>1 DEF ClosingInv, GradesInv, OwnersInv, Typed, TypeOK, Procs
  <2>2. At(Main, "idle") \/ (At(Main, "dereferencing") /\ ~session[Sid(Main)].attached)
    <3>1. CASE \E t \in Threads : Accept(t)
      BY <1>1, <3>1, AcceptFrame
    <3>2. CASE \E t \in Procs : ThreadStep(t)
      BY <1>1, <2>1, <3>2, ThreadFrame
    <3>3. CASE \E x \in Sessions : NextDelete(x)
      BY <1>1, <2>1, <3>3 DEF NextDelete
    <3>4. CASE \/ \E t \in Threads : Hangup(t)
               \/ Shutdown \/ Exited \/ UNCHANGED vars
      BY <1>1, <3>4 DEF Hangup, Shutdown, Exited, vars
    <3>5. CASE Exit
      BY <1>1, <3>5 DEF Exit
    <3>6. QED
      BY <1>1, <3>1, <3>2, <3>3, <3>4, <3>5 DEF Next
  <2>3. ASSUME NEW s \in server.ids \ server.left, box[s] = "running", ~env[s].raced
        PROVE  \E t \in Threads : Serving(t, s, Removers)
    <3>1. s \in Sessions /\ s \notin sessions /\ Owner(s)
      BY <1>1, <2>1, <2>3 DEF TakenInv, SessionInv
\* A delete that raises does so on a session that another close has taken.
    <3>2. PICK t \in Procs : t # Main /\ Serving(t, s, Removers)
      <4>1. CASE At(Main, "idle")
        BY <3>1, <4>1 DEF Owner, Reachable, Serving, Removers, At
      <4>2. CASE At(Main, "dereferencing") /\ Sid(Main) # s
        BY <3>1, <4>2 DEF Owner, Reachable, Serving, Removers
      <4>3. CASE At(Main, "dereferencing") /\ Sid(Main) = s /\ ~session[s].attached
        <5>1. env[s].state # "open"
          BY <2>1, <3>1, <4>3 DEF SessionInv
        <5>2. QED
          BY <3>1, <4>3, <5>1 DEF Owner, Serving, Removers, At
      <4>4. QED
        BY <2>2, <4>1, <4>2, <4>3
    <3>3. QED
      BY <3>2 DEF Procs
  <2>4. QED
    BY <2>3
<1>2. ClosingInv /\ [Next]_vars => [Ends => Kept]_vars
  BY <1>1
<1>3. QED
  BY ClosingInit, ClosingStep, <1>2, PTL DEF Spec, ShutdownReleases

----------------------------------------------------------------------------
(* What the client needs to know of the worker                             *)

\* A handler answers for the session it was given, and never unmakes its environment.
LEMMA HandlerKeepsSession ==
    ASSUME Typed, NEW t \in Threads, ThreadStep(t)
    PROVE  /\ Typed'
           /\ \A u \in Threads : Sid(u)' = Sid(u)
<1>1. t \in Procs /\ t # Main /\ Threads \subseteq Procs
  BY WorkerAssumption DEF Procs
<1>2. Moves(t) /\ Sid(t) \in Sessions /\ TypeOK
  BY <1>1, ThreadMoves DEF Typed
<1>3. Sid(t)' = Sid(t)
  <2>1. CASE Answers(t)
    <3>1. PICK status, terminated, reward : AnswerCall(t, call[t], status, terminated, reward)
      BY <2>1 DEF Answers, Answer, Reject, DropConn, ActionResponse, FinalizeResponse,
         AfterComplete
    <3> QED BY <3>1, <1>1, <1>2, ZenonT(40) DEF AnswerCall, Note, Sid, TypeOK, NoCall
  <2>2. CASE Goes(t)
    BY <2>2, <1>1, <1>2 DEF Goes, Note, Sid, TypeOK
  <2> QED BY <2>1, <2>2, <1>2 DEF Moves
<1>4. \A u \in Threads \ {t} : Sid(u)' = Sid(u)
  BY <1>1, <1>2, MoveFrame
<1> QED BY <1>1, <1>3, <1>4, ThreadTyped

\* An environment that was created stays created.
LEMMA HandlerKeepsCreated ==
    ASSUME Typed, NEW t \in Threads, ThreadStep(t)
    PROVE  \A s \in Sessions : env'[s].state = "fresh" => env[s].state = "fresh"
<1>1. t \in Procs /\ TypeOK
  BY DEF Typed, Procs
<1>2. PICK s \in Sessions : s = Sid(t)
  BY <1>1, ThreadMoves
<1>3. env \in [Sessions -> EnvType]
  BY <1>1 DEF TypeOK
<1>4. CASE env' = env
  BY <1>4
<1>5. ASSUME NEW e, env' = [env EXCEPT ![s] = e], e.state = env[s].state \/ e.state # "fresh"
      PROVE  \A x \in Sessions : env'[x].state = "fresh" => env[x].state = "fresh"
  BY <1>3, <1>5
<1>6. ASSUME NEW e \in EnvType, e = env[s],
             \/ \E l \in Results : env' = [env EXCEPT ![s] = [e EXCEPT !.last = l]]
             \/ \E c \in Contents : env' = [env EXCEPT ![s] = [e EXCEPT !.content = c]]
             \/ env' = [env EXCEPT ![s] = [e EXCEPT !.violated = TRUE]]
      PROVE  \A x \in Sessions : env'[x].state = "fresh" => env[x].state = "fresh"
  BY <1>6, <1>5 DEF EnvType
<1>7. env[s] \in EnvType
  BY <1>3
<1>8. CASE ResetDone(t)
  BY <1>8, <1>2, <1>4, <1>6, <1>7 DEF ResetDone, SetEnv, Results
<1>9. CASE Step(t)
  BY <1>9, <1>2, <1>4, <1>6, <1>7 DEF Step, SetEnv
<1>10. CASE Execute(t)
  <2>1. \A r : r \in {Verdict(env[s].content), "none"} \/ r \in {"failed"} => r \in Results
    BY DEF Verdict, Results
  <2> QED BY <1>10, <2>1, <1>2, <1>4, <1>6, <1>7 DEF Execute, SetEnv
<1>11. CASE Take(t)
  <2> DEFINE e == [env[s] EXCEPT !.state = IF @ = "open" THEN "closing" ELSE @]
  <2>1. e.state = env[s].state \/ e.state # "fresh"
    BY <1>7 DEF EnvType
  <2>2. env' = [env EXCEPT ![s] = e]
    BY <1>11, <1>2 DEF Take, SetEnv
  <2> HIDE DEF e
  <2> QED BY <2>1, <2>2, <1>5
<1>12. CASE Clear(t)
  <2> DEFINE e == [env[s] EXCEPT !.state = "closed", !.last = "none", !.content = "base",
                     !.started = FALSE,
                     !.raced = @ \/ (box[s] = "running" /\ Held(s, t))]
  <2>1. e.state = "closed"
    BY <1>7 DEF EnvType
  <2>2. env' = [env EXCEPT ![s] = e]
    BY <1>12, <1>2 DEF Clear, SetEnv
  <2> HIDE DEF e
  <2> QED BY <2>1, <2>2, <1>5
<1>13. CASE Register(t) \/ Admit(t) \/ Record(t) \/ Decide(t) \/ Grab(t) \/ Grade(t) \/ Publish(t)
            \/ Mark(t) \/ CloseBegin(t) \/ Test(t) \/ Remove(t) \/ Drop(t) \/ Dereference(t)
  BY <1>13, <1>4 DEF Register, Admit, Record, Decide, Grab, Grade, Publish, Mark, CloseBegin, Test,
     Remove, Drop, Dereference
<1> QED BY <1>8, <1>9, <1>10, <1>11, <1>12, <1>13 DEF ThreadStep

----------------------------------------------------------------------------
(* The client                                                              *)

\* The inductive part about the client alone: a session it holds is not completed, and a
\* request in flight says what the client holds.  RewardsSeen is the audit's side of it:
\* a session gets its line only when the client lets go of it.
ClientInv ==
    /\ client \in ClientType
    /\ client.session_id # NoSid => ~client.completed
    /\ client.request \in {"action", "finalize"} =>
          client.session_id # NoSid /\ client.target = client.session_id
    /\ client.request = "action" => client.kind \in Asked
    /\ client.request = "delete" => client.session_id = NoSid /\ client.target \in Sessions
    /\ client.request = "create" => client.session_id = NoSid
    /\ client.request = "none" => client.thread = NoThread
    /\ client.thread # NoThread => Sid(client.thread) \in Sessions

\* A reply of a handler is a reply.
LEMMA ReplyTyped ==
    ASSUME Typed, NEW t \in Threads
    PROVE  /\ call[t].reply \in ReplyType
           /\ RewardIn(call[t].reply) \in Rewards
<1>1. call[t] \in CallType
  BY DEF Typed, TypeOK, Procs
<1>2. call[t].reply \in ReplyType
  BY <1>1 DEF CallType
<1> QED BY <1>2 DEF ReplyType, RewardIn, Rewards

\* The operators on the client build clients, and each says what it leaves behind.
LEMMA Letting ==
    ASSUME NEW c \in ClientType
    PROVE  /\ Returned(c) \in ClientType
           /\ Returned(c).request = "none" /\ Returned(c).thread = NoThread
           /\ Returned(c).session_id = c.session_id /\ Returned(c).completed = c.completed
           /\ Returned(c).reward = c.reward /\ Returned(c).episode = c.episode
           /\ Deleting(c) \in ClientType
           /\ Deleting(c).request = "delete" /\ Deleting(c).thread = NoThread
           /\ Deleting(c).session_id = NoSid /\ Deleting(c).completed = c.completed
           /\ Deleting(c).target = c.target
           /\ Deleting(c).reward = c.reward /\ Deleting(c).episode = c.episode
BY DEF ClientType, Returned, Deleting, Requests

LEMMA Ending ==
    ASSUME NEW c \in ClientType, NEW r \in Rewards
    PROVE  /\ Ended(c, r) \in ClientType
           /\ Ended(c, r).completed = TRUE /\ Ended(c, r).reward = r
           /\ Ended(c, r).target = c.target /\ Ended(c, r).episode = c.episode
           /\ Ended(c, r).session_id = c.session_id
BY DEF ClientType, Ended

LEMMA Continuing ==
    ASSUME NEW c \in ClientType
    PROVE  /\ AfterDelete(c) \in ClientType
           /\ AfterDelete(c).request \in {"none", "create"} /\ AfterDelete(c).thread = NoThread
           /\ AfterDelete(c).session_id = c.session_id
           /\ AfterDelete(c).completed = c.completed
           /\ AfterDelete(c).reward = c.reward /\ AfterDelete(c).episode = c.episode
<1>1. CASE c.method = "reset"
  BY <1>1 DEF ClientType, AfterDelete, Requests
<1>2. CASE c.method # "reset"
  BY <1>2, Letting DEF AfterDelete
<1> QED BY <1>1, <1>2

LEMMA Creating ==
    ASSUME NEW c \in ClientType, NEW s \in Sessions
    PROVE  /\ Created(c, s) \in ClientType
           /\ Created(c, s).request = "none" /\ Created(c, s).thread = NoThread
           /\ Created(c, s).session_id = s /\ Created(c, s).episode = s
           /\ Created(c, s).completed = FALSE /\ Created(c, s).reward = "zero"
<1>1. "zero" \in Rewards
  BY DEF Rewards
<1>2. PICK d : d = [c EXCEPT !.session_id = s, !.episode = s, !.completed = FALSE,
                            !.reward = "zero"]
  OBVIOUS
<1>3. Created(c, s) = Returned(d)
  BY <1>2 DEF Created
<1>4. d \in ClientType
  BY <1>1, <1>2 DEF ClientType
<1>5. d.session_id = s /\ d.episode = s /\ d.completed = FALSE /\ d.reward = "zero"
  BY <1>2 DEF ClientType
<1>6. /\ Returned(d) \in ClientType
      /\ Returned(d).request = "none" /\ Returned(d).thread = NoThread
      /\ Returned(d).session_id = d.session_id /\ Returned(d).completed = d.completed
      /\ Returned(d).reward = d.reward /\ Returned(d).episode = d.episode
  BY <1>4, Letting
<1> QED BY <1>3, <1>4, <1>5, <1>6

\* What may become of the client when its request is answered or lost: it keeps what it
\* has, it ends its episode, or it begins the next one.
Keeps(c, d) ==
    /\ d.session_id = c.session_id /\ d.completed = c.completed
    /\ d.reward = c.reward /\ d.episode = c.episode
    /\ d.request = "none" \/ (d.request = "create" /\ c.request = "delete")
Ends(c, d, r) ==
    /\ c.request \in {"action", "finalize"}
    /\ d.session_id = NoSid /\ d.completed = TRUE /\ d.reward = r /\ d.episode = c.episode
    /\ d.request = "delete" /\ d.target = c.target
Starts(c, d, s) ==
    /\ c.request = "create" /\ d.request = "none"
    /\ d.session_id = s /\ d.episode = s /\ d.completed = FALSE /\ d.reward = "zero"

\* A client that ends its episode lets go of its session.
LEMMA EndingLetsGo ==
    ASSUME NEW c \in ClientType, c.request \in {"action", "finalize"}, NEW r \in Rewards
    PROVE  LET d == Deleting(Ended(c, r))
           IN  d \in ClientType /\ d.thread = NoThread /\ Ends(c, d, r)
<1>1. PICK e \in ClientType :
          /\ e = Ended(c, r) /\ e.completed = TRUE /\ e.reward = r
          /\ e.target = c.target /\ e.episode = c.episode
  BY Ending
<1>2. /\ Deleting(e) \in ClientType
      /\ Deleting(e).request = "delete" /\ Deleting(e).thread = NoThread
      /\ Deleting(e).session_id = NoSid /\ Deleting(e).completed = e.completed
      /\ Deleting(e).target = e.target
      /\ Deleting(e).reward = e.reward /\ Deleting(e).episode = e.episode
  BY Letting
<1> QED BY <1>1, <1>2 DEF Ends

LEMMA Losing ==
    ASSUME NEW c \in ClientType, c.request \in Requests
    PROVE  /\ Failed(c) \in ClientType /\ Failed(c).thread = NoThread
           /\ Keeps(c, Failed(c)) \/ Ends(c, Failed(c), "zero")
<1>1. CASE c.request \in {"create", "finalize"}
  <2>1. Failed(c) = Returned(c)
    BY <1>1 DEF Failed
  <2> QED BY <2>1, Letting DEF Keeps
<1>2. CASE c.request = "delete"
  <2>1. Failed(c) = AfterDelete(c)
    BY <1>2 DEF Failed
  <2> QED BY <1>2, <2>1, Continuing DEF Keeps
<1>3. CASE c.request = "action"
  <2>1. Failed(c) = Deleting(Ended(c, "zero"))
    BY <1>3 DEF Failed
  <2>2. "zero" \in Rewards
    BY DEF Rewards
  <2> QED BY <1>3, <2>1, <2>2, EndingLetsGo
<1> QED BY <1>1, <1>2, <1>3 DEF Requests

LEMMA Hearing ==
    ASSUME NEW c \in ClientType, c.request \in Requests, NEW s \in Sessions,
           NEW reply \in ReplyType, RewardIn(reply) \in Rewards
    PROVE  /\ Answered(c, s, reply) \in ClientType /\ Answered(c, s, reply).thread = NoThread
           /\ IF Completes(c, reply) THEN Ends(c, Answered(c, s, reply), RewardIn(reply))
              ELSE \/ Keeps(c, Answered(c, s, reply)) \/ Ends(c, Answered(c, s, reply), "zero")
                   \/ Starts(c, Answered(c, s, reply), s)
<1>1. CASE reply.status # "ok"
  <2>1. Answered(c, s, reply) = Failed(c) /\ ~Completes(c, reply)
    BY <1>1 DEF Answered, Completes
  <2> QED BY <2>1, Losing
<1>2. CASE reply.status = "ok" /\ c.request = "create"
  <2>1. Answered(c, s, reply) = Created(c, s) /\ ~Completes(c, reply)
    BY <1>2 DEF Answered, Completes
  <2>2. PICK d : d = Created(c, s)
    OBVIOUS
  <2>3. d \in ClientType /\ d.thread = NoThread /\ Starts(c, d, s)
    BY <1>2, <2>2, Creating DEF Starts
  <2> QED BY <2>1, <2>2, <2>3
<1>3. CASE reply.status = "ok" /\ c.request = "delete"
  <2>1. Answered(c, s, reply) = AfterDelete(c) /\ ~Completes(c, reply)
    BY <1>3 DEF Answered, Completes
  <2> QED BY <1>3, <2>1, Continuing DEF Keeps
<1>4. CASE reply.status = "ok" /\ c.request \in {"action", "finalize"} /\ Completes(c, reply)
  <2>1. Answered(c, s, reply) = Deleting(Ended(c, RewardIn(reply)))
    BY <1>4 DEF Answered
  <2> QED BY <1>4, <2>1, EndingLetsGo
<1>5. CASE reply.status = "ok" /\ c.request \in {"action", "finalize"} /\ ~Completes(c, reply)
  <2>1. Answered(c, s, reply) = Returned(c)
    BY <1>5 DEF Answered
  <2> QED BY <1>5, <2>1, Letting DEF Keeps
<1> QED BY <1>1, <1>2, <1>3, <1>4, <1>5 DEF Requests

----------------------------------------------------------------------------
(* The inductive invariant                                                 *)

\* The audit's side: a session gets its line when the client lets go of it, so one the
\* client holds, or is about to be given, has none.
AuditInv ==
    /\ audit \in [Sessions -> Seq(Rewards)]
    /\ orphaned \in SUBSET Sessions
    /\ lost \in 0 .. MaxLost
    /\ \A s \in Sessions : env[s].state = "fresh" => audit[s] = << >>
    /\ client.session_id # NoSid =>
          /\ client.episode = client.session_id
          /\ env[client.session_id].state # "fresh"
          /\ audit[client.session_id] = << >> /\ client.reward = "zero"
    /\ client.request = "create" /\ client.thread # NoThread =>
          env[Sid(client.thread)].state # "fresh" /\ audit[Sid(client.thread)] = << >>
    /\ AuditMatchesReward

RemoteInv == Typed /\ ClientInv /\ AuditInv

\* What the steps of the client and of the network have in common: the worker keeps its
\* sessions, the audit its lines, and the client keeps, ends or starts an episode.
LEMMA ClientChange ==
    ASSUME RemoteInv, Typed', client' \in ClientType,
           client'.thread = NoThread, client.request # "none",
           \A s \in Sessions : env'[s].state = "fresh" => env[s].state = "fresh",
           orphaned' \in SUBSET Sessions, lost' \in 0 .. MaxLost,
           NEW s \in Sessions,
           \/ audit' = audit /\ (Keeps(client, client') \/ Ends(client, client', "zero"))
           \/ /\ audit' = audit /\ Starts(client, client', s)
              /\ audit[s] = << >> /\ env[s].state # "fresh"
           \/ \E r \in Rewards : /\ audit' = [audit EXCEPT ![client.target] = Append(@, r)]
                                 /\ Ends(client, client', r)
    PROVE  RemoteInv'
<1> USE RemoteAssumption DEF RemoteInv
<1>1. client \in ClientType /\ client.session_id \in Sessions \cup {NoSid}
      /\ client.episode \in Sessions \cup {NoSid} /\ client.target \in Sessions \cup {NoSid}
  BY DEF ClientInv, ClientType
<1>2. CASE audit' = audit /\ Keeps(client, client')
  <2>1. ClientInv'
    BY <1>2, <1>1 DEF Keeps, ClientInv
  <2>2. AuditInv'
    BY <1>2, <1>1 DEF Keeps, AuditInv, AuditMatchesReward
  <2> QED BY <2>1, <2>2
<1>3. CASE audit' = audit /\ Ends(client, client', "zero")
  <2>1. client.session_id # NoSid /\ client.target = client.session_id
    BY <1>3 DEF Ends, ClientInv
  <2>2. ClientInv'
    BY <1>3, <1>1, <2>1 DEF Ends, ClientInv
  <2>3. AuditInv'
    BY <1>3, <1>1, <2>1 DEF Ends, AuditInv, AuditMatchesReward
  <2> QED BY <2>2, <2>3
<1>4. CASE audit' = audit /\ Starts(client, client', s) /\ audit[s] = << >> /\ env[s].state # "fresh"
  <2>1. ClientInv'
    BY <1>4, <1>1 DEF Starts, ClientInv
  <2>2. AuditInv'
    BY <1>4, <1>1 DEF Starts, AuditInv, AuditMatchesReward
  <2> QED BY <2>1, <2>2
<1>5. ASSUME NEW r \in Rewards, audit' = [audit EXCEPT ![client.target] = Append(@, r)],
             Ends(client, client', r)
      PROVE  RemoteInv'
  <2>1. client.session_id # NoSid /\ client.target = client.session_id /\ client.target \in Sessions
    BY <1>1, <1>5 DEF Ends, ClientInv
  <2>2. audit[client.target] = << >> /\ audit \in [Sessions -> Seq(Rewards)]
        /\ client.episode = client.target /\ env[client.target].state # "fresh"
    BY <2>1 DEF AuditInv
  <2>3. Append(audit[client.target], r) = <<r>> /\ <<r>> \in Seq(Rewards) /\ Len(<<r>>) = 1
        /\ <<r>> # << >>
    BY <2>2
  <2>4. audit' = [audit EXCEPT ![client.target] = <<r>>]
    BY <1>5, <2>3
  <2>5. ClientInv'
    BY <1>5, <1>1, <2>1 DEF Ends, ClientInv
  <2>6. AuditInv'
    <3>1. audit' \in [Sessions -> Seq(Rewards)]
      BY <2>2, <2>3, <2>4
    <3>2. \A x \in Sessions : env'[x].state = "fresh" => audit'[x] = << >>
      BY <1>5, <2>2, <2>4 DEF AuditInv
    <3>3. \A x \in Sessions : Len(audit'[x]) <= 1
      BY <2>2, <2>3, <2>4 DEF AuditInv, AuditMatchesReward
    <3>4. client'.episode = client.target /\ client'.completed = TRUE /\ client'.reward = r
          /\ audit'[client.target] = <<r>> /\ client'.session_id = NoSid
          /\ client'.request = "delete"
      BY <1>5, <2>1, <2>2, <2>4 DEF Ends
    <3>5. AuditMatchesReward'
      BY <3>3, <3>4, <2>3 DEF AuditMatchesReward
    <3> QED BY <3>1, <3>2, <3>4, <3>5 DEF AuditInv
  <2> QED BY <2>5, <2>6
<1> QED BY <1>2, <1>3, <1>4, <1>5

\* The steps before a request is answered: a call begins, and a request arrives.
LEMMA CallingStep ==
    ASSUME RemoteInv, Reset \/ (\E k \in Asked : Act(k)) \/ GetReward
    PROVE  /\ RemoteInv'
           /\ client'.reward = client.reward
           /\ Phase' = Phase \/ (Phase = "running" /\ Phase' = "none")
<1> USE RemoteAssumption, WorkerAssumption DEF RemoteInv
<1>1. client \in ClientType
  BY DEF ClientInv
<1>2. Typed' /\ UNCHANGED <<vars, audit, orphaned, lost>>
  <2>1. UNCHANGED <<vars, audit, orphaned, lost>>
    BY DEF Reset, Act, GetReward
  <2> QED BY <2>1, TypedStep
<1>3. CASE Reset
  <2>1. client' \in ClientType
    <3>1. (IF client.session_id = NoSid THEN "create" ELSE "delete") \in Requests
      BY DEF Requests
    <3> QED BY <1>1, <1>3, <3>1 DEF Reset, ClientType
  <2>2. /\ client'.session_id = NoSid /\ client'.completed = client.completed
        /\ client'.reward = client.reward /\ client'.episode = client.episode
        /\ client'.thread = client.thread /\ client'.target = client.session_id
        /\ client'.request = IF client.session_id = NoSid THEN "create" ELSE "delete"
    BY <1>1, <1>3 DEF Reset, ClientType
  <2>3. client.session_id \in Sessions \cup {NoSid} /\ client.thread = NoThread
    BY <1>1, <1>3 DEF ClientType, Reset, Idle, ClientInv
  <2>4. ClientInv'
    BY <2>1, <2>2, <2>3 DEF ClientInv
  <2>5. AuditInv'
    BY <1>2, <2>2, <2>3 DEF AuditInv, AuditMatchesReward, vars
  <2> QED BY <1>2, <2>2, <2>4, <2>5 DEF Phase, ClientInv
<1>4. CASE (\E k \in Asked : Act(k)) \/ GetReward
  <2>1. client' \in ClientType
    <3>1. "action" \in Requests /\ "finalize" \in Requests
      BY DEF Requests
    <3>2. ASSUME NEW k \in Asked, Act(k) PROVE client' \in ClientType
      BY <1>1, <3>1, <3>2 DEF Act, ClientType
    <3>3. CASE GetReward
      BY <1>1, <3>1, <3>3 DEF GetReward, ClientType
    <3> QED BY <1>4, <3>2, <3>3
  <2>2. /\ client'.session_id = client.session_id /\ client'.completed = client.completed
        /\ client'.reward = client.reward /\ client'.episode = client.episode
        /\ client'.thread = client.thread /\ client'.target = client.session_id
        /\ client'.request \in {"action", "finalize"}
        /\ client'.request = "action" => client'.kind \in Asked
        /\ client.session_id # NoSid
    BY <1>1, <1>4 DEF Act, GetReward, ClientType, Active
  <2>3. client.thread = NoThread
    BY <1>4 DEF Act, GetReward, Idle, ClientInv
  <2>4. ClientInv'
    BY <2>1, <2>2, <2>3 DEF ClientInv
  <2>5. AuditInv'
    BY <1>2, <2>2, <2>3 DEF AuditInv, AuditMatchesReward, vars
  <2> QED BY <1>2, <2>2, <2>4, <2>5 DEF Phase
<1> QED BY <1>3, <1>4

\* A handler works on the session of the request it took.
LEMMA ArriveStep ==
    ASSUME RemoteInv, NEW t \in Threads, Arrive(t)
    PROVE  RemoteInv' /\ client'.reward = client.reward /\ Phase' = Phase
<1> USE RemoteAssumption DEF RemoteInv
<1>1. client \in ClientType /\ t \in Procs /\ t # Main
  BY WorkerAssumption DEF ClientInv, Procs
<1>2. client.target \in Sessions \/ client.request = "create"
  BY <1>1 DEF Arrive, ClientInv, ClientType, Requests
<1>3. Typed'
  <2>1. Accept(t)
    BY <1>2 DEF Arrive, Accept, ClientInv
  <2> QED BY <2>1, AcceptTyped
<1>4. /\ client' \in ClientType /\ client'.thread = t
      /\ client'.session_id = client.session_id /\ client'.completed = client.completed
      /\ client'.reward = client.reward /\ client'.episode = client.episode
      /\ client'.request = client.request /\ client'.target = client.target
      /\ client'.kind = client.kind
      /\ client.request # "none" /\ client.thread = NoThread
      /\ UNCHANGED <<audit, orphaned, lost>>
  BY <1>1 DEF Arrive, ClientType
<1>5. call \in [Procs -> CallType] /\ env \in [Sessions -> EnvType]
  BY DEF Typed, TypeOK
<1>6. /\ Sid(t)' \in Sessions
      /\ \A s \in Sessions : env'[s].state = "fresh" => env[s].state = "fresh"
      /\ client.request = "create" => env[Sid(t)'].state = "fresh" /\ env'[Sid(t)'].state # "fresh"
  <2>1. ASSUME NEW s \in Sessions, AcceptCreate(t, s)
        PROVE  /\ Sid(t)' = s /\ env[s].state = "fresh" /\ env'[s].state # "fresh"
               /\ \A x \in Sessions : env'[x].state = "fresh" => env[x].state = "fresh"
    <3>1. [env[s] EXCEPT !.state = "open", !.started = TRUE].state = "open"
      BY <1>5 DEF EnvType
    <3>2. [NoCall EXCEPT !.op = "create", !.sid = s].sid = s
      BY DEF NoCall
    <3>3. Sid(t)' = s
      BY <2>1, <3>2, <1>1, <1>5 DEF AcceptCreate, Note, Sid
    <3>4. env[s].state = "fresh" /\ env' = [env EXCEPT ![s] = [env[s] EXCEPT !.state = "open", !.started = TRUE]]
      BY <2>1 DEF AcceptCreate, SetEnv
    <3> QED BY <3>1, <3>3, <3>4, <1>5
  <2>2. ASSUME NEW op \in Ops, NEW k \in Kinds, AcceptCall(t, op, client.target, k)
        PROVE  Sid(t)' = client.target /\ env' = env
    <3>1. [NoCall EXCEPT !.op = op, !.sid = client.target, !.kind = k].sid = client.target
      BY DEF NoCall
    <3>2. [NoCall EXCEPT !.op = op, !.sid = client.target, !.reply =
              [status |-> "rejected", terminated |-> FALSE, reward |-> "unset"]].sid = client.target
      BY DEF NoCall
    <3>3. [NoCall EXCEPT !.op = op, !.sid = client.target, !.kind = k].op = op
      BY DEF NoCall
    <3> QED BY <2>2, <3>1, <3>2, <3>3, <1>1, <1>5 DEF AcceptCall, AnswerCall, Note, Sid
  <2>3. ASSUME AcceptDelete(t, client.target)
        PROVE  Sid(t)' = client.target /\ env' = env
    <3> DEFINE c == [NoCall EXCEPT !.op = "delete", !.sid = client.target]
    <3>1. c.sid = client.target
      BY DEF NoCall
    <3>2. [NoCall EXCEPT !.op = c.op, !.sid = c.sid, !.reply =
              [status |-> "ok", terminated |-> FALSE, reward |-> "unset"]].sid = c.sid
      BY DEF NoCall
    <3>3. env' = env /\ (Note(t, c) \/ AnswerCall(t, c, "ok", FALSE, "unset"))
      BY <2>3 DEF AcceptDelete, Pop
    <3> QED BY <3>1, <3>2, <3>3, <1>1, <1>5 DEF AnswerCall, Note, Sid
  <2>4. CASE client.request = "create"
    BY <2>1, <2>4 DEF Arrive
  <2>5. CASE client.request # "create"
    <3>1. client.kind \in Kinds /\ "inspect" \in Kinds /\ {"action", "finalize"} \subseteq Ops
      BY <1>1 DEF ClientType, Kinds, Ops
    <3> QED BY <1>2, <2>2, <2>3, <2>5, <3>1 DEF Arrive
  <2> QED BY <2>4, <2>5
<1>7. ClientInv'
  BY <1>1, <1>4, <1>6 DEF ClientInv
<1>8. AuditInv'
  <2>1. client.request = "create" => audit[Sid(t)'] = << >> /\ env'[Sid(t)'].state # "fresh"
    BY <1>6 DEF AuditInv
  <2>2. \A s \in Sessions : env'[s].state = "fresh" => audit[s] = << >>
    BY <1>6 DEF AuditInv
  <2>3. Sid(client.thread)' = Sid(t)'
    BY <1>4 DEF Sid
  <2>4. client.session_id \in Sessions \cup {NoSid}
    BY <1>1 DEF ClientType
  <2> QED BY <1>4, <1>6, <2>1, <2>2, <2>3, <2>4 DEF AuditInv, AuditMatchesReward
<1> QED BY <1>3, <1>4, <1>7, <1>8 DEF Phase

\* The answer reaches the client, the call fails, or a handler nobody listens to ends.
LEMMA AnswerStep ==
    ASSUME RemoteInv, NEW t \in Threads, Reply(t)
    PROVE  /\ RemoteInv'
           /\ \/ client'.reward = client.reward /\ Phase' = Phase
              \/ Phase' = "running" /\ client'.reward = "zero"
              \/ /\ Phase = "running" /\ Phase' = "over"
                 /\ client'.reward \in Rewards
<1> USE RemoteAssumption DEF RemoteInv
<1> DEFINE reply == call[t].reply
<1>1. client \in ClientType /\ client.thread = t /\ t # NoThread
      /\ client.request # "none" /\ client.request \in Requests
  BY DEF Reply, ClientInv, ClientType
<1>2. PICK s \in Sessions : s = Sid(t)
  BY <1>1 DEF ClientInv
<1>3. reply \in ReplyType /\ RewardIn(reply) \in Rewards /\ "zero" \in Rewards
  BY ReplyTyped DEF Rewards
<1>4. Typed' /\ env' = env
  <2>1. Hangup(t)
    BY DEF Reply
  <2> QED BY <2>1, TypedStep DEF Next, Hangup
<1>5. client' = Answered(client, s, reply) /\ UNCHANGED <<orphaned, lost>>
      /\ audit' = Audited(client, reply)
  BY <1>2 DEF Reply
<1>6. client' \in ClientType /\ client'.thread = NoThread
  BY <1>1, <1>3, <1>5, Hearing
<1>7. CASE Completes(client, reply)
  <2>1. Ends(client, client', RewardIn(reply))
    BY <1>1, <1>3, <1>5, <1>7, Hearing
  <2>2. client.session_id # NoSid /\ client.target = client.session_id /\ client.target \in Sessions
    BY <1>1, <2>1 DEF Ends, ClientInv, ClientType
  <2>4. audit' = [audit EXCEPT ![client.target] = Append(@, RewardIn(reply))]
    BY <1>5, <1>7 DEF Audited
  <2>5. RemoteInv'
    BY <1>1, <1>2, <1>3, <1>4, <1>5, <1>6, <2>1, <2>4, ClientChange DEF AuditInv
  <2> QED BY <1>3, <2>1, <2>2, <2>5 DEF Ends, Phase
<1>8. CASE ~Completes(client, reply)
  <2>1. \/ Keeps(client, client') \/ Ends(client, client', "zero") \/ Starts(client, client', s)
    BY <1>1, <1>3, <1>5, <1>8, Hearing
  <2>2. audit' = audit
    BY <1>5, <1>8 DEF Audited
  <2>3. Starts(client, client', s) => audit[s] = << >> /\ env[s].state # "fresh"
    BY <1>1, <1>2 DEF Starts, AuditInv
  <2>4. RemoteInv'
    BY <1>1, <1>2, <1>4, <1>5, <1>6, <2>1, <2>2, <2>3, ClientChange DEF AuditInv
  <2>5. client.session_id # NoSid => ~client.completed
    BY DEF ClientInv
  <2>6. client.request \in {"action", "finalize"} => client.session_id # NoSid
    BY DEF ClientInv
  <2> QED BY <1>2, <1>3, <2>1, <2>4, <2>5, <2>6 DEF Keeps, Ends, Starts, Phase
<1> QED BY <1>7, <1>8

\* The client gives up: its call fails, or the episode does.
LEMMA LoseStep ==
    ASSUME RemoteInv, Lose
    PROVE  /\ RemoteInv'
           /\ \/ client'.reward = client.reward /\ Phase' = Phase
              \/ /\ Phase = "running" /\ Phase' = "over"
                 /\ client'.reward = "zero"
<1> USE RemoteAssumption DEF RemoteInv
<1>1. client \in ClientType /\ client.request \in Requests /\ client.request # "none"
  BY DEF Lose, ClientInv, Requests
<1>2. client' = Failed(client) /\ UNCHANGED <<vars, audit>> /\ env' = env
  BY DEF Lose, vars
<1>3. Typed'
  BY <1>2, TypedStep DEF vars
<1>4. client' \in ClientType /\ client'.thread = NoThread
      /\ (Keeps(client, client') \/ Ends(client, client', "zero"))
  BY <1>1, <1>2, Losing
<1>5. orphaned' \in SUBSET Sessions /\ lost' \in 0 .. MaxLost
  BY DEF Lose, AuditInv
<1>6. client.session_id # NoSid => ~client.completed
  BY DEF ClientInv
<1>7. client.request \in {"action", "finalize"} => client.session_id # NoSid
  BY DEF ClientInv
<1>8. RemoteInv'
  <2>1. CASE \E s \in Sessions : TRUE
    <3>1. PICK s \in Sessions : TRUE
      BY <2>1
    <3> QED BY <1>1, <1>2, <1>3, <1>4, <1>5, <3>1, ClientChange
  <2>2. CASE ~ \E s \in Sessions : TRUE
    BY <1>1, <1>2, <1>3, <1>4, <1>5, <2>2
       DEF Keeps, Ends, ClientInv, ClientType, AuditInv, AuditMatchesReward
  <2> QED BY <2>1, <2>2
<1> QED BY <1>4, <1>6, <1>7, <1>8 DEF Keeps, Ends, Phase

\* A step of the worker that the client does not see.
LEMMA WorkerStep ==
    ASSUME RemoteInv, NEW t \in Threads, Worker(t) \/ Unheard(t)
    PROVE  RemoteInv' /\ client' = client
<1> USE RemoteAssumption DEF RemoteInv
<1>1. UNCHANGED <<client, audit, orphaned, lost>> /\ client \in ClientType
  BY DEF Worker, Unheard, ClientInv
<1>2. Typed' /\ (\A s \in Sessions : env'[s].state = "fresh" => env[s].state = "fresh")
      /\ \A u \in Threads : u = client.thread => Sid(u)' = Sid(u)
  <2>1. CASE Worker(t)
    <3>1. ThreadStep(t)
      BY <2>1 DEF Worker
    <3> QED BY <3>1, HandlerKeepsSession, HandlerKeepsCreated
  <2>2. CASE Unheard(t)
    <3>1. Hangup(t) /\ client.thread # t
      BY <2>2 DEF Unheard
    <3>2. call' = [call EXCEPT ![t] = NoCall] /\ env' = env
      BY <3>1 DEF Hangup, Note
    <3>3. Typed'
      BY <3>1, TypedStep DEF Next
    <3>4. call \in [Procs -> CallType] /\ t \in Procs
      BY DEF Typed, TypeOK, Procs
    <3> QED BY <3>1, <3>2, <3>3, <3>4 DEF Sid, Procs
  <2> QED BY <2>1, <2>2
<1>3. client.session_id \in Sessions \cup {NoSid} /\ client.thread \in Threads \cup {NoThread}
  BY <1>1 DEF ClientType
<1>4. client.thread # NoThread => Sid(client.thread)' = Sid(client.thread)
  BY <1>1, <1>2, <1>3 DEF Sid
<1>5. ClientInv'
  BY <1>1, <1>4 DEF ClientInv
<1>6. AuditInv'
  BY <1>1, <1>2, <1>3, <1>4 DEF AuditInv, AuditMatchesReward, ClientInv
<1> QED BY <1>1, <1>2, <1>5, <1>6

----------------------------------------------------------------------------
(* The theorems                                                            *)

\* Every step keeps the inductive invariant, and is a step of the episode or none at all.
LEMMA RemoteStep ==
    ASSUME RemoteInv, [RemoteNext]_remoteVars
    PROVE  RemoteInv' /\ [TrainerEpisode!Next]_<<Phase, client.reward>>
<1> USE DEF TrainerEpisode!Next, TrainerEpisode!Start, TrainerEpisode!Abandon, TrainerEpisode!End
<1>1. CASE Reset \/ (\E k \in Asked : Act(k)) \/ GetReward
  BY <1>1, CallingStep
<1>2. ASSUME NEW t \in Threads, Arrive(t)
      PROVE  RemoteInv' /\ [TrainerEpisode!Next]_<<Phase, client.reward>>
  BY <1>2, ArriveStep
<1>3. ASSUME NEW t \in Threads, Reply(t)
      PROVE  RemoteInv' /\ [TrainerEpisode!Next]_<<Phase, client.reward>>
  BY <1>3, AnswerStep
<1>4. CASE Lose
  BY <1>4, LoseStep
<1>5. ASSUME NEW t \in Threads, Worker(t) \/ Unheard(t)
      PROVE  RemoteInv' /\ [TrainerEpisode!Next]_<<Phase, client.reward>>
  BY <1>5, WorkerStep DEF Phase
<1>6. CASE UNCHANGED remoteVars
  <2>1. Typed'
    BY <1>6, TypedStep DEF remoteVars, RemoteInv
  <2>2. UNCHANGED <<vars, client, audit, orphaned, lost>> /\ UNCHANGED <<env, call>>
    BY <1>6 DEF remoteVars, vars
  <2>3. ClientInv' /\ AuditInv'
    BY <2>2 DEF RemoteInv, ClientInv, AuditInv, AuditMatchesReward, Sid
  <2> QED BY <2>1, <2>2, <2>3 DEF RemoteInv, Phase
<1> QED BY <1>1, <1>2, <1>3, <1>4, <1>5, <1>6 DEF RemoteNext

LEMMA RemoteStart == RemoteInit => RemoteInv /\ TrainerEpisode!Init
<1> SUFFICES ASSUME RemoteInit PROVE RemoteInv /\ TrainerEpisode!Init
  OBVIOUS
<1>1. Typed
  BY TypedInit DEF RemoteInit
<1>2. client \in ClientType
  BY DEF RemoteInit, NewClient, ClientType, Kinds, Rewards
<1>3. /\ client.session_id = NoSid /\ client.request = "none" /\ client.thread = NoThread
      /\ client.completed = FALSE /\ client.reward = "zero" /\ client.episode = NoSid
  BY DEF RemoteInit, NewClient
<1>4. audit = [s \in Sessions |-> << >>] /\ orphaned = {} /\ lost = 0
  BY DEF RemoteInit
<1>5. ClientInv
  BY <1>2, <1>3 DEF ClientInv
<1>6. AuditInv
  BY <1>3, <1>4, RemoteAssumption DEF AuditInv, AuditMatchesReward
<1> QED BY <1>1, <1>3, <1>5, <1>6 DEF RemoteInv, TrainerEpisode!Init, Phase

\* The variables of the client, of the audit and of the worker behind them keep their
\* types.
THEOREM RemoteTypes == RemoteSpec => []RemoteTypeOK
<1>1. RemoteInv => RemoteTypeOK
  BY DEF RemoteInv, Typed, ClientInv, AuditInv, RemoteTypeOK
<1> QED BY <1>1, RemoteStart, RemoteStep, PTL DEF RemoteSpec

\* The audit file holds at most one line per episode, and it is the reward the trainer
\* was told.
THEOREM AuditIsTheReward == RemoteSpec => []AuditMatchesReward
<1>1. RemoteInv => AuditMatchesReward
  BY DEF RemoteInv, AuditInv
<1> QED BY <1>1, RemoteStart, RemoteStep, PTL DEF RemoteSpec

\* Whatever requests are lost, the trainer sees an Episode.
THEOREM ImplementsTheEpisode == RemoteSpec => ImplementsEpisode
<1> QED BY RemoteStart, RemoteStep, PTL DEF RemoteSpec, ImplementsEpisode, TrainerEpisode!Spec
=============================================================================
