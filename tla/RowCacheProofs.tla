--------------------------- MODULE RowCacheProofs ---------------------------
(***************************************************************************)
(* Proofs about RowCache, for any number of processes, rows, mirrors and   *)
(* files: the cache and the shard stay usable, and no row is forgotten.    *)
(***************************************************************************)
EXTENDS RowCache, FiniteSetTheorems, TLAPS

Causes == {"none", "cache", "api_cut", "hosts", "partial", "shard", "pull", "crash"}

States == [pc : Positions, want : SUBSET Rows, pulls : BOOLEAN, have : SUBSET Rows,
           api : BOOLEAN, tries : Nat, url : Nat, file : Files \cup {NoFile}, at : 0 .. 2,
           table : BOOLEAN, stale : BOOLEAN, cause : Causes]

Writing == {"writing", "rewriting"}
Transfer == {"copying", "checking", "renaming"}

\* Where a process relies on the cache it read.
Holding == {"fetching", "shard", "download", "reading", "saving"} \cup Writing \cup Transfer

Typed ==
    /\ proc \in [Procs -> States]
    /\ partial \in Files \cup {NoFile} /\ shard \in Files \cup {NoFile}
    /\ chunks \in [Files -> SUBSET Body]
    /\ cache \in [rows : SUBSET Rows, torn : BOOLEAN, parts : SUBSET SUBSET Rows]

\* While no two processes were at the cache, it has one writer, whose rows are the cache to
\* be, and what any process read and nobody wrote since has every row that was saved.
CacheInv ==
    ~disturbed =>
        /\ \A p, q \in Writers : p = q
        /\ Writers = {} => saved \subseteq cache.rows /\ ~cache.torn
        /\ \A p \in Writers : cache.parts = {proc[p].have} /\ ~proc[p].stale
        /\ \A p \in Procs : proc[p].pc \in Holding /\ ~proc[p].stale => saved \subseteq proc[p].have

\* The part of a file that was written when a handle is at its n-th chunk.
Prefix(n) == {m \in Body : m <= n}

\* The file behind the .partial name holds what its only writer has copied, and the shard
\* is whole.
Copied ==
    /\ \A p, q \in Downloading : p = q
    /\ shard # NoFile => chunks[shard] = Body
    /\ \A p \in Procs :
          /\ proc[p].pc = "copying" =>
                /\ partial = proc[p].file /\ partial # NoFile
                /\ chunks[partial] = Prefix(proc[p].at)
          /\ proc[p].pc = "checking" =>
                partial # NoFile /\ \E n \in 0 .. 3 : chunks[partial] = Prefix(n)
          /\ proc[p].pc = "renaming" => partial # NoFile /\ chunks[partial] = Body

\* The .partial name never is the shard's, and the download is in order while no two
\* processes were at it.
ShardInv ==
    /\ partial # NoFile => partial # shard
    /\ ~crossed => Copied

IInv == Typed /\ CacheInv /\ ShardInv

----------------------------------------------------------------------------
\* A step of p that neither writes the cache nor starts to: it keeps what it relies on.
Quiet(p, s) ==
    /\ proc[p].pc \notin Writing /\ s.pc \notin Writing
    /\ s.pc \in Holding => /\ proc[p].pc \in Holding
                           /\ proc[p].have \subseteq s.have /\ s.stale = proc[p].stale

Quietly(p) == \E s \in States : Go(p, s) /\ Quiet(p, s) /\ UNCHANGED store

LEMMA Names ==
    /\ "idle" \in Positions /\ "loading" \in Positions /\ "fetching" \in Positions
    /\ "shard" \in Positions /\ "download" \in Positions /\ "copying" \in Positions
    /\ "checking" \in Positions /\ "renaming" \in Positions /\ "reading" \in Positions
    /\ "saving" \in Positions /\ "writing" \in Positions /\ "rewriting" \in Positions
    /\ "pulling" \in Positions /\ "ready" \in Positions /\ "failed" \in Positions
    /\ "none" \in Causes
BY DEF Positions, Causes

\* A handle is opened, or closed, at the start of a file.
LEMMA HandleType ==
    ASSUME NEW s \in States, NEW pc \in Positions, NEW f \in Files \cup {NoFile}
    PROVE  [s EXCEPT !.pc = pc, !.file = f, !.at = 0] \in States
<1> DEFINE t == [s EXCEPT !.pc = pc, !.file = f]
<1>1. [s EXCEPT !.pc = pc] \in States
    BY DEF States
<1>2. t \in States
    BY <1>1 DEF States
<1>3. [t EXCEPT !.at = 0] = [s EXCEPT !.pc = pc, !.file = f, !.at = 0]
    OBVIOUS
<1> HIDE DEF t
<1>4. [t EXCEPT !.at = 0] \in States
    BY <1>2 DEF States
<1> QED
    BY <1>3, <1>4

LEMMA IdleType == Idle \in States
BY Names DEF Idle, States

LEMMA EndsFacts ==
    ASSUME NEW pc \in {"ready", "failed"}, NEW cause \in Causes
    PROVE  Ends(pc, cause) \in States /\ Ends(pc, cause).pc = pc
<1>1. pc \in Positions
    BY Names
<1>2. [Idle EXCEPT !.pc = pc, !.cause = cause] \in States
    BY <1>1, IdleType DEF States
<1>3. [Idle EXCEPT !.pc = pc, !.cause = cause].pc = pc
    BY IdleType DEF States
<1> QED
    BY <1>2, <1>3 DEF Ends

LEMMA FailsQuietly ==
    ASSUME Typed, NEW p \in Procs, proc[p].pc \notin Writing, NEW cause \in Causes,
           Fails(p, cause), UNCHANGED store
    PROVE  Quietly(p)
<1>1. Ends("failed", cause) \in States /\ Ends("failed", cause).pc = "failed"
    BY EndsFacts
<1>2. Quiet(p, Ends("failed", cause))
    BY <1>1 DEF Quiet, Writing, Holding, Transfer
<1> QED
    BY <1>1, <1>2 DEF Quietly, Fails

LEMMA ReturnedFacts ==
    ASSUME NEW s \in States
    PROVE  Returned(s) \in States /\ Returned(s).pc \in {"pulling", "ready"}
<1>1. Ends("ready", "none") \in States /\ Ends("ready", "none").pc = "ready"
    BY EndsFacts DEF Causes
<1>2. [s EXCEPT !.pc = "pulling"] \in States /\ [s EXCEPT !.pc = "pulling"].pc = "pulling"
    BY Names DEF States
<1> QED
    BY <1>1, <1>2 DEF Returned

LEMMA GotFacts ==
    ASSUME Typed, NEW p \in Procs, NEW r \in Rows
    PROVE  /\ Got(p, r) \in States /\ Got(p, r).pc \in {"saving", "fetching", "shard"}
           /\ proc[p].have \subseteq Got(p, r).have /\ Got(p, r).stale = proc[p].stale
<1> DEFINE state == [proc[p] EXCEPT !.have = @ \cup {r}, !.tries = 0]
           pc == IF state.want \subseteq state.have THEN "saving"
                 ELSE IF state.api THEN "fetching" ELSE "shard"
<1>1. proc[p] \in States
    BY DEF Typed
<1>2. /\ state \in States /\ state.have = proc[p].have \cup {r} /\ state.stale = proc[p].stale
    BY <1>1 DEF States
<1>3. pc \in {"saving", "fetching", "shard"} /\ pc \in Positions
    BY DEF Positions
<1>4. Got(p, r) = [state EXCEPT !.pc = pc]
    BY DEF Got
<1> HIDE DEF state, pc
<1> QED
    BY <1>2, <1>3, <1>4 DEF States

\* Every step but those on the cache file is quiet.
LEMMA QuietSteps ==
    ASSUME Typed, NEW p \in Procs,
           \/ \E r \in Rows : Served(p, r) \/ ReadRow(p, r) \/ Pull(p, r)
           \/ Refused(p) \/ Cut(p) \/ FindShard(p) \/ MirrorDown(p) \/ NoMirror(p) \/ Open(p)
           \/ Copy(p) \/ CopyStops(p) \/ Check(p) \/ Rename(p) \/ Pulled(p)
           \/ \E want \in TaskSets, pulls \in BOOLEAN : Start(p, want, pulls)
    PROVE  Quietly(p)
<1>0. proc[p] \in States
    BY DEF Typed
<1> USE DEF Writing, Holding, Transfer
<1>1. ASSUME NEW s \in States, Go(p, s), UNCHANGED store, proc[p].pc \in Holding \ Writing,
             s.pc \in Holding \ Writing, proc[p].have \subseteq s.have, s.stale = proc[p].stale
      PROVE  Quietly(p)
    BY <1>1 DEF Quietly, Quiet
<1>2. ASSUME NEW r \in Rows, Served(p, r) PROVE Quietly(p)
    BY <1>1, <1>2, GotFacts DEF Served, At
<1>3. ASSUME NEW r \in Rows, ReadRow(p, r) PROVE Quietly(p)
    <2> DEFINE s == [Got(p, r) EXCEPT !.table = TRUE]
    <2>1. /\ s \in States /\ s.pc = Got(p, r).pc /\ s.have = Got(p, r).have
          /\ s.stale = Got(p, r).stale
        <3>1. Got(p, r) \in States
            BY GotFacts
        <3> QED
            BY <3>1 DEF States
    <2>2. proc[p].pc = "reading" /\ UNCHANGED store /\ (Go(p, s) \/ Fails(p, "shard"))
        BY <1>3 DEF ReadRow, At
    <2>3. CASE Go(p, s)
        <3> HIDE DEF s
        <3> QED
            BY <1>1, <2>1, <2>2, <2>3, GotFacts
    <2> QED
        BY <2>2, <2>3, FailsQuietly DEF Causes
<1>4. ASSUME NEW r \in Rows, Pull(p, r) PROVE Quietly(p)
    <2> DEFINE s == [proc[p] EXCEPT !.tries = 0]
               t == [proc[p] EXCEPT !.tries = @ + 1]
    <2>1. s \in States /\ s.pc = proc[p].pc /\ t \in States /\ t.pc = proc[p].pc
        BY <1>0 DEF States
    <2>2. /\ proc[p].pc = "pulling" /\ UNCHANGED store
          /\ Go(p, s) \/ Go(p, t) \/ Fails(p, "pull")
        BY <1>4 DEF Pull, At
    <2>3. CASE Go(p, s) \/ Go(p, t)
        <3> HIDE DEF s, t
        <3> QED
            BY <2>1, <2>2, <2>3 DEF Quietly, Quiet
    <2> QED
        BY <2>2, <2>3, FailsQuietly DEF Causes
<1>5. CASE Refused(p)
    <2> DEFINE s == [proc[p] EXCEPT !.tries = @ + 1]
               t == [proc[p] EXCEPT !.pc = "shard", !.api = FALSE, !.tries = 0]
    <2>1. /\ s \in States /\ s.pc = proc[p].pc /\ s.have = proc[p].have /\ s.stale = proc[p].stale
          /\ t \in States /\ t.pc = "shard" /\ t.have = proc[p].have /\ t.stale = proc[p].stale
        <3>1. s \in States
            BY <1>0 DEF States
        <3>2. t \in States
            BY <1>0, Names DEF States
        <3>3. s.pc = proc[p].pc /\ s.have = proc[p].have /\ s.stale = proc[p].stale
            BY <1>0 DEF States
        <3>4. t.pc = "shard" /\ t.have = proc[p].have /\ t.stale = proc[p].stale
            BY <1>0 DEF States
        <3> QED
            BY <3>1, <3>2, <3>3, <3>4
    <2>2. proc[p].pc = "fetching" /\ UNCHANGED store /\ (Go(p, s) \/ Go(p, t))
        BY <1>5 DEF Refused, At
    <2> HIDE DEF s, t
    <2> QED
        BY <1>1, <2>1, <2>2
<1>6. CASE Cut(p) \/ NoMirror(p)
    BY <1>6, FailsQuietly DEF Cut, NoMirror, At, Causes
<1>7. CASE FindShard(p)
    <2> DEFINE pc == IF Looks(shard) THEN "reading" ELSE "download"
               s == [proc[p] EXCEPT !.pc = pc, !.url = 0]
    <2>0. pc \in {"reading", "download"}
        OBVIOUS
    <2>1. proc[p].pc = "shard" /\ UNCHANGED store /\ Go(p, s)
        BY <1>7 DEF FindShard, At
    <2> HIDE DEF pc
    <2>2. /\ s \in States /\ s.pc = pc /\ s.have = proc[p].have /\ s.stale = proc[p].stale
        BY <1>0, <2>0, Names DEF States
    <2> HIDE DEF s
    <2> QED
        BY <1>1, <2>0, <2>1, <2>2
<1>8. ASSUME proc[p].pc \in Holding \ Writing, NextUrl(p), UNCHANGED store PROVE Quietly(p)
    <2> DEFINE s == [proc[p] EXCEPT !.pc = "download", !.url = @ + 1, !.file = NoFile, !.at = 0]
    <2>1. s \in States /\ s.pc = "download" /\ s.have = proc[p].have /\ s.stale = proc[p].stale
        <3>1. s \in States
            <4> DEFINE u == [proc[p] EXCEPT !.url = @ + 1]
            <4>1. u \in States
                BY <1>0 DEF States
            <4>2. s = [u EXCEPT !.pc = "download", !.file = NoFile, !.at = 0]
                BY <1>0 DEF States
            <4> HIDE DEF u
            <4> QED
                BY <4>1, <4>2, Names, HandleType
        <3>2. s.pc = "download" /\ s.have = proc[p].have /\ s.stale = proc[p].stale
            BY <1>0 DEF States
        <3> QED
            BY <3>1, <3>2
    <2>2. Go(p, s)
        BY <1>8 DEF NextUrl
    <2> HIDE DEF s
    <2> QED
        BY <1>1, <1>8, <2>1, <2>2
<1>9. CASE MirrorDown(p)
    BY <1>8, <1>9 DEF MirrorDown, At
<1>10. CASE Open(p)
    <2> PICK f \in Files : Go(p, [proc[p] EXCEPT !.pc = "copying", !.file = f, !.at = 0])
        BY <1>10 DEF Open
    <2> DEFINE s == [proc[p] EXCEPT !.pc = "copying", !.file = f, !.at = 0]
    <2>1. s \in States /\ s.pc = "copying" /\ s.have = proc[p].have /\ s.stale = proc[p].stale
        <3>1. s \in States
            BY <1>0, Names, HandleType
        <3>2. s.pc = "copying" /\ s.have = proc[p].have /\ s.stale = proc[p].stale
            BY <1>0 DEF States
        <3> QED
            BY <3>1, <3>2
    <2>2. Go(p, s) /\ proc[p].pc = "download" /\ UNCHANGED store
        BY <1>10 DEF Open, At
    <2> HIDE DEF s
    <2> QED
        BY <1>1, <2>1, <2>2
<1>11. CASE Copy(p) \/ CopyStops(p)
    <2> DEFINE s == [proc[p] EXCEPT !.at = proc[p].at + 1]
               t == [proc[p] EXCEPT !.pc = "checking", !.file = NoFile, !.at = 0]
    <2>1. t \in States /\ t.pc = "checking" /\ t.have = proc[p].have /\ t.stale = proc[p].stale
        <3>1. t \in States
            BY <1>0, Names, HandleType
        <3>2. t.pc = "checking" /\ t.have = proc[p].have /\ t.stale = proc[p].stale
            BY <1>0 DEF States
        <3> QED
            BY <3>1, <3>2
    <2>2. ASSUME proc[p].at + 1 \in Body \ {3}
          PROVE  s \in States /\ s.pc = proc[p].pc /\ s.have = proc[p].have /\ s.stale = proc[p].stale
        BY <1>0, <2>2 DEF States, Body
    <2>3. proc[p].pc = "copying" /\ UNCHANGED store
        BY <1>11 DEF Copy, CopyStops, At
    <2>4. (proc[p].at + 1 \in Body \ {3} /\ Go(p, s)) \/ Go(p, t) \/ NextUrl(p)
        BY <1>11 DEF Copy, CopyStops
    <2> HIDE DEF s, t
    <2> QED
        BY <1>1, <1>8, <2>1, <2>2, <2>3, <2>4
<1>12. CASE Check(p) \/ Rename(p)
    <2> DEFINE s == [proc[p] EXCEPT !.pc = "renaming"]
               t == [proc[p] EXCEPT !.pc = "reading"]
    <2>1. /\ s \in States /\ s.pc = "renaming" /\ s.have = proc[p].have /\ s.stale = proc[p].stale
          /\ t \in States /\ t.pc = "reading" /\ t.have = proc[p].have /\ t.stale = proc[p].stale
        BY <1>0, Names DEF States
    <2>2. proc[p].pc \in Transfer /\ UNCHANGED store
        BY <1>12 DEF Check, Rename, At
    <2>3. Go(p, s) \/ Go(p, t) \/ NextUrl(p) \/ Fails(p, "partial")
        BY <1>12 DEF Check, Rename
    <2> HIDE DEF s, t
    <2>4. CASE Fails(p, "partial")
        BY <2>2, <2>4, FailsQuietly DEF Causes
    <2> QED
        BY <1>1, <1>8, <2>1, <2>2, <2>3, <2>4
<1>13. CASE Pulled(p)
    <2>1. proc[p].pc = "pulling" /\ Go(p, Ends("ready", "none")) /\ UNCHANGED store
        BY <1>13 DEF Pulled, At
    <2>2. Ends("ready", "none") \in States /\ Ends("ready", "none").pc = "ready"
        BY EndsFacts DEF Causes
    <2> QED
        BY <2>1, <2>2 DEF Quietly, Quiet
<1>14. ASSUME NEW want \in TaskSets, NEW pulls \in BOOLEAN, Start(p, want, pulls) PROVE Quietly(p)
    <2> DEFINE s == [Idle EXCEPT !.pc = "loading", !.want = want, !.pulls = pulls]
    <2>1. want \in SUBSET Rows
        BY RowsAssumption
    <2>2. s \in States /\ s.pc = "loading"
        BY <2>1, IdleType, Names DEF States
    <2>3. Go(p, s) /\ proc[p].pc \in Ended /\ UNCHANGED store
        BY <1>14 DEF Start
    <2> HIDE DEF s
    <2> QED
        BY <2>2, <2>3 DEF Quietly, Quiet, Ended
<1> QED
    BY <1>2, <1>3, <1>4, <1>5, <1>6, <1>7, <1>9, <1>10, <1>11, <1>12, <1>13, <1>14

----------------------------------------------------------------------------
(* The cache file                                                          *)

Others(p) ==
    \/ \E r \in Rows : Served(p, r) \/ ReadRow(p, r) \/ Pull(p, r)
    \/ Refused(p) \/ Cut(p) \/ FindShard(p) \/ MirrorDown(p) \/ NoMirror(p) \/ Open(p)
    \/ Copy(p) \/ CopyStops(p) \/ Check(p) \/ Rename(p) \/ Pulled(p)
    \/ \E want \in TaskSets, pulls \in BOOLEAN : Start(p, want, pulls)

\* Every step is one of the cache file, a crash, or quiet.
LEMMA Steps ==
    ASSUME Next
    PROVE  \E p \in Procs : \/ Load(p) \/ Truncate(p) \/ Write(p) \/ Written(p) \/ Crash(p)
                            \/ Others(p)
BY DEF Next, Work, Others

LEMMA OthersQuiet ==
    ASSUME Typed, NEW p \in Procs, Others(p)
    PROVE  Quietly(p)
BY QuietSteps DEF Others

\* What Load leaves of its process.
LEMMA LoadFacts ==
    ASSUME Typed, NEW p \in Procs, Load(p), ~cache.torn
    PROVE  \E s \in States :
              /\ Go(p, s) /\ s.pc \in {"pulling", "ready", "fetching"}
              /\ s.pc = "fetching" => s.have = cache.rows
<1> DEFINE loaded == [proc[p] EXCEPT !.have = cache.rows, !.stale = FALSE]
           fetch == [loaded EXCEPT !.pc = "fetching"]
<1>1. loaded \in States /\ loaded.have = cache.rows
    <2>1. proc[p] \in States /\ cache.rows \in SUBSET Rows
        BY DEF Typed
    <2> QED
        BY <2>1 DEF States
<1>2. Go(p, Returned(loaded)) \/ Go(p, fetch)
    BY DEF Load
<1> HIDE DEF loaded
<1>3. fetch \in States /\ fetch.pc = "fetching" /\ fetch.have = cache.rows
    BY <1>1, Names DEF States
<1>4. Returned(loaded) \in States /\ Returned(loaded).pc \in {"pulling", "ready"}
    BY <1>1, ReturnedFacts
<1> HIDE DEF fetch
<1> QED
    BY <1>2, <1>3, <1>4

\* What Truncate and Write leave of theirs.
LEMMA MoveFacts ==
    ASSUME Typed, NEW p \in Procs, NEW pc \in Positions
    PROVE  LET s == [proc[p] EXCEPT !.pc = pc] IN
           s \in States /\ s.pc = pc /\ s.have = proc[p].have /\ s.stale = proc[p].stale
                        /\ s.file = proc[p].file /\ s.at = proc[p].at
BY DEF Typed, States

\* What Written leaves of all of them.
LEMMA WrittenFacts ==
    ASSUME Typed, NEW p \in Procs, Written(p)
    PROVE  /\ proc' \in [Procs -> States]
           /\ proc'[p].pc \in {"pulling", "ready"}
           /\ \A q \in Procs \ {p} :
                 /\ proc'[q].pc = proc[q].pc /\ proc'[q].have = proc[q].have
                 /\ proc'[q].file = proc[q].file /\ proc'[q].at = proc[q].at
                 /\ proc[q].pc \notin Ended => proc'[q].stale = TRUE
<1> DEFINE Marked(q) == [proc[q] EXCEPT !.stale = @ \/ proc[q].pc \notin Ended]
<1>1. proc' = [q \in Procs |-> IF q = p THEN Returned(proc[p]) ELSE Marked(q)]
    BY DEF Written
<1>2. Returned(proc[p]) \in States /\ Returned(proc[p]).pc \in {"pulling", "ready"}
    BY ReturnedFacts DEF Typed
<1>3. ASSUME NEW q \in Procs
      PROVE  /\ Marked(q) \in States /\ Marked(q).pc = proc[q].pc
             /\ Marked(q).have = proc[q].have
             /\ Marked(q).file = proc[q].file /\ Marked(q).at = proc[q].at
             /\ proc[q].pc \notin Ended => Marked(q).stale = TRUE
    <2>1. proc[q] \in States /\ proc[q].stale \in BOOLEAN
        BY DEF Typed, States
    <2>2. (proc[q].stale \/ proc[q].pc \notin Ended) \in BOOLEAN
        OBVIOUS
    <2>3. Marked(q) \in States
        BY <2>1, <2>2 DEF States
    <2>4. /\ Marked(q).pc = proc[q].pc /\ Marked(q).have = proc[q].have
          /\ Marked(q).file = proc[q].file /\ Marked(q).at = proc[q].at
        BY <2>1 DEF States
    <2>5. Marked(q).stale = (proc[q].stale \/ proc[q].pc \notin Ended)
        BY <2>1 DEF States
    <2>6. ASSUME proc[q].pc \notin Ended PROVE Marked(q).stale = TRUE
        BY <2>5, <2>6
    <2> QED
        BY <2>3, <2>4, <2>6
<1> HIDE DEF Marked
<1> QED
    BY <1>1, <1>2, <1>3

LEMMA CrashFacts ==
    ASSUME Typed, NEW p \in Procs, Crash(p)
    PROVE  \E s \in States : Go(p, s) /\ s.pc = "failed"
<1>1. Ends("failed", "crash") \in States /\ Ends("failed", "crash").pc = "failed"
    BY EndsFacts DEF Causes
<1> QED
    BY <1>1 DEF Crash, Fails

LEMMA LoadFails ==
    ASSUME Typed, NEW p \in Procs, Load(p), cache.torn
    PROVE  \E s \in States : Go(p, s) /\ s.pc = "failed"
<1>1. Ends("failed", "cache") \in States /\ Ends("failed", "cache").pc = "failed"
    BY EndsFacts DEF Causes
<1> QED
    BY <1>1 DEF Load, Fails

LEMMA CacheStep ==
    ASSUME Typed, CacheInv, Next, ~disturbed'
    PROVE  CacheInv'
<1> USE DEF Writing
<1>0. PICK p \in Procs : \/ Load(p) \/ Truncate(p) \/ Write(p) \/ Written(p) \/ Crash(p)
                         \/ Others(p)
    BY Steps
<1>1. ASSUME NEW s, Go(p, s)
      PROVE  proc'[p] = s /\ \A q \in Procs \ {p} : proc'[q] = proc[q]
    BY <1>1 DEF Go, Typed
<1>2. CASE Others(p)
    <2> PICK s \in States : Go(p, s) /\ Quiet(p, s) /\ UNCHANGED store
        BY <1>2, OthersQuiet DEF Quietly
    <2>1. proc'[p] = s /\ \A q \in Procs \ {p} : proc'[q] = proc[q]
        BY <1>1
    <2>2. Writers' = Writers /\ p \notin Writers
        BY <2>1 DEF Writers, Quiet
    <2>3. UNCHANGED <<cache, saved, disturbed>>
        BY DEF store
    <2> QED
        BY <2>1, <2>2, <2>3 DEF CacheInv, Quiet, Writers
<1>3. CASE Load(p)
    <2>1. ~disturbed /\ Writers = {} /\ UNCHANGED <<cache, saved>> /\ proc[p].pc = "loading"
        BY <1>3 DEF Load, At
    <2>2. ~cache.torn /\ saved \subseteq cache.rows
        BY <2>1 DEF CacheInv
    <2> PICK s \in States : /\ Go(p, s) /\ s.pc \in {"pulling", "ready", "fetching"}
                            /\ s.pc = "fetching" => s.have = cache.rows
        BY <1>3, <2>2, LoadFacts
    <2>3. proc'[p] = s /\ \A q \in Procs \ {p} : proc'[q] = proc[q]
        BY <1>1
    <2>4. Writers' = {}
        BY <2>1, <2>3 DEF Writers
    <2>5. \A q \in Procs : proc'[q].pc \in Holding /\ ~proc'[q].stale => saved' \subseteq proc'[q].have
        <3>1. saved' \subseteq cache.rows
            BY <2>1, <2>2
        <3>2. s.pc \in Holding => s.pc = "fetching"
            BY DEF Holding, Transfer
        <3> QED
            BY <2>1, <2>3, <3>1, <3>2 DEF CacheInv
    <2> QED
        BY <2>1, <2>2, <2>4, <2>5 DEF CacheInv
<1>4. CASE Truncate(p)
    <2> DEFINE s == [proc[p] EXCEPT !.pc = "writing"]
    <2>1. ~disturbed /\ Writers = {} /\ ~proc[p].stale /\ saved' = saved /\ proc[p].pc = "saving"
        BY <1>4 DEF Truncate, At
    <2>2. cache'.parts = {proc[p].have} /\ Go(p, s)
        BY <1>4, <2>1 DEF Truncate, Kept
    <2>3. /\ s \in States /\ s.pc = "writing" /\ s.have = proc[p].have
          /\ s.stale = proc[p].stale
        BY MoveFacts, Names
    <2> HIDE DEF s
    <2>4. proc'[p] = s /\ \A q \in Procs \ {p} : proc'[q] = proc[q]
        BY <1>1, <2>2
    <2>5. Writers' = {p}
        BY <2>1, <2>3, <2>4 DEF Writers
    <2>6. "saving" \in Holding
        BY DEF Holding
    <2>7. \A q \in Procs : proc'[q].pc \in Holding /\ ~proc'[q].stale => saved' \subseteq proc'[q].have
        BY <2>1, <2>3, <2>4, <2>6 DEF CacheInv
    <2> QED
        BY <2>1, <2>2, <2>3, <2>4, <2>5, <2>7 DEF CacheInv
<1>5. CASE Write(p)
    <2> DEFINE s == [proc[p] EXCEPT !.pc = "rewriting"]
    <2>1. ~disturbed /\ saved' = saved /\ proc[p].pc = "writing" /\ Go(p, s)
        BY <1>5 DEF Write, At
    <2>2. cache'.parts = cache.parts
        BY <1>5 DEF Write, Typed
    <2>3. /\ s \in States /\ s.pc = "rewriting" /\ s.have = proc[p].have
          /\ s.stale = proc[p].stale
        BY MoveFacts, Names
    <2> HIDE DEF s
    <2>4. proc'[p] = s /\ \A q \in Procs \ {p} : proc'[q] = proc[q]
        BY <1>1, <2>1
    <2>5. Writers' = Writers /\ p \in Writers
        BY <2>1, <2>3, <2>4 DEF Writers
    <2>6. "writing" \in Holding
        BY DEF Holding
    <2>7. \A q \in Procs : proc'[q].pc \in Holding /\ ~proc'[q].stale => saved' \subseteq proc'[q].have
        BY <2>1, <2>3, <2>4, <2>6 DEF CacheInv
    <2>8. \A q \in Writers' : cache'.parts = {proc'[q].have} /\ ~proc'[q].stale
        BY <2>1, <2>2, <2>3, <2>4, <2>5 DEF CacheInv, Writers
    <2> QED
        BY <2>1, <2>5, <2>7, <2>8 DEF CacheInv
<1>6. CASE Written(p)
    <2>1. ~disturbed /\ proc[p].pc = "rewriting" /\ saved' = saved \cup proc[p].have
        BY <1>6 DEF Written, At
    <2>2. Writers = {p} /\ ~proc[p].stale /\ cache.parts = {proc[p].have}
        BY <2>1 DEF CacheInv, Writers
    <2>3. Cardinality(cache.parts) = 1
        BY <2>2, FS_Singleton
    <2>4. cache' = [cache EXCEPT !.rows = proc[p].have, !.torn = FALSE]
        BY <1>6, <2>2, <2>3 DEF Written, Kept
    <2>5. cache'.rows = proc[p].have /\ ~cache'.torn
        BY <2>4 DEF Typed
    <2>6. saved \subseteq proc[p].have
        BY <2>1, <2>2 DEF CacheInv, Holding
    <2>7. Writers' = {}
        <3>1. proc'[p].pc \notin Writing
            BY <1>6, WrittenFacts
        <3>2. \A q \in Procs \ {p} : proc[q].pc \notin Writing
            BY <2>2 DEF Writers
        <3>3. \A q \in Procs \ {p} : proc'[q].pc = proc[q].pc
            BY <1>6, WrittenFacts
        <3> QED
            BY <3>1, <3>2, <3>3 DEF Writers
    <2>8. \A q \in Procs : ~(proc'[q].pc \in Holding /\ ~proc'[q].stale)
        <3>1. \A q \in Procs \ {p} : proc[q].pc \notin Ended => proc'[q].stale = TRUE
            BY <1>6, WrittenFacts
        <3>2. proc'[p].pc \notin Holding
            BY <1>6, WrittenFacts DEF Holding, Transfer
        <3>3. \A q \in Procs \ {p} : proc'[q].pc = proc[q].pc
            BY <1>6, WrittenFacts
        <3>4. \A q \in Procs : proc[q].pc \in Holding => proc[q].pc \notin Ended
            BY DEF Holding, Transfer, Ended
        <3> QED
            BY <3>1, <3>2, <3>3, <3>4
    <2> QED
        BY <2>1, <2>5, <2>6, <2>7, <2>8 DEF CacheInv
<1>7. CASE Crash(p)
    <2>1. ~disturbed /\ p \notin Writers /\ UNCHANGED <<cache, saved>>
        BY <1>7 DEF Crash
    <2> PICK s \in States : Go(p, s) /\ s.pc = "failed"
        BY <1>7, CrashFacts
    <2>2. proc'[p] = s /\ \A q \in Procs \ {p} : proc'[q] = proc[q]
        BY <1>1
    <2>3. Writers' = Writers
        BY <2>1, <2>2 DEF Writers
    <2>4. s.pc \notin Holding
        BY DEF Holding, Transfer
    <2> QED
        BY <2>1, <2>2, <2>3, <2>4 DEF CacheInv, Writers
<1> QED
    BY <1>0, <1>2, <1>3, <1>4, <1>5, <1>6, <1>7

----------------------------------------------------------------------------
(* The shard                                                               *)

\* A step that leaves the download as it is, of a process that is not at it.
Aside(p) == proc[p].pc \notin Transfer /\ proc'[p].pc \notin Transfer /\ UNCHANGED download

\* All steps but six stay aside, and only Written touches another process.
LEMMA AsideSteps ==
    ASSUME Typed, NEW p \in Procs,
           \/ Load(p) \/ Truncate(p) \/ Write(p) \/ Written(p)
           \/ \E r \in Rows : Served(p, r) \/ ReadRow(p, r) \/ Pull(p, r)
           \/ Refused(p) \/ Cut(p) \/ FindShard(p) \/ NoMirror(p) \/ Pulled(p)
           \/ \E want \in TaskSets, pulls \in BOOLEAN : Start(p, want, pulls)
    PROVE  Aside(p) /\ \A q \in Procs \ {p} : /\ proc'[q].pc = proc[q].pc
                                              /\ proc'[q].file = proc[q].file
                                              /\ proc'[q].at = proc[q].at
<1> USE DEF Transfer
<1>0. proc[p] \in States
    BY DEF Typed
<1>1. ASSUME NEW s, Go(p, s)
      PROVE  proc'[p] = s /\ \A q \in Procs \ {p} : proc'[q] = proc[q]
    BY <1>1 DEF Go, Typed
<1>2. ASSUME NEW s, Go(p, s), s.pc \notin Transfer, proc[p].pc \notin Transfer, UNCHANGED download
      PROVE  Aside(p) /\ \A q \in Procs \ {p} : proc'[q] = proc[q]
    BY <1>1, <1>2 DEF Aside
<1>3. ASSUME NEW cause \in Causes, Fails(p, cause), proc[p].pc \notin Transfer, UNCHANGED download
      PROVE  Aside(p) /\ \A q \in Procs \ {p} : proc'[q] = proc[q]
    BY <1>2, <1>3, EndsFacts DEF Fails
<1>4. CASE Load(p)
    <2>1. proc[p].pc = "loading" /\ UNCHANGED download
        BY <1>4 DEF Load, At
    <2>2. \E s \in States : Go(p, s) /\ s.pc \in {"failed", "pulling", "ready", "fetching"}
        BY <1>4, LoadFacts, LoadFails
    <2> QED
        BY <1>2, <2>1, <2>2
<1>5. CASE Truncate(p) \/ Write(p)
    <2>1. proc[p].pc \in Writing \cup {"saving"} /\ UNCHANGED download
        BY <1>5 DEF Truncate, Write, At, Writing
    <2>2. \E pc \in Writing : Go(p, [proc[p] EXCEPT !.pc = pc])
        BY <1>5 DEF Truncate, Write, Writing
    <2>3. \A pc \in Writing : [proc[p] EXCEPT !.pc = pc].pc = pc
        BY <1>0 DEF States
    <2>4. \E s : Go(p, s) /\ s.pc \in Writing
        BY <2>2, <2>3
    <2> QED
        BY <1>2, <2>1, <2>4 DEF Writing
<1>6. CASE Written(p)
    <2>1. proc[p].pc = "rewriting" /\ UNCHANGED download
        BY <1>6 DEF Written, At
    <2> QED
        BY <1>6, <2>1, WrittenFacts DEF Aside
<1>7. ASSUME NEW r \in Rows, Served(p, r) PROVE Aside(p) /\ \A q \in Procs \ {p} : proc'[q] = proc[q]
    BY <1>2, <1>7, GotFacts DEF Served, At
<1>8. ASSUME NEW r \in Rows, ReadRow(p, r) PROVE Aside(p) /\ \A q \in Procs \ {p} : proc'[q] = proc[q]
    <2> DEFINE s == [Got(p, r) EXCEPT !.table = TRUE]
    <2>1. s.pc \notin Transfer
        <3>1. Got(p, r) \in States /\ Got(p, r).pc \in {"saving", "fetching", "shard"}
            BY GotFacts
        <3> QED
            BY <3>1 DEF States
    <2>2. /\ proc[p].pc = "reading" /\ UNCHANGED download
          /\ Go(p, s) \/ Fails(p, "shard")
        BY <1>8 DEF ReadRow, At
    <2> HIDE DEF s
    <2> QED
        BY <1>2, <1>3, <2>1, <2>2 DEF Causes
<1>9. ASSUME NEW r \in Rows, Pull(p, r) PROVE Aside(p) /\ \A q \in Procs \ {p} : proc'[q] = proc[q]
    <2> DEFINE s == [proc[p] EXCEPT !.tries = 0]
               t == [proc[p] EXCEPT !.tries = @ + 1]
    <2>1. s.pc = proc[p].pc /\ t.pc = proc[p].pc
        BY <1>0 DEF States
    <2>2. /\ proc[p].pc = "pulling" /\ UNCHANGED download
          /\ Go(p, s) \/ Go(p, t) \/ Fails(p, "pull")
        BY <1>9 DEF Pull, At
    <2> HIDE DEF s, t
    <2> QED
        BY <1>2, <1>3, <2>1, <2>2 DEF Causes
<1>10. CASE Refused(p)
    <2> DEFINE s == [proc[p] EXCEPT !.tries = @ + 1]
               t == [proc[p] EXCEPT !.pc = "shard", !.api = FALSE, !.tries = 0]
    <2>1. s.pc = proc[p].pc /\ t.pc = "shard"
        BY <1>0 DEF States
    <2>2. proc[p].pc = "fetching" /\ UNCHANGED download /\ (Go(p, s) \/ Go(p, t))
        BY <1>10 DEF Refused, At
    <2> HIDE DEF s, t
    <2> QED
        BY <1>2, <2>1, <2>2
<1>11. CASE Cut(p) \/ NoMirror(p)
    BY <1>3, <1>11 DEF Cut, NoMirror, At, Causes
<1>12. CASE FindShard(p)
    <2> DEFINE pc == IF Looks(shard) THEN "reading" ELSE "download"
               s == [proc[p] EXCEPT !.pc = pc, !.url = 0]
    <2>0. pc \in {"reading", "download"}
        OBVIOUS
    <2>1. proc[p].pc = "shard" /\ UNCHANGED download /\ Go(p, s)
        BY <1>12 DEF FindShard, At
    <2> HIDE DEF pc
    <2>2. s.pc = pc
        BY <1>0 DEF States
    <2> HIDE DEF s
    <2> QED
        BY <1>2, <2>0, <2>1, <2>2
<1>13. CASE Pulled(p)
    <2>1. proc[p].pc = "pulling" /\ Go(p, Ends("ready", "none")) /\ UNCHANGED download
        BY <1>13 DEF Pulled, At
    <2>2. Ends("ready", "none").pc = "ready"
        BY EndsFacts DEF Causes
    <2> QED
        BY <1>2, <2>1, <2>2
<1>14. ASSUME NEW want \in TaskSets, NEW pulls \in BOOLEAN, Start(p, want, pulls)
       PROVE  Aside(p) /\ \A q \in Procs \ {p} : proc'[q] = proc[q]
    <2> DEFINE s == [Idle EXCEPT !.pc = "loading", !.want = want, !.pulls = pulls]
    <2>1. s.pc = "loading"
        BY IdleType DEF States
    <2>2. Go(p, s) /\ proc[p].pc \in Ended /\ UNCHANGED download
        BY <1>14 DEF Start
    <2> HIDE DEF s
    <2> QED
        BY <1>2, <2>1, <2>2 DEF Ended
<1> QED
    BY <1>4, <1>5, <1>6, <1>7, <1>8, <1>9, <1>10, <1>11, <1>12, <1>13, <1>14

\* The next URL: the .partial name is gone, whoever made it.
LEMMA NextUrlFacts ==
    ASSUME Typed, NEW p \in Procs, NextUrl(p)
    PROVE  /\ partial' = NoFile /\ crossed' = (crossed \/ Downloading \ {p} # {})
           /\ proc'[p].pc = "download" /\ \A q \in Procs \ {p} : proc'[q] = proc[q]
<1> DEFINE s == [proc[p] EXCEPT !.pc = "download", !.url = @ + 1, !.file = NoFile, !.at = 0]
<1>1. s.pc = "download"
    BY DEF States, Typed
<1>2. Go(p, s) /\ partial' = NoFile /\ crossed' = (crossed \/ Downloading \ {p} # {})
    BY DEF NextUrl
<1> HIDE DEF s
<1> QED
    BY <1>1, <1>2 DEF Go, Typed

\* A process has left the download, and its files are as they were but for the .partial name.
LEMMA Left ==
    ASSUME Typed, ShardInv, NEW p \in Procs, proc'[p].pc \notin Transfer,
           \A q \in Procs \ {p} : /\ proc'[q].pc = proc[q].pc
                                  /\ proc'[q].file = proc[q].file
                                  /\ proc'[q].at = proc[q].at,
           UNCHANGED <<shard, chunks>>,
           \/ UNCHANGED partial /\ crossed' = crossed
           \/ partial' = NoFile /\ crossed' = (crossed \/ Downloading \ {p} # {})
    PROVE  ShardInv'
<1> USE DEF Transfer
<1>1. (partial' # NoFile => partial' # shard')
    BY DEF ShardInv, Copied
<1>2. ASSUME ~crossed' PROVE Copied'
    <2>1. ~crossed /\ Copied
        <3>1. CASE crossed' = crossed
            BY <1>2, <3>1 DEF ShardInv
        <3>2. CASE crossed' = (crossed \/ Downloading \ {p} # {})
            BY <1>2, <3>2 DEF ShardInv
        <3> QED
            BY <3>1, <3>2
    <2>2. Downloading' \subseteq Downloading \ {p}
        BY DEF Downloading
    <2>3. CASE UNCHANGED partial
        BY <2>1, <2>2, <2>3 DEF Copied
    <2>4. CASE partial' = NoFile /\ Downloading \ {p} = {}
        <3>1. Downloading' = {}
            BY <2>2, <2>4
        <3>2. \A q \in Procs : proc'[q].pc \notin Transfer
            BY <3>1 DEF Downloading
        <3> QED
            BY <2>1, <3>1, <3>2 DEF Copied
    <2> QED
        BY <1>2, <2>3, <2>4
<1>3. ShardInv' <=> (partial' # NoFile => partial' # shard') /\ (~crossed' => Copied')
    BY DEF ShardInv, Copied
<1> QED
    BY <1>1, <1>2, <1>3

LEMMA ShardStep ==
    ASSUME Typed, ShardInv, Next
    PROVE  ShardInv'
<1> USE DEF Transfer
<1>0. PICK p \in Procs : \/ Load(p) \/ Truncate(p) \/ Write(p) \/ Written(p) \/ Crash(p)
                         \/ Others(p)
    BY Steps
<1>1. ASSUME NEW s, Go(p, s)
      PROVE  proc'[p] = s /\ \A q \in Procs \ {p} : proc'[q] = proc[q]
    BY <1>1 DEF Go, Typed
<1>2. ShardInv' <=> (partial' # NoFile => partial' # shard') /\ (~crossed' => Copied')
    BY DEF ShardInv, Copied
<1>3. CASE \/ Load(p) \/ Truncate(p) \/ Write(p) \/ Written(p)
           \/ \E r \in Rows : Served(p, r) \/ ReadRow(p, r) \/ Pull(p, r)
           \/ Refused(p) \/ Cut(p) \/ FindShard(p) \/ NoMirror(p) \/ Pulled(p)
           \/ \E want \in TaskSets, pulls \in BOOLEAN : Start(p, want, pulls)
    <2>1. Aside(p) /\ \A q \in Procs \ {p} : /\ proc'[q].pc = proc[q].pc
                                             /\ proc'[q].file = proc[q].file
                                             /\ proc'[q].at = proc[q].at
        BY <1>3, AsideSteps
    <2> QED
        BY <2>1, Left DEF Aside, download
<1>4. CASE Crash(p)
    <2> PICK s \in States : Go(p, s) /\ s.pc = "failed"
        BY <1>4, CrashFacts
    <2>1. proc'[p] = s /\ \A q \in Procs \ {p} : proc'[q] = proc[q]
        BY <1>1
    <2>2. UNCHANGED download
        BY <1>4 DEF Crash
    <2> QED
        BY <2>1, <2>2, Left DEF download
<1>5. CASE NextUrl(p) /\ UNCHANGED <<shard, chunks>>
    BY <1>5, NextUrlFacts, Left
<1>6. CASE MirrorDown(p)
    BY <1>5, <1>6 DEF MirrorDown
<1>7. CASE Open(p)
    <2> PICK f \in Files : /\ IF partial = NoFile THEN Unused(f) ELSE f = partial
                           /\ partial' = f
                           /\ chunks' = [chunks EXCEPT ![f] = {}]
                           /\ Go(p, [proc[p] EXCEPT !.pc = "copying", !.file = f, !.at = 0])
        BY <1>7 DEF Open
    <2> DEFINE s == [proc[p] EXCEPT !.pc = "copying", !.file = f, !.at = 0]
    <2>1. s.pc = "copying" /\ s.file = f /\ s.at = 0
        BY DEF Typed, States
    <2>2. Go(p, s)
        OBVIOUS
    <2> HIDE DEF s
    <2>3. proc'[p] = s /\ \A q \in Procs \ {p} : proc'[q] = proc[q]
        BY <1>1, <2>2
    <2>4. f # shard /\ f # NoFile /\ shard' = shard
        BY <1>7, RowsAssumption DEF Open, ShardInv, Copied, Unused
    <2>5. ASSUME ~crossed' PROVE Copied'
        <3>1. ~crossed /\ Downloading = {} /\ Copied
            BY <1>7, <2>5 DEF Open, ShardInv, Copied
        <3>2. Downloading' = {p}
            BY <2>1, <2>3, <3>1 DEF Downloading
        <3>3. \A q \in Procs \ {p} : proc'[q].pc \notin Transfer
            BY <3>2 DEF Downloading
        <3>4. chunks'[f] = {} /\ Prefix(0) = {}
            BY DEF Typed, Prefix, Body
        <3>5. shard' # NoFile => chunks'[shard'] = Body
            BY <2>4, <3>1 DEF Copied, Typed
        <3> QED
            BY <2>1, <2>3, <2>4, <3>2, <3>3, <3>4, <3>5 DEF Copied
    <2> QED
        BY <1>2, <2>4, <2>5
<1>8. ASSUME NEW s, Go(p, s), s.pc = "checking", proc[p].pc = "copying",
             UNCHANGED <<partial, shard, crossed>>,
             ~crossed => \E n \in 0 .. 3 : chunks'[partial] = Prefix(n),
             ~crossed /\ shard # NoFile => chunks'[shard] = chunks[shard]
      PROVE  ShardInv'
    <2>1. proc'[p] = s /\ \A q \in Procs \ {p} : proc'[q] = proc[q]
        BY <1>1, <1>8
    <2>2. ASSUME ~crossed PROVE Copied'
        <3>1. Copied /\ p \in Downloading
            BY <1>8, <2>2 DEF ShardInv, Copied, Downloading
        <3>2. Downloading' = Downloading
            BY <1>8, <2>1 DEF Downloading
        <3>3. \A q \in Procs \ {p} : proc'[q].pc \notin Transfer
            BY <2>1, <3>1 DEF Copied, Downloading
        <3>4. partial # NoFile
            BY <1>8, <3>1 DEF Copied
        <3> QED
            BY <1>8, <2>1, <2>2, <3>1, <3>2, <3>3, <3>4 DEF Copied
    <2> QED
        BY <1>2, <1>8, <2>2 DEF ShardInv, Copied
<1>9. CASE Copy(p)
    <2> DEFINE next == proc[p].at + 1
               s == [proc[p] EXCEPT !.at = next]
               t == [proc[p] EXCEPT !.pc = "checking", !.file = NoFile, !.at = 0]
    <2>0. proc[p] \in States /\ proc[p].at \in 0 .. 2
        BY DEF Typed, States
    <2>1. /\ chunks' = [chunks EXCEPT ![proc[p].file] = @ \cup {next}] /\ proc[p].pc = "copying"
          /\ UNCHANGED <<partial, shard, crossed>>
        BY <1>9 DEF Copy, At
    <2>2. (next \in Body \ {3} /\ Go(p, s)) \/ Go(p, t)
        BY <1>9 DEF Copy
    <2>3. ASSUME ~crossed
          PROVE  /\ partial \in Files /\ partial = proc[p].file /\ partial # shard
                 /\ chunks'[partial] = Prefix(next)
                 /\ shard # NoFile => chunks'[shard] = chunks[shard]
        <3>1. /\ partial = proc[p].file /\ partial # NoFile /\ partial # shard
              /\ chunks[partial] = Prefix(proc[p].at)
            BY <2>1, <2>3 DEF ShardInv, Copied
        <3>2. Prefix(proc[p].at) \cup {next} = Prefix(next)
            BY <2>0 DEF Prefix, Body
        <3>3. partial \in Files
            BY <3>1 DEF Typed
        <3> HIDE DEF next
        <3> QED
            BY <2>1, <3>1, <3>2, <3>3 DEF Typed
    <2>4. /\ s.pc = "copying" /\ s.file = proc[p].file /\ s.at = next /\ t.pc = "checking"
        BY <2>0, <2>1 DEF States
    <2>5. next \in 0 .. 3
        BY <2>0
    <2> HIDE DEF s, t, next
    <2>6. CASE Go(p, t)
        BY <1>8, <2>1, <2>3, <2>4, <2>5, <2>6
    <2>7. CASE Go(p, s)
        <3>1. proc'[p] = s /\ \A q \in Procs \ {p} : proc'[q] = proc[q]
            BY <1>1, <2>7
        <3>2. ASSUME ~crossed PROVE Copied'
            <4>1. Copied /\ p \in Downloading
                BY <2>1, <3>2 DEF ShardInv, Copied, Downloading
            <4>2. Downloading' = Downloading
                BY <2>1, <2>4, <3>1 DEF Downloading
            <4>3. \A q \in Procs \ {p} : proc'[q].pc \notin Transfer
                BY <3>1, <4>1 DEF Copied, Downloading
            <4>4. partial # NoFile
                BY <2>1, <4>1 DEF Copied
            <4> QED
                BY <2>1, <2>3, <2>4, <3>1, <3>2, <4>1, <4>2, <4>3, <4>4 DEF Copied
        <3> QED
            BY <1>2, <2>1, <3>2 DEF ShardInv, Copied
    <2> QED
        BY <2>2, <2>6, <2>7
<1>10. CASE CopyStops(p)
    <2> DEFINE t == [proc[p] EXCEPT !.pc = "checking", !.file = NoFile, !.at = 0]
    <2>1. proc[p].pc = "copying" /\ UNCHANGED <<shard, chunks>>
        BY <1>10 DEF CopyStops, At
    <2>2. NextUrl(p) \/ (Go(p, t) /\ UNCHANGED <<partial, crossed>>)
        BY <1>10 DEF CopyStops
    <2>3. t.pc = "checking" /\ proc[p].at \in 0 .. 3
        BY DEF Typed, States
    <2> HIDE DEF t
    <2>4. ~crossed => chunks[partial] = Prefix(proc[p].at)
        BY <2>1 DEF ShardInv, Copied
    <2> QED
        BY <1>5, <1>8, <2>1, <2>2, <2>3, <2>4
<1>11. CASE Check(p)
    <2> DEFINE s == [proc[p] EXCEPT !.pc = "renaming"]
    <2>1. proc[p].pc = "checking" /\ UNCHANGED <<shard, chunks>>
        BY <1>11 DEF Check, At
    <2>2. \/ Fails(p, "partial") /\ UNCHANGED <<partial, crossed>>
          \/ NextUrl(p)
          \/ Looks(partial) /\ Go(p, s) /\ UNCHANGED <<partial, crossed>>
        BY <1>11 DEF Check
    <2>3. s.pc = "renaming"
        BY DEF Typed, States
    <2> HIDE DEF s
    <2>4. CASE Fails(p, "partial") /\ UNCHANGED <<partial, crossed>>
        <3>1. Ends("failed", "partial").pc = "failed"
            BY EndsFacts DEF Causes
        <3>2. proc'[p].pc = "failed" /\ \A q \in Procs \ {p} : proc'[q] = proc[q]
            BY <1>1, <2>4, <3>1 DEF Fails
        <3> QED
            BY <2>1, <2>4, <3>2, Left
    <2>5. CASE Looks(partial) /\ Go(p, s) /\ UNCHANGED <<partial, crossed>>
        <3>1. proc'[p] = s /\ \A q \in Procs \ {p} : proc'[q] = proc[q]
            BY <1>1, <2>5
        <3>2. ASSUME ~crossed PROVE Copied'
            <4>1. Copied /\ p \in Downloading
                BY <2>1, <3>2 DEF ShardInv, Copied, Downloading
            <4>2. Downloading' = Downloading
                BY <2>1, <2>3, <3>1 DEF Downloading
            <4>3. \A q \in Procs \ {p} : proc'[q].pc \notin Transfer
                BY <3>1, <4>1 DEF Copied, Downloading
            <4>4. partial # NoFile /\ \E n \in 0 .. 3 : chunks[partial] = Prefix(n)
                BY <2>1, <4>1 DEF Copied
            <4>5. chunks[partial] = Body
                BY <2>5, <4>4 DEF Looks, Prefix, Body
            <4> QED
                BY <2>1, <2>3, <2>5, <3>1, <4>1, <4>2, <4>3, <4>4, <4>5 DEF Copied
        <3> QED
            BY <1>2, <2>1, <2>5, <3>2 DEF ShardInv, Copied
    <2> QED
        BY <1>5, <2>1, <2>2, <2>4, <2>5
<1>12. CASE Rename(p)
    <2> DEFINE s == [proc[p] EXCEPT !.pc = "reading"]
    <2>1. proc[p].pc = "renaming" /\ UNCHANGED <<chunks, crossed>>
        BY <1>12 DEF Rename, At
    <2>2. \/ Fails(p, "partial") /\ UNCHANGED <<partial, shard>>
          \/ partial # NoFile /\ Go(p, s) /\ shard' = partial /\ partial' = NoFile
        BY <1>12 DEF Rename
    <2>3. s.pc = "reading"
        BY DEF Typed, States
    <2> HIDE DEF s
    <2>4. CASE Fails(p, "partial") /\ UNCHANGED <<partial, shard>>
        <3>1. Ends("failed", "partial").pc = "failed"
            BY EndsFacts DEF Causes
        <3>2. proc'[p].pc = "failed" /\ \A q \in Procs \ {p} : proc'[q] = proc[q]
            BY <1>1, <2>4, <3>1 DEF Fails
        <3> QED
            BY <2>1, <2>4, <3>2, Left
    <2>5. CASE partial # NoFile /\ Go(p, s) /\ shard' = partial /\ partial' = NoFile
        <3>1. proc'[p] = s /\ \A q \in Procs \ {p} : proc'[q] = proc[q]
            BY <1>1, <2>5
        <3>2. ASSUME ~crossed PROVE Copied'
            <4>1. Copied /\ p \in Downloading
                BY <2>1, <3>2 DEF ShardInv, Copied, Downloading
            <4>2. \A q \in Procs : proc'[q].pc \notin Transfer
                BY <2>3, <3>1, <4>1 DEF Copied, Downloading
            <4>3. Downloading' = {}
                BY <4>2 DEF Downloading
            <4>4. chunks[partial] = Body
                BY <2>1, <4>1 DEF Copied
            <4> QED
                BY <2>1, <2>5, <4>2, <4>3, <4>4 DEF Copied
        <3> QED
            BY <1>2, <2>1, <2>5, <3>2
    <2> QED
        BY <2>2, <2>4, <2>5
<1> QED
    BY <1>0, <1>3, <1>4, <1>6, <1>7, <1>9, <1>10, <1>11, <1>12 DEF Others

----------------------------------------------------------------------------
LEMMA TypedStep ==
    ASSUME Typed, Next
    PROVE  Typed'
<1>0. PICK p \in Procs : \/ Load(p) \/ Truncate(p) \/ Write(p) \/ Written(p) \/ Crash(p)
                         \/ Others(p)
    BY Steps
<1>1. proc' \in [Procs -> States]
    <2>1. ASSUME NEW s \in States, Go(p, s) PROVE proc' \in [Procs -> States]
        BY <2>1 DEF Go, Typed
    <2>2. CASE Load(p)
        BY <2>1, <2>2, LoadFacts, LoadFails
    <2>3. CASE Truncate(p)
        BY <2>1, <2>3, MoveFacts, Names DEF Truncate
    <2>4. CASE Write(p)
        BY <2>1, <2>4, MoveFacts, Names DEF Write
    <2>5. CASE Written(p)
        BY <2>5, WrittenFacts
    <2>6. CASE Crash(p)
        BY <2>1, <2>6, CrashFacts
    <2>7. CASE Others(p)
        BY <2>1, <2>7, OthersQuiet DEF Quietly
    <2> QED
        BY <1>0, <2>2, <2>3, <2>4, <2>5, <2>6, <2>7
<1>2. cache' \in [rows : SUBSET Rows, torn : BOOLEAN, parts : SUBSET SUBSET Rows]
    <2>0. proc[p].have \in SUBSET Rows
        BY DEF Typed, States
    <2>1. CASE cache' = cache
        BY <2>1 DEF Typed
    <2>2. CASE Truncate(p)
        BY <2>0, <2>2 DEF Truncate, Kept, Typed
    <2>3. CASE Write(p)
        BY <2>3 DEF Write, Typed
    <2>4. CASE Written(p)
        <3> PICK torn \in BOOLEAN : cache' = [cache EXCEPT !.rows = proc[p].have, !.torn = torn]
            BY <2>4 DEF Written, Kept
        <3> QED
            BY <2>0 DEF Typed
    <2>5. CASE Load(p) \/ Crash(p)
        BY <2>1, <2>5 DEF Load, Crash
    <2>6. CASE Others(p)
        BY <2>1, <2>6, OthersQuiet DEF Quietly, store
    <2> QED
        BY <1>0, <2>2, <2>3, <2>4, <2>5, <2>6
<1>3. /\ partial' \in Files \cup {NoFile} /\ shard' \in Files \cup {NoFile}
      /\ chunks' \in [Files -> SUBSET Body]
    <2>1. CASE UNCHANGED download
        BY <2>1 DEF Typed, download
    <2>2. CASE partial' = NoFile /\ UNCHANGED <<shard, chunks>>
        BY <2>2 DEF Typed
    <2>3. CASE MirrorDown(p) \/ CopyStops(p) \/ Check(p)
        <3>1. UNCHANGED <<shard, chunks>> /\ (UNCHANGED partial \/ partial' = NoFile)
            BY <2>3 DEF MirrorDown, CopyStops, Check, NextUrl
        <3> QED
            BY <3>1 DEF Typed
    <2>4. CASE Open(p)
        BY <2>4 DEF Open, Typed
    <2>5. CASE Copy(p)
        <3>1. proc[p].at + 1 \in Body
            BY DEF Typed, States, Body
        <3>2. chunks' = [chunks EXCEPT ![proc[p].file] = @ \cup {proc[p].at + 1}]
              /\ UNCHANGED <<partial, shard>>
            BY <2>5 DEF Copy
        <3> QED
            BY <3>1, <3>2 DEF Typed
    <2>6. CASE Rename(p)
        <3>1. chunks' = chunks /\ (UNCHANGED <<partial, shard>> \/ (shard' = partial /\ partial' = NoFile))
            BY <2>6 DEF Rename
        <3> QED
            BY <3>1 DEF Typed
    <2>7. CASE Crash(p)
        BY <2>1, <2>7 DEF Crash
    <2>8. CASE ~(MirrorDown(p) \/ CopyStops(p) \/ Check(p) \/ Open(p) \/ Copy(p) \/ Rename(p) \/ Crash(p))
        BY <1>0, <2>1, <2>8, AsideSteps DEF Others, Aside
    <2> QED
        BY <2>3, <2>4, <2>5, <2>6, <2>7, <2>8
<1> QED
    BY <1>1, <1>2, <1>3 DEF Typed

THEOREM Invariant == Spec => []IInv
<1>1. Init => IInv
    <2> SUFFICES ASSUME Init PROVE IInv
        OBVIOUS
    <2>1. proc \in [Procs -> States] /\ \A p \in Procs : proc[p].pc = "idle"
        <3>1. Idle.pc = "idle"
            BY DEF Idle
        <3> QED
            BY <3>1, IdleType DEF Init
    <2>2. Typed
        BY <2>1 DEF Init, Typed
    <2>3. CacheInv
        BY <2>1 DEF Init, CacheInv, Writers
    <2>4. ShardInv
        BY <2>1 DEF Init, ShardInv, Copied, Downloading
    <2> QED
        BY <2>2, <2>3, <2>4 DEF IInv
<1>2. IInv /\ [Next]_vars => IInv'
    <2> SUFFICES ASSUME IInv, [Next]_vars PROVE IInv'
        OBVIOUS
    <2>1. CASE Next
        <3>1. CacheInv'
            BY <2>1, CacheStep DEF IInv, CacheInv
        <3> QED
            BY <2>1, <3>1, TypedStep, ShardStep DEF IInv
    <2>2. CASE UNCHANGED vars
        BY <2>2 DEF vars, IInv, Typed, CacheInv, ShardInv, Copied, Writers, Downloading
    <2> QED
        BY <2>1, <2>2
<1> QED
    BY <1>1, <1>2, PTL DEF Spec

\* A cache file nobody can read and a shard that only looks like one take two processes at
\* once, or one killed while it wrote: no answer of the network leaves either.
THEOREM UsableFiles == Spec => []FilesAreUsable
<1>1. IInv => FilesAreUsable
    <2> SUFFICES ASSUME Typed, CacheInv, ShardInv PROVE FilesAreUsable
        BY DEF IInv
    <2>1. cache.torn /\ Writers = {} => disturbed
        BY DEF CacheInv
    <2>2. Looks(shard) /\ chunks[shard] # Body => crossed
        BY DEF ShardInv, Copied, Looks
    <2> QED
        BY <2>1, <2>2 DEF FilesAreUsable
<1> QED
    BY Invariant, <1>1, PTL

\* The cache only grows: a program that asks for other rows writes back those it found.
THEOREM NothingIsForgotten == Spec => []NothingForgotten
<1>1. IInv => NothingForgotten
    BY DEF IInv, CacheInv, NothingForgotten
<1> QED
    BY Invariant, <1>1, PTL
=============================================================================
