------------------------------ MODULE RowCache ------------------------------
(***************************************************************************)
(* The rows of the pinned tasks, and their images: swe_gym_smoke.py loads  *)
(* rows from a cache file, or from the rows API, or from the published     *)
(* shard, which it downloads once per machine; swe_gym_prepare.py pulls    *)
(* the images.  Every program of the repository that runs tasks goes       *)
(* through here first, so two may do so at the same time.                  *)
(*                                                                         *)
(* The cache file is rewritten in place.  The shard is written to a        *)
(* .partial file that all processes share and renamed when it looks like   *)
(* a parquet file.  A name of a file and the file itself are kept apart:   *)
(* a process goes on writing to a file that was renamed or unlinked.       *)
(***************************************************************************)
EXTENDS Naturals, FiniteSets

CONSTANTS
    Procs,      \* processes
    Rows,       \* PINNED_DEVELOPMENT_ROWS
    TaskSets,   \* the selections a process may ask for
    Attempts,   \* attempts per row of the API, and per image
    Urls,       \* number of DATASET_SHARD_URLS
    Files,      \* files a .partial name may be opened as
    NoFile,     \* the name does not exist
    Faults,     \* what may go wrong
    MaxStarts   \* bound on the number of times a process is started

ASSUME RowsAssumption ==
    /\ TaskSets \subseteq SUBSET Rows
    /\ Attempts \in Nat \ {0} /\ Urls \in Nat /\ MaxStarts \in Nat
    /\ NoFile \notin Files
    /\ Faults \subseteq {"api_down", "api_cut", "mirror_down", "mirror_cut", "mirror_short",
                         "pull_fails", "crash"}

VARIABLES
    proc,       \* the local variables of load_or_download_pinned_rows and its callees
    cache,      \* the cache file
    partial,    \* the file behind the .partial name
    shard,      \* the file behind the name of the shard
    chunks,     \* what each file holds
    images,     \* rows whose image the daemon has
    starts,     \* number of processes started so far
    saved,      \* history: rows of every cache write that was not disturbed
    disturbed,  \* history: a cache write overlapped another process, or was interrupted
    crossed     \* history: a process downloaded or gave up a URL while another downloaded

vars == <<proc, cache, partial, shard, chunks, images, starts, saved, disturbed, crossed>>
store == <<cache, saved, disturbed>>
download == <<partial, shard, chunks, crossed>>

\* A parquet file begins and ends with its magic: here with chunks 1 and 3.
Body == 1 .. 3

----------------------------------------------------------------------------
(* Processes                                                               *)

\* want: selected; pulls: it is swe_gym_prepare; have: cached_by_id; api: no api_failure
\* yet; tries: failed attempts at the present row or image; url: shard URLs tried; file: the
\* handle on .partial; at: the last chunk written to it; table: SHARD_TABLES holds the shard;
\* cause: of a failure; stale (history): another process wrote
\* the cache after this one read it.
Idle == [pc |-> "idle", want |-> {}, pulls |-> FALSE, have |-> {}, api |-> TRUE, tries |-> 0,
         url |-> 0, file |-> NoFile, at |-> 0, table |-> FALSE, cause |-> "none",
         stale |-> FALSE]

Positions == {"idle", "loading", "fetching", "shard", "download", "copying", "checking",
              "renaming", "reading", "saving", "writing", "rewriting", "pulling",
              "ready", "failed"}
Ended == {"idle", "ready", "failed"}

At(p, pc) == proc[p].pc = pc
Go(p, state) == proc' = [proc EXCEPT ![p] = state]
Missing(p) == proc[p].want \ proc[p].have

\* The program is over, with its rows or with an exception that leaves it.
Ends(pc, cause) == [Idle EXCEPT !.pc = pc, !.cause = cause]
Fails(p, cause) == Go(p, Ends("failed", cause))

\* load_or_download_pinned_rows returns, and prepare goes on to the images.
Returned(state) == IF state.pulls THEN [state EXCEPT !.pc = "pulling"] ELSE Ends("ready", "none")

\* A program is started: the smoke, prepare, a rollout, the worker, an evaluation.
Start(p, want, pulls) ==
    /\ proc[p].pc \in Ended
    /\ starts < MaxStarts
    /\ starts' = starts + 1
    /\ Go(p, [Idle EXCEPT !.pc = "loading", !.want = want, !.pulls = pulls])
    /\ UNCHANGED store /\ UNCHANGED <<download, images>>

----------------------------------------------------------------------------
(* The cache file                                                          *)

Writers == {p \in Procs : proc[p].pc \in {"writing", "rewriting"}}

\* A line that is cut is not JSON, and the reader does not catch that.
Load(p) ==
    /\ At(p, "loading")
    /\ IF cache.torn THEN Fails(p, "cache")
       ELSE LET loaded == [proc[p] EXCEPT !.have = cache.rows, !.stale = FALSE] IN
            Go(p, IF loaded.want \subseteq loaded.have THEN Returned(loaded)
                  ELSE [loaded EXCEPT !.pc = "fetching"])
    /\ disturbed' = (disturbed \/ Writers # {})
    /\ UNCHANGED <<cache, saved>> /\ UNCHANGED <<download, images, starts>>

\* Mutant: only the rows that were asked for are written back.
KeptSelected(p) == proc[p].want

\* rows: everything that was cached, and what was downloaded for it.
Kept(p) == proc[p].have

\* target.write_text opens the file, which empties it ...
Truncate(p) ==
    /\ At(p, "saving")
    /\ Go(p, [proc[p] EXCEPT !.pc = "writing"])
    /\ cache' = [rows |-> {}, torn |-> FALSE,
                 parts |-> {Kept(p)} \cup (IF Writers = {} THEN {} ELSE cache.parts)]
    /\ disturbed' = (disturbed \/ Writers # {} \/ proc[p].stale)
    /\ UNCHANGED saved /\ UNCHANGED <<download, images, starts>>

\* ... writes what fits in a buffer, which ends inside a line ...
Write(p) ==
    /\ At(p, "writing")
    /\ Go(p, [proc[p] EXCEPT !.pc = "rewriting"])
    /\ cache' = [cache EXCEPT !.torn = TRUE]
    /\ UNCHANGED <<saved, disturbed>> /\ UNCHANGED <<download, images, starts>>

\* ... and the rest.  Two writers write from the start of the same file: what they leave is
\* whole if they wrote the same rows and neither goes on.
Written(p) ==
    /\ At(p, "rewriting")
    /\ proc' = [q \in Procs |->
                  IF q = p THEN Returned(proc[p])
                  ELSE [proc[q] EXCEPT !.stale = @ \/ proc[q].pc \notin Ended]]
    /\ \E torn \in (IF Writers = {p} /\ Cardinality(cache.parts) = 1 THEN {FALSE} ELSE BOOLEAN) :
          cache' = [cache EXCEPT !.rows = Kept(p), !.torn = torn]
    /\ saved' = IF disturbed THEN saved ELSE saved \cup proc[p].have
    /\ UNCHANGED disturbed /\ UNCHANGED <<download, images, starts>>

----------------------------------------------------------------------------
(* The rows API                                                            *)

Got(p, r) ==
    LET state == [proc[p] EXCEPT !.have = @ \cup {r}, !.tries = 0] IN
    [state EXCEPT !.pc = IF state.want \subseteq state.have THEN "saving"
                         ELSE IF state.api THEN "fetching" ELSE "shard"]

\* _download_pinned_row: the row, validated.
Served(p, r) ==
    /\ At(p, "fetching") /\ r \in Missing(p)
    /\ Go(p, Got(p, r))
    /\ UNCHANGED store /\ UNCHANGED <<download, images, starts>>

\* An OSError is retried; after the last attempt, or on an answer that is not a pinned row,
\* this row and the rest of the batch come from the shard.
Refused(p) ==
    /\ At(p, "fetching") /\ "api_down" \in Faults
    /\ \/ /\ proc[p].tries + 1 < Attempts
          /\ Go(p, [proc[p] EXCEPT !.tries = @ + 1])
       \/ Go(p, [proc[p] EXCEPT !.pc = "shard", !.api = FALSE, !.tries = 0])
    /\ UNCHANGED store /\ UNCHANGED <<download, images, starts>>

\* A body that ends early is an HTTPException, one that is no JSON a ValueError: neither is
\* retried, and neither is taken for a failure of the API.
Cut(p) ==
    /\ At(p, "fetching") /\ "api_cut" \in Faults
    /\ Fails(p, "api_cut")
    /\ UNCHANGED store /\ UNCHANGED <<download, images, starts>>

----------------------------------------------------------------------------
(* The shard                                                               *)

\* Mutant: the check reads the first magic only.
LooksFromItsHead(f) == f # NoFile /\ 1 \in chunks[f]

\* path.is_file() and _is_parquet_file(path)
Looks(f) == f # NoFile /\ {1, 3} \subseteq chunks[f]

Downloading == {p \in Procs : proc[p].pc \in {"copying", "checking", "renaming"}}

\* _read_shard_row looks for the shard for every row, also when it holds the table.
FindShard(p) ==
    /\ At(p, "shard")
    /\ Go(p, [proc[p] EXCEPT !.pc = IF Looks(shard) THEN "reading" ELSE "download", !.url = 0])
    /\ UNCHANGED store /\ UNCHANGED <<download, images, starts>>

\* A URL that failed: the .partial name is unlinked, whoever made it.
NextUrl(p) ==
    /\ Go(p, [proc[p] EXCEPT !.pc = "download", !.url = @ + 1, !.file = NoFile, !.at = 0])
    /\ partial' = NoFile
    /\ crossed' = (crossed \/ Downloading \ {p} # {})

MirrorDown(p) ==
    /\ At(p, "download") /\ proc[p].url < Urls /\ "mirror_down" \in Faults
    /\ NextUrl(p)
    /\ UNCHANGED store /\ UNCHANGED <<shard, chunks, images, starts>>

NoMirror(p) ==
    /\ At(p, "download") /\ proc[p].url >= Urls
    /\ Fails(p, "hosts")
    /\ UNCHANGED store /\ UNCHANGED <<download, images, starts>>

\* A file no name and no handle refers to.
Unused(f) == f \notin {partial, shard} /\ \A q \in Procs : proc[q].file # f

\* partial.open("wb"): the file of that name, emptied, or a new one.
Open(p) ==
    /\ At(p, "download") /\ proc[p].url < Urls
    /\ \E f \in Files :
          /\ IF partial = NoFile THEN Unused(f) ELSE f = partial
          /\ partial' = f
          /\ chunks' = [chunks EXCEPT ![f] = {}]
          /\ Go(p, [proc[p] EXCEPT !.pc = "copying", !.file = f, !.at = 0])
    /\ crossed' = (crossed \/ Downloading # {})
    /\ UNCHANGED store /\ UNCHANGED <<shard, images, starts>>

\* copyfileobj: each handle has its own position.
Copy(p) ==
    /\ At(p, "copying")
    /\ LET next == proc[p].at + 1 IN
       /\ chunks' = [chunks EXCEPT ![proc[p].file] = @ \cup {next}]
       /\ Go(p, IF next \in Body \ {3} THEN [proc[p] EXCEPT !.at = next]
                ELSE [proc[p] EXCEPT !.pc = "checking", !.file = NoFile, !.at = 0])
    /\ UNCHANGED store /\ UNCHANGED <<partial, shard, crossed, images, starts>>

\* The mirror closes the connection in the middle of the body: with an exception, or, for
\* a body without a length, without one.
CopyStops(p) ==
    /\ At(p, "copying")
    /\ \/ /\ "mirror_cut" \in Faults
          /\ NextUrl(p)
       \/ /\ "mirror_short" \in Faults
          /\ Go(p, [proc[p] EXCEPT !.pc = "checking", !.file = NoFile, !.at = 0])
          /\ UNCHANGED <<partial, crossed>>
    /\ UNCHANGED store /\ UNCHANGED <<shard, chunks, images, starts>>

\* _is_parquet_file(partial) opens the name again, outside the try.
Check(p) ==
    /\ At(p, "checking")
    /\ \/ /\ partial = NoFile
          /\ Fails(p, "partial")
          /\ UNCHANGED <<partial, crossed>>
       \/ /\ partial # NoFile /\ Looks(partial)
          /\ Go(p, [proc[p] EXCEPT !.pc = "renaming"])
          /\ UNCHANGED <<partial, crossed>>
       \/ /\ partial # NoFile /\ ~Looks(partial)
          /\ NextUrl(p)
    /\ UNCHANGED store /\ UNCHANGED <<shard, chunks, images, starts>>

\* partial.replace(destination)
Rename(p) ==
    /\ At(p, "renaming")
    /\ IF partial = NoFile
       THEN Fails(p, "partial") /\ UNCHANGED <<partial, shard>>
       ELSE /\ Go(p, [proc[p] EXCEPT !.pc = "reading"])
            /\ shard' = partial /\ partial' = NoFile
    /\ UNCHANGED store /\ UNCHANGED <<chunks, crossed, images, starts>>

\* parquet.read_table, once per process, and the row, validated.  What pyarrow raises for a
\* file with a hole is no RuntimeError.
ReadRow(p, r) ==
    /\ At(p, "reading") /\ r \in Missing(p)
    /\ IF proc[p].table \/ chunks[shard] = Body
       THEN Go(p, [Got(p, r) EXCEPT !.table = TRUE])
       ELSE Fails(p, "shard")
    /\ UNCHANGED store /\ UNCHANGED <<download, images, starts>>

----------------------------------------------------------------------------
(* prepare_images, and what ends a process                                 *)

\* docker image inspect, and docker pull with its attempts.
Pull(p, r) ==
    /\ At(p, "pulling") /\ r \in proc[p].want \ images
    /\ \/ /\ images' = images \cup {r}
          /\ Go(p, [proc[p] EXCEPT !.tries = 0])
       \/ /\ "pull_fails" \in Faults
          /\ IF proc[p].tries + 1 < Attempts
             THEN Go(p, [proc[p] EXCEPT !.tries = @ + 1])
             ELSE Fails(p, "pull")
          /\ UNCHANGED images
    /\ UNCHANGED store /\ UNCHANGED <<download, starts>>

Pulled(p) ==
    /\ At(p, "pulling") /\ proc[p].want \subseteq images
    /\ Go(p, Ends("ready", "none"))
    /\ UNCHANGED store /\ UNCHANGED <<download, images, starts>>

\* A process is killed.  Its handles close; what it wrote stays.
Crash(p) ==
    /\ "crash" \in Faults /\ proc[p].pc \notin Ended
    /\ disturbed' = (disturbed \/ p \in Writers)
    /\ Fails(p, "crash")
    /\ UNCHANGED <<cache, saved>> /\ UNCHANGED <<download, images, starts>>

Init ==
    /\ proc = [p \in Procs |-> Idle]
    /\ cache = [rows |-> {}, torn |-> FALSE, parts |-> {}]
    /\ partial = NoFile /\ shard = NoFile
    /\ chunks = [f \in Files |-> {}]
    /\ images = {} /\ starts = 0
    /\ saved = {} /\ disturbed = FALSE /\ crossed = FALSE

Work(p) ==
    \/ Load(p) \/ Truncate(p) \/ Write(p) \/ Written(p)
    \/ (\E r \in Rows : Served(p, r)) \/ Refused(p) \/ Cut(p)
    \/ FindShard(p) \/ MirrorDown(p) \/ NoMirror(p) \/ Open(p)
    \/ Copy(p) \/ CopyStops(p) \/ Check(p) \/ Rename(p)
    \/ (\E r \in Rows : ReadRow(p, r)) \/ (\E r \in Rows : Pull(p, r)) \/ Pulled(p)

Next ==
    \E p \in Procs :
        \/ Work(p) \/ Crash(p)
        \/ \E want \in TaskSets, pulls \in BOOLEAN : Start(p, want, pulls)

Spec == Init /\ [][Next]_vars

----------------------------------------------------------------------------
\* Every variable has the type the code gives it.
TypeOK ==
    /\ proc \in [Procs -> [pc : Positions, want : SUBSET Rows, pulls : BOOLEAN,
                            have : SUBSET Rows, api : BOOLEAN, tries : 0 .. Attempts,
                            url : 0 .. Urls, file : Files \cup {NoFile}, at : 0 .. 2,
                            table : BOOLEAN, stale : BOOLEAN,
                            cause : {"none", "cache", "api_cut", "hosts", "partial", "shard",
                                     "pull", "crash"}]]
    /\ cache \in [rows : SUBSET Rows, torn : BOOLEAN, parts : SUBSET SUBSET Rows]
    /\ partial \in Files \cup {NoFile} /\ shard \in Files \cup {NoFile}
    /\ chunks \in [Files -> SUBSET Body]
    /\ images \subseteq Rows /\ saved \subseteq Rows
    /\ starts \in 0 .. MaxStarts
    /\ disturbed \in BOOLEAN /\ crossed \in BOOLEAN

\* A cache file that no program can read again, and a shard that passes for one and is not,
\* take two processes at once or one killed in the middle of a write: whatever the network
\* does to a process on its own, the files it leaves can be used.
FilesAreUsable ==
    /\ cache.torn /\ Writers = {} => disturbed
    /\ Looks(shard) /\ chunks[shard] # Body => crossed

\* No rewrite drops a row: the rows of every task set that was loaded stay cached, whatever
\* task set the next program asks for.
NothingForgotten == ~disturbed /\ Writers = {} => saved \subseteq cache.rows

\* A program is failed by its files only if another one was at them, or was killed while
\* it wrote: not by what the network did to it, or to the programs before it.
FailureHasCause ==
    \A p \in Procs :
        /\ proc[p].cause = "cache" => disturbed
        /\ proc[p].cause \in {"partial", "shard"} => crossed

\* swe_gym_smoke.py: "a row is never a hard failure as long as one of the two hosts is up".
\* Of the faults, api_cut leaves both up: an answer of the API that ends early.
NoHardFailure == \A p \in Procs : proc[p].pc # "failed"
=============================================================================
