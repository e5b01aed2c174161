----------------------------- MODULE MCRowCache -----------------------------
(* RowCache for TLC: a task set and a larger one that contains it.         *)
EXTENDS RowCache, TLC

CONSTANTS r1, r2

MCRows     == {r1, r2}
MCTaskSets == {{r1}, {r2}}
MCFaults   == {"api_down", "api_cut", "mirror_down", "mirror_cut", "mirror_short",
               "pull_fails", "crash"}
Symmetry   == Permutations(Files) \cup Permutations(Procs)
=============================================================================
