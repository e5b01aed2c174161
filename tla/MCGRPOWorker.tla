---------------------------- MODULE MCGRPOWorker ----------------------------
(* Instances of GRPOWorker for TLC.  Threads and session ids are           *)
(* interchangeable: nothing in the worker tells them apart.                *)
EXTENDS GRPOWorker, TLC

Symmetry == Permutations(Threads) \cup Permutations(Sessions)
=============================================================================
