-------------------------- MODULE MCRemoteEpisode --------------------------
(* RemoteEpisode for TLC: one client, two handler threads, so that an      *)
(* abandoned handler runs beside the one that serves the client.           *)
EXTENDS RemoteEpisode, TLC

Symmetry == Permutations(Threads)
=============================================================================
