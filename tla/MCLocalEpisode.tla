--------------------------- MODULE MCLocalEpisode ---------------------------
(* LocalEpisode for TLC: three tests, one of them in no declared target.   *)
EXTENDS LocalEpisode

MCNodes      == 1 .. 3
MCFailToPass == {1}
MCPassToPass == {2}
MCFixtures   == {{}, {1}, {1, 3}}
MCFaults     == {"no_source", "copy", "verifier", "hashes", "write", "rmtree"}
=============================================================================
