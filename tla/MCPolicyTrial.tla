--------------------------- MODULE MCPolicyTrial ---------------------------
(* PolicyTrial for TLC: strides as tight as SeedsAreApart lets them be.    *)
EXTENDS PolicyTrial

MCFaults == {"down", "cut", "reset", "step", "remove", "alarm"}
=============================================================================
