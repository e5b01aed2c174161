---------------------------- MODULE MCCollector ----------------------------
(* Collector for TLC, on the repository of MCToolEnvironment.              *)
EXTENDS Collector

MCPaths     == {"source", "test"}
MCProtected == {"test"}
MCContents  == {"original", "shorter", "repaired"}
MCLineCount == [c \in MCContents |-> IF c = "shorter" THEN 1 ELSE 2]
MCOriginal  == [p \in MCPaths |-> "original"]
MCPassing   == {r \in [MCPaths -> MCContents] : r["source"] = "repaired" /\ r["test"] = "original"}
=============================================================================
