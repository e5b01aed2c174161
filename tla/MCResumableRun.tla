--------------------------- MODULE MCResumableRun ---------------------------
(* ResumableRun for TLC: every program on a plan of four trials.          *)
EXTENDS ResumableRun

AllPrograms == {"rollout", "probe", "fixed_state", "grpo_evaluate", "edit_action"}
AllFaults   == {"crash", "timeout", "endpoint", "silent"}
=============================================================================
