-------------------------- MODULE MCDockerSandbox --------------------------
(* DockerSandbox for TLC: every fault, or only a late container.           *)
EXTENDS DockerSandbox

AllFaults == {"start_timeout", "rm_fails", "box_dies"}
LateStart == {"start_timeout"}
=============================================================================
