------------------------------ MODULE Episode ------------------------------
(***************************************************************************)
(* What a GRPO tool environment promises the trainer that drives it: one   *)
(* episode at a time, and one reward per episode, which stands from the    *)
(* end of the episode until the next one starts.                           *)
(*                                                                         *)
(* RemoteEpisode implements it with a worker behind a network.             *)
(***************************************************************************)
CONSTANTS Grades,   \* rewards an episode may end with
          NoReward  \* the 0.0 an environment answers while it has none

VARIABLES phase,    \* "none", "running" or "over"
          reward    \* what get_reward answers

Init == phase = "none" /\ reward = NoReward

\* reset starts the next episode and forgets the reward of the last one.
Start == phase' = "running" /\ reward' = NoReward

\* reset gave up the running episode, and has not started the next one yet.
Abandon == phase = "running" /\ phase' = "none" /\ reward' = reward

\* A terminated action, a failed one, or get_reward.
End == phase = "running" /\ phase' = "over" /\ reward' \in Grades \cup {NoReward}

Next == Start \/ Abandon \/ End

Spec == Init /\ [][Next]_<<phase, reward>>
=============================================================================
