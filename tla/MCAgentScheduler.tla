-------------------------- MODULE MCAgentScheduler --------------------------
(* Instances of AgentScheduler for TLC. *)
EXTENDS AgentScheduler, TLC

CONSTANTS r1, r2, r3, k1, w1

\* r3 asks to go first.
UrgentThird == [r \in Run |-> IF r = r3 THEN 2 ELSE 1]

\* Cancel and Wait are called for a run that waits behind another one.
TheSecond == [x \in Canceller \cup Waiter |-> {r2}]
=============================================================================
