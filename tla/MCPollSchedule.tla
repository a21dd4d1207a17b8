--------------------------- MODULE MCPollSchedule ---------------------------
(* Small instances of PollSchedule: one high and two low priority pollables, *)
(* one of them too long for MAX_POLL_TIME.                                   *)
EXTENDS PollSchedule

CONSTANTS h1, l1, l2

MCPeriod == [p \in Pollables |-> IF p \in High THEN 8 ELSE 0]
MCCost == [p \in Pollables |-> IF p = l2 THEN 5 ELSE 3]
=============================================================================
