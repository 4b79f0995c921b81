--------------------------- MODULE MCTunnelAccounts ---------------------------
(* The instance TLC checks: calls overlap where calls measure the traffic, not *)
(* beside the tracker of SSH, and the state space of each tunnel stays small.  *)
EXTENDS TunnelAccounts

BusyBound == [p \in Protos |-> IF p \in Metered THEN 2 ELSE 1]
EventBound == [p \in Protos |-> IF p = "ssh" THEN 1 ELSE 2]
===============================================================================
