---------------------------- MODULE MCPmClient ----------------------------
(* Instances of PmClient for TLC. *)
EXTENDS PmClient, TLC

CONSTANTS n1, n2, p1, p2

TwoNotifiers == {n1, n2}
OwnPairs == n1 :> p1 @@ n2 :> p2
=============================================================================
