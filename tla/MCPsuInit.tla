------------------------------ MODULE MCPsuInit ------------------------------
(* Instances of PsuInit for TLC. *)
EXTENDS PsuInit

BothBuilds == BOOLEAN
OneKind == {"pmos"}
ThreeCodes == [k \in OneKind |-> 3]
BothGenerations == <<FALSE, TRUE>>
==============================================================================
