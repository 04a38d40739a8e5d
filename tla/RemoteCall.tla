----------------------------- MODULE RemoteCall -----------------------------
(****************************************************************************)
(* What the request channel to the PMU promises: requests are numbered, one *)
(* is outstanding at a time, each is served at most once and whole, and a   *)
(* reply that is taken is the reply to the request sent last. A caller may  *)
(* give up waiting; its request is then still served before the next.       *)
(****************************************************************************)
EXTENDS Naturals

VARIABLES
  sent,     \* the last request sent; 0 before the first
  served,   \* the last request served
  taken     \* the request whose reply was taken last

vars == <<sent, served, taken>>

Init == sent = 0 /\ served = 0 /\ taken = 0

Send ==
  /\ served = sent
  /\ sent' \in Nat /\ sent' > sent
  /\ UNCHANGED <<served, taken>>

Serve ==
  /\ served # sent
  /\ served' = sent
  /\ UNCHANGED <<sent, taken>>

Take ==
  /\ served = sent /\ taken # sent
  /\ taken' = sent
  /\ UNCHANGED <<sent, served>>

Next == Send \/ Serve \/ Take

Spec == Init /\ [][Next]_vars
=============================================================================
