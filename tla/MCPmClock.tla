----------------------------- MODULE MCPmClock -----------------------------
(* Instances of PmClock for TLC. *)
EXTENDS PmClock, TLC

CONSTANTS apu, rpu

Units == {apu, rpu}
UnitsAreAlike == Permutations(Units)

(* One clock of each kind of table and dividers. *)
Kinds == {"TIMESTAMP_REF", "GEM_TSU_REF", "GEM_TSU", "CAN0_MIO"}

(* Below and above one divider, beyond two, and 16, which is split as 2 times 8. *)
SomeValues == {3, 6, 7, 8, 12, 16, 50}
=============================================================================
