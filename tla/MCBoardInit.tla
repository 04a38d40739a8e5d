----------------------------- MODULE MCBoardInit -----------------------------
(* Instances of BoardInit for TLC. *)
EXTENDS BoardInit

(* What the generated psu_init uses the lanes for. *)
ThisDesign == [l \in Lanes |-> <<"pcie", "dp", "usb", "sata">>[l + 1]]

(* Every protocol on every lane, beside those of the board. *)
OneLaneChanged == {[ThisDesign EXCEPT ![l] = p] : l \in Lanes, p \in Protocols}

(* The clock of this design, a whole multiple, one
   whose ratio is just above a whole number, one too slow for the second rate,
   and one too slow for both. *)
FiveClocks == {99990005, 84612000, 44000000, 10000000, 8000000}
==============================================================================
