----------------------------- MODULE LaneSearch -----------------------------
(****************************************************************************)
(* The search of serdes_illcalib_pcie_gen1 for the setting of a lane: the   *)
(* lane tests itself with one counter value after the other, and the search *)
(* takes the middle of the first five or more values in a row that pass, or *)
(* else of the longest shorter row.                                         *)
(****************************************************************************)
EXTENDS Naturals

CONSTANT Counters   \* number of counter values: 64

ASSUME CountersAssumption == Counters \in Nat \ {0}

(* A lane before its search. "pass" is one less than the passes in a row, "mean"
   the middle of a long row, "alt" that of the best short one. *)
NewLane == [prev |-> FALSE, pass |-> 0, mean |-> 0, alt |-> 0, altPass |-> 0]

(* The middle of a row that ended before counter i. *)
Middle(i, pass) == (i - 1) - ((pass + 1) \div 2)

Passes(lane, result) == lane.pass + IF result /\ lane.prev THEN 1 ELSE 0

(* A short row has ended. The first three counters are not looked at, and a row
   that reaches the last one has no end. *)
ShortRow(lane, i, result) == Passes(lane, result) < 4 /\ ~result /\ i > 2

WithShortRow(lane, i, result) ==
  LET pass == Passes(lane, result)
  IN IF ~ShortRow(lane, i, result) THEN [lane EXCEPT !.pass = pass]
     ELSE IF lane.altPass < pass
          THEN [lane EXCEPT !.pass = 0, !.altPass = pass, !.alt = Middle(i, pass)]
          ELSE [lane EXCEPT !.pass = 0]

(* Mutant: a long row that reaches the last counter is forgotten. *)
OnlyEndedRow(lane, i, result) == lane.mean = 0 /\ lane.pass >= 4 /\ ~result /\ lane.prev

(* The first long row has ended, by a failure or at the last counter. *)
LongRow(lane, i, result) ==
  lane.mean = 0 /\ lane.pass >= 4 /\ (~result \/ i = Counters - 1) /\ lane.prev

(* The turn of the search with counter i. *)
Turn(lane, i, result) ==
  LET counted == WithShortRow(lane, i, result)
  IN [counted EXCEPT !.prev = result,
                     !.mean = IF LongRow(counted, i, result) THEN Middle(i, counted.pass) ELSE @]

Chosen(lane) == IF lane.mean = 0 THEN lane.alt ELSE lane.mean

(* The two registers a counter is written to, for the second generation of PCIe
   and for the first. *)
Setting(gen2, counter) ==
  LET value == (IF gen2 THEN 260 ELSE 4) + counter * 8
  IN [low |-> value % 256,
      high |-> IF gen2 THEN IF value >= 512 THEN 2 ELSE 1
               ELSE IF value >= 256 THEN 16 ELSE 0]
=============================================================================
