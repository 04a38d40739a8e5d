----------------------------- MODULE MCQspiCopy -----------------------------
(****************************************************************************)
(* Instances of QspiCopy for TLC.  Sizes are scaled down, their order is    *)
(* kept: a line of 8 bytes, banks of 16, dies of 32, the largest chip has   *)
(* two dies.                                                                *)
(****************************************************************************)
EXTENDS QspiCopy

Board(width, mode, make, chipSize, fourWires) ==
  [width |-> width, mode |-> mode, make |-> make, chipSize |-> chipSize,
   fourWires |-> fourWires]

Modes == {"single", "stacked", "parallel"}

(* Chips with a bank register, below, at and above the size of a bank; and one
   without, where a bank is all there is.  A stacked pair of chips smaller
   than a bank is left out, see the README. *)
Boards24 ==
  {Board(24, mode, make, size, TRUE) :
     mode \in Modes, make \in {"micron", "macronix"}, size \in {16, 32, 64}}
  \cup {Board(24, "single", "micron", 8, FALSE), Board(24, "parallel", "spansion", 64, TRUE),
        Board(24, "single", "winbond", 16, TRUE), Board(24, "single", "issi", 16, TRUE)}

(* A stacked pair has chips of two dies: with one die, a transfer is not cut at
   the end of the lower chip, see the README. *)
Boards32 ==
  {Board(32, mode, make, size, wires) :
     mode \in {"single", "parallel"}, make \in {"spansion", "macronix", "winbond"},
     size \in {32, 64}, wires \in BOOLEAN}
  \cup {Board(32, "stacked", make, 64, TRUE) : make \in {"micron", "winbond"}}

AllBoards == Boards24 \cup Boards32

Copies(sources, dests, lengths) == [src: sources, dest: dests, len: lengths]

(* Sources before, at and after the ends of banks, dies and chips, on the
   even addresses images keep; lengths from nothing to several banks. *)
AroundTheEnds == Copies({0, 12, 16, 26, 30, 34, 48, 62, 96, 120}, {0, 2, 6}, {0, 2, 4, 20, 40})
=============================================================================
