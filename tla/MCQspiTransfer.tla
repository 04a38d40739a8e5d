--------------------------- MODULE MCQspiTransfer ---------------------------
(* Instances of QspiTransfer for TLC. *)
EXTENDS QspiTransfer

CONSTANT ReadSizes   \* sizes of the reads

Message1(kind, count) == [kind |-> kind, count |-> count]

(* A command alone, an identification, a copy with its dummy cycles, and the
   four messages of a copy in QPI mode. *)
BootTransfers ==
  {<<Message1("TX", 1)>>, <<Message1("TX", 6)>>}
  \cup {<<Message1("TX", 1), Message1("RX", n)>> : n \in {k \in ReadSizes : k < 8}}
  \cup {<<Message1("TX", 5), Message1("DUMMY", 8), Message1("RX", n)>> : n \in ReadSizes}
  \cup {<<Message1("TX", 1), Message1("TX", 4), Message1("DUMMY", 8), Message1("RX", n)>> :
          n \in {k \in ReadSizes : k > 8}}
=============================================================================
