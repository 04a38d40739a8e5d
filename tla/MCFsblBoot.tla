----------------------------- MODULE MCFsblBoot -----------------------------
(****************************************************************************)
(* Instances of FsblBoot for TLC: the partition kinds and the boot images   *)
(* they make, and the boards they are booted on.                            *)
(****************************************************************************)
EXTENDS FsblBootClaims, SequencesExt

App(cpu, lo) ==
  [ownerIsFsbl |-> TRUE, checksumOk |-> TRUE, cpu |-> cpu, device |-> "PS",
   exec |-> "AA64", vector |-> 0, xip |-> FALSE, lengthsOk |-> TRUE,
   region |-> "DDR", hash |-> "NONE", entry |-> [hi |-> 0, lo |-> lo]]

Firmware(lo) == [App("PMU", lo) EXCEPT !.device = "PMU", !.region = "PMU_RAM"]
Loader == App("A53_0", 1)

Self == App("NONE", 2)                     \* an application for the loader's cpu
SelfAgain == App("A53_0", 3)               \* and one more for the same cpu
SelfHigh == [Self EXCEPT !.entry.hi = 1, !.region = "HIGH_DDR"]
Self32 == [Self EXCEPT !.exec = "AA32"]
Second == App("A53_1", 4)
Third == App("A53_2", 5)
Rpu == [App("R5_0", 6) EXCEPT !.exec = "AA32", !.vector = 1]
RpuInPlace == [App("R5_1", 7) EXCEPT !.xip = TRUE]
FirmwareFirst == Firmware(8)
FirmwareRest == Firmware(0)
FirmwareInPlace == [Firmware(9) EXCEPT !.xip = TRUE]
Bitstream == [App("NONE", 0) EXCEPT !.device = "PL", !.region = "PL_DUMMY"]
Foreign == [App("A53_0", 10) EXCEPT !.ownerIsFsbl = FALSE]
Corrupt == [Self EXCEPT !.checksumOk = FALSE]
BadHeaders == {[Self EXCEPT !.lengthsOk = FALSE], [Self EXCEPT !.region = "NOWHERE"],
               [Self EXCEPT !.hash = "OTHER"], [Self EXCEPT !.cpu = "INVALID"],
               [Self EXCEPT !.device = "INVALID"], [Self EXCEPT !.region = "PMU_RAM"]}

ImageOf(partitions) ==
  [checksumOk |-> TRUE, ppd |-> "SAME", headers |-> <<Loader>> \o partitions]

(* Every image of 1 to n partitions of the given kinds. *)
ImagesOf(kinds, n) == {ImageOf(s) : s \in BoundedSeq(kinds, n) \ {<<>>}}

BadTables ==
  {ImageOf(<<>>), [ImageOf(<<Self>>) EXCEPT !.checksumOk = FALSE],
   [ImageOf(<<Self>>) EXCEPT !.ppd = "INVALID"],
   [ImageOf(<<Self>>) EXCEPT !.ppd = "OTHER_DEVICE"]}

(* The same image at every offset. *)
Everywhere(images) == {[slot \in 0..MaxBoots |-> img] : img \in images}

Board(mode) == [mode |-> mode, cg |-> FALSE]
QspiBoard == {Board("QSPI32")}
AllBoards == {Board("QSPI32"), [mode |-> "QSPI24", cg |-> TRUE], Board("JTAG"),
              Board("SD1"), Board("USB")}

(* Every order of three partitions of the kinds that work. *)
GoodKinds == {Self, SelfAgain, Second, Rpu, RpuInPlace, FirmwareFirst, FirmwareRest,
              Bitstream, Foreign}
ManyImages == Everywhere(ImagesOf(GoodKinds, 3))

(* Every pair with a partition that is refused, and every bad table. *)
OddImages ==
  Everywhere(ImagesOf({Self, Self32, Third, FirmwareInPlace, FirmwareFirst, Corrupt}
                      \cup BadHeaders, 2) \cup BadTables)

(* Images bootgen makes: firmware in one run, its first partition with an
   entry, and at least one application. *)
UsualImages ==
  Everywhere({ImageOf(s) : s \in
    {<<SelfHigh>>, <<FirmwareFirst, FirmwareRest, Self>>, <<Bitstream, Rpu, Second, Self>>,
     <<FirmwareFirst, Bitstream, Self, SelfAgain>>, <<Foreign, Rpu>>}})

(* Images for several boots, with failures of every stage among them, and one of a
   bitstream alone, which has an empty handoff list. *)
RepeatedImages ==
  Everywhere({ImageOf(<<FirmwareFirst, Self>>), ImageOf(<<Bitstream, Rpu, Self>>),
              ImageOf(<<Rpu, Third>>), ImageOf(<<Bitstream>>), ImageOf(<<Corrupt>>),
              [ImageOf(<<Self>>) EXCEPT !.checksumOk = FALSE]})
  \cup UsualImages

AllImages == ManyImages \cup OddImages

(* A small image for the claims. *)
SelfOnly == Everywhere({ImageOf(<<Self>>)})
=============================================================================
