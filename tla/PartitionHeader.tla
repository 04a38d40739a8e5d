--------------------------- MODULE PartitionHeader ---------------------------
(****************************************************************************)
(* The image header table, the partition headers of a boot image, and the   *)
(* checks xfsbl_image_header.c makes on them before anything is copied.     *)
(****************************************************************************)
EXTENDS FsblCodes, Sequences

A53Cpus == {"A53_0", "A53_1", "A53_2", "A53_3"}
R5Cpus == {"R5_0", "R5_1", "R5_L"}
Cpus == A53Cpus \cup R5Cpus \cup {"PMU"}

RunningCpu == "A53_0"                \* XFsbl_ProcessorInit accepts no other

(* Destination load addresses, by the range they fall in. TCM addresses lie
   below 2 GB and so inside the DDR range, which starts at 0. *)
Regions == {"DDR", "HIGH_DDR", "OCM", "PMU_RAM", "PL_DUMMY", "NOWHERE"}

Addresses == [hi: 0..1, lo: Nat]     \* a 64-bit address, as its two words
ZeroAddress == [hi |-> 0, lo |-> 0]

Header == [ownerIsFsbl: BOOLEAN, checksumOk: BOOLEAN,
           cpu: Cpus \cup {"NONE", "INVALID"},
           device: {"NONE", "PS", "PL", "PMU", "INVALID"},
           exec: {"AA64", "AA32"}, vector: 0..1, xip: BOOLEAN,
           lengthsOk: BOOLEAN, region: Regions,
           hash: {"NONE", "SHA3", "OTHER"}, entry: Addresses]

(* A header slot never written since the loader was copied to OCM: its words
   are 0, and so is its stored checksum, while the inverted sum is not. *)
ZeroHeader == [ownerIsFsbl |-> TRUE, checksumOk |-> FALSE, cpu |-> "NONE",
               device |-> "NONE", exec |-> "AA64", vector |-> 0, xip |-> TRUE,
               lengthsOk |-> TRUE, region |-> "DDR", hash |-> "NONE",
               entry |-> ZeroAddress]

(* A boot image in flash. headers[n + 1] is partition n; partition 0 is the
   loader itself. ppd is the table's partition present device. *)
Image == [checksumOk: BOOLEAN, ppd: {"SAME", "OTHER_DEVICE", "INVALID"},
          headers: Seq(Header)]

(* Mutant: the attribute is used as it stands in the header. *)
DestinationCpuField(h) == h.cpu

(* A partition without a destination cpu is for the cpu that runs the FSBL. *)
DestinationCpu(h) == IF h.cpu = "NONE" THEN RunningCpu ELSE h.cpu

XIH_MIN_PARTITIONS == 1
XIH_MAX_PARTITIONS == 32

(* A table for another device is a success: its partitions are not read. *)
ImageHeaderTableStatus(img) ==
  IF ~img.checksumOk THEN XFSBL_FAILURE
  ELSE IF img.ppd = "INVALID" THEN XFSBL_ERROR_PPD
  ELSE IF img.ppd = "OTHER_DEVICE" THEN XFSBL_SUCCESS
  ELSE IF Len(img.headers) \in (XIH_MIN_PARTITIONS + 1)..XIH_MAX_PARTITIONS
       THEN XFSBL_SUCCESS
  ELSE XFSBL_ERROR_NO_OF_PARTITIONS

ValidMemoryAddress(h) ==
  \/ h.region \in {"DDR", "HIGH_DDR", "OCM"}
  \/ h.region = "PMU_RAM" /\ h.cpu = "PMU"
  \/ h.region = "PL_DUMMY" /\ h.device = "PL"

(* Mutant: a header that cannot be placed is left to somebody else. *)
MisplacedIsForeign(h, reason) ==
  IF ~h.lengthsOk THEN XFSBL_ERROR_PARTITION_LENGTH
  ELSE IF ~ValidMemoryAddress(h) THEN XFSBL_SUCCESS_NOT_PARTITION_OWNER
  ELSE XFSBL_SUCCESS

(* XFsbl_ValidatePartitionHeader: the first check that fails decides. *)
ValidatePartitionHeader(h, reason) ==
  IF reason = XFSBL_MASTER_ONLY_RESET /\ h.cpu \notin A53Cpus
    THEN XFSBL_SUCCESS_NOT_PARTITION_OWNER
  ELSE IF ~h.lengthsOk THEN XFSBL_ERROR_PARTITION_LENGTH
  ELSE IF ~ValidMemoryAddress(h) THEN XFSBL_ERROR_ADDRESS
  ELSE IF h.hash = "OTHER" THEN XFSBL_ERROR_INVALID_CHECKSUM_TYPE
  ELSE IF h.cpu = "INVALID" THEN XFSBL_ERROR_INVALID_CPU_TYPE
  ELSE IF h.device = "INVALID" THEN XFSBL_ERROR_INVALID_DEST_DEVICE
  ELSE XFSBL_SUCCESS

(* XFsbl_PartitionHeaderValidation: integrity, then ownership, then fields. *)
PartitionHeaderStatus(h, reason) ==
  IF ~h.checksumOk THEN XFSBL_ERROR_PH_CHECKSUM_FAILED
  ELSE IF ~h.ownerIsFsbl THEN XFSBL_SUCCESS_NOT_PARTITION_OWNER
  ELSE ValidatePartitionHeader(h, reason)

(* Does the partition name a program to start (an application)? Bitstreams
   and PMU firmware do not, unless they are executed in place. *)
IsApplication(h) ==
  h.xip \/ (h.device # "PL" /\ DestinationCpu(h) # "PMU")

Is32BitCpu(cpu, exec) == cpu \in R5Cpus \/ exec = "AA32"
==============================================================================
