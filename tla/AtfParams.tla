------------------------------ MODULE AtfParams ------------------------------
(****************************************************************************)
(* XFsbl_ReadImageHeader after the check of the table: it copies one        *)
(* partition header after the other and collects the applications that the  *)
(* ARM trusted firmware (ATF) is to load, in a structure the firmware finds *)
(* through general storage 6.                                               *)
(****************************************************************************)
EXTENDS PartitionHeader

CONSTANT Images    \* images whose table was accepted

VARIABLES
  image,           \* in flash
  pc,
  partitionIndex,
  partitionHeader, \* headers copied so far
  numEntries,      \* ATFHandoffParams: NumEntries
  entry,           \* and Entry, zero where nothing was written
  storage6         \* GLOBAL_GEN_STORAGE6 points to the structure

vars == <<image, pc, partitionIndex, partitionHeader, numEntries, entry, storage6>>

XFSBL_MAX_ENTRIES_FOR_ATF == 8

NoEntry == [cpu |-> "A53_0", exec |-> "AA64", entry |-> ZeroAddress]

Init ==
  /\ image \in Images
  /\ pc = "read" /\ partitionIndex = 0 /\ partitionHeader = <<>>
  /\ numEntries = 0 /\ entry = [i \in 0..(XFSBL_MAX_ENTRIES_FOR_ATF - 1) |-> NoEntry]
  /\ storage6 = FALSE

(* Does ATF start this partition? It comes after ATF itself, partition 1. *)
IsForAtf(h, n) ==
  n > 1 /\ h.entry # ZeroAddress /\ DestinationCpu(h) \in A53Cpus

(* XFsbl_SetATFHandoffParameters: the processor is taken from the attribute
   itself, and one without any counts as the last. *)
AtfEntry(h) ==
  [cpu |-> IF h.cpu \in A53Cpus THEN h.cpu ELSE "A53_3", exec |-> h.exec, entry |-> h.entry]

SetATFHandoffParameters(h, entryCount) ==
  IF IsForAtf(h, partitionIndex) /\ entryCount < XFSBL_MAX_ENTRIES_FOR_ATF
  THEN entry' = [entry EXCEPT ![entryCount] = AtfEntry(h)] /\ numEntries' = entryCount + 1
  ELSE UNCHANGED <<entry, numEntries>>

(* One turn of the loop. The counter is declared in it, so it is 0 each time. *)
ReadPartitionHeader ==
  /\ pc = "read" /\ partitionIndex < Len(image.headers)
  /\ LET h == image.headers[partitionIndex + 1]
     IN /\ partitionHeader' = Append(partitionHeader, h)
        /\ SetATFHandoffParameters(h, 0)
  /\ partitionIndex' = partitionIndex + 1
  /\ UNCHANGED <<image, pc, storage6>>

(* A copy from the boot device fails. *)
ReadFails ==
  /\ pc = "read" /\ partitionIndex < Len(image.headers)
  /\ pc' = "failed"
  /\ UNCHANGED <<image, partitionIndex, partitionHeader, numEntries, entry, storage6>>

AllRead ==
  /\ pc = "read" /\ partitionIndex = Len(image.headers)
  /\ storage6' = TRUE /\ pc' = "done"
  /\ UNCHANGED <<image, partitionIndex, partitionHeader, numEntries, entry>>

Next == ReadPartitionHeader \/ ReadFails \/ AllRead

Spec == Init /\ [][Next]_vars

(* xfsbl_image_header.c:399, "After setting handoff parameters of all partitions
   to ATF": once the structure is handed over it has an entry for each partition
   of the image that ATF starts. *)
AtfGetsAllApplications ==
  storage6 =>
    \A n \in DOMAIN partitionHeader :
      LET h == partitionHeader[n]
      IN IsForAtf(h, n - 1) => \E i \in 0..(numEntries - 1) : entry[i].entry = h.entry
==============================================================================
