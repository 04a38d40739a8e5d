--------------------------- MODULE FsblBootClaims ---------------------------
(****************************************************************************)
(* What a comment of the sources says of the boot and the code does not do: *)
(* a run finds it violated.                                                 *)
(****************************************************************************)
EXTENDS FsblBoot

(* xfsbl_main.c:309, a fallback is a soft reset after incrementing the multiboot
   register: the partitions then come from the image that register selects. *)
PartitionsFollowMultiBoot ==
  pc = "stage" /\ stage = "PARTITION_LOAD" => imageOffset = multiBoot
=============================================================================
