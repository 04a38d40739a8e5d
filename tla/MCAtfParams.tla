--------------------------- MODULE MCAtfParams ---------------------------
(* Images for TLC: the loader, ATF and the programs ATF starts. *)
EXTENDS AtfParams

Program(cpu, lo) ==
  [ownerIsFsbl |-> TRUE, checksumOk |-> TRUE, cpu |-> cpu, device |-> "PS",
   exec |-> "AA64", vector |-> 0, xip |-> FALSE, lengthsOk |-> TRUE,
   region |-> "DDR", hash |-> "NONE", entry |-> [hi |-> 0, lo |-> lo]]

SecureAndNot ==
  {[checksumOk |-> TRUE, ppd |-> "SAME",
    headers |-> <<Program("A53_0", 1), Program("A53_0", 2), Program("A53_0", 3),
                  Program("A53_1", 4)>>]}
=============================================================================
