------------------------------ MODULE CpuStarts ------------------------------
(****************************************************************************)
(* What the release of the processors promises, seen from the processors:   *)
(* those of the list start in its order, one at a time and each in the      *)
(* state its program was linked for; one that runs is left alone.           *)
(****************************************************************************)
EXTENDS PartitionHeader

CONSTANT None    \* a processor that does not run

VARIABLES
  entries,       \* the handoff list
  running        \* what each processor started with

Loader == [exec |-> "AA64", entry |-> ZeroAddress, vector |-> 0]

(* A 32-bit processor starts at its vectors, low or high, a 64-bit one at its
   entry. *)
StartFor(e) ==
  IF Is32BitCpu(e.cpu, e.exec)
  THEN [exec |-> "AA32", entry |-> ZeroAddress, vector |-> e.vector]
  ELSE [exec |-> "AA64", entry |-> e.entry, vector |-> 0]

Init ==
  /\ entries \in Seq([cpu: Cpus, exec: {"AA64", "AA32"}, entry: Addresses, vector: 0..1])
  /\ running = [c \in Cpus |-> IF c = RunningCpu THEN Loader ELSE None]

Next ==
  \E n \in DOMAIN entries :
    /\ running[entries[n].cpu] = None
    /\ \A m \in 1..(n - 1) : running[entries[m].cpu] = StartFor(entries[m])
    /\ running' = [running EXCEPT ![entries[n].cpu] = StartFor(entries[n])]
    /\ UNCHANGED entries

Spec == Init /\ [][Next]_<<entries, running>>
==============================================================================
