------------------------------ MODULE CpuRelease ------------------------------
(****************************************************************************)
(* XFsbl_HandoffExecute down to its register writes: how the processors of  *)
(* the handoff list get their start settings, power, and are let out of     *)
(* reset. In FsblBoot the release of one processor is one step.             *)
(*                                                                          *)
(* The clocks are enabled since psu_init, so enabling them again is left    *)
(* out, and so are the delays.                                              *)
(****************************************************************************)
EXTENDS PartitionHeader

CONSTANTS
  Lists,         \* handoff lists, with the vector field of the last header
  None           \* a processor that does not run

ASSUME ListsAssumption ==
  Lists \subseteq [entries: Seq([cpu: Cpus, exec: {"AA64", "AA32"}, entry: Addresses,
                                vector: 0..1]),
                   vector: 0..1]

ASSUME NoneAssumption ==
  None \notin [exec: {"AA64", "AA32"}, entry: Addresses, vector: 0..1]

VARIABLES
  pc, index,     \* the loader
  entries,       \* HandoffValues
  lastVector,    \* vector location of the header the loader is at
  cg,            \* the part has two A53 processors only
  vinithi,       \* low or high vectors: RPU_0_CFG, RPU_1_CFG, APU_CONFIG_0
  rvbar, aa64,   \* RVBARADDR, AA64N32
  powered, powerRequest,  \* islands, REQ_PWRUP_STATUS
  resets,        \* resets asserted in RST_FPD_APU and RST_LPD_TOP
  rpuMode,       \* SLSPLIT, TCM_COMB and SLCLAMP of RPU_GLBL_CNTL
  halted,        \* NCPUHALT clear
  running        \* what each processor started with, or None

loaderVars == <<pc, index, entries, lastVector, cg>>
startVars == <<vinithi, rvbar, aa64>>
powerVars == <<powered, powerRequest>>
releaseVars == <<resets, rpuMode, halted>>
vars == <<loaderVars, startVars, powerVars, releaseVars, running>>

Cores == A53Cpus \cup {"R5_0", "R5_1"}
RpuCores == {"R5_0", "R5_1"}

(* The cores a destination cpu stands for. *)
CoresOf(cpu) == IF cpu = "R5_L" THEN RpuCores ELSE {cpu}

Loader == [exec |-> "AA64", entry |-> ZeroAddress, vector |-> 0]

Init ==
  /\ pc = "next" /\ index = 1
  /\ \E list \in Lists : entries = list.entries /\ lastVector = list.vector
  /\ cg \in BOOLEAN
  /\ vinithi = [c \in Cores |-> 0]
  /\ rvbar = [c \in A53Cpus |-> ZeroAddress] /\ aa64 = [c \in A53Cpus |-> TRUE]
  /\ powered = {RunningCpu, "FP", "L2"} /\ powerRequest = {}
  /\ resets = (Cores \ {RunningCpu}) \cup {"AMBA"}
  /\ rpuMode = "lockstep" /\ halted = RpuCores
  /\ running = [c \in Cpus |-> IF c = RunningCpu THEN Loader ELSE None]

Entry == entries[index]
Goto(label) == pc' = label /\ UNCHANGED <<index, entries, lastVector, cg>>
NextEntry == pc' = "next" /\ index' = index + 1 /\ UNCHANGED <<entries, lastVector, cg>>
-----------------------------------------------------------------------------
(* The processors (external: the hardware, as the sequences rely on it). *)

ApuReleased == {c \in A53Cpus : {c, "FP", "L2"} \subseteq powered /\ c \notin resets}

RpuReleased ==
  IF "RPU" \notin powered \/ "AMBA" \in resets THEN {}
  ELSE IF rpuMode = "split" THEN RpuCores \ (resets \cup halted)
  ELSE IF RpuCores \cap (resets \cup halted) = {} THEN {"R5_L"} ELSE {}

Released == ApuReleased \cup RpuReleased

(* What a processor starts with when it is released. The two cores in lockstep
   take the setting of the first. *)
StartState(c) ==
  IF c \in A53Cpus /\ aa64[c]
  THEN [exec |-> "AA64", entry |-> rvbar[c], vector |-> 0]
  ELSE [exec |-> "AA32", entry |-> ZeroAddress,
        vector |-> vinithi[IF c = "R5_L" THEN "R5_0" ELSE c]]

Processors ==
  running' = [c \in Cpus |->
    IF c \notin Released' THEN None
    ELSE IF c \in Released THEN running[c] ELSE StartState(c)']
-----------------------------------------------------------------------------
CheckSupportedCpu(c) == ~(cg /\ c \in {"A53_2", "A53_3"})

(* The head of the loop. The call for power-up alone has no effect. *)
TakeEntry ==
  /\ pc = "next"
  /\ Goto(IF index > Len(entries) THEN "done"
          ELSE IF Entry.cpu = RunningCpu
               THEN IF Entry.exec = "AA32" THEN "error" ELSE "left"
          ELSE IF CheckSupportedCpu(Entry.cpu) THEN "vector" ELSE "error")
  /\ UNCHANGED <<startVars, powerVars, releaseVars>>

(* Mutant: the vectors of the second core are set as those of the first. *)
FirstCoreVector(cpu) == IF cpu \in R5Cpus THEN {"R5_0"} ELSE {cpu} \cap A53Cpus

(* The core whose low or high vectors are set: the first for a lockstep pair,
   since the branch for the second core is behind it. *)
VectorCore(cpu) == IF cpu = "R5_L" THEN {"R5_0"} ELSE {cpu} \cap Cores

(* XFsbl_UpdateResetVector. *)
SetVector ==
  /\ pc = "vector"
  /\ vinithi' = [c \in Cores |->
       IF Is32BitCpu(Entry.cpu, Entry.exec) /\ c \in VectorCore(Entry.cpu)
       THEN lastVector ELSE vinithi[c]]
  /\ Goto(IF Is32BitCpu(Entry.cpu, Entry.exec) THEN "dispatch" ELSE "rvbar_low")
  /\ UNCHANGED <<rvbar, aa64, powerVars, releaseVars>>

(* Only an A53 has the registers: for the PMU the two words go to address 0. *)
SetRvbar(word, next) ==
  /\ rvbar' = [c \in A53Cpus |->
       IF c = Entry.cpu THEN [rvbar[c] EXCEPT ![word] = Entry.entry[word]] ELSE rvbar[c]]
  /\ Goto(next)
  /\ UNCHANGED <<vinithi, aa64, powerVars, releaseVars>>

SetRvbarLow == pc = "rvbar_low" /\ SetRvbar("lo", "rvbar_high")
SetRvbarHigh == pc = "rvbar_high" /\ SetRvbar("hi", "dispatch")

(* XFsbl_power_up_reset_cpu: the firmware processor is none of its cases. *)
Dispatch ==
  /\ pc = "dispatch"
  /\ Goto(IF Entry.cpu = "PMU" THEN "error" ELSE "power")
  /\ UNCHANGED <<startVars, powerVars, releaseVars>>
-----------------------------------------------------------------------------
(* Mutant: the island of each R5 core is asked for, though they share one. *)
OwnIslands(cpu) == IF cpu \in A53Cpus THEN {cpu, "FP", "L2"} ELSE {cpu}

Islands(cpu) == IF cpu \in A53Cpus THEN {cpu, "FP", "L2"} ELSE {"RPU"}

(* XFsbl_PowerUpIsland: enable and trigger the request, poll its status. *)
RequestPower ==
  /\ pc = "power"
  /\ powerRequest' = powerRequest \cup Islands(Entry.cpu)
  /\ Goto("poll")
  /\ UNCHANGED <<startVars, powered, releaseVars>>

(* Mutant: one island is enough. *)
PollOne ==
  /\ pc = "poll" /\ ~(Islands(Entry.cpu) \subseteq powerRequest)
  /\ Goto("mode")
  /\ UNCHANGED <<startVars, powerVars, releaseVars>>

PollPower ==
  /\ pc = "poll" /\ powerRequest \cap Islands(Entry.cpu) = {}
  /\ Goto("mode")
  /\ UNCHANGED <<startVars, powerVars, releaseVars>>

(* The PMU powers the islands one by one (external). It knows one for the RPU. *)
PmuPowersUp ==
  /\ \E i \in powerRequest \cap (A53Cpus \cup {"FP", "L2", "RPU"}) :
       powered' = powered \cup {i} /\ powerRequest' = powerRequest \ {i}
  /\ UNCHANGED <<loaderVars, startVars, releaseVars>>
-----------------------------------------------------------------------------
(* The rest of power_up_reset_a53_n and power_up_reset_r5_x. *)

SetExecState ==
  /\ pc = "mode" /\ Entry.cpu \in A53Cpus
  /\ aa64' = [aa64 EXCEPT ![Entry.cpu] = @ /\ Entry.exec # "AA32"]
  /\ Goto("reset")
  /\ UNCHANGED <<vinithi, rvbar, powerVars, releaseVars>>

(* Split mode for one core, safe mode for the pair. *)
SetRpuMode ==
  /\ pc = "mode" /\ Entry.cpu \in R5Cpus
  /\ rpuMode' = IF Entry.cpu = "R5_L" THEN "lockstep" ELSE "split"
  /\ Goto(IF Entry.cpu = "R5_1" THEN "halt_1" ELSE "halt_0")
  /\ UNCHANGED <<startVars, powerVars, resets, halted>>

Halt ==
  /\ \/ pc = "halt_0" /\ halted' = halted \cup {"R5_0"}
        /\ Goto(IF Entry.cpu = "R5_L" THEN "halt_1" ELSE "reset")
     \/ pc = "halt_1" /\ halted' = halted \cup {"R5_1"} /\ Goto("reset")
  /\ UNCHANGED <<startVars, powerVars, resets, rpuMode>>

(* The reset of the L2 cache or of the bus of the RPU ends with the first core
   that needs it. *)
ReleaseReset ==
  /\ pc = "reset"
  /\ resets' = resets \ (CoresOf(Entry.cpu) \cup {IF Entry.cpu \in A53Cpus THEN "L2" ELSE "AMBA"})
  /\ CASE Entry.cpu \in A53Cpus -> NextEntry
       [] Entry.cpu = "R5_1" -> Goto("unhalt_1")
       [] OTHER -> Goto("unhalt_0")
  /\ UNCHANGED <<startVars, powerVars, rpuMode, halted>>

Unhalt ==
  /\ \/ pc = "unhalt_0" /\ halted' = halted \ {"R5_0"}
        /\ IF Entry.cpu = "R5_L" THEN Goto("unhalt_1") ELSE NextEntry
     \/ pc = "unhalt_1" /\ halted' = halted \ {"R5_1"} /\ NextEntry
  /\ UNCHANGED <<startVars, powerVars, resets, rpuMode>>
-----------------------------------------------------------------------------
HandoffExecute ==
  \/ TakeEntry \/ SetVector \/ SetRvbarLow \/ SetRvbarHigh \/ Dispatch
  \/ RequestPower \/ PollPower
  \/ SetExecState \/ SetRpuMode \/ Halt \/ ReleaseReset \/ Unhalt

Next == (HandoffExecute \/ PmuPowersUp) /\ Processors

Spec == Init /\ [][Next]_vars

(* The loader runs on, and the PMU serves the requests for power. *)
FairSpec ==
  Spec /\ WF_vars(HandoffExecute /\ Processors) /\ WF_vars(PmuPowersUp /\ Processors)
-----------------------------------------------------------------------------
(* Properties. *)

Ended == {"done", "left", "error"}
Labels == Ended \cup {"next", "vector", "rvbar_low", "rvbar_high", "dispatch", "power", "poll",
                      "mode", "halt_0", "halt_1", "reset", "unhalt_0", "unhalt_1"}
StartStates == [exec: {"AA64", "AA32"}, entry: Addresses, vector: 0..1]

(* Every variable has its type. *)
ReleaseTypeOK ==
  /\ pc \in Labels /\ index \in 1..(Len(entries) + 1)
  /\ lastVector \in 0..1 /\ cg \in BOOLEAN
  /\ vinithi \in [Cores -> 0..1]
  /\ rvbar \in [A53Cpus -> Addresses] /\ aa64 \in [A53Cpus -> BOOLEAN]
  /\ powered \subseteq A53Cpus \cup {"FP", "L2", "RPU"}
  /\ powerRequest \subseteq A53Cpus \cup {"FP", "L2", "RPU"}
  /\ resets \subseteq Cores \cup {"L2", "AMBA"}
  /\ rpuMode \in {"split", "lockstep"} /\ halted \subseteq RpuCores
  /\ running \in [Cpus -> StartStates \cup {None}]

(* The processors start in the order of the list, one at a time, each in the
   state it is meant to start in, and no register written for a later one stops
   or restarts one that runs. *)
Starts == INSTANCE CpuStarts

StartsAsListed == Starts!Spec

(* No core leaves reset before all islands it needs have power: XFsbl_PowerUpIsland
   waits for each of them, in whatever order the PMU serves them. *)
PoweredBeforeReset ==
  \A c \in Cores \ resets : Islands(c) \subseteq powered

(* The release ends, with every processor of the list started unless the list
   names one that cannot be, or the loader's own. *)
ReleaseEnds ==
  /\ <>(pc \in Ended)
  /\ [](pc = "done" => \A n \in DOMAIN entries : running[entries[n].cpu] # None)

(* xfsbl_handoff.c:632, "Put R5 or A53-32 in Lovec/Hivec": each where its own
   partition header says. *)
VectorsAsListed ==
  \A n \in DOMAIN entries :
    LET e == entries[n]
    IN running[e.cpu] # None /\ e.cpu # RunningCpu /\ Is32BitCpu(e.cpu, e.exec)
         => running[e.cpu].vector = e.vector
==============================================================================
