------------------------------ MODULE FsblBoot ------------------------------
(****************************************************************************)
(* The boot loader as the state machine of main() in xfsbl_main.c: it       *)
(* initialises the system and the boot device, loads the partitions of the  *)
(* image one by one, starts the processors they are for and leaves for its  *)
(* own application, or records an error and falls back to another image.    *)
(* Beside it run the PMU, which the loader puts to sleep and wakes around   *)
(* a firmware download, and the resets of the board.                        *)
(*                                                                          *)
(* A step of the loader is the code between two points where the PMU, an    *)
(* exception or a reset may come in. pc names the point: "stage" is the     *)
(* dispatch loop of main(), the others lie inside a stage or past the end.  *)
(****************************************************************************)
EXTENDS PartitionHeader, FiniteSets

CONSTANTS
  Boards,          \* the boards: boot mode pins, and CG parts without A53_2/3
  FlashContents,   \* what the flash may hold: an image at each 32 KB offset
  FwStaysPresent,  \* does FW_IS_PRESENT survive the sleep of the PMU?
  MaxBoots         \* bound: resets after the power-on

ASSUME BoardsAssumption == Boards \subseteq [mode: BootModes, cg: BOOLEAN]
ASSUME PmuAssumption == FwStaysPresent \in BOOLEAN
ASSUME MaxBootsAssumption == MaxBoots \in Nat
ASSUME FlashAssumption == FlashContents \subseteq [0..MaxBoots -> Image]

Stages == {"SYSTEM_INIT", "PRIMARY_BOOT_DEVICE_INIT", "PARTITION_LOAD",
           "HANDOFF", "ERR", "POST_HANDOFF"}
Running == {"stage", "copy", "wait_sleep", "device_copy", "validate",
            "wait_wake", "execute"}
Stopped == {"reset_wait", "spin", "wfe", "app"}
ResetCauses == {"POR", "SOFT", "WDT", "SYSTEM", "PS_ONLY", "APU_ONLY"}

VARIABLES
  board, flash,    \* never change
  (* registers and hardware that outlive the loader *)
  multiBoot,       \* CSU_MULTI_BOOT
  errorReg,        \* error status register (PERS_GLOB_GEN_STORAGE4)
  execDone,        \* XFSBL_EXEC_COMPLETED in GLOB_GEN_STORAGE5
  psOnlyReset,     \* PS-only bit of RESET_REASON
  apuReset,        \* APU restart bit of GLOB_GEN_STORAGE4
  irqPending,      \* interrupts left pending by the previous run of the APU
  pmu,             \* the PMU processor
  cause, boots,    \* history: the last reset, and how many there were
  (* FsblStagesVal and FsblInstance *)
  pc, stage, status, partitionNum,
  resetReason, imageOffset, noOfPartitions, headers,
  handoff,         \* HandoffValues, of length HandoffCpuNo
  cpuIndex,        \* the local of XFsbl_HandoffExecute
  (* history of this boot *)
  loaded,          \* partitions whose copy completed
  started          \* processors released, in order, with their start state

boardVars == <<board, flash>>
hwVars == <<multiBoot, errorReg, execDone, psOnlyReset, apuReset, irqPending>>
bootVars == <<cause, boots>>
imageVars == <<resetReason, imageOffset, noOfPartitions, headers>>
stageVars == <<pc, stage, status, partitionNum>>
handoffVars == <<handoff, cpuIndex, loaded, started>>
vars == <<boardVars, hwVars, pmu, bootVars, stageVars, imageVars, handoffVars>>

PmuState == [mode: {"run", "sleep"}, ipi: BOOLEAN, wake: BOOLEAN, fw: BOOLEAN]

(* The PMU after power-on: the CSU ROM may have loaded its firmware. *)
PowerOnPmu == [mode: {"run"}, ipi: {FALSE}, wake: {FALSE}, fw: BOOLEAN]

Init ==
  /\ board \in Boards /\ flash \in FlashContents
  /\ multiBoot = 0 /\ errorReg = XFSBL_COMPLETED /\ execDone = FALSE
  /\ psOnlyReset = FALSE /\ apuReset = 0 /\ irqPending = FALSE
  /\ pmu \in PowerOnPmu
  /\ cause = "POR" /\ boots = 0
  /\ pc = "stage" /\ stage = "SYSTEM_INIT" /\ status = XFSBL_SUCCESS /\ partitionNum = 0
  /\ resetReason = XFSBL_SYSTEM_RESET /\ imageOffset = 0 /\ noOfPartitions = 0
  /\ headers = <<>> /\ handoff = <<>> /\ cpuIndex = 1
  /\ loaded = {} /\ started = <<>>
-----------------------------------------------------------------------------
(* Stage 1: XFsbl_Initialize. *)

(* Only the PS-only bit and the APU bit are looked at, and both give 1. *)
GetResetReason == IF psOnlyReset THEN XFSBL_PS_ONLY_RESET ELSE apuReset

(* Mutant: the register is left as the previous boot wrote it. *)
ResetNotValidated(register) == register

(* XFsbl_ResetValidation marks the loader running, whatever the register holds. *)
ResetValidation(register) == XFSBL_RUNNING

(* A master-only reset skips the bring-up of the system, which may fail, and
   the reset validation at its end; it alone clears pending interrupts. *)
Initialize ==
  /\ pc = "stage" /\ stage = "SYSTEM_INIT"
  /\ resetReason' = GetResetReason
  /\ psOnlyReset' = FALSE
  /\ LET masterOnly == resetReason' = XFSBL_MASTER_ONLY_RESET
     IN \E fault \in {XFSBL_SUCCESS} \cup (IF masterOnly THEN {} ELSE BringUpFaults) :
          /\ status' = STAGE_1 + fault
          /\ stage' = IF fault = XFSBL_SUCCESS THEN "PRIMARY_BOOT_DEVICE_INIT" ELSE "ERR"
          /\ errorReg' = IF fault = XFSBL_SUCCESS /\ ~masterOnly
                         THEN ResetValidation(errorReg) ELSE errorReg
          /\ irqPending' = (irqPending /\ ~masterOnly)
  /\ UNCHANGED <<boardVars, multiBoot, execDone, apuReset, pmu, bootVars, pc,
                 partitionNum, imageOffset, noOfPartitions, headers, handoffVars>>
-----------------------------------------------------------------------------
(* Stage 2: XFsbl_BootDeviceInit. *)

(* retrieveBootHeader computes the multiboot offset, then overwrites it. In
   units of XFSBL_IMAGE_SEARCH_OFFSET. *)
ImageOffsetAddress(multi) == 0

(* What XFsbl_BootDeviceInit may return, and the image header it reads: the
   flash driver can fail as it starts and at every copy. *)
BootDeviceStatuses(img) ==
  IF board.mode = "JTAG" THEN {XFSBL_STATUS_JTAG}
  ELSE IF board.mode \notin DriverModes THEN {XFSBL_ERROR_UNSUPPORTED_BOOT_MODE}
  ELSE DeviceInitFaults \cup DeviceCopyFaults \cup {ImageHeaderTableStatus(img)}

BootDeviceInit ==
  /\ pc = "stage" /\ stage = "PRIMARY_BOOT_DEVICE_INIT"
  /\ imageOffset' = ImageOffsetAddress(multiBoot)
  /\ LET img == flash[imageOffset']
     IN \E s \in BootDeviceStatuses(img) :
          \/ /\ s = XFSBL_STATUS_JTAG
             /\ status' = s /\ stage' = "HANDOFF"
             /\ UNCHANGED <<partitionNum, noOfPartitions, headers>>
          \/ /\ s = XFSBL_SUCCESS
             /\ status' = s /\ stage' = "PARTITION_LOAD"
             /\ partitionNum' = 1
             /\ noOfPartitions' = Len(img.headers)
             /\ headers' = IF img.ppd = "SAME" THEN img.headers ELSE <<>>
          \/ /\ s \notin {XFSBL_STATUS_JTAG, XFSBL_SUCCESS}
             /\ status' = STAGE_2 + s /\ stage' = "ERR"
             /\ UNCHANGED <<partitionNum, noOfPartitions, headers>>
  /\ UNCHANGED <<boardVars, hwVars, pmu, bootVars, pc, resetReason, handoffVars>>
-----------------------------------------------------------------------------
(* Stage 3: XFsbl_PartitionLoad. *)

PartitionHeaderOf(n) == IF n + 1 \in DOMAIN headers THEN headers[n + 1] ELSE ZeroHeader
CurrentHeader == PartitionHeaderOf(partitionNum)

(* Mutant: the loop over the partitions ends one too early. *)
LastPartitionForgotten ==
  /\ pc' = "stage" /\ status' = XFSBL_SUCCESS
  /\ IF partitionNum + 1 < noOfPartitions - 1
     THEN partitionNum' = partitionNum + 1 /\ UNCHANGED stage
     ELSE stage' = "HANDOFF" /\ UNCHANGED partitionNum

(* load_artifacts after a success: the next partition, or the handoff. *)
PartitionDone ==
  /\ pc' = "stage"
  /\ status' = XFSBL_SUCCESS
  /\ IF partitionNum < noOfPartitions - 1
     THEN partitionNum' = partitionNum + 1 /\ UNCHANGED stage
     ELSE stage' = "HANDOFF" /\ UNCHANGED partitionNum

PartitionFails(s) ==
  /\ pc' = "stage" /\ stage' = "ERR" /\ status' = STAGE_3 + s
  /\ UNCHANGED partitionNum

Goto(label) == pc' = label /\ UNCHANGED <<stage, status, partitionNum>>

PartitionHeaderValidation ==
  /\ pc = "stage" /\ stage = "PARTITION_LOAD"
  /\ LET s == PartitionHeaderStatus(CurrentHeader, resetReason)
     IN \/ s = XFSBL_SUCCESS /\ Goto("copy")
        \/ s = XFSBL_SUCCESS_NOT_PARTITION_OWNER /\ PartitionDone
        \/ /\ s \notin {XFSBL_SUCCESS, XFSBL_SUCCESS_NOT_PARTITION_OWNER}
           /\ PartitionFails(s)
  /\ UNCHANGED <<boardVars, hwVars, pmu, bootVars, imageVars, handoffVars>>

(* Mutant: the list is not searched. *)
NeverListed(list, c) == TRUE

(* TRUE when the cpu has no handoff address yet. *)
CheckHandoffCpu(list, c) == \A i \in DOMAIN list : list[i].cpu # c

(* What the list keeps of a partition. *)
HandoffEntry(h) == [cpu |-> DestinationCpu(h), exec |-> h.exec, entry |-> h.entry]

(* Mutant: a later application of the same cpu takes over its entry. *)
LastApplicationWins(h) ==
  handoff' = IF CheckHandoffCpu(handoff, DestinationCpu(h))
             THEN Append(handoff, HandoffEntry(h))
             ELSE [i \in DOMAIN handoff |-> IF handoff[i].cpu = DestinationCpu(h)
                                           THEN HandoffEntry(h) ELSE handoff[i]]

(* Only the first application of a cpu gives its handoff address. *)
RecordHandoff(h) ==
  handoff' = IF CheckHandoffCpu(handoff, DestinationCpu(h))
             THEN Append(handoff, HandoffEntry(h)) ELSE handoff

SkipsBitstream(h) == h.device = "PL" /\ resetReason = XFSBL_PS_ONLY_RESET

(* Mutant: the test for the first firmware partition is inverted. *)
SignalsForTheRest(h) == h.entry = ZeroAddress

(* The IPI that sends the PMU to sleep is raised for the first partition of the
   firmware, taken to be the one with an entry. *)
SignalsPmu(h) == h.entry # ZeroAddress

(* XFsbl_PartitionCopy up to the copy. *)
PartitionCopy ==
  /\ pc = "copy"
  /\ LET h == CurrentHeader
     IN \/ h.xip /\ RecordHandoff(h) /\ Goto("validate") /\ UNCHANGED pmu
        \/ /\ ~h.xip /\ SkipsBitstream(h)
           /\ Goto("validate") /\ UNCHANGED <<handoff, pmu>>
        \/ /\ ~h.xip /\ ~SkipsBitstream(h) /\ h.cpu = "PMU"
           /\ pmu' = [pmu EXCEPT !.ipi = @ \/ SignalsPmu(h)]
           /\ Goto("wait_sleep") /\ UNCHANGED handoff
        \/ /\ ~h.xip /\ ~SkipsBitstream(h) /\ h.cpu # "PMU"
           /\ Goto("device_copy") /\ UNCHANGED <<handoff, pmu>>
  /\ UNCHANGED <<boardVars, hwVars, bootVars, imageVars, cpuIndex, loaded, started>>

(* Mutant: the copy starts without waiting. *)
NoWaitForSleep ==
  /\ pc = "wait_sleep"
  /\ Goto("device_copy")
  /\ UNCHANGED <<boardVars, hwVars, pmu, bootVars, imageVars, handoffVars>>

(* The busy wait for the PMU to sleep. *)
WaitPmuSleep ==
  /\ pc = "wait_sleep" /\ pmu.mode = "sleep"
  /\ Goto("device_copy")
  /\ UNCHANGED <<boardVars, hwVars, pmu, bootVars, imageVars, handoffVars>>

(* DeviceOps.DeviceCopy of the whole partition. *)
DeviceCopy ==
  /\ pc = "device_copy"
  /\ \/ loaded' = loaded \cup {partitionNum} /\ Goto("validate")
     \/ \E fault \in DeviceCopyFaults : PartitionFails(fault) /\ UNCHANGED loaded
  /\ UNCHANGED <<boardVars, hwVars, pmu, bootVars, imageVars, handoff, cpuIndex, started>>

(* Mutant: every firmware partition counts as the last. *)
EveryFirmwareIsLast(n) == PartitionHeaderOf(n).cpu = "PMU"

(* XFsbl_CheckPmuFw: the last partition of a run of firmware partitions. *)
PmuFwLoadDone(n) ==
  /\ PartitionHeaderOf(n).cpu = "PMU"
  /\ n + 1 <= noOfPartitions - 1 => PartitionHeaderOf(n + 1).cpu # "PMU"

(* XFsbl_PartitionValidation, then XFsbl_CheckPmuFw up to its wait. *)
PartitionValidation ==
  /\ pc = "validate"
  /\ LET h == CurrentHeader
     IN IF h.device # "PL" /\ DestinationCpu(h) # "PMU"
        THEN RecordHandoff(h) ELSE UNCHANGED handoff
  /\ IF PmuFwLoadDone(partitionNum)
     THEN pmu' = [pmu EXCEPT !.wake = TRUE] /\ Goto("wait_wake")
     ELSE PartitionDone /\ UNCHANGED pmu
  /\ UNCHANGED <<boardVars, hwVars, bootVars, imageVars, cpuIndex, loaded, started>>

(* The busy wait for the firmware to announce itself. *)
WaitPmuWake ==
  /\ pc = "wait_wake" /\ pmu.fw
  /\ PartitionDone
  /\ UNCHANGED <<boardVars, hwVars, pmu, bootVars, imageVars, handoffVars>>
-----------------------------------------------------------------------------
(* Stage 4: XFsbl_Handoff. *)

HandoffFails(s) ==
  /\ pc' = "stage" /\ stage' = "ERR" /\ status' = HANDOFF_FAILED + s
  /\ UNCHANGED partitionNum

(* XFsbl_Handoff up to XFsbl_HandoffExecute. XFsbl_PmInit talks to the PMU
   firmware if there is one, and can fail. In JTAG mode the loader leaves
   here; on the emulation platform without setting the completion bit. *)
Handoff ==
  /\ pc = "stage" /\ stage = "HANDOFF"
  /\ \/ /\ resetReason # XFSBL_MASTER_ONLY_RESET /\ pmu.fw
        /\ HandoffFails(XFSBL_ERROR_PM_INIT)
        /\ UNCHANGED <<errorReg, execDone, cpuIndex>>
     \/ /\ board.mode = "JTAG"
        /\ errorReg' = XFSBL_COMPLETED
        /\ execDone' \in {execDone, TRUE}
        /\ Goto("wfe") /\ UNCHANGED cpuIndex
     \/ /\ board.mode # "JTAG"
        /\ errorReg' = XFSBL_COMPLETED
        /\ cpuIndex' = 1
        /\ Goto("execute") /\ UNCHANGED execDone
  /\ UNCHANGED <<boardVars, multiBoot, psOnlyReset, apuReset, irqPending, pmu,
                 bootVars, imageVars, handoff, loaded, started>>

CheckSupportedCpu(c) == ~(board.cg /\ c \in {"A53_2", "A53_3"})

(* What the checks on another processor say; the firmware cannot be released
   like one, and powering up an island never fails. *)
ReleaseStatus(c) ==
  IF ~CheckSupportedCpu(c) THEN XFSBL_ERROR_UNAVAILABLE_CPU
  ELSE IF c = "PMU" THEN XFSBL_ERROR_HANDOFF_FAILED_CPUID
  ELSE XFSBL_SUCCESS

(* How a processor starts: a 64-bit A53 at its entry through RVBARADDR, a
   32-bit one at the vectors the current partition header selects. *)
StartState(e) ==
  [cpu |-> e.cpu,
   entry |-> IF Is32BitCpu(e.cpu, e.exec) THEN ZeroAddress ELSE e.entry,
   vector |-> IF Is32BitCpu(e.cpu, e.exec) THEN CurrentHeader.vector ELSE 0]

(* One turn of the loop of XFsbl_HandoffExecute for another processor. *)
ReleaseCpu ==
  /\ pc = "execute" /\ cpuIndex <= Len(handoff)
  /\ LET e == handoff[cpuIndex]
     IN /\ e.cpu # RunningCpu
        /\ \/ /\ ReleaseStatus(e.cpu) = XFSBL_SUCCESS
              /\ started' = Append(started, StartState(e))
              /\ cpuIndex' = cpuIndex + 1
              /\ Goto("execute")
           \/ /\ ReleaseStatus(e.cpu) # XFSBL_SUCCESS
              /\ HandoffFails(ReleaseStatus(e.cpu))
              /\ UNCHANGED <<started, cpuIndex>>
  /\ UNCHANGED <<boardVars, hwVars, pmu, bootVars, imageVars, handoff, loaded>>

(* The address goes through the u32 parameter of handoff_within_running_core. *)
SelfEntry(address) == [hi |-> 0, lo |-> address.lo]

(* The turn for the loader's own processor, which does not come back. *)
HandoffSelf ==
  /\ pc = "execute" /\ cpuIndex <= Len(handoff)
  /\ LET e == handoff[cpuIndex]
     IN /\ e.cpu = RunningCpu
        /\ \/ /\ e.exec = "AA32"
              /\ HandoffFails(XFSBL_ERROR_UNSUPPORTED_HANDOFF)
              /\ UNCHANGED <<execDone, started>>
           \/ /\ e.exec = "AA64"
              /\ execDone' = TRUE
              /\ started' = Append(started, [cpu |-> e.cpu, entry |-> SelfEntry(e.entry),
                                             vector |-> 0])
              /\ Goto("app")
  /\ UNCHANGED <<boardVars, multiBoot, errorReg, psOnlyReset, apuReset, irqPending,
                 pmu, bootVars, imageVars, handoff, cpuIndex, loaded>>

(* With no processor in the list the result is never assigned: an arbitrary
   word, of which main() tells these four apart. XFSBL_FAILURE stands for every
   other one (its sum with the stage offset is taken to be no mark of the register). *)
HandoffResults ==
  IF handoff = <<>>
  THEN {XFSBL_SUCCESS, STATUS_PARTITION_LOAD_IN_PROGRESS,
        XFSBL_STATUS_CONTINUE_OTHER_HANDOFF, XFSBL_FAILURE}
  ELSE {XFSBL_SUCCESS}

(* The end of the loop, and what perform_handoff makes of the result. *)
HandoffDone ==
  /\ pc = "execute" /\ cpuIndex > Len(handoff)
  /\ \E s \in HandoffResults :
       \/ /\ s = XFSBL_FAILURE /\ HandoffFails(s)
       \/ /\ s # XFSBL_FAILURE
          /\ pc' = "stage" /\ status' = s
          /\ stage' = CASE s = STATUS_PARTITION_LOAD_IN_PROGRESS -> "PARTITION_LOAD"
                        [] s = XFSBL_STATUS_CONTINUE_OTHER_HANDOFF -> "HANDOFF"
                        [] OTHER -> "POST_HANDOFF"
          /\ partitionNum' = IF s = STATUS_PARTITION_LOAD_IN_PROGRESS
                             THEN partitionNum + 1 ELSE partitionNum
  /\ UNCHANGED <<boardVars, hwVars, pmu, bootVars, imageVars, handoffVars>>

(* XFsbl_HandoffExit without an application: wait for events for ever. *)
PostHandoff ==
  /\ pc = "stage" /\ stage = "POST_HANDOFF"
  /\ execDone' = TRUE
  /\ Goto("wfe")
  /\ UNCHANGED <<boardVars, multiBoot, errorReg, psOnlyReset, apuReset, irqPending,
                 pmu, bootVars, imageVars, handoffVars>>
-----------------------------------------------------------------------------
(* Errors. *)

(* XFsbl_ErrorLockDown: record the code, then request a soft reset into the
   next image, or give up where the boot mode has no fallback. *)
ErrorLockDown(code) ==
  /\ errorReg' = code
  /\ IF board.mode \in FallbackModes
     THEN /\ multiBoot' = multiBoot + 1
          /\ Goto(IF resetReason # XFSBL_MASTER_ONLY_RESET THEN "reset_wait" ELSE "spin")
          /\ UNCHANGED execDone
     ELSE /\ execDone' = TRUE
          /\ Goto("wfe")
          /\ UNCHANGED multiBoot
  /\ UNCHANGED <<boardVars, psOnlyReset, apuReset, irqPending, pmu, bootVars,
                 imageVars, handoffVars>>

StageErr == pc = "stage" /\ stage = "ERR" /\ ErrorLockDown(status)

(* A fault or an unexpected interrupt while the loader runs. The handlers are
   registered in stage 1. *)
Exception ==
  /\ pc \in Running /\ stage # "SYSTEM_INIT"
  /\ \E code \in ExceptionCodes : ErrorLockDown(code)
-----------------------------------------------------------------------------
(* The PMU (external: its ROM and firmware, as the loader relies on them). *)

PmuUnchanged ==
  UNCHANGED <<boardVars, hwVars, bootVars, stageVars, imageVars, handoffVars>>

(* It answers the IPI by going to sleep. *)
PmuSleep ==
  /\ pmu.mode = "run" /\ pmu.ipi
  /\ pmu' = [mode |-> "sleep", ipi |-> FALSE, wake |-> FALSE,
             fw |-> pmu.fw /\ FwStaysPresent]
  /\ PmuUnchanged

(* Woken, it runs what is in its RAM, which announces itself. *)
PmuStart ==
  /\ pmu.mode = "sleep" /\ pmu.wake
  /\ pmu' = [pmu EXCEPT !.mode = "run", !.wake = FALSE, !.fw = TRUE]
  /\ PmuUnchanged
-----------------------------------------------------------------------------
(* Resets of the board (external). *)

(* The BootROM or the PMU firmware starts a fresh copy of the loader. *)
LoaderRestarts ==
  /\ pc' = "stage" /\ stage' = "SYSTEM_INIT" /\ status' = XFSBL_SUCCESS /\ partitionNum' = 0
  /\ resetReason' = XFSBL_SYSTEM_RESET /\ imageOffset' = 0 /\ noOfPartitions' = 0
  /\ headers' = <<>> /\ handoff' = <<>> /\ cpuIndex' = 1
  /\ loaded' = {} /\ started' = <<>>

(* multiBoot, errorReg and the sticky PS-only bit survive every reset, the PMU
   and its general storage those of the PS or the APU alone. *)
Reset(c) ==
  /\ boots < MaxBoots /\ boots' = boots + 1
  /\ cause' = c
  /\ LoaderRestarts
  /\ UNCHANGED <<boardVars, multiBoot, errorReg>>
  /\ psOnlyReset' = (psOnlyReset \/ c = "PS_ONLY")
  /\ IF c \in {"PS_ONLY", "APU_ONLY"}
     THEN /\ apuReset' = IF c = "APU_ONLY" THEN 1 ELSE 0
          /\ irqPending' \in {c = "APU_ONLY", FALSE}
          /\ UNCHANGED <<execDone, pmu>>
     ELSE /\ apuReset' = 0 /\ irqPending' = FALSE
          /\ execDone' = FALSE
          /\ pmu' \in PowerOnPmu

(* The reset the loader asked for. *)
SoftReset == pc = "reset_wait" /\ Reset("SOFT")

(* The watchdog expires while the loader, or a program it started, runs. *)
WatchdogReset == pc \in Running \cup {"app"} /\ Reset("WDT")

(* Resets asked for by the software that runs after the loader. *)
SystemReset ==
  /\ pc \in {"app", "wfe"}
  /\ \E c \in {"SYSTEM", "PS_ONLY", "APU_ONLY"} : Reset(c)
-----------------------------------------------------------------------------
FsblStep ==
  \/ Initialize \/ BootDeviceInit
  \/ PartitionHeaderValidation \/ PartitionCopy \/ WaitPmuSleep \/ DeviceCopy
  \/ PartitionValidation \/ WaitPmuWake
  \/ Handoff \/ ReleaseCpu \/ HandoffSelf \/ HandoffDone \/ PostHandoff
  \/ StageErr

Next ==
  \/ FsblStep \/ Exception
  \/ PmuSleep \/ PmuStart
  \/ SoftReset \/ WatchdogReset \/ SystemReset

Spec == Init /\ [][Next]_vars

(* The loader is one processor that never blocks; the PMU answers its signals,
   and a soft reset that was requested happens. *)
Fairness ==
  /\ WF_vars(FsblStep) /\ WF_vars(PmuSleep) /\ WF_vars(PmuStart)
  /\ WF_vars(SoftReset)

FairSpec == Spec /\ Fairness
-----------------------------------------------------------------------------
(* Properties. *)

HandoffValue == [cpu: Cpus, exec: {"AA64", "AA32"}, entry: Addresses]

(* Every variable has its type: no word the loader keeps is outside its range. *)
HardwareTypeOK ==
  /\ board \in [mode: BootModes, cg: BOOLEAN] /\ flash \in [0..MaxBoots -> Image]
  /\ multiBoot \in Nat /\ errorReg \in Nat /\ execDone \in BOOLEAN
  /\ psOnlyReset \in BOOLEAN /\ apuReset \in 0..1 /\ irqPending \in BOOLEAN
  /\ pmu \in PmuState
  /\ cause \in ResetCauses /\ boots \in 0..MaxBoots

StageTypeOK ==
  /\ pc \in Running \cup Stopped /\ stage \in Stages /\ status \in Nat
  /\ partitionNum \in Nat /\ noOfPartitions \in Nat /\ imageOffset \in Nat
  /\ resetReason \in {XFSBL_SYSTEM_RESET, XFSBL_PS_ONLY_RESET}
  /\ headers \in Seq(Header)

HandoffTypeOK ==
  /\ handoff \in Seq(HandoffValue) /\ cpuIndex \in Nat \ {0} /\ loaded \subseteq Nat
  /\ started \in Seq([cpu: Cpus, entry: Addresses, vector: 0..1])

TypeOK == HardwareTypeOK /\ StageTypeOK /\ HandoffTypeOK

(* The handoff list never names a processor twice, so that its eight possible
   entries fit the ten of HandoffValues in FsblInstance. *)
HandoffListOK ==
  /\ \A i, j \in DOMAIN handoff : handoff[i].cpu = handoff[j].cpu => i = j
  /\ Len(handoff) <= 10

(* Partition p is the loader's, and passes every check of its header. *)
Accepted(p) == PartitionHeaderStatus(PartitionHeaderOf(p), resetReason) = XFSBL_SUCCESS

(* The first application of each processor among partitions 1 to n. *)
FirstApplications(n) ==
  LET apps == {p \in 1..n : Accepted(p) /\ IsApplication(PartitionHeaderOf(p))}
      target(p) == DestinationCpu(PartitionHeaderOf(p))
  IN {p \in apps : \A q \in apps : target(q) = target(p) => p <= q}

(* They are what the list holds, each once and in partition order. *)
ListsFirstApplications(n) ==
  \E order \in [DOMAIN handoff -> FirstApplications(n)] :
    /\ \A i, j \in DOMAIN handoff : i < j => order[i] < order[j]
    /\ \A p \in FirstApplications(n) : \E i \in DOMAIN handoff : order[i] = p
    /\ \A i \in DOMAIN handoff : handoff[i] = HandoffEntry(PartitionHeaderOf(order[i]))

(* The list of handoffs is, in partition order, the first application of every
   processor among the partitions already loaded: no later partition of the
   same processor replaces it, and none is missing when the handoff begins. *)
HandoffListIsFirstApplications ==
  pc = "stage" /\ stage \in {"PARTITION_LOAD", "HANDOFF", "POST_HANDOFF"} =>
    ListsFirstApplications(IF stage = "PARTITION_LOAD" THEN partitionNum - 1
                           ELSE noOfPartitions - 1)

(* No processor runs before the last partition of the image is in memory: a
   program may use what a later partition brings. *)
NothingStartsEarly ==
  started # <<>> =>
    \A p \in 1..(noOfPartitions - 1) :
      Accepted(p) /\ ~PartitionHeaderOf(p).xip /\ ~SkipsBitstream(PartitionHeaderOf(p))
        => p \in loaded

(* The PMU sleeps as long as firmware is copied to its RAM. *)
PmuRamQuiet == pc = "device_copy" /\ CurrentHeader.cpu = "PMU" => pmu.mode = "sleep"

(* Nothing is started from an image with a bad table, or with a corrupt or
   malformed header among the partitions that are the loader's. *)
WellFormed(h) ==
  /\ h.lengthsOk /\ ValidMemoryAddress(h) /\ h.hash # "OTHER"
  /\ h.cpu # "INVALID" /\ h.device # "INVALID"

OnlyGoodImagesStart ==
  started # <<>> =>
    LET img == flash[imageOffset]
    IN /\ img.checksumOk /\ img.ppd = "SAME"
       /\ \A p \in 2..Len(img.headers) :
            /\ img.headers[p].checksumOk
            /\ img.headers[p].ownerIsFsbl => WellFormed(img.headers[p])

(* When the PMU starts, the run of firmware partitions it starts from is whole:
   no partition of that run is still to be copied, but for those a reset of the
   PS alone leaves where they are. *)
SameFirmware(p, q) ==
  \A r \in 1..(noOfPartitions - 1) :
    (p <= r /\ r <= q) \/ (q <= r /\ r <= p) => PartitionHeaderOf(r).cpu = "PMU"

FirmwareStartsWhole ==
  [][pmu.mode = "sleep" /\ pmu.mode' = "run" /\ boots' = boots =>
       \A q \in loaded : \A p \in 1..(noOfPartitions - 1) :
         /\ SameFirmware(p, q) /\ Accepted(p)
         /\ ~PartitionHeaderOf(p).xip /\ ~SkipsBitstream(PartitionHeaderOf(p))
         => p \in loaded]_vars

(* A handoff without an application, whose result the loader never sets. *)
HandsOffNothing == pc = "execute" /\ handoff = <<>>

(* The loader never hangs: it leaves for an application, waits for events, or
   asks for a reset. What it does when it hands off nothing is left to the word its
   result happens to be: it may do so for ever. *)
BootSettles == pc \in Running ~> pc \in Stopped \/ HandsOffNothing

(* The boot protocol, as this loader shows it: it has committed once it wrote
   XFSBL_COMPLETED in a run that has got past the boot device. *)
Phase ==
  IF errorReg = XFSBL_COMPLETED /\ (partitionNum > 0 \/ pc = "wfe") THEN "committed"
  ELSE IF pc \in Stopped THEN "failed"
  ELSE IF stage # "SYSTEM_INIT" /\ errorReg = XFSBL_RUNNING THEN "loading"
  ELSE "booting"

Report == IF errorReg = XFSBL_RUNNING THEN "running"
          ELSE IF errorReg = XFSBL_COMPLETED THEN "completed" ELSE "error"

Released == {started[i].cpu : i \in DOMAIN started}

Protocol == INSTANCE BootProtocol WITH
  Cores <- Cpus, phase <- Phase, report <- Report, cores <- Released

(* The loader implements the protocol. *)
ImplementsProtocol == Protocol!Spec
=============================================================================
