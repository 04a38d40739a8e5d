--------------------------- MODULE FsblBoot_proofs ---------------------------
(****************************************************************************)
(* Proofs about FsblBoot, for every set of boards, every contents of the    *)
(* flash and any number of resets. One inductive invariant, Inv, carries    *)
(* the type invariant, the handoff list and the boot protocol; PmuInv adds  *)
(* what keeps the PMU asleep while its RAM is written, LoadInv which        *)
(* partitions are dealt with, WakeInv when the PMU is woken, and ListInv    *)
(* what the handoff list holds.                                             *)
(****************************************************************************)
EXTENDS FsblBoot, FiniteSetTheorems, TLAPS

(* Past the validation of a header, the partition at hand has passed it. *)
Vetted ==
  pc \in {"copy", "wait_sleep", "device_copy", "validate"}
    => stage = "PARTITION_LOAD" /\ Accepted(partitionNum)

(* The handoff list never names a processor twice. *)
HandoffDistinct ==
  \A i, j \in DOMAIN handoff : handoff[i].cpu = handoff[j].cpu => i = j

(* The codes of the errors, and the words that report one in the error status
   register. *)
ErrorCodes == 5..82 \cup {XFSBL_PSU_INIT_FAILED + 1, XFSBL_FAILURE}
ErrorWords == Nat \ {XFSBL_COMPLETED, XFSBL_RUNNING}

(* What the place in the program says of the register and the partition. *)
Progress ==
  /\ pc = "wait_wake" => stage = "PARTITION_LOAD"
  /\ pc = "execute" => stage = "HANDOFF"
  /\ pc \in Running /\ stage = "SYSTEM_INIT" =>
       pc = "stage" /\ partitionNum = 0 /\ started = <<>>
  /\ pc \in Running /\ stage = "PRIMARY_BOOT_DEVICE_INIT" =>
       pc = "stage" /\ errorReg = XFSBL_RUNNING /\ started = <<>>
  /\ pc \in Running /\ stage = "PARTITION_LOAD" =>
       /\ board.mode \in DriverModes /\ partitionNum > 0
       /\ errorReg \in {XFSBL_RUNNING, XFSBL_COMPLETED} /\ started = <<>>
  /\ pc = "stage" /\ stage = "HANDOFF" =>
       /\ started = <<>>
       /\ errorReg \in {XFSBL_RUNNING, XFSBL_COMPLETED}
       /\ \/ partitionNum > 0 /\ board.mode \in DriverModes
          \/ board.mode = "JTAG" /\ errorReg = XFSBL_RUNNING
  /\ pc = "execute" =>
       /\ errorReg = XFSBL_COMPLETED /\ partitionNum > 0
       /\ board.mode \in DriverModes
  /\ pc \in Running /\ stage = "POST_HANDOFF" =>
       pc = "stage" /\ errorReg = XFSBL_COMPLETED /\ partitionNum > 0
  /\ pc \in Running /\ stage = "ERR" =>
       pc = "stage" /\ status \in ErrorWords

(* The processors started are those of the list that were passed. *)
StartedAreListed ==
  pc = "execute" =>
    \A i \in DOMAIN started :
      \E j \in DOMAIN handoff : j < cpuIndex /\ started[i].cpu = handoff[j].cpu

Inv == TypeOK /\ Vetted /\ HandoffDistinct /\ Progress /\ StartedAreListed

(* While the PMU sleeps it has not announced itself, and it is woken only from
   the end of a firmware download. *)
PmuInv ==
  /\ pmu.mode = "sleep" => ~pmu.fw
  /\ pmu.mode = "sleep" /\ pmu.wake => pc \in {"wait_wake", "reset_wait", "spin"}
  /\ PmuRamQuiet
-----------------------------------------------------------------------------
(* Lemmas about the operators of PartitionHeader and FsblBoot. *)

(* The slot a partition is read from always holds a header, the zeroed one if
   the table was never read. *)
LEMMA HeaderOfType ==
  ASSUME headers \in Seq(Header), NEW n \in Nat
  PROVE  PartitionHeaderOf(n) \in Header
<1>1. ZeroHeader \in Header
  BY DEF ZeroHeader, Header, Addresses, ZeroAddress, Regions
<1>2. CASE n + 1 \in DOMAIN headers
  BY <1>2 DEF PartitionHeaderOf
<1>3. CASE n + 1 \notin DOMAIN headers
  BY <1>1, <1>3 DEF PartitionHeaderOf
<1>. QED BY <1>2, <1>3

(* A header that passed validation is for a processor that exists. *)
LEMMA AcceptedHasCpu ==
  ASSUME NEW h \in Header, NEW reason \in {XFSBL_SYSTEM_RESET, XFSBL_PS_ONLY_RESET},
         PartitionHeaderStatus(h, reason) = XFSBL_SUCCESS
  PROVE  DestinationCpu(h) \in Cpus
<1>1. h.cpu \in Cpus \cup {"NONE", "INVALID"}
  BY DEF Header
<1>2. h.cpu # "INVALID"
  BY DEF PartitionHeaderStatus, ValidatePartitionHeader, XFSBL_SUCCESS,
         XFSBL_SYSTEM_RESET, XFSBL_PS_ONLY_RESET, XFSBL_MASTER_ONLY_RESET,
         XFSBL_ERROR_PH_CHECKSUM_FAILED, XFSBL_SUCCESS_NOT_PARTITION_OWNER,
         XFSBL_ERROR_PARTITION_LENGTH, XFSBL_ERROR_ADDRESS,
         XFSBL_ERROR_INVALID_CHECKSUM_TYPE, XFSBL_ERROR_INVALID_CPU_TYPE
<1>3. RunningCpu \in Cpus
  BY DEF RunningCpu, Cpus, A53Cpus
<1>. QED BY <1>1, <1>2, <1>3 DEF DestinationCpu

(* An error code with the offset of a stage is neither of the two words that mean
   something else in the error status register. *)
LEMMA StageWords ==
  \A code \in ErrorCodes : \A offset \in {STAGE_1, STAGE_2, STAGE_3, HANDOFF_FAILED} :
    offset + code \in ErrorWords
BY SMT DEF ErrorCodes, ErrorWords, STAGE_1, STAGE_2, STAGE_3, HANDOFF_FAILED,
           XFSBL_PSU_INIT_FAILED, XFSBL_FAILURE, XFSBL_COMPLETED, XFSBL_RUNNING

LEMMA CodesAreErrors ==
  /\ BringUpFaults \subseteq ErrorCodes
  /\ DeviceInitFaults \subseteq ErrorCodes /\ DeviceCopyFaults \subseteq ErrorCodes
  /\ XFSBL_FAILURE \in ErrorCodes /\ XFSBL_ERROR_UNSUPPORTED_BOOT_MODE \in ErrorCodes
  /\ XFSBL_ERROR_PM_INIT \in ErrorCodes /\ XFSBL_ERROR_UNSUPPORTED_HANDOFF \in ErrorCodes
BY SMT DEF ErrorCodes, BringUpFaults, XFSBL_ERROR_I2C_INIT, DeviceInitFaults,
           XFSBL_ERROR_QSPI_INIT, DeviceCopyFaults, XFSBL_ERROR_QSPI_READ,
           XFSBL_ERROR_UNSUPPORTED_BOOT_MODE, XFSBL_ERROR_PM_INIT,
           XFSBL_ERROR_UNSUPPORTED_HANDOFF

(* Words of other kinds: statuses, register values, exception codes. *)
LEMMA OtherWords ==
  /\ XFSBL_SUCCESS \in Nat /\ XFSBL_COMPLETED \in Nat /\ XFSBL_RUNNING \in Nat
  /\ XFSBL_STATUS_JTAG \in Nat /\ STATUS_PARTITION_LOAD_IN_PROGRESS \in Nat
  /\ XFSBL_STATUS_CONTINUE_OTHER_HANDOFF \in Nat
  /\ {XFSBL_SUCCESS, XFSBL_STATUS_JTAG} \cap ErrorCodes = {}
  /\ XFSBL_STATUS_JTAG # XFSBL_SUCCESS
  /\ STAGE_1 + XFSBL_SUCCESS \in Nat
  /\ ExceptionCodes \subseteq ErrorWords
BY SMT DEF XFSBL_SUCCESS, XFSBL_COMPLETED, XFSBL_RUNNING, XFSBL_STATUS_JTAG,
           STATUS_PARTITION_LOAD_IN_PROGRESS, XFSBL_STATUS_CONTINUE_OTHER_HANDOFF,
           XFSBL_FAILURE, STAGE_1, ErrorCodes, ErrorWords, ExceptionCodes,
           XFSBL_PSU_INIT_FAILED,
           XFSBL_ERROR_UNDEFINED_EXCEPTION, XFSBL_ERROR_DATA_ABORT_EXCEPTION,
           XFSBL_ERROR_IRQ_EXCEPTION, XFSBL_ERROR_FIQ_EXCEPTION

(* The checks of a table, a header and a processor fail with error codes. *)
LEMMA TableStatus ==
  ASSUME NEW img
  PROVE  ImageHeaderTableStatus(img) \in ErrorCodes \cup {XFSBL_SUCCESS}
<1>1. {XFSBL_FAILURE, XFSBL_ERROR_PPD, XFSBL_ERROR_NO_OF_PARTITIONS} \subseteq ErrorCodes
  BY SMT DEF ErrorCodes, XFSBL_ERROR_PPD, XFSBL_ERROR_NO_OF_PARTITIONS
<1>. QED BY <1>1 DEF ImageHeaderTableStatus

(* How XFsbl_BootDeviceInit can end. *)
LEMMA BootStatus ==
  ASSUME NEW img, NEW s \in BootDeviceStatuses(img)
  PROVE  \/ s = XFSBL_STATUS_JTAG /\ board.mode = "JTAG"
         \/ s = XFSBL_SUCCESS /\ board.mode \in DriverModes
         \/ s \in ErrorCodes
<1>1. CASE board.mode = "JTAG"
  BY <1>1 DEF BootDeviceStatuses
<1>2. CASE board.mode # "JTAG" /\ board.mode \notin DriverModes
  BY <1>2, CodesAreErrors DEF BootDeviceStatuses
<1>3. CASE board.mode # "JTAG" /\ board.mode \in DriverModes
  <2>1. s \in ErrorCodes \cup {ImageHeaderTableStatus(img)}
    BY <1>3, CodesAreErrors DEF BootDeviceStatuses
  <2>. QED BY <1>3, <2>1, TableStatus
<1>. QED BY <1>1, <1>2, <1>3

LEMMA HeaderStatus ==
  ASSUME NEW h, NEW reason,
         PartitionHeaderStatus(h, reason)
           \notin {XFSBL_SUCCESS, XFSBL_SUCCESS_NOT_PARTITION_OWNER}
  PROVE  PartitionHeaderStatus(h, reason) \in ErrorCodes
BY SMT DEF ErrorCodes, PartitionHeaderStatus, ValidatePartitionHeader,
           XFSBL_ERROR_PH_CHECKSUM_FAILED, XFSBL_ERROR_PARTITION_LENGTH,
           XFSBL_ERROR_ADDRESS, XFSBL_ERROR_INVALID_CHECKSUM_TYPE,
           XFSBL_ERROR_INVALID_CPU_TYPE, XFSBL_ERROR_INVALID_DEST_DEVICE

LEMMA CpuStatus ==
  ASSUME NEW c, ReleaseStatus(c) # XFSBL_SUCCESS
  PROVE  ReleaseStatus(c) \in ErrorCodes
BY SMT DEF ErrorCodes, ReleaseStatus, XFSBL_ERROR_UNAVAILABLE_CPU,
           XFSBL_ERROR_HANDOFF_FAILED_CPUID

(* The PMU keeps its type when it is reset, signalled, put to sleep and woken. *)
LEMMA PmuStates ==
  /\ PowerOnPmu \subseteq PmuState
  /\ \A p \in PmuState : \A b, fw \in BOOLEAN :
       /\ [p EXCEPT !.ipi = b] \in PmuState /\ [p EXCEPT !.wake = b] \in PmuState
       /\ [p EXCEPT !.mode = "run", !.wake = FALSE, !.fw = TRUE] \in PmuState
       /\ [mode |-> "sleep", ipi |-> FALSE, wake |-> FALSE, fw |-> fw] \in PmuState
BY Zenon DEF PowerOnPmu, PmuState

(* Recording an accepted application keeps the list typed and free of
   duplicates, and never shortens it. *)
LEMMA RecordHandoffKeepsList ==
  ASSUME NEW h \in Header, DestinationCpu(h) \in Cpus,
         handoff \in Seq(HandoffValue), HandoffDistinct, RecordHandoff(h)
  PROVE  handoff' \in Seq(HandoffValue) /\ HandoffDistinct'
<1>. DEFINE v == HandoffEntry(h)
<1>1. v \in HandoffValue
  BY DEF HandoffEntry, HandoffValue, Header
<1>2. CASE CheckHandoffCpu(handoff, DestinationCpu(h))
  <2>1. handoff' = Append(handoff, v)
    BY <1>2 DEF RecordHandoff
  <2>2. v.cpu = DestinationCpu(h)
    BY DEF HandoffEntry
  <2>. HIDE DEF v
  <2>3. handoff' \in Seq(HandoffValue)
    BY <1>1, <2>1
  <2>4. /\ DOMAIN handoff' = DOMAIN handoff \cup {Len(handoff) + 1}
        /\ \A i \in DOMAIN handoff : handoff'[i] = handoff[i]
        /\ handoff'[Len(handoff) + 1] = v
    BY <1>1, <2>1
  <2>5. \A i \in DOMAIN handoff : handoff[i].cpu # v.cpu
    BY <1>2, <2>2 DEF CheckHandoffCpu
  <2>6. HandoffDistinct'
    BY <2>4, <2>5 DEF HandoffDistinct
  <2>. QED BY <2>3, <2>6
<1>3. CASE ~CheckHandoffCpu(handoff, DestinationCpu(h))
  BY <1>3 DEF RecordHandoff, HandoffDistinct
<1>. QED BY <1>2, <1>3
-----------------------------------------------------------------------------
(* The inductive invariant. *)

LEMMA InvInit == Init => Inv
<1>. SUFFICES ASSUME Init PROVE Inv
  OBVIOUS
<1>1. HardwareTypeOK
  <2>1. board \in [mode: BootModes, cg: BOOLEAN] /\ flash \in [0..MaxBoots -> Image]
    BY BoardsAssumption, FlashAssumption DEF Init
  <2>2. multiBoot \in Nat /\ errorReg \in Nat /\ apuReset \in 0..1 /\ boots \in 0..MaxBoots
    BY OtherWords, MaxBootsAssumption DEF Init
  <2>3. execDone \in BOOLEAN /\ psOnlyReset \in BOOLEAN /\ irqPending \in BOOLEAN
    BY Zenon DEF Init
  <2>4. pmu \in PmuState /\ cause \in ResetCauses
    <3>1. pmu \in PowerOnPmu /\ cause = "POR"
      BY DEF Init
    <3>. QED BY <3>1, PmuStates DEF ResetCauses
  <2>. QED BY <2>1, <2>2, <2>3, <2>4 DEF HardwareTypeOK
<1>2. StageTypeOK
  BY OtherWords DEF Init, StageTypeOK, Running, Stages
<1>3. HandoffTypeOK
  BY DEF Init, HandoffTypeOK
<1>4. Vetted /\ HandoffDistinct /\ Progress /\ StartedAreListed
  BY DEF Init, Vetted, HandoffDistinct, Progress, StartedAreListed
<1>. QED BY <1>1, <1>2, <1>3, <1>4 DEF Inv, TypeOK

(* Stage 1: the reset reason is never a master-only one. *)
LEMMA InitializeInv == Inv /\ Initialize => Inv'
<1>. SUFFICES ASSUME Inv, Initialize PROVE Inv'
  OBVIOUS
<1>. USE DEF boardVars, hwVars, bootVars, imageVars, stageVars, handoffVars
<1>1. resetReason' \in {XFSBL_SYSTEM_RESET, XFSBL_PS_ONLY_RESET}
      /\ resetReason' # XFSBL_MASTER_ONLY_RESET
  BY DEF Inv, TypeOK, HardwareTypeOK, Initialize, GetResetReason, XFSBL_SYSTEM_RESET,
         XFSBL_PS_ONLY_RESET, XFSBL_MASTER_ONLY_RESET
<1>2. \/ /\ stage' = "PRIMARY_BOOT_DEVICE_INIT"
         /\ errorReg' = XFSBL_RUNNING /\ status' \in Nat
      \/ stage' = "ERR" /\ errorReg' = errorReg /\ status' \in ErrorWords
  BY <1>1, StageWords, CodesAreErrors, OtherWords DEF Initialize, ResetValidation
<1>3. HardwareTypeOK'
  <2>1. irqPending' \in BOOLEAN /\ psOnlyReset' \in BOOLEAN
    BY Zenon DEF Initialize
  <2>. QED BY <1>2, <2>1, OtherWords DEF Inv, TypeOK, HardwareTypeOK, Initialize
<1>4. StageTypeOK'
  BY <1>1, <1>2 DEF Inv, TypeOK, StageTypeOK, Initialize, Stages, ErrorWords
<1>5. HandoffTypeOK'
  BY DEF Inv, TypeOK, HandoffTypeOK, Initialize
<1>6. Progress'
  BY <1>2 DEF Inv, Progress, Initialize, Running
<1>7. Vetted' /\ HandoffDistinct' /\ StartedAreListed'
  BY DEF Inv, Vetted, HandoffDistinct, StartedAreListed, Initialize
<1>. QED BY <1>3, <1>4, <1>5, <1>6, <1>7 DEF Inv, TypeOK

(* Stage 2: partitions are loaded only in a mode with a driver. *)
LEMMA BootDeviceInitInv == Inv /\ BootDeviceInit => Inv'
<1>. SUFFICES ASSUME Inv, BootDeviceInit PROVE Inv'
  OBVIOUS
<1>. USE DEF boardVars, hwVars, bootVars, imageVars, stageVars, handoffVars
<1>. DEFINE img == flash[0]
<1>1. /\ pc' = "stage" /\ errorReg' = XFSBL_RUNNING /\ started' = <<>>
      /\ board' = board
  BY DEF Inv, Progress, BootDeviceInit, Running
<1>2. Len(img.headers) \in Nat /\ img.headers \in Seq(Header) /\ <<>> \in Seq(Header)
  <2>1. img \in Image
    BY MaxBootsAssumption DEF Inv, TypeOK, HardwareTypeOK
  <2>. QED BY <2>1 DEF Image
<1>3. \/ /\ stage' = "HANDOFF" /\ status' \in Nat /\ board.mode = "JTAG"
         /\ UNCHANGED <<partitionNum, noOfPartitions, headers>>
      \/ /\ stage' = "PARTITION_LOAD" /\ status' \in Nat /\ board.mode \in DriverModes
         /\ partitionNum' = 1 /\ noOfPartitions' \in Nat /\ headers' \in Seq(Header)
      \/ /\ stage' = "ERR" /\ status' \in ErrorWords
         /\ UNCHANGED <<partitionNum, noOfPartitions, headers>>
  <2>1. PICK s \in BootDeviceStatuses(img) :
          \/ /\ s = XFSBL_STATUS_JTAG
             /\ status' = s /\ stage' = "HANDOFF"
             /\ UNCHANGED <<partitionNum, noOfPartitions, headers>>
          \/ /\ s = XFSBL_SUCCESS
             /\ status' = s /\ stage' = "PARTITION_LOAD"
             /\ partitionNum' = 1
             /\ noOfPartitions' = Len(img.headers)
             /\ headers' = IF img.ppd = "SAME" THEN img.headers ELSE <<>>
          \/ /\ s \notin {XFSBL_STATUS_JTAG, XFSBL_SUCCESS}
             /\ status' = STAGE_2 + s /\ stage' = "ERR"
             /\ UNCHANGED <<partitionNum, noOfPartitions, headers>>
    BY DEF BootDeviceInit, ImageOffsetAddress
  <2>2. CASE s = XFSBL_STATUS_JTAG
    BY <2>1, <2>2, BootStatus, OtherWords
  <2>3. CASE s = XFSBL_SUCCESS
    <3>1. board.mode \in DriverModes
      BY <2>3, BootStatus, OtherWords
    <3>. QED BY <1>2, <2>1, <2>3, <3>1, OtherWords
  <2>4. CASE s \in ErrorCodes
    <3>1. STAGE_2 + s \in ErrorWords /\ s \notin {XFSBL_STATUS_JTAG, XFSBL_SUCCESS}
      BY <2>4, StageWords, OtherWords
    <3>. QED BY <2>1, <3>1
  <2>. QED BY <2>2, <2>3, <2>4, BootStatus
<1>4. HardwareTypeOK'
  BY DEF Inv, TypeOK, HardwareTypeOK, BootDeviceInit
<1>5. StageTypeOK'
  BY <1>3 DEF Inv, TypeOK, StageTypeOK, BootDeviceInit, Stages, ErrorWords,
              ImageOffsetAddress
<1>6. HandoffTypeOK'
  BY DEF Inv, TypeOK, HandoffTypeOK, BootDeviceInit
<1>7. Progress'
  BY <1>1, <1>3 DEF Progress
<1>8. Vetted' /\ HandoffDistinct' /\ StartedAreListed'
  BY DEF Inv, Vetted, HandoffDistinct, StartedAreListed, BootDeviceInit
<1>. QED BY <1>4, <1>5, <1>6, <1>7, <1>8 DEF Inv, TypeOK

(* What holds while partitions are loaded. *)
Loading ==
  /\ pc \in Running /\ stage = "PARTITION_LOAD"
  /\ board.mode \in DriverModes /\ partitionNum > 0
  /\ errorReg \in {XFSBL_RUNNING, XFSBL_COMPLETED} /\ started = <<>>

LEMMA LoadingFromPc ==
  ASSUME Inv,
         \/ pc = "stage" /\ stage = "PARTITION_LOAD"
         \/ pc \in {"copy", "wait_sleep", "device_copy", "validate", "wait_wake"}
  PROVE  Loading
BY DEF Inv, Vetted, Progress, Loading, Running

(* The three ways a step of the partition stage ends: the next label of the
   same partition, the next partition or the handoff, an error. *)
LoadStepEnds(labels) ==
  \/ pc' \in labels /\ UNCHANGED <<stage, status, partitionNum>>
  \/ PartitionDone
  \/ \E code \in ErrorCodes : PartitionFails(code)

LEMMA LoadStepProgress ==
  ASSUME Inv, Loading, LoadStepEnds(Running \ {"execute"}),
         UNCHANGED <<boardVars, hwVars, started, headers, resetReason,
                     noOfPartitions, imageOffset>>
  PROVE  Progress' /\ StageTypeOK'
<1>. USE DEF boardVars, hwVars
<1>1. CASE pc' \in Running \ {"execute"} /\ UNCHANGED <<stage, status, partitionNum>>
  BY <1>1 DEF Inv, TypeOK, StageTypeOK, Loading, Progress, Running
<1>2. CASE PartitionDone
  <2>1. /\ pc' = "stage" /\ stage' \in {"PARTITION_LOAD", "HANDOFF"}
        /\ partitionNum' \in Nat /\ partitionNum' > 0 /\ status' \in Nat
    BY <1>2, OtherWords DEF Inv, TypeOK, StageTypeOK, Loading, PartitionDone
  <2>. QED BY <2>1 DEF Inv, TypeOK, StageTypeOK, Loading, Progress, Running, Stages
<1>3. CASE \E code \in ErrorCodes : PartitionFails(code)
  <2>1. pc' = "stage" /\ stage' = "ERR" /\ status' \in ErrorWords
        /\ UNCHANGED partitionNum
    BY <1>3, StageWords DEF PartitionFails
  <2>. QED BY <2>1 DEF Inv, TypeOK, StageTypeOK, Progress, Running, Stages, ErrorWords
<1>. QED BY <1>1, <1>2, <1>3 DEF LoadStepEnds

(* Stage 3: only an accepted header leads to the copy. *)
LEMMA PartitionHeaderValidationInv == Inv /\ PartitionHeaderValidation => Inv'
<1>. SUFFICES ASSUME Inv, PartitionHeaderValidation PROVE Inv'
  OBVIOUS
<1>. USE DEF boardVars, hwVars, bootVars, imageVars, stageVars, handoffVars
<1>1. Loading
  BY LoadingFromPc DEF PartitionHeaderValidation
<1>2. LoadStepEnds(Running \ {"execute"})
  BY HeaderStatus DEF PartitionHeaderValidation, LoadStepEnds, Goto, Running
<1>3. Progress' /\ StageTypeOK'
  BY <1>1, <1>2, LoadStepProgress DEF PartitionHeaderValidation
<1>4. HardwareTypeOK' /\ HandoffTypeOK'
  BY DEF Inv, TypeOK, HardwareTypeOK, HandoffTypeOK, PartitionHeaderValidation
<1>5. Vetted'
  BY DEF Vetted, Accepted, CurrentHeader, PartitionHeaderOf, PartitionHeaderValidation,
         Goto, PartitionDone, PartitionFails
<1>6. HandoffDistinct' /\ StartedAreListed'
  BY DEF Inv, HandoffDistinct, StartedAreListed, PartitionHeaderValidation, Goto,
         PartitionDone, PartitionFails
<1>. QED BY <1>3, <1>4, <1>5, <1>6 DEF Inv, TypeOK

(* The copy of a partition up to its waits: a partition executed in place is recorded. *)
LEMMA PartitionCopyInv == Inv /\ PartitionCopy => Inv'
<1>. SUFFICES ASSUME Inv, PartitionCopy PROVE Inv'
  OBVIOUS
<1>. USE DEF boardVars, hwVars, bootVars, imageVars, stageVars, handoffVars
<1>. DEFINE h == CurrentHeader
<1>1. Loading /\ h \in Header /\ DestinationCpu(h) \in Cpus
  <2>1. Loading
    BY LoadingFromPc DEF PartitionCopy
  <2>2. h \in Header
    BY HeaderOfType DEF Inv, TypeOK, StageTypeOK, CurrentHeader
  <2>3. Accepted(partitionNum)
    BY DEF Inv, Vetted, PartitionCopy
  <2>. QED BY <2>1, <2>2, <2>3, AcceptedHasCpu
           DEF Inv, TypeOK, StageTypeOK, Accepted, CurrentHeader
<1>2. handoff' \in Seq(HandoffValue) /\ HandoffDistinct'
  <2>1. CASE RecordHandoff(h)
    BY <1>1, <2>1, RecordHandoffKeepsList DEF Inv, TypeOK, HandoffTypeOK
  <2>2. CASE UNCHANGED handoff
    BY <2>2 DEF Inv, TypeOK, HandoffTypeOK, HandoffDistinct
  <2>. QED BY <2>1, <2>2 DEF PartitionCopy
<1>. HIDE DEF h
<1>3. LoadStepEnds(Running \ {"execute"})
  BY DEF PartitionCopy, LoadStepEnds, Goto, Running
<1>4. Progress' /\ StageTypeOK'
  BY <1>1, <1>3, LoadStepProgress DEF PartitionCopy
<1>5. HardwareTypeOK'
  <2>1. pmu' \in PmuState
    <3>1. pmu \in PmuState /\ (pmu.ipi \/ SignalsPmu(CurrentHeader)) \in BOOLEAN
      BY DEF Inv, TypeOK, HardwareTypeOK
    <3>. QED BY <3>1, PmuStates DEF PartitionCopy
  <2>. QED BY <2>1 DEF Inv, TypeOK, HardwareTypeOK, PartitionCopy
<1>6. HandoffTypeOK'
  BY <1>2 DEF Inv, TypeOK, HandoffTypeOK, PartitionCopy
<1>7. Vetted'
  BY <1>1 DEF Inv, Vetted, Accepted, PartitionHeaderOf, Loading, PartitionCopy, Goto
<1>8. StartedAreListed'
  BY <1>3 DEF StartedAreListed, LoadStepEnds, PartitionDone, PartitionFails
<1>. QED BY <1>2, <1>4, <1>5, <1>6, <1>7, <1>8 DEF Inv, TypeOK

(* The wait for the PMU to sleep. *)
LEMMA WaitPmuSleepInv == Inv /\ WaitPmuSleep => Inv'
<1>. SUFFICES ASSUME Inv, WaitPmuSleep PROVE Inv'
  OBVIOUS
<1>. USE DEF boardVars, hwVars, bootVars, imageVars, stageVars, handoffVars
<1>1. Loading
  BY LoadingFromPc DEF WaitPmuSleep
<1>2. Progress' /\ StageTypeOK'
  BY <1>1, LoadStepProgress DEF WaitPmuSleep, LoadStepEnds, Goto, Running
<1>3. HardwareTypeOK' /\ HandoffTypeOK'
  BY DEF Inv, TypeOK, HardwareTypeOK, HandoffTypeOK, WaitPmuSleep
<1>4. Vetted' /\ HandoffDistinct' /\ StartedAreListed'
  BY DEF Inv, Vetted, Accepted, PartitionHeaderOf, HandoffDistinct, StartedAreListed,
         WaitPmuSleep, Goto
<1>. QED BY <1>2, <1>3, <1>4 DEF Inv, TypeOK

(* The copy itself, which may fail. *)
LEMMA DeviceCopyInv == Inv /\ DeviceCopy => Inv'
<1>. SUFFICES ASSUME Inv, DeviceCopy PROVE Inv'
  OBVIOUS
<1>. USE DEF boardVars, hwVars, bootVars, imageVars, stageVars, handoffVars
<1>1. Loading
  BY LoadingFromPc DEF DeviceCopy
<1>2. LoadStepEnds(Running \ {"execute"})
  BY CodesAreErrors DEF DeviceCopy, LoadStepEnds, Goto, Running
<1>3. Progress' /\ StageTypeOK'
  BY <1>1, <1>2, LoadStepProgress DEF DeviceCopy
<1>4. HardwareTypeOK' /\ HandoffTypeOK'
  BY <1>1 DEF Inv, TypeOK, HardwareTypeOK, StageTypeOK, HandoffTypeOK, DeviceCopy
<1>5. Vetted' /\ HandoffDistinct' /\ StartedAreListed'
  BY DEF Inv, Vetted, Accepted, PartitionHeaderOf, HandoffDistinct, StartedAreListed,
         DeviceCopy, Goto, PartitionFails
<1>. QED BY <1>3, <1>4, <1>5 DEF Inv, TypeOK

(* After the copy: the partition is recorded, and the PMU woken after the last
   firmware partition. *)
LEMMA PartitionValidationInv == Inv /\ PartitionValidation => Inv'
<1>. SUFFICES ASSUME Inv, PartitionValidation PROVE Inv'
  OBVIOUS
<1>. USE DEF boardVars, hwVars, bootVars, imageVars, stageVars, handoffVars
<1>. DEFINE h == CurrentHeader
<1>1. Loading /\ h \in Header /\ DestinationCpu(h) \in Cpus
  <2>1. Loading
    BY LoadingFromPc DEF PartitionValidation
  <2>2. h \in Header
    BY HeaderOfType DEF Inv, TypeOK, StageTypeOK, CurrentHeader
  <2>3. Accepted(partitionNum)
    BY DEF Inv, Vetted, PartitionValidation
  <2>. QED BY <2>1, <2>2, <2>3, AcceptedHasCpu
           DEF Inv, TypeOK, StageTypeOK, Accepted, CurrentHeader
<1>2. handoff' \in Seq(HandoffValue) /\ HandoffDistinct'
  <2>1. CASE RecordHandoff(h)
    BY <1>1, <2>1, RecordHandoffKeepsList DEF Inv, TypeOK, HandoffTypeOK
  <2>2. CASE UNCHANGED handoff
    BY <2>2 DEF Inv, TypeOK, HandoffTypeOK, HandoffDistinct
  <2>. QED BY <2>1, <2>2 DEF PartitionValidation
<1>. HIDE DEF h
<1>3. LoadStepEnds(Running \ {"execute"})
  BY DEF PartitionValidation, LoadStepEnds, Goto, Running
<1>4. Progress' /\ StageTypeOK'
  BY <1>1, <1>3, LoadStepProgress DEF PartitionValidation
<1>5. HardwareTypeOK'
  <2>1. pmu' \in PmuState
    <3>1. pmu \in PmuState
      BY DEF Inv, TypeOK, HardwareTypeOK
    <3>. QED BY <3>1, PmuStates DEF PartitionValidation
  <2>. QED BY <2>1 DEF Inv, TypeOK, HardwareTypeOK, PartitionValidation
<1>6. HandoffTypeOK'
  BY <1>2 DEF Inv, TypeOK, HandoffTypeOK, PartitionValidation
<1>7. Vetted'
  BY <1>1 DEF Vetted, PartitionValidation, PartitionDone, Goto
<1>8. StartedAreListed'
  BY <1>3 DEF StartedAreListed, LoadStepEnds, PartitionDone, PartitionFails
<1>. QED BY <1>2, <1>4, <1>5, <1>6, <1>7, <1>8 DEF Inv, TypeOK

(* The wait for the firmware. *)
LEMMA WaitPmuWakeInv == Inv /\ WaitPmuWake => Inv'
<1>. SUFFICES ASSUME Inv, WaitPmuWake PROVE Inv'
  OBVIOUS
<1>. USE DEF boardVars, hwVars, bootVars, imageVars, stageVars, handoffVars
<1>1. Loading
  BY LoadingFromPc DEF WaitPmuWake
<1>2. Progress' /\ StageTypeOK'
  BY <1>1, LoadStepProgress DEF WaitPmuWake, LoadStepEnds
<1>3. HardwareTypeOK' /\ HandoffTypeOK'
  BY DEF Inv, TypeOK, HardwareTypeOK, HandoffTypeOK, WaitPmuWake
<1>4. Vetted' /\ HandoffDistinct' /\ StartedAreListed'
  BY DEF Inv, Vetted, HandoffDistinct, StartedAreListed, WaitPmuWake, PartitionDone
<1>. QED BY <1>2, <1>3, <1>4 DEF Inv, TypeOK

(* A failing handoff reports an error and leaves the list alone. *)
LEMMA HandoffFailsProgress ==
  ASSUME Inv, NEW code \in ErrorCodes, HandoffFails(code),
         UNCHANGED <<resetReason, imageOffset, noOfPartitions, headers>>
  PROVE  StageTypeOK' /\ Progress' /\ Vetted' /\ StartedAreListed'
<1>1. /\ pc' = "stage" /\ stage' = "ERR" /\ status' \in ErrorWords
      /\ UNCHANGED partitionNum
  BY StageWords DEF HandoffFails
<1>2. StageTypeOK'
  BY <1>1 DEF Inv, TypeOK, StageTypeOK, Running, Stages, ErrorWords
<1>3. Progress' /\ Vetted' /\ StartedAreListed'
  BY <1>1 DEF Progress, Vetted, StartedAreListed
<1>. QED BY <1>2, <1>3

(* Stage 4: the register is marked completed before the first release. *)
LEMMA HandoffInv == Inv /\ Handoff => Inv'
<1>. SUFFICES ASSUME Inv, Handoff PROVE Inv'
  OBVIOUS
<1>. USE DEF boardVars, hwVars, bootVars, imageVars, stageVars, handoffVars
<1>1. /\ started = <<>> /\ started' = <<>> /\ board' = board
      /\ pc' = "execute" => partitionNum > 0 /\ board.mode \in DriverModes
  BY DEF Inv, Progress, Handoff, HandoffFails, Goto
<1>2. /\ errorReg' \in {errorReg, XFSBL_COMPLETED}
      /\ execDone' \in {execDone, TRUE} /\ cpuIndex' \in {cpuIndex, 1}
  BY DEF Handoff
<1>3. HardwareTypeOK'
  BY <1>2, OtherWords DEF Inv, TypeOK, HardwareTypeOK, Handoff
<1>4. HandoffTypeOK'
  BY <1>2 DEF Inv, TypeOK, HandoffTypeOK, Handoff
<1>5. HandoffDistinct'
  BY DEF Inv, HandoffDistinct, Handoff
<1>6. StageTypeOK' /\ Progress' /\ Vetted' /\ StartedAreListed'
  <2>1. CASE HandoffFails(XFSBL_ERROR_PM_INIT)
    BY <2>1, CodesAreErrors, HandoffFailsProgress DEF Handoff
  <2>2. CASE Goto("wfe")
    BY <2>2 DEF Inv, TypeOK, StageTypeOK, Progress, Vetted, StartedAreListed, Handoff,
                Goto, Running, Stopped
  <2>3. CASE errorReg' = XFSBL_COMPLETED /\ Goto("execute")
    <3>1. pc' = "execute" /\ stage' = "HANDOFF" /\ UNCHANGED <<status, partitionNum>>
      BY <2>3 DEF Handoff, Goto
    <3>2. StageTypeOK'
      BY <3>1 DEF Inv, TypeOK, StageTypeOK, Handoff, Running
    <3>3. Progress' /\ Vetted' /\ StartedAreListed'
      BY <1>1, <2>3, <3>1 DEF Progress, Vetted, StartedAreListed
    <3>. QED BY <3>2, <3>3
  <2>. QED BY <2>1, <2>2, <2>3 DEF Handoff
<1>. QED BY <1>3, <1>4, <1>5, <1>6 DEF Inv, TypeOK

(* The state a processor starts in has its type. *)
LEMMA StartStateType ==
  ASSUME Inv, NEW e \in HandoffValue
  PROVE  /\ StartState(e) \in [cpu: Cpus, entry: Addresses, vector: 0..1]
         /\ StartState(e).cpu = e.cpu
BY HeaderOfType
DEF Inv, TypeOK, StageTypeOK, StartState, CurrentHeader, Header, HandoffValue, Addresses,
    ZeroAddress

LEMMA SelfStartType ==
  ASSUME NEW e \in HandoffValue
  PROVE  [cpu |-> e.cpu, entry |-> SelfEntry(e.entry), vector |-> 0]
           \in [cpu: Cpus, entry: Addresses, vector: 0..1]
<1>1. e.cpu \in Cpus /\ SelfEntry(e.entry) \in Addresses
  BY DEF HandoffValue, SelfEntry, Addresses
<1>. QED BY <1>1

(* A release: the processor passed joins those started. *)
LEMMA ReleaseCpuInv == Inv /\ ReleaseCpu => Inv'
<1>. SUFFICES ASSUME Inv, ReleaseCpu PROVE Inv'
  OBVIOUS
<1>. USE DEF boardVars, hwVars, bootVars, imageVars, stageVars, handoffVars
<1>. DEFINE e == handoff[cpuIndex]
<1>1. /\ cpuIndex \in DOMAIN handoff /\ cpuIndex \in Nat /\ e \in HandoffValue
  BY DEF Inv, TypeOK, HandoffTypeOK, ReleaseCpu
<1>2. CASE ReleaseStatus(e.cpu) # XFSBL_SUCCESS
  <2>1. /\ ReleaseStatus(e.cpu) \in ErrorCodes /\ HandoffFails(ReleaseStatus(e.cpu))
        /\ UNCHANGED <<started, cpuIndex>>
    BY <1>2, CpuStatus DEF ReleaseCpu
  <2>2. StageTypeOK' /\ Progress' /\ Vetted' /\ StartedAreListed'
    BY <2>1, HandoffFailsProgress DEF ReleaseCpu
  <2>3. HardwareTypeOK' /\ HandoffTypeOK' /\ HandoffDistinct'
    BY <2>1 DEF Inv, TypeOK, HardwareTypeOK, HandoffTypeOK, HandoffDistinct, ReleaseCpu
  <2>. QED BY <2>2, <2>3 DEF Inv, TypeOK
<1>3. CASE ReleaseStatus(e.cpu) = XFSBL_SUCCESS
  <2>. DEFINE start == StartState(e)
  <2>1. /\ start \in [cpu: Cpus, entry: Addresses, vector: 0..1]
        /\ start.cpu = e.cpu
    BY <1>1, StartStateType
  <2>2. /\ started' = Append(started, start) /\ cpuIndex' = cpuIndex + 1
        /\ Goto("execute") /\ handoff' = handoff
    BY <1>3 DEF ReleaseCpu
  <2>. HIDE DEF start
  <2>3. /\ started' \in Seq([cpu: Cpus, entry: Addresses, vector: 0..1])
        /\ DOMAIN started' = DOMAIN started \cup {Len(started) + 1}
        /\ \A i \in DOMAIN started : started'[i] = started[i]
        /\ started'[Len(started) + 1] = start
    BY <2>1, <2>2 DEF Inv, TypeOK, HandoffTypeOK
  <2>4. HandoffTypeOK'
    BY <2>2, <2>3 DEF Inv, TypeOK, HandoffTypeOK, ReleaseCpu
  <2>5. HardwareTypeOK' /\ StageTypeOK'
    BY <2>2 DEF Inv, TypeOK, HardwareTypeOK, StageTypeOK, ReleaseCpu, Goto, Running
  <2>6. Progress' /\ Vetted' /\ HandoffDistinct'
    BY <2>2 DEF Inv, Progress, Vetted, HandoffDistinct, ReleaseCpu, Goto, Running
  <2>7. StartedAreListed'
    <3>1. SUFFICES ASSUME NEW i \in DOMAIN started'
                   PROVE  \E j \in DOMAIN handoff :
                            j < cpuIndex + 1 /\ started'[i].cpu = handoff[j].cpu
      BY <2>2 DEF StartedAreListed
    <3>2. CASE i \in DOMAIN started
      <4>1. PICK j \in DOMAIN handoff : j < cpuIndex /\ started[i].cpu = handoff[j].cpu
        BY <3>2 DEF Inv, StartedAreListed, ReleaseCpu
      <4>2. j \in Nat
        BY DEF Inv, TypeOK, HandoffTypeOK
      <4>. QED BY <1>1, <2>3, <3>2, <4>1, <4>2
    <3>3. CASE i = Len(started) + 1
      BY <1>1, <2>1, <2>3, <3>3
    <3>. QED BY <2>3, <3>2, <3>3
  <2>. QED BY <2>4, <2>5, <2>6, <2>7 DEF Inv, TypeOK
<1>. QED BY <1>2, <1>3

(* The loader leaves for its own application, or refuses a 32-bit one. *)
LEMMA HandoffSelfInv == Inv /\ HandoffSelf => Inv'
<1>. SUFFICES ASSUME Inv, HandoffSelf PROVE Inv'
  OBVIOUS
<1>. USE DEF boardVars, hwVars, bootVars, imageVars, stageVars, handoffVars
<1>. DEFINE e == handoff[cpuIndex]
            start == [cpu |-> e.cpu, entry |-> SelfEntry(e.entry), vector |-> 0]
<1>1. start \in [cpu: Cpus, entry: Addresses, vector: 0..1]
  BY SelfStartType DEF Inv, TypeOK, HandoffTypeOK, HandoffSelf
<1>. HIDE DEF start
<1>2. /\ started' \in {started, Append(started, start)}
      /\ execDone' \in {execDone, TRUE}
  BY DEF HandoffSelf, start
<1>3. HardwareTypeOK'
  BY <1>2 DEF Inv, TypeOK, HardwareTypeOK, HandoffSelf
<1>4. HandoffTypeOK'
  <2>1. started \in Seq([cpu: Cpus, entry: Addresses, vector: 0..1])
    BY DEF Inv, TypeOK, HandoffTypeOK
  <2>2. started' \in Seq([cpu: Cpus, entry: Addresses, vector: 0..1])
    <3>1. CASE started' = started
      BY <2>1, <3>1
    <3>2. CASE started' = Append(started, start)
      BY <1>1, <2>1, <3>2
    <3>. QED BY <1>2, <3>1, <3>2
  <2>. QED BY <2>2 DEF Inv, TypeOK, HandoffTypeOK, HandoffSelf
<1>5. HandoffDistinct'
  BY DEF Inv, HandoffDistinct, HandoffSelf
<1>6. StageTypeOK' /\ Progress' /\ Vetted' /\ StartedAreListed'
  <2>1. CASE HandoffFails(XFSBL_ERROR_UNSUPPORTED_HANDOFF)
    BY <2>1, CodesAreErrors, HandoffFailsProgress DEF HandoffSelf
  <2>2. CASE Goto("app")
    BY <2>2 DEF Inv, TypeOK, StageTypeOK, Progress, Vetted, StartedAreListed,
                HandoffSelf, Goto, Running, Stopped
  <2>. QED BY <2>1, <2>2 DEF HandoffSelf
<1>. QED BY <1>3, <1>4, <1>5, <1>6 DEF Inv, TypeOK

(* The end of the list: only an empty one leads anywhere but to stage 5. *)
LEMMA HandoffDoneInv == Inv /\ HandoffDone => Inv'
<1>. SUFFICES ASSUME Inv, HandoffDone PROVE Inv'
  OBVIOUS
<1>. USE DEF boardVars, hwVars, bootVars, imageVars, stageVars, handoffVars
<1>1. /\ pc = "execute" /\ errorReg = XFSBL_COMPLETED /\ partitionNum > 0
      /\ board.mode \in DriverModes /\ stage = "HANDOFF"
  BY DEF Inv, Progress, HandoffDone
<1>2. handoff = <<>> => started = <<>>
  <2>1. SUFFICES ASSUME handoff = <<>> PROVE started = <<>>
    OBVIOUS
  <2>2. DOMAIN started = {}
    BY <1>1, <2>1 DEF Inv, StartedAreListed
  <2>. QED BY <2>2 DEF Inv, TypeOK, HandoffTypeOK
<1>3. HardwareTypeOK' /\ HandoffTypeOK' /\ HandoffDistinct'
  BY DEF Inv, TypeOK, HardwareTypeOK, HandoffTypeOK, HandoffDistinct, HandoffDone
<1>4. PICK s \in HandoffResults :
        \/ s = XFSBL_FAILURE /\ HandoffFails(s)
        \/ /\ s # XFSBL_FAILURE
           /\ pc' = "stage" /\ status' = s
           /\ stage' = CASE s = STATUS_PARTITION_LOAD_IN_PROGRESS -> "PARTITION_LOAD"
                         [] s = XFSBL_STATUS_CONTINUE_OTHER_HANDOFF -> "HANDOFF"
                         [] OTHER -> "POST_HANDOFF"
           /\ partitionNum' = IF s = STATUS_PARTITION_LOAD_IN_PROGRESS
                              THEN partitionNum + 1 ELSE partitionNum
  BY DEF HandoffDone
<1>5. StageTypeOK' /\ Progress' /\ Vetted' /\ StartedAreListed'
  <2>1. CASE s = XFSBL_FAILURE
    BY <1>4, <2>1, CodesAreErrors, HandoffFailsProgress DEF HandoffDone
  <2>2. CASE s # XFSBL_FAILURE
    <3>1. s \in Nat
      BY <2>2, OtherWords DEF HandoffResults
    <3>2. /\ pc' = "stage" /\ status' = s
          /\ partitionNum' \in {partitionNum, partitionNum + 1}
      BY <1>4, <2>2
    <3>3. \/ stage' \in {"PARTITION_LOAD", "HANDOFF"} /\ started = <<>>
          \/ stage' = "POST_HANDOFF"
      <4>1. CASE handoff = <<>>
        BY <1>2, <1>4, <2>2, <4>1
      <4>2. CASE handoff # <<>>
        <5>1. s = XFSBL_SUCCESS
          BY <4>2 DEF HandoffResults
        <5>2. /\ s # STATUS_PARTITION_LOAD_IN_PROGRESS
              /\ s # XFSBL_STATUS_CONTINUE_OTHER_HANDOFF
          BY <5>1 DEF XFSBL_SUCCESS, STATUS_PARTITION_LOAD_IN_PROGRESS,
                      XFSBL_STATUS_CONTINUE_OTHER_HANDOFF
        <5>. QED BY <1>4, <2>2, <5>2
      <4>. QED BY <4>1, <4>2
    <3>4. partitionNum' \in Nat /\ partitionNum' > 0
      BY <1>1, <3>2 DEF Inv, TypeOK, StageTypeOK
    <3>5. StageTypeOK'
      BY <3>1, <3>2, <3>3, <3>4
      DEF Inv, TypeOK, StageTypeOK, HandoffDone, Running, Stages
    <3>6. Progress' /\ Vetted' /\ StartedAreListed'
      BY <1>1, <3>2, <3>3, <3>4 DEF Progress, Vetted, StartedAreListed, HandoffDone
    <3>. QED BY <3>5, <3>6
  <2>. QED BY <2>1, <2>2
<1>. QED BY <1>3, <1>5 DEF Inv, TypeOK

(* Stage 5: the loader waits for events. *)
LEMMA PostHandoffInv == Inv /\ PostHandoff => Inv'
<1>. SUFFICES ASSUME Inv, PostHandoff PROVE Inv'
  OBVIOUS
<1>. USE DEF boardVars, hwVars, bootVars, imageVars, stageVars, handoffVars
<1>1. HardwareTypeOK' /\ HandoffTypeOK' /\ HandoffDistinct'
  BY DEF Inv, TypeOK, HardwareTypeOK, HandoffTypeOK, HandoffDistinct, PostHandoff
<1>2. StageTypeOK' /\ Progress' /\ Vetted' /\ StartedAreListed'
  BY DEF Inv, TypeOK, StageTypeOK, Progress, Vetted, StartedAreListed, PostHandoff, Goto,
         Running, Stopped
<1>. QED BY <1>1, <1>2 DEF Inv, TypeOK

(* The lockdown stops the loader. *)
LEMMA LockDownInv ==
  ASSUME Inv, NEW code \in Nat, ErrorLockDown(code)
  PROVE  Inv' /\ pc' \in Stopped
<1>. USE DEF boardVars, hwVars, bootVars, imageVars, stageVars, handoffVars
<1>1. pc' \in {"reset_wait", "spin", "wfe"} /\ UNCHANGED <<stage, status, partitionNum>>
  BY DEF ErrorLockDown, Goto
<1>2. HardwareTypeOK'
  <2>1. multiBoot' \in {multiBoot, multiBoot + 1} /\ execDone' \in {execDone, TRUE}
    BY DEF ErrorLockDown
  <2>2. multiBoot' \in Nat /\ errorReg' \in Nat
    BY <2>1 DEF Inv, TypeOK, HardwareTypeOK, ErrorLockDown
  <2>3. execDone' \in BOOLEAN
    BY <2>1 DEF Inv, TypeOK, HardwareTypeOK
  <2>. QED BY <2>2, <2>3 DEF Inv, TypeOK, HardwareTypeOK, ErrorLockDown
<1>3. StageTypeOK' /\ HandoffTypeOK'
  BY <1>1 DEF Inv, TypeOK, StageTypeOK, HandoffTypeOK, ErrorLockDown, Stopped
<1>4. Vetted' /\ HandoffDistinct' /\ Progress' /\ StartedAreListed'
  BY <1>1 DEF Inv, Vetted, HandoffDistinct, Progress, StartedAreListed, ErrorLockDown,
              Running
<1>. QED BY <1>1, <1>2, <1>3, <1>4 DEF Inv, TypeOK, Stopped

LEMMA StageErrInv == Inv /\ StageErr => Inv'
BY LockDownInv DEF StageErr, Inv, TypeOK, StageTypeOK

LEMMA ExceptionInv == Inv /\ Exception => Inv'
BY LockDownInv, OtherWords DEF Exception, ErrorWords

(* The PMU touches nothing of the loader. *)
LEMMA PmuInvariance ==
  ASSUME Inv, PmuUnchanged, pmu' \in PmuState
  PROVE  Inv'
<1>. USE DEF boardVars, hwVars, bootVars, imageVars, stageVars, handoffVars
<1>1. HardwareTypeOK' /\ StageTypeOK' /\ HandoffTypeOK'
  BY DEF Inv, TypeOK, HardwareTypeOK, StageTypeOK, HandoffTypeOK, PmuUnchanged
<1>2. Vetted' /\ HandoffDistinct'
  BY DEF Inv, Vetted, Accepted, PartitionHeaderOf, HandoffDistinct, PmuUnchanged
<1>3. Progress' /\ StartedAreListed'
  BY DEF Inv, Progress, StartedAreListed, PmuUnchanged
<1>. QED BY <1>1, <1>2, <1>3 DEF Inv, TypeOK

LEMMA PmuSleepInv == Inv /\ PmuSleep => Inv'
<1>1. Inv => (pmu.fw /\ FwStaysPresent) \in BOOLEAN
  OBVIOUS
<1>. QED BY <1>1, PmuStates, PmuInvariance DEF PmuSleep, Inv, TypeOK, HardwareTypeOK

LEMMA PmuStartInv == Inv /\ PmuStart => Inv'
BY PmuStates, PmuInvariance DEF PmuStart, Inv, TypeOK, HardwareTypeOK

(* A reset brings back the initial values of the loader. *)
LEMMA ResetInv ==
  ASSUME Inv, NEW c \in ResetCauses, Reset(c)
  PROVE  Inv'
<1>. USE DEF boardVars, hwVars, bootVars, imageVars, stageVars, handoffVars
<1>1. pmu' \in PmuState /\ execDone' \in BOOLEAN /\ boots' \in 0..MaxBoots
  <2>1. boots' \in 0..MaxBoots
    BY MaxBootsAssumption DEF Inv, TypeOK, HardwareTypeOK, Reset
  <2>2. /\ pmu' = pmu \/ pmu' \in PowerOnPmu
        /\ execDone' = execDone \/ execDone' = FALSE
    BY DEF Reset
  <2>. QED BY <2>1, <2>2, PmuStates DEF Inv, TypeOK, HardwareTypeOK
<1>2. psOnlyReset' \in BOOLEAN /\ irqPending' \in BOOLEAN /\ apuReset' \in 0..1
  <2>1. psOnlyReset' \in BOOLEAN
    BY Zenon DEF Reset
  <2>2. irqPending' \in BOOLEAN
    <3>1. CASE c \in {"PS_ONLY", "APU_ONLY"}
      BY <3>1, Zenon DEF Reset
    <3>2. CASE c \notin {"PS_ONLY", "APU_ONLY"}
      BY <3>2, Zenon DEF Reset
    <3>. QED BY <3>1, <3>2
  <2>3. apuReset' \in 0..1
    <3>1. apuReset' = 0 \/ apuReset' = 1
      BY DEF Reset
    <3>. QED BY <3>1
  <2>. QED BY <2>1, <2>2, <2>3
<1>3. HardwareTypeOK'
  BY <1>1, <1>2 DEF Inv, TypeOK, HardwareTypeOK, Reset
<1>4. StageTypeOK'
  BY OtherWords DEF Reset, LoaderRestarts, StageTypeOK, Running, Stages
<1>5. HandoffTypeOK'
  BY DEF Reset, LoaderRestarts, HandoffTypeOK
<1>6. Vetted' /\ HandoffDistinct' /\ Progress' /\ StartedAreListed'
  BY DEF Reset, LoaderRestarts, Vetted, HandoffDistinct, Progress, StartedAreListed
<1>. QED BY <1>3, <1>4, <1>5, <1>6 DEF Inv, TypeOK

LEMMA ResetsInv == Inv /\ (SoftReset \/ WatchdogReset \/ SystemReset) => Inv'
BY ResetInv DEF SoftReset, WatchdogReset, SystemReset, ResetCauses

LEMMA StutterInv == Inv /\ UNCHANGED vars => Inv'
<1>. SUFFICES ASSUME Inv, UNCHANGED vars PROVE Inv'
  OBVIOUS
<1>. USE DEF vars, boardVars, hwVars, bootVars, imageVars, stageVars, handoffVars
<1>1. HardwareTypeOK' /\ StageTypeOK' /\ HandoffTypeOK'
  BY DEF Inv, TypeOK, HardwareTypeOK, StageTypeOK, HandoffTypeOK
<1>2. Vetted' /\ HandoffDistinct' /\ Progress' /\ StartedAreListed'
  BY DEF Inv, Vetted, Accepted, PartitionHeaderOf, HandoffDistinct, Progress,
         StartedAreListed
<1>. QED BY <1>1, <1>2 DEF Inv, TypeOK

LEMMA InvNext == Inv /\ [Next]_vars => Inv'
BY InitializeInv, BootDeviceInitInv, PartitionHeaderValidationInv, PartitionCopyInv,
   WaitPmuSleepInv, DeviceCopyInv, PartitionValidationInv, WaitPmuWakeInv, HandoffInv,
   ReleaseCpuInv, HandoffSelfInv, HandoffDoneInv, PostHandoffInv, StageErrInv,
   ExceptionInv, PmuSleepInv, PmuStartInv, ResetsInv, StutterInv
DEF Next, FsblStep

THEOREM InvAlways == Spec => []Inv
BY InvInit, InvNext, PTL DEF Spec

(* Every word the loader keeps stays in its range, for all boards, all contents
   of the flash and any number of resets. *)
THEOREM TypeCorrect == Spec => []TypeOK
<1>1. Inv => TypeOK
  BY DEF Inv
<1>. QED BY <1>1, InvAlways, PTL

-----------------------------------------------------------------------------
(* The handoff list fits its array. *)

LEMMA OneMore ==
  ASSUME NEW S, IsFiniteSet(S), NEW n \in Nat, Cardinality(S) <= n, NEW x
  PROVE  IsFiniteSet(S \cup {x}) /\ Cardinality(S \cup {x}) <= n + 1
<1>1. Cardinality(S) \in Nat
  BY FS_CardinalityType
<1>2. /\ IsFiniteSet(S \cup {x})
      /\ Cardinality(S \cup {x}) = IF x \in S THEN Cardinality(S) ELSE Cardinality(S) + 1
  BY FS_AddElement, Zenon
<1>. QED BY <1>1, <1>2

LEMMA EightCpus == IsFiniteSet(Cpus) /\ Cardinality(Cpus) <= 8
<1>. DEFINE Bounded(S, n) == IsFiniteSet(S) /\ Cardinality(S) <= n
            a0 == {"A53_0"}            a1 == a0 \cup {"A53_1"}  a2 == a1 \cup {"A53_2"}
            a3 == a2 \cup {"A53_3"}    r0 == a3 \cup {"R5_0"}   r1 == r0 \cup {"R5_1"}
            rl == r1 \cup {"R5_L"}     pm == rl \cup {"PMU"}
<1>1. Bounded({}, 0)
  BY FS_EmptySet
<1>2. \A S, x : \A n \in Nat : Bounded(S, n) => Bounded(S \cup {x}, n + 1)
  BY OneMore
<1>3. Bounded(a0, 0 + 1)
  <2>1. a0 = {} \cup {"A53_0"}
    OBVIOUS
  <2>. QED BY <1>1, <1>2, <2>1
<1>. HIDE DEF Bounded, a0
<1>4. Bounded(a1, 2)
  <2>1. Bounded(a1, 1 + 1)
    BY <1>3, <1>2
  <2>. QED BY <2>1
<1>5. Bounded(a2, 3)
  <2>1. Bounded(a2, 2 + 1)
    BY <1>4, <1>2
  <2>. QED BY <2>1
<1>6. Bounded(a3, 4)
  <2>1. Bounded(a3, 3 + 1)
    BY <1>5, <1>2
  <2>. QED BY <2>1
<1>7. Bounded(r0, 5)
  <2>1. Bounded(r0, 4 + 1)
    BY <1>6, <1>2
  <2>. QED BY <2>1
<1>8. Bounded(r1, 6)
  <2>1. Bounded(r1, 5 + 1)
    BY <1>7, <1>2
  <2>. QED BY <2>1
<1>9. Bounded(rl, 7)
  <2>1. Bounded(rl, 6 + 1)
    BY <1>8, <1>2
  <2>. QED BY <2>1
<1>10. Bounded(pm, 8)
  <2>1. Bounded(pm, 7 + 1)
    BY <1>9, <1>2
  <2>. QED BY <2>1
<1>11. Cpus = pm
  BY Zenon DEF Cpus, A53Cpus, R5Cpus, a0
<1>. QED BY <1>10, <1>11 DEF Bounded

(* A list without duplicates is no longer than there are processors. *)
LEMMA HandoffFits == Inv => HandoffListOK
<1>. SUFFICES ASSUME Inv PROVE HandoffListOK
  OBVIOUS
<1>1. handoff \in Seq(HandoffValue) /\ Len(handoff) \in Nat
      /\ DOMAIN handoff = 1..Len(handoff)
  BY DEF Inv, TypeOK, HandoffTypeOK
<1>2. \A i, j \in DOMAIN handoff : handoff[i].cpu = handoff[j].cpu => i = j
  BY DEF Inv, HandoffDistinct
<1>3. Len(handoff) <= 8
  <2>. DEFINE cpuOf == [i \in 1..Len(handoff) |-> handoff[i].cpu]
  <2>1. SUFFICES ASSUME Len(handoff) > 8 PROVE FALSE
    BY <1>1
  <2>2. cpuOf \in [1..Len(handoff) -> Cpus]
    <3>1. \A i \in 1..Len(handoff) : handoff[i].cpu \in Cpus
      <4>1. \A v \in HandoffValue : v.cpu \in Cpus
        BY DEF HandoffValue
      <4>2. \A i \in 1..Len(handoff) : handoff[i] \in HandoffValue
        BY <1>1
      <4>. QED BY <4>1, <4>2
    <3>. QED BY <3>1
  <2>3. IsFiniteSet(1..Len(handoff)) /\ Cardinality(1..Len(handoff)) = Len(handoff)
    <3>1. Len(handoff) \in Int
      BY <1>1
    <3>2. \A n \in Int : /\ IsFiniteSet(1..n)
                         /\ Cardinality(1..n) = IF 1 > n THEN 0 ELSE n - 1 + 1
      BY FS_Interval
    <3>3. /\ IsFiniteSet(1..Len(handoff))
          /\ Cardinality(1..Len(handoff)) = Len(handoff) - 1 + 1
      BY <2>1, <3>1, <3>2
    <3>. QED BY <3>1, <3>3
  <2>4. Cardinality(Cpus) \in Nat
    BY EightCpus, FS_CardinalityType
  <2>5. Cardinality(Cpus) < Cardinality(1..Len(handoff))
    BY <1>1, <2>1, <2>3, <2>4, EightCpus
  <2>6. \E i, j \in 1..Len(handoff) : i # j /\ handoff[i].cpu = handoff[j].cpu
    <3>. HIDE DEF cpuOf
    <3>1. \E i, j \in 1..Len(handoff) : i # j /\ cpuOf[i] = cpuOf[j]
      BY <2>2, <2>3, <2>5, EightCpus, FS_PigeonHole, Zenon
    <3>. QED BY <3>1 DEF cpuOf
  <2>. QED BY <1>1, <1>2, <2>6
<1>. QED BY <1>1, <1>2, <1>3 DEF HandoffListOK

(* Whatever the image, the handoff list names a processor at most once and
   never outgrows HandoffValues. *)
THEOREM HandoffListCorrect == Spec => []HandoffListOK
BY InvAlways, HandoffFits, PTL

-----------------------------------------------------------------------------
(* The PMU and its RAM. *)

(* A step that leaves the PMU alone keeps PmuInv, unless it starts a copy or
   leaves a place where a wake-up may be pending. *)
LEMMA PmuAlone ==
  ASSUME PmuInv, pmu' = pmu, pc' # "device_copy",
         pc \notin {"wait_wake", "reset_wait", "spin"}
  PROVE  PmuInv'
BY DEF PmuInv, PmuRamQuiet

LEMMA PmuNext ==
  ASSUME FwStaysPresent = FALSE
  PROVE  Inv /\ PmuInv /\ [Next]_vars => PmuInv'
<1>. SUFFICES ASSUME Inv, PmuInv, [Next]_vars PROVE PmuInv'
  OBVIOUS
<1>. USE DEF boardVars, hwVars, bootVars, imageVars, stageVars, handoffVars
<1>1. pmu \in PmuState
  BY DEF Inv, TypeOK, HardwareTypeOK
<1>2. CASE Initialize \/ BootDeviceInit \/ PartitionHeaderValidation \/ DeviceCopy
  <2>1. pmu' = pmu /\ pc' # "device_copy" /\ pc \in {"stage", "device_copy"}
    BY <1>2 DEF Initialize, BootDeviceInit, PartitionHeaderValidation, DeviceCopy, Goto,
                PartitionDone, PartitionFails
  <2>. QED BY <2>1, PmuAlone
<1>3. CASE Handoff \/ ReleaseCpu \/ HandoffSelf \/ HandoffDone \/ PostHandoff
  <2>1. pmu' = pmu /\ pc' # "device_copy" /\ pc \in {"stage", "execute"}
    BY <1>3 DEF Handoff, ReleaseCpu, HandoffSelf, HandoffDone, PostHandoff, Goto,
                HandoffFails
  <2>. QED BY <2>1, PmuAlone
<1>4. CASE PartitionCopy
  <2>1. /\ pmu'.mode = pmu.mode /\ pmu'.wake = pmu.wake /\ pmu'.fw = pmu.fw
    BY <1>1, <1>4 DEF PartitionCopy, PmuState
  <2>2. pc = "copy" /\ (pc' = "device_copy" => CurrentHeader.cpu # "PMU")
    BY <1>4 DEF PartitionCopy, Goto
  <2>3. CurrentHeader' = CurrentHeader
    BY <1>4 DEF PartitionCopy, Goto, CurrentHeader, PartitionHeaderOf
  <2>. QED BY <2>1, <2>2, <2>3 DEF PmuInv, PmuRamQuiet
<1>5. CASE WaitPmuSleep
  BY <1>5 DEF PmuInv, PmuRamQuiet, WaitPmuSleep
<1>6. CASE PartitionValidation
  <2>1. CASE PmuFwLoadDone(partitionNum)
    <3>1. pc' = "wait_wake" /\ pmu' = [pmu EXCEPT !.wake = TRUE]
      BY <1>6, <2>1 DEF PartitionValidation, Goto
    <3>2. pmu'.mode = pmu.mode /\ pmu'.fw = pmu.fw
      BY <1>1, <3>1 DEF PmuState
    <3>. QED BY <3>1, <3>2 DEF PmuInv, PmuRamQuiet
  <2>2. CASE ~PmuFwLoadDone(partitionNum)
    BY <1>6, <2>2, PmuAlone DEF PartitionValidation, PartitionDone
  <2>. QED BY <2>1, <2>2
<1>7. CASE WaitPmuWake
  BY <1>7 DEF PmuInv, PmuRamQuiet, WaitPmuWake, PartitionDone
<1>8. CASE StageErr
  BY <1>8, PmuAlone DEF StageErr, ErrorLockDown, Goto
<1>9. CASE Exception
  <2>1. pmu' = pmu /\ pc \in Running /\ pc' \in {"reset_wait", "spin", "wfe"}
    BY <1>9 DEF Exception, ErrorLockDown, Goto
  <2>2. CASE pc = "wait_wake"
    <3>1. board.mode \in FallbackModes
      BY <2>2 DEF Inv, Progress, Running, DriverModes, FallbackModes, BootModes
    <3>2. pc' \in {"reset_wait", "spin"}
      BY <1>9, <3>1 DEF Exception, ErrorLockDown, Goto
    <3>. QED BY <2>1, <3>2 DEF PmuInv, PmuRamQuiet
  <2>3. CASE pc # "wait_wake"
    BY <2>1, <2>3, PmuAlone DEF Running
  <2>. QED BY <2>2, <2>3
<1>10. CASE PmuSleep
  <2>1. pmu' = [mode |-> "sleep", ipi |-> FALSE, wake |-> FALSE, fw |-> FALSE]
    BY <1>10, Zenon DEF PmuSleep
  <2>. QED BY <2>1 DEF PmuInv, PmuRamQuiet
<1>11. CASE PmuStart
  <2>1. pc # "device_copy" /\ pc' = pc
    BY <1>11 DEF PmuStart, PmuInv, PmuUnchanged
  <2>2. pmu'.mode = "run"
    BY <1>1, <1>11 DEF PmuStart, PmuState
  <2>. QED BY <2>1, <2>2 DEF PmuInv, PmuRamQuiet
<1>12. CASE SoftReset \/ WatchdogReset
  <2>1. pc' = "stage" /\ pmu' \in PowerOnPmu
    BY <1>12 DEF SoftReset, WatchdogReset, Reset, LoaderRestarts
  <2>2. pmu'.mode = "run"
    BY <2>1 DEF PowerOnPmu
  <2>. QED BY <2>1, <2>2 DEF PmuInv, PmuRamQuiet
<1>13. CASE SystemReset
  <2>1. pc' = "stage" /\ pc \in {"app", "wfe"} /\ (pmu' = pmu \/ pmu' \in PowerOnPmu)
    BY <1>13 DEF SystemReset, Reset, LoaderRestarts
  <2>2. CASE pmu' = pmu
    BY <2>1, <2>2, PmuAlone
  <2>3. CASE pmu' \in PowerOnPmu
    <3>1. pmu'.mode = "run"
      BY <2>3 DEF PowerOnPmu
    <3>. QED BY <2>1, <3>1 DEF PmuInv, PmuRamQuiet
  <2>. QED BY <2>1, <2>2, <2>3
<1>14. CASE UNCHANGED vars
  BY <1>14 DEF PmuInv, PmuRamQuiet, CurrentHeader, PartitionHeaderOf, vars
<1>. QED
  BY <1>2, <1>3, <1>4, <1>5, <1>6, <1>7, <1>8, <1>9, <1>10, <1>11, <1>12, <1>13, <1>14
  DEF Next, FsblStep

(* If going to sleep clears FW_IS_PRESENT, the PMU never runs while its RAM is
   written, however its steps and those of the loader interleave. *)
THEOREM PmuRamStaysQuiet ==
  ASSUME FwStaysPresent = FALSE
  PROVE  Spec => []PmuRamQuiet
<1>1. Init => PmuInv
  <2>. SUFFICES ASSUME Init PROVE PmuInv
    OBVIOUS
  <2>2. pmu.mode = "run" /\ pc = "stage"
    <3>1. pmu \in PowerOnPmu /\ pc = "stage"
      BY DEF Init
    <3>2. \A p \in PowerOnPmu : p.mode = "run"
      BY DEF PowerOnPmu
    <3>. QED BY <3>1, <3>2
  <2>. QED BY <2>2 DEF PmuInv, PmuRamQuiet
<1>2. Inv /\ PmuInv /\ [Next]_vars => PmuInv'
  BY PmuNext
<1>3. PmuInv => PmuRamQuiet
  BY DEF PmuInv
<1>. QED BY <1>1, <1>2, <1>3, InvAlways, PTL DEF Spec

-----------------------------------------------------------------------------
(* FsblBoot implements BootProtocol. *)

(* A step that changes neither the register nor the processors started is a
   stutter of the protocol, while the loader is at work on either side of the
   commitment. *)
LEMMA ProtocolStutter ==
  ASSUME errorReg' = errorReg, started' = started,
         \/ errorReg = XFSBL_COMPLETED /\ partitionNum > 0 /\ partitionNum' > 0
         \/ /\ errorReg = XFSBL_RUNNING
            /\ pc \in Running /\ pc' \in Running
            /\ stage # "SYSTEM_INIT" /\ stage' # "SYSTEM_INIT"
  PROVE  UNCHANGED Protocol!protocolVars
<1>1. XFSBL_RUNNING # XFSBL_COMPLETED
  BY DEF XFSBL_RUNNING, XFSBL_COMPLETED
<1>2. UNCHANGED Released
  BY DEF Released
<1>3. UNCHANGED Report
  BY DEF Report
<1>4. UNCHANGED Phase
  BY <1>1 DEF Phase, Running, Stopped
<1>. QED BY <1>2, <1>3, <1>4 DEF Protocol!protocolVars

(* Appending a start state releases its processor. *)
LEMMA ReleasedGrows ==
  ASSUME Inv, NEW start \in [cpu: Cpus, entry: Addresses, vector: 0..1],
         started' = Append(started, start)
  PROVE  Released' = Released \cup {start.cpu}
<1>1. /\ DOMAIN started' = DOMAIN started \cup {Len(started) + 1}
      /\ \A i \in DOMAIN started : started'[i] = started[i]
      /\ started'[Len(started) + 1] = start
  BY DEF Inv, TypeOK, HandoffTypeOK
<1>. QED BY <1>1 DEF Released

(* The processor whose turn it is has not been started before. *)
LEMMA NotYetReleased ==
  ASSUME Inv, pc = "execute", cpuIndex <= Len(handoff)
  PROVE  handoff[cpuIndex].cpu \in Cpus \ Released
<1>1. cpuIndex \in DOMAIN handoff /\ cpuIndex \in Nat
      /\ handoff \in Seq(HandoffValue)
  BY DEF Inv, TypeOK, HandoffTypeOK
<1>2. handoff[cpuIndex].cpu \in Cpus
  <2>1. handoff[cpuIndex] \in HandoffValue
    BY <1>1
  <2>. QED BY <2>1 DEF HandoffValue
<1>3. ASSUME NEW i \in DOMAIN started PROVE started[i].cpu # handoff[cpuIndex].cpu
  <2>1. PICK j \in DOMAIN handoff : j < cpuIndex /\ started[i].cpu = handoff[j].cpu
    BY DEF Inv, StartedAreListed
  <2>2. j # cpuIndex
    BY <1>1, <2>1
  <2>. QED BY <1>1, <2>1, <2>2 DEF Inv, HandoffDistinct
<1>. QED BY <1>2, <1>3 DEF Released

(* A processor is released in the committed phase only. *)
LEMMA ReleaseStep ==
  ASSUME Inv, pc = "execute", cpuIndex <= Len(handoff),
         NEW start \in [cpu: Cpus, entry: Addresses, vector: 0..1],
         start.cpu = handoff[cpuIndex].cpu, started' = Append(started, start),
         UNCHANGED <<errorReg, partitionNum>>
  PROVE  Protocol!Release(handoff[cpuIndex].cpu)
<1>1. errorReg = XFSBL_COMPLETED /\ partitionNum > 0
  BY DEF Inv, Progress
<1>2. Phase = "committed" /\ Phase' = "committed" /\ UNCHANGED Report
  BY <1>1 DEF Phase, Report
<1>. QED BY <1>2, NotYetReleased, ReleasedGrows DEF Protocol!Release

(* The lockdown is the failure of the protocol. *)
LEMMA LockDownStep ==
  ASSUME Inv, pc \in Running, NEW code \in ErrorWords, ErrorLockDown(code)
  PROVE  Protocol!Fail
<1>1. /\ errorReg' = code /\ pc' \in Stopped /\ started' = started
      /\ code # XFSBL_COMPLETED /\ code # XFSBL_RUNNING
  BY DEF ErrorLockDown, Goto, Stopped, ErrorWords, handoffVars
<1>2. Phase # "failed"
  BY DEF Phase, Running, Stopped
<1>3. Phase' = "failed" /\ Report' = "error"
  BY <1>1 DEF Phase, Report
<1>4. Released' = Released
  BY <1>1 DEF Released
<1>. QED BY <1>2, <1>3, <1>4 DEF Protocol!Fail

LEMMA ResetStep ==
  ASSUME NEW c, Reset(c)
  PROVE  Protocol!Reset
<1>1. /\ pc' = "stage" /\ stage' = "SYSTEM_INIT" /\ partitionNum' = 0
      /\ started' = <<>> /\ errorReg' = errorReg
  BY DEF Reset, LoaderRestarts
<1>2. Phase' = "booting"
  BY <1>1 DEF Phase, Stopped
<1>3. Report' = Report
  BY <1>1 DEF Report
<1>4. Released' = {}
  BY <1>1 DEF Released
<1>. QED BY <1>2, <1>3, <1>4 DEF Protocol!Reset

LEMMA ProtocolStep ==
  Inv /\ [Next]_vars => [Protocol!Next]_Protocol!protocolVars
<1>. SUFFICES ASSUME Inv, [Next]_vars
              PROVE  Protocol!Next \/ UNCHANGED Protocol!protocolVars
  OBVIOUS
<1>. USE DEF boardVars, hwVars, bootVars, imageVars, stageVars, handoffVars
<1>0. Progress' /\ XFSBL_RUNNING # XFSBL_COMPLETED
  BY InvNext DEF Inv, XFSBL_RUNNING, XFSBL_COMPLETED
<1>1. CASE Initialize
  <2>1. /\ pc = "stage" /\ pc' = "stage" /\ stage = "SYSTEM_INIT" /\ started' = started
        /\ partitionNum = 0 /\ partitionNum' = 0
        /\ errorReg' \in {errorReg, XFSBL_RUNNING} /\ stage' # "SYSTEM_INIT"
    BY <1>1 DEF Inv, Progress, Running, Initialize, ResetValidation
  <2>2. Phase = "booting" /\ Released' = Released
    BY <2>1 DEF Phase, Released, Stopped
  <2>3. CASE errorReg' = XFSBL_RUNNING
    <3>1. Phase' = "loading" /\ Report' = "running"
      BY <1>0, <2>1, <2>3 DEF Phase, Report, Stopped
    <3>. QED BY <2>2, <3>1 DEF Protocol!Next, Protocol!Begin
  <2>4. CASE errorReg' # XFSBL_RUNNING
    <3>1. Phase' = "booting" /\ Report' = Report
      BY <2>1, <2>4 DEF Phase, Report, Stopped
    <3>. QED BY <2>2, <3>1 DEF Protocol!protocolVars
  <2>. QED BY <2>3, <2>4
<1>2. CASE BootDeviceInit
  <2>1. /\ errorReg = XFSBL_RUNNING /\ errorReg' = errorReg /\ started' = started
        /\ pc \in Running /\ pc' \in Running
        /\ stage # "SYSTEM_INIT" /\ stage' # "SYSTEM_INIT"
    BY <1>2 DEF Inv, Progress, Running, BootDeviceInit
  <2>. QED BY <2>1, ProtocolStutter
<1>3. CASE \/ PartitionHeaderValidation \/ PartitionCopy \/ WaitPmuSleep \/ DeviceCopy
           \/ PartitionValidation \/ WaitPmuWake
  <2>1. Loading
    BY <1>3, LoadingFromPc
    DEF PartitionHeaderValidation, PartitionCopy, WaitPmuSleep, DeviceCopy,
        PartitionValidation, WaitPmuWake
  <2>2. /\ errorReg' = errorReg /\ started' = started
        /\ pc' \in Running /\ stage' # "SYSTEM_INIT"
        /\ partitionNum' \in {partitionNum, partitionNum + 1}
    BY <1>3, <2>1
    DEF PartitionHeaderValidation, PartitionCopy, WaitPmuSleep, DeviceCopy,
        PartitionValidation, WaitPmuWake, Goto, PartitionDone, PartitionFails, Loading,
        Running
  <2>3. partitionNum' > 0
    BY <2>1, <2>2 DEF Loading, Inv, TypeOK, StageTypeOK
  <2>. QED BY <2>1, <2>2, <2>3, ProtocolStutter DEF Loading
<1>4. CASE Handoff
  <2>1. /\ pc = "stage" /\ stage = "HANDOFF" /\ started' = started
        /\ \/ errorReg = XFSBL_RUNNING
           \/ errorReg = XFSBL_COMPLETED /\ partitionNum > 0
        /\ partitionNum > 0 \/ board.mode = "JTAG"
        /\ partitionNum' = partitionNum
    BY <1>4 DEF Inv, Progress, Handoff, HandoffFails, Goto
  <2>2. CASE errorReg' = errorReg /\ HandoffFails(XFSBL_ERROR_PM_INIT)
    <3>1. pc' = "stage" /\ stage' = "ERR"
      BY <2>2 DEF HandoffFails
    <3>. QED BY <2>1, <2>2, <3>1, ProtocolStutter DEF Running
  <2>3. CASE /\ errorReg' = XFSBL_COMPLETED
             /\ Goto("wfe") \/ (Goto("execute") /\ board.mode # "JTAG")
    <3>1. Phase' = "committed" /\ Report' = "completed" /\ Released' = Released
      BY <1>0, <2>1, <2>3 DEF Phase, Report, Released, Goto
    <3>2. CASE errorReg = XFSBL_RUNNING
      <4>1. Phase = "loading"
        BY <1>0, <2>1, <3>2 DEF Phase, Stopped
      <4>. QED BY <3>1, <4>1 DEF Protocol!Next, Protocol!Commit
    <3>3. CASE errorReg = XFSBL_COMPLETED /\ partitionNum > 0
      <4>1. Phase = "committed" /\ Report = "completed"
        BY <1>0, <3>3 DEF Phase, Report
      <4>. QED BY <3>1, <4>1 DEF Protocol!protocolVars
    <3>. QED BY <2>1, <3>2, <3>3
  <2>4. \/ HandoffFails(XFSBL_ERROR_PM_INIT) /\ errorReg' = errorReg
        \/ errorReg' = XFSBL_COMPLETED /\ Goto("wfe")
        \/ errorReg' = XFSBL_COMPLETED /\ Goto("execute") /\ board.mode # "JTAG"
    BY <1>4 DEF Handoff
  <2>. QED BY <2>2, <2>3, <2>4
<1>5. CASE ReleaseCpu
  <2>. DEFINE e == handoff[cpuIndex]
  <2>1. CASE ReleaseStatus(e.cpu) # XFSBL_SUCCESS
    <3>1. /\ errorReg' = errorReg /\ started' = started /\ partitionNum' = partitionNum
          /\ errorReg = XFSBL_COMPLETED /\ partitionNum > 0
      BY <1>5, <2>1 DEF Inv, Progress, ReleaseCpu, HandoffFails
    <3>. QED BY <3>1, ProtocolStutter
  <2>2. CASE ReleaseStatus(e.cpu) = XFSBL_SUCCESS
    <3>. DEFINE start == StartState(e)
    <3>1. e \in HandoffValue
      BY <1>5 DEF Inv, TypeOK, HandoffTypeOK, ReleaseCpu
    <3>2. start \in [cpu: Cpus, entry: Addresses, vector: 0..1] /\ start.cpu = e.cpu
      BY <3>1, StartStateType
    <3>3. /\ pc = "execute" /\ cpuIndex <= Len(handoff)
          /\ started' = Append(started, start) /\ UNCHANGED <<errorReg, partitionNum>>
      BY <1>5, <2>2 DEF ReleaseCpu, Goto
    <3>. HIDE DEF start
    <3>4. Protocol!Release(e.cpu) /\ e.cpu \in Cpus
      BY <3>2, <3>3, ReleaseStep
    <3>. QED BY <3>4 DEF Protocol!Next
  <2>. QED BY <2>1, <2>2
<1>6. CASE HandoffSelf
  <2>. DEFINE e == handoff[cpuIndex]
              start == [cpu |-> e.cpu, entry |-> SelfEntry(e.entry), vector |-> 0]
  <2>1. /\ pc = "execute" /\ cpuIndex <= Len(handoff)
        /\ errorReg' = errorReg /\ partitionNum' = partitionNum
        /\ errorReg = XFSBL_COMPLETED /\ partitionNum > 0
        /\ started' = started \/ started' = Append(started, start)
    BY <1>6 DEF Inv, Progress, HandoffSelf, HandoffFails, Goto
  <2>2. start \in [cpu: Cpus, entry: Addresses, vector: 0..1] /\ start.cpu = e.cpu
    BY <2>1, SelfStartType DEF Inv, TypeOK, HandoffTypeOK
  <2>. HIDE DEF start
  <2>3. CASE started' = started
    BY <2>1, <2>3, ProtocolStutter
  <2>4. CASE started' = Append(started, start)
    <3>1. Protocol!Release(e.cpu) /\ e.cpu \in Cpus
      BY <2>1, <2>2, <2>4, ReleaseStep
    <3>. QED BY <3>1 DEF Protocol!Next
  <2>. QED BY <2>1, <2>3, <2>4
<1>7. CASE HandoffDone \/ PostHandoff
  <2>1. /\ errorReg' = errorReg /\ started' = started
        /\ errorReg = XFSBL_COMPLETED /\ partitionNum > 0
        /\ partitionNum' \in {partitionNum, partitionNum + 1}
    BY <1>7 DEF Inv, Progress, Running, HandoffDone, PostHandoff, HandoffFails, Goto
  <2>2. partitionNum' > 0
    BY <2>1 DEF Inv, TypeOK, StageTypeOK
  <2>. QED BY <2>1, <2>2, ProtocolStutter
<1>8. CASE StageErr
  <2>1. pc \in Running /\ status \in ErrorWords
    BY <1>8 DEF Inv, Progress, StageErr, Running
  <2>. QED BY <1>8, <2>1, LockDownStep DEF StageErr, Protocol!Next
<1>9. CASE Exception
  BY <1>9, LockDownStep, OtherWords DEF Exception, Protocol!Next
<1>10. CASE PmuSleep \/ PmuStart \/ UNCHANGED vars
  <2>1. UNCHANGED <<errorReg, started, pc, stage, partitionNum>>
    BY <1>10 DEF PmuSleep, PmuStart, PmuUnchanged, vars
  <2>. QED BY <2>1 DEF Phase, Report, Released, Protocol!protocolVars
<1>11. CASE SoftReset \/ WatchdogReset \/ SystemReset
  BY <1>11, ResetStep DEF SoftReset, WatchdogReset, SystemReset, Protocol!Next
<1>. QED
  BY <1>1, <1>2, <1>3, <1>4, <1>5, <1>6, <1>7, <1>8, <1>9, <1>10, <1>11
  DEF Next, FsblStep

(* Every behaviour of the loader, its PMU and its resets is one of the boot
   protocol: processors start after the commitment only, each at most once, and
   nothing starts after a failure until a reset. *)
THEOREM Implementation == Spec => ImplementsProtocol
<1>1. Init => Protocol!Init
  <2>. SUFFICES ASSUME Init PROVE Protocol!Init
    OBVIOUS
  <2>1. /\ errorReg = XFSBL_COMPLETED /\ partitionNum = 0 /\ pc = "stage"
        /\ stage = "SYSTEM_INIT" /\ started = <<>>
    BY DEF Init
  <2>2. XFSBL_RUNNING # XFSBL_COMPLETED
    BY DEF XFSBL_RUNNING, XFSBL_COMPLETED
  <2>. QED BY <2>1, <2>2 DEF Protocol!Init, Phase, Report, Released, Stopped
<1>2. Inv /\ [Next]_vars => [Protocol!Next]_Protocol!protocolVars
  BY ProtocolStep
<1>. QED BY <1>1, <1>2, InvAlways, PTL DEF Spec, ImplementsProtocol, Protocol!Spec
-----------------------------------------------------------------------------
(* Partition p is dealt with: it is another loader's, or it is in memory unless
   it is executed in place or left where a reset of the PS alone found it. *)
Dealt(p) ==
  /\ PartitionHeaderStatus(PartitionHeaderOf(p), resetReason)
       \in {XFSBL_SUCCESS, XFSBL_SUCCESS_NOT_PARTITION_OWNER}
  /\ Accepted(p) /\ ~PartitionHeaderOf(p).xip /\ ~SkipsBitstream(PartitionHeaderOf(p))
       => p \in loaded

AllDealt(n) == \A p \in 1..n : Dealt(p)

(* What stage 2 read is the table of the image at offset 0, and it was valid. *)
ImageRead ==
  /\ imageOffset = 0 /\ ImageHeaderTableStatus(flash[0]) = XFSBL_SUCCESS
  /\ noOfPartitions = Len(flash[0].headers)
  /\ headers = IF flash[0].ppd = "SAME" THEN flash[0].headers ELSE <<>>

(* No partition of the image is left. *)
WholeImage == AllDealt(partitionNum) /\ noOfPartitions - 1 <= partitionNum

(* Nothing has been loaded before the first partition. *)
NothingYet == started = <<>> /\ loaded = {} /\ handoff = <<>> /\ noOfPartitions = 0

LoadInv ==
  /\ partitionNum = 0 => NothingYet
  /\ stage \in {"SYSTEM_INIT", "PRIMARY_BOOT_DEVICE_INIT"} => partitionNum = 0
  /\ partitionNum > 0 => ImageRead
  /\ loaded \subseteq 1..partitionNum
  /\ stage = "PARTITION_LOAD" => partitionNum > 0 /\ AllDealt(partitionNum - 1)
  /\ pc \in {"validate", "wait_wake"} => Dealt(partitionNum)
  /\ stage \in {"HANDOFF", "POST_HANDOFF"} => WholeImage
  /\ started # <<>> => WholeImage
-----------------------------------------------------------------------------
(* No partition fails, and none is left out: LoadInv is inductive relative to Inv. *)

(* Whether a partition is dealt with depends on the headers, the reset reason
   and what is loaded, and nothing undoes it while a boot lasts. *)
LEMMA DealtStays ==
  ASSUME headers' = headers, resetReason' = resetReason, loaded \subseteq loaded',
         NEW p, Dealt(p)
  PROVE  Dealt(p)'
BY DEF Dealt, Accepted, PartitionHeaderOf, SkipsBitstream

LEMMA AllDealtStays ==
  ASSUME headers' = headers, resetReason' = resetReason, loaded \subseteq loaded',
         NEW n, AllDealt(n)
  PROVE  AllDealt(n)'
BY DealtStays DEF AllDealt

(* With the partition at hand, those up to it are dealt with. *)
LEMMA AllDealtUpTo ==
  ASSUME NEW n \in Nat, AllDealt(n - 1), Dealt(n)
  PROVE  AllDealt(n)
<1>1. \A p \in 1..n : p \in 1..(n - 1) \/ p = n
  OBVIOUS
<1>. QED BY <1>1 DEF AllDealt

(* A slot past the table holds zeroes, which no check accepts. *)
LEMMA DealtIsInTable ==
  ASSUME NEW p, Dealt(p)
  PROVE  p + 1 \in DOMAIN headers
<1>1. PartitionHeaderStatus(ZeroHeader, resetReason)
        \notin {XFSBL_SUCCESS, XFSBL_SUCCESS_NOT_PARTITION_OWNER}
  BY DEF PartitionHeaderStatus, ZeroHeader, XFSBL_ERROR_PH_CHECKSUM_FAILED,
         XFSBL_SUCCESS, XFSBL_SUCCESS_NOT_PARTITION_OWNER
<1>. QED BY <1>1 DEF Dealt, PartitionHeaderOf

(* The steps outside the stages that change no word of LoadInv but the label and
   the status, and the turn to the error stage. *)
LEMMA LoadInvKept ==
  ASSUME LoadInv, pc' \notin {"validate", "wait_wake"},
         UNCHANGED <<partitionNum, flash, imageVars, handoff, loaded, started>>,
         stage' \in {stage, "ERR"}
  PROVE  LoadInv'
<1>1. UNCHANGED <<headers, resetReason, noOfPartitions, imageOffset>>
  BY DEF imageVars
<1>2. \A n : AllDealt(n) => AllDealt(n)'
  BY <1>1, AllDealtStays
<1>3. PICK n : n = partitionNum
  OBVIOUS
<1>4. n = partitionNum'
  BY <1>3
<1>5. WholeImage => WholeImage'
  BY <1>1, <1>2, <1>3, <1>4 DEF WholeImage
<1>6. ImageRead => ImageRead'
  BY <1>1 DEF ImageRead
<1>7. NothingYet => NothingYet'
  BY <1>1 DEF NothingYet
<1>8. AllDealt(n - 1) => AllDealt(n - 1)'
  BY <1>2
<1>9. stage' = "PARTITION_LOAD" => partitionNum' > 0 /\ AllDealt(partitionNum - 1)'
  BY <1>3, <1>4, <1>8 DEF LoadInv
<1>. QED BY <1>5, <1>6, <1>7, <1>9 DEF LoadInv

(* Stages 1 and 2: nothing is loaded, and a table that is not valid ends them. *)
LEMMA InitializeLoad == Inv /\ LoadInv /\ Initialize => LoadInv'
<1>. SUFFICES ASSUME Inv, LoadInv, Initialize PROVE LoadInv'
  OBVIOUS
<1>1. /\ partitionNum = 0 /\ partitionNum' = 0 /\ NothingYet
      /\ pc' = "stage" /\ stage' \in {"PRIMARY_BOOT_DEVICE_INIT", "ERR"}
  BY DEF LoadInv, Initialize
<1>2. NothingYet' /\ loaded' = {} /\ started' = <<>>
  BY <1>1 DEF NothingYet, Initialize, handoffVars
<1>. QED BY <1>1, <1>2 DEF LoadInv

LEMMA BootDeviceInitLoad == Inv /\ LoadInv /\ BootDeviceInit => LoadInv'
<1>. SUFFICES ASSUME Inv, LoadInv, BootDeviceInit PROVE LoadInv'
  OBVIOUS
<1>. DEFINE img == flash[0]
<1>1. /\ partitionNum = 0 /\ NothingYet /\ pc' = "stage"
      /\ UNCHANGED <<flash, handoff, loaded, started>>
  BY DEF LoadInv, BootDeviceInit, handoffVars, boardVars
<1>2. PICK s \in BootDeviceStatuses(img) :
        \/ /\ s = XFSBL_STATUS_JTAG
           /\ status' = s /\ stage' = "HANDOFF"
           /\ UNCHANGED <<partitionNum, noOfPartitions, headers>>
        \/ /\ s = XFSBL_SUCCESS
           /\ status' = s /\ stage' = "PARTITION_LOAD"
           /\ partitionNum' = 1
           /\ noOfPartitions' = Len(img.headers)
           /\ headers' = IF img.ppd = "SAME" THEN img.headers ELSE <<>>
        \/ /\ s \notin {XFSBL_STATUS_JTAG, XFSBL_SUCCESS}
           /\ status' = STAGE_2 + s /\ stage' = "ERR"
           /\ UNCHANGED <<partitionNum, noOfPartitions, headers>>
  BY DEF BootDeviceInit, ImageOffsetAddress
<1>3. CASE partitionNum' = partitionNum
  <2>1. NothingYet' /\ noOfPartitions' = 0 /\ stage' \in {"HANDOFF", "ERR"}
    BY <1>1, <1>2, <1>3 DEF NothingYet
  <2>2. \A p \in 1..partitionNum' : FALSE
    BY <1>1, <1>3
  <2>3. WholeImage'
    BY <1>1, <1>3, <2>1, <2>2 DEF WholeImage, AllDealt
  <2>. QED BY <1>1, <1>3, <2>1, <2>3 DEF LoadInv, NothingYet
<1>4. CASE partitionNum' # partitionNum
  <2>1. /\ s = XFSBL_SUCCESS /\ stage' = "PARTITION_LOAD" /\ partitionNum' = 1
        /\ noOfPartitions' = Len(img.headers)
        /\ headers' = IF img.ppd = "SAME" THEN img.headers ELSE <<>>
    BY <1>2, <1>4
  <2>2. ImageHeaderTableStatus(img) = XFSBL_SUCCESS
    <3>1. \A e \in ErrorCodes : e # XFSBL_SUCCESS
      BY OtherWords
    <3>. QED BY <2>1, <3>1, CodesAreErrors, OtherWords DEF BootDeviceStatuses
  <2>3. ImageRead'
    BY <1>1, <2>1, <2>2 DEF ImageRead, BootDeviceInit, ImageOffsetAddress
  <2>4. \A p \in 1..(partitionNum' - 1) : FALSE
    BY <2>1
  <2>. QED BY <1>1, <2>1, <2>3, <2>4 DEF LoadInv, NothingYet, AllDealt
<1>. QED BY <1>3, <1>4

(* A step of the partition stage: the next label of the same partition, the end
   of a partition that is dealt with, an error. *)
LEMMA LoadStepLoads ==
  ASSUME Inv, LoadInv, stage = "PARTITION_LOAD", pc \in Running,
         UNCHANGED <<flash, imageVars, started>>,
         loaded \subseteq loaded', loaded' \subseteq loaded \cup {partitionNum},
         \/ /\ UNCHANGED <<stage, partitionNum>>
            /\ pc' \in {"validate", "wait_wake"} => Dealt(partitionNum)'
         \/ PartitionDone /\ Dealt(partitionNum)
         \/ \E code \in ErrorCodes : PartitionFails(code)
  PROVE  LoadInv'
<1>1. UNCHANGED <<headers, resetReason, noOfPartitions, imageOffset>>
  BY DEF imageVars
<1>2. /\ started' = <<>> /\ partitionNum \in Nat /\ partitionNum > 0
      /\ noOfPartitions \in Nat
  BY DEF Inv, TypeOK, StageTypeOK, Progress
<1>3. \A n : AllDealt(n) => AllDealt(n)'
  BY <1>1, AllDealtStays
<1>4. PICK n : n = partitionNum
  OBVIOUS
<1>5. AllDealt(n - 1) /\ AllDealt(n - 1)'
  BY <1>3, <1>4 DEF LoadInv
<1>6. ImageRead'
  BY <1>1, <1>2 DEF LoadInv, ImageRead
<1>7. loaded' \subseteq 1..partitionNum
  BY <1>2 DEF LoadInv
<1>8. CASE /\ UNCHANGED <<stage, partitionNum>>
           /\ pc' \in {"validate", "wait_wake"} => Dealt(partitionNum)'
  <2>1. n = partitionNum'
    BY <1>4, <1>8
  <2>. QED BY <1>2, <1>4, <1>5, <1>6, <1>7, <1>8, <2>1 DEF LoadInv
<1>9. CASE PartitionDone /\ Dealt(partitionNum)
  <2>1. AllDealt(n)
    BY <1>2, <1>4, <1>5, <1>9, AllDealtUpTo
  <2>2. AllDealt(n)'
    BY <1>3, <2>1
  <2>3. CASE partitionNum < noOfPartitions - 1
    <3>1. pc' = "stage" /\ stage' = "PARTITION_LOAD" /\ partitionNum' = n + 1
      BY <1>4, <1>9, <2>3 DEF PartitionDone
    <3>2. loaded' \subseteq 1..(n + 1) /\ n + 1 > 0 /\ n = partitionNum' - 1 /\ n + 1 # 0
      BY <1>2, <1>4, <1>7, <3>1
    <3>3. AllDealt(partitionNum - 1)'
      BY <2>2, <3>2
    <3>. QED BY <1>2, <1>6, <3>1, <3>2, <3>3 DEF LoadInv
  <2>4. CASE ~(partitionNum < noOfPartitions - 1)
    <3>1. pc' = "stage" /\ stage' = "HANDOFF" /\ partitionNum' = n
      BY <1>4, <1>9, <2>4 DEF PartitionDone
    <3>2. WholeImage'
      BY <1>1, <1>2, <1>4, <2>2, <2>4, <3>1 DEF WholeImage
    <3>. QED BY <1>2, <1>4, <1>6, <1>7, <3>1, <3>2 DEF LoadInv
  <2>. QED BY <2>3, <2>4
<1>10. CASE \E code \in ErrorCodes : PartitionFails(code)
  <2>1. pc' = "stage" /\ stage' = "ERR" /\ partitionNum' = partitionNum
    BY <1>10 DEF PartitionFails
  <2>. QED BY <1>2, <1>6, <1>7, <2>1 DEF LoadInv
<1>. QED BY <1>8, <1>9, <1>10

(* Stage 3, action by action. A partition is dealt with when its header is
   another loader's, when it needs no copy, and when the copy succeeded. *)
LEMMA PartitionStageLoad ==
  /\ Inv /\ LoadInv
  /\ \/ PartitionHeaderValidation \/ PartitionCopy \/ WaitPmuSleep \/ DeviceCopy
     \/ PartitionValidation \/ WaitPmuWake
  => LoadInv'
<1>. SUFFICES ASSUME Inv, LoadInv,
                     \/ PartitionHeaderValidation \/ PartitionCopy \/ WaitPmuSleep
                     \/ DeviceCopy \/ PartitionValidation \/ WaitPmuWake
              PROVE  LoadInv'
  OBVIOUS
<1>. USE DEF boardVars, handoffVars
<1>1. /\ stage = "PARTITION_LOAD" /\ pc \in Running
      /\ UNCHANGED <<flash, imageVars, started>>
      /\ UNCHANGED <<headers, resetReason>>
  <2>1. Loading
    BY LoadingFromPc
    DEF PartitionHeaderValidation, PartitionCopy, WaitPmuSleep, DeviceCopy,
        PartitionValidation, WaitPmuWake
  <2>2. UNCHANGED <<flash, imageVars, started>>
    BY DEF PartitionHeaderValidation, PartitionCopy, WaitPmuSleep, DeviceCopy,
           PartitionValidation, WaitPmuWake
  <2>. QED BY <2>1, <2>2 DEF Loading, imageVars
<1>2. CASE PartitionHeaderValidation
  <2>1. \/ UNCHANGED <<stage, partitionNum>> /\ pc' = "copy"
        \/ PartitionDone /\ Dealt(partitionNum)
        \/ \E code \in ErrorCodes : PartitionFails(code)
    <3>1. XFSBL_SUCCESS_NOT_PARTITION_OWNER # XFSBL_SUCCESS
      BY DEF XFSBL_SUCCESS_NOT_PARTITION_OWNER, XFSBL_SUCCESS
    <3>. QED BY <1>2, <3>1, HeaderStatus
             DEF PartitionHeaderValidation, CurrentHeader, Dealt, Accepted, Goto
  <2>2. UNCHANGED loaded
    BY <1>2 DEF PartitionHeaderValidation
  <2>. QED BY <1>1, <2>1, <2>2, LoadStepLoads
<1>3. CASE PartitionCopy
  <2>1. Accepted(partitionNum)
    BY <1>3 DEF Inv, Vetted, PartitionCopy
  <2>2. /\ UNCHANGED <<stage, partitionNum, loaded>>
        /\ \/ pc' \in {"wait_sleep", "device_copy"}
           \/ CurrentHeader.xip \/ SkipsBitstream(CurrentHeader)
    BY <1>3 DEF PartitionCopy, Goto
  <2>3. pc' \in {"validate", "wait_wake"} => Dealt(partitionNum)
    BY <2>1, <2>2 DEF Dealt, Accepted, CurrentHeader
  <2>4. pc' \in {"validate", "wait_wake"} => Dealt(partitionNum)'
    <3>1. PICK n : n = partitionNum
      OBVIOUS
    <3>2. Dealt(n) => Dealt(n)'
      BY <1>1, <2>2, DealtStays
    <3>3. n = partitionNum'
      BY <2>2, <3>1
    <3>. QED BY <2>3, <3>1, <3>2, <3>3
  <2>. QED BY <1>1, <2>2, <2>4, LoadStepLoads
<1>4. CASE WaitPmuSleep
  <2>1. UNCHANGED <<stage, partitionNum, loaded>> /\ pc' = "device_copy"
    BY <1>4 DEF WaitPmuSleep, Goto
  <2>. QED BY <1>1, <2>1, LoadStepLoads
<1>5. CASE DeviceCopy
  <2>1. CASE loaded' = loaded \cup {partitionNum} /\ Goto("validate")
    <3>1. Accepted(partitionNum) /\ UNCHANGED <<stage, partitionNum>>
      BY <1>5, <2>1 DEF Inv, Vetted, DeviceCopy, Goto
    <3>2. PICK n : n = partitionNum
      OBVIOUS
    <3>3. Accepted(n)' /\ n \in loaded' /\ n = partitionNum'
      BY <1>1, <2>1, <3>1, <3>2 DEF Accepted, PartitionHeaderOf
    <3>4. Dealt(n)'
      BY <3>3 DEF Dealt, Accepted
    <3>5. Dealt(partitionNum)'
      BY <3>3, <3>4
    <3>. QED BY <1>1, <2>1, <3>1, <3>5, LoadStepLoads
  <2>2. CASE (\E fault \in DeviceCopyFaults : PartitionFails(fault)) /\ UNCHANGED loaded
    BY <1>1, <2>2, CodesAreErrors, LoadStepLoads
  <2>. QED BY <1>5, <2>1, <2>2 DEF DeviceCopy
<1>6. CASE PartitionValidation
  <2>1. Dealt(partitionNum) /\ UNCHANGED loaded
    BY <1>6 DEF LoadInv, PartitionValidation
  <2>2. CASE PartitionDone
    BY <1>1, <2>1, <2>2, LoadStepLoads
  <2>3. CASE Goto("wait_wake")
    <3>1. UNCHANGED <<stage, partitionNum>>
      BY <2>3 DEF Goto
    <3>2. PICK n : n = partitionNum
      OBVIOUS
    <3>3. Dealt(n)'
      BY <1>1, <2>1, <3>2, DealtStays
    <3>4. Dealt(partitionNum)'
      BY <3>1, <3>2, <3>3
    <3>. QED BY <1>1, <2>1, <3>1, <3>4, LoadStepLoads
  <2>. QED BY <1>6, <2>2, <2>3 DEF PartitionValidation
<1>7. CASE WaitPmuWake
  <2>1. Dealt(partitionNum) /\ PartitionDone /\ UNCHANGED loaded
    BY <1>7 DEF LoadInv, WaitPmuWake
  <2>. QED BY <1>1, <2>1, LoadStepLoads
<1>. QED BY <1>2, <1>3, <1>4, <1>5, <1>6, <1>7

(* Stage 4 and what follows: the partitions stay as they are, and an empty list
   may send the loader back to a partition past the last. *)
LEMMA HandoffStageLoad ==
  Inv /\ LoadInv /\ (ReleaseCpu \/ HandoffSelf \/ HandoffDone) => LoadInv'
<1>. SUFFICES ASSUME Inv, LoadInv, ReleaseCpu \/ HandoffSelf \/ HandoffDone
              PROVE  LoadInv'
  OBVIOUS
<1>. USE DEF boardVars, handoffVars
<1>1. /\ pc = "execute" /\ stage = "HANDOFF" /\ partitionNum \in Nat /\ partitionNum > 0
      /\ WholeImage /\ ImageRead /\ loaded \subseteq 1..partitionNum
      /\ noOfPartitions \in Nat
  BY DEF Inv, TypeOK, StageTypeOK, Progress, LoadInv, ReleaseCpu, HandoffSelf, HandoffDone
<1>2. UNCHANGED <<flash, headers, resetReason, noOfPartitions, imageOffset, loaded>>
  BY DEF ReleaseCpu, HandoffSelf, HandoffDone, imageVars
<1>3. PICK n : n = partitionNum
  OBVIOUS
<1>4. AllDealt(n)'
  <2>1. AllDealt(n)
    BY <1>1, <1>3 DEF WholeImage
  <2>. QED BY <1>2, <2>1, AllDealtStays
<1>5. ImageRead'
  BY <1>1, <1>2 DEF ImageRead
<1>6. CASE partitionNum' = partitionNum /\ stage' # "PARTITION_LOAD"
  <2>1. WholeImage'
    BY <1>1, <1>2, <1>3, <1>4, <1>6 DEF WholeImage
  <2>2. pc' \notin {"validate", "wait_wake"}
    BY DEF ReleaseCpu, HandoffSelf, HandoffDone, HandoffFails, Goto
  <2>3. stage' \notin {"SYSTEM_INIT", "PRIMARY_BOOT_DEVICE_INIT"}
    BY <1>1 DEF ReleaseCpu, HandoffSelf, HandoffDone, HandoffFails, Goto
  <2>. QED BY <1>1, <1>2, <1>5, <1>6, <2>1, <2>2, <2>3 DEF LoadInv
<1>7. CASE ~(partitionNum' = partitionNum /\ stage' # "PARTITION_LOAD")
  <2>1. /\ HandoffDone /\ started' = started
        /\ pc' = "stage" /\ stage' = "PARTITION_LOAD" /\ partitionNum' = n + 1
    <3>1. HandoffDone
      BY <1>1, <1>7 DEF ReleaseCpu, HandoffSelf, HandoffFails, Goto
    <3>2. PICK s \in HandoffResults :
            \/ s = XFSBL_FAILURE /\ HandoffFails(s)
            \/ /\ s # XFSBL_FAILURE
               /\ pc' = "stage" /\ status' = s
               /\ stage' = CASE s = STATUS_PARTITION_LOAD_IN_PROGRESS -> "PARTITION_LOAD"
                             [] s = XFSBL_STATUS_CONTINUE_OTHER_HANDOFF -> "HANDOFF"
                             [] OTHER -> "POST_HANDOFF"
               /\ partitionNum' = IF s = STATUS_PARTITION_LOAD_IN_PROGRESS
                                  THEN partitionNum + 1 ELSE partitionNum
      BY <3>1 DEF HandoffDone
    <3>3. s = STATUS_PARTITION_LOAD_IN_PROGRESS /\ s # XFSBL_FAILURE
      BY <1>7, <3>2 DEF HandoffFails
    <3>4. s # XFSBL_STATUS_CONTINUE_OTHER_HANDOFF
      BY <3>3 DEF STATUS_PARTITION_LOAD_IN_PROGRESS, XFSBL_STATUS_CONTINUE_OTHER_HANDOFF
    <3>5. started' = started
      BY <3>1 DEF HandoffDone
    <3>. QED BY <1>3, <3>1, <3>2, <3>3, <3>4, <3>5
  <2>2. Progress'
    BY <2>1, InvNext DEF Next, FsblStep, Inv
  <2>3. started' = <<>>
    BY <2>1, <2>2 DEF Progress, Running
  <2>4. /\ loaded' \subseteq 1..(n + 1) /\ n = partitionNum' - 1
        /\ partitionNum' > 0 /\ partitionNum' # 0
    BY <1>1, <1>2, <1>3, <2>1
  <2>5. AllDealt(partitionNum - 1)'
    BY <1>4, <2>4
  <2>. QED BY <1>5, <2>1, <2>3, <2>4, <2>5 DEF LoadInv
<1>. QED BY <1>6, <1>7

(* A reset forgets everything. *)
LEMMA ResetLoad ==
  ASSUME LoaderRestarts
  PROVE  LoadInv'
<1>1. NothingYet' /\ partitionNum' = 0 /\ pc' = "stage" /\ stage' = "SYSTEM_INIT"
  BY DEF LoaderRestarts, NothingYet
<1>. QED BY <1>1 DEF LoadInv, NothingYet

LEMMA LoadNext == Inv /\ LoadInv /\ [Next]_vars => LoadInv'
<1>. SUFFICES ASSUME Inv, LoadInv, [Next]_vars PROVE LoadInv'
  OBVIOUS
<1>. USE DEF boardVars, handoffVars
<1>1. CASE Initialize \/ BootDeviceInit
  BY <1>1, InitializeLoad, BootDeviceInitLoad
<1>2. CASE \/ PartitionHeaderValidation \/ PartitionCopy \/ WaitPmuSleep \/ DeviceCopy
           \/ PartitionValidation \/ WaitPmuWake
  BY <1>2, PartitionStageLoad
<1>3. CASE Handoff
  <2>1. /\ UNCHANGED <<partitionNum, flash, imageVars, handoff, loaded, started>>
        /\ stage' \in {stage, "ERR"} /\ pc' \notin {"validate", "wait_wake"}
    BY <1>3 DEF Handoff, HandoffFails, Goto
  <2>. QED BY <2>1, LoadInvKept
<1>4. CASE ReleaseCpu \/ HandoffSelf \/ HandoffDone
  BY <1>4, HandoffStageLoad
<1>5. CASE PostHandoff
  <2>1. /\ UNCHANGED <<partitionNum, flash, imageVars, handoff, loaded, started>>
        /\ stage' \in {stage, "ERR"} /\ pc' \notin {"validate", "wait_wake"}
    BY <1>5 DEF PostHandoff, Goto
  <2>. QED BY <2>1, LoadInvKept
<1>6. CASE StageErr \/ Exception
  <2>1. PICK code : ErrorLockDown(code)
    BY <1>6 DEF StageErr, Exception
  <2>2. /\ UNCHANGED <<partitionNum, flash, imageVars, handoff, loaded, started>>
        /\ stage' \in {stage, "ERR"} /\ pc' \notin {"validate", "wait_wake"}
    BY <2>1 DEF ErrorLockDown, Goto
  <2>. QED BY <2>2, LoadInvKept
<1>7. CASE PmuSleep \/ PmuStart \/ UNCHANGED vars
  BY <1>7
  DEF PmuSleep, PmuStart, PmuUnchanged, vars, stageVars, imageVars, LoadInv, NothingYet,
      ImageRead, WholeImage, AllDealt, Dealt, Accepted, PartitionHeaderOf, SkipsBitstream
<1>8. CASE SoftReset \/ WatchdogReset \/ SystemReset
  BY <1>8, ResetLoad DEF SoftReset, WatchdogReset, SystemReset, Reset
<1>. QED BY <1>1, <1>2, <1>3, <1>4, <1>5, <1>6, <1>7, <1>8 DEF Next, FsblStep

LEMMA LoadInit == Init => LoadInv
<1>. SUFFICES ASSUME Init PROVE LoadInv
  OBVIOUS
<1>1. NothingYet /\ partitionNum = 0 /\ pc = "stage" /\ stage = "SYSTEM_INIT"
  BY DEF Init, NothingYet
<1>. QED BY <1>1 DEF LoadInv, NothingYet

LEMMA LoadAlways == Spec => []LoadInv
BY LoadInit, LoadNext, InvAlways, PTL DEF Spec

(* Whatever the image, a processor is started only when the last of its
   partitions is in memory. *)
THEOREM NoEarlyStart == Spec => []NothingStartsEarly
<1>1. Inv /\ LoadInv => NothingStartsEarly
  <2>. SUFFICES ASSUME Inv, LoadInv, started # <<>>, NEW p \in 1..(noOfPartitions - 1)
                PROVE  Dealt(p)
    BY DEF NothingStartsEarly, Dealt
  <2>1. noOfPartitions - 1 <= partitionNum /\ AllDealt(partitionNum)
    BY DEF LoadInv, WholeImage
  <2>2. p \in 1..partitionNum
    BY <2>1 DEF Inv, TypeOK, StageTypeOK
  <2>. QED BY <2>1, <2>2 DEF AllDealt
<1>. QED BY <1>1, InvAlways, LoadAlways, PTL

(* A header of the loader's that is not refused is well formed; only a master-only
   reset would pass over a field. *)
LEMMA PassedIsWellFormed ==
  ASSUME NEW h, NEW reason \in {XFSBL_SYSTEM_RESET, XFSBL_PS_ONLY_RESET},
         PartitionHeaderStatus(h, reason)
           \in {XFSBL_SUCCESS, XFSBL_SUCCESS_NOT_PARTITION_OWNER}
  PROVE  h.checksumOk /\ (h.ownerIsFsbl => WellFormed(h))
BY DEF PartitionHeaderStatus, ValidatePartitionHeader, WellFormed, XFSBL_SUCCESS,
       XFSBL_SYSTEM_RESET, XFSBL_PS_ONLY_RESET, XFSBL_MASTER_ONLY_RESET,
       XFSBL_ERROR_PH_CHECKSUM_FAILED, XFSBL_SUCCESS_NOT_PARTITION_OWNER,
       XFSBL_ERROR_PARTITION_LENGTH, XFSBL_ERROR_ADDRESS,
       XFSBL_ERROR_INVALID_CHECKSUM_TYPE, XFSBL_ERROR_INVALID_CPU_TYPE,
       XFSBL_ERROR_INVALID_DEST_DEVICE

(* Nothing starts from an image with a bad table or a bad header, in any place. *)
THEOREM OnlyGoodImages == Spec => []OnlyGoodImagesStart
<1>1. Inv /\ LoadInv => OnlyGoodImagesStart
  <2>. SUFFICES ASSUME Inv, LoadInv, started # <<>>
                PROVE  LET img == flash[imageOffset]
                       IN /\ img.checksumOk /\ img.ppd = "SAME"
                          /\ \A p \in 2..Len(img.headers) :
                               /\ img.headers[p].checksumOk
                               /\ img.headers[p].ownerIsFsbl => WellFormed(img.headers[p])
    BY DEF OnlyGoodImagesStart
  <2>. DEFINE img == flash[0]
  <2>1. /\ partitionNum \in Nat /\ partitionNum > 0 /\ noOfPartitions \in Nat
        /\ ImageRead /\ AllDealt(partitionNum) /\ noOfPartitions - 1 <= partitionNum
    BY DEF Inv, TypeOK, StageTypeOK, LoadInv, NothingYet, WholeImage
  <2>2. img.headers \in Seq(Header)
    <3>1. img \in Image
      BY MaxBootsAssumption DEF Inv, TypeOK, HardwareTypeOK
    <3>. QED BY <3>1 DEF Image
  <2>3. imageOffset = 0 /\ img.checksumOk
    <3>1. XFSBL_FAILURE # XFSBL_SUCCESS
      BY DEF XFSBL_FAILURE, XFSBL_SUCCESS
    <3>. QED BY <2>1, <3>1 DEF ImageRead, ImageHeaderTableStatus
  <2>4. img.ppd = "SAME" /\ headers = img.headers
    <3>1. Dealt(1)
      BY <2>1 DEF AllDealt
    <3>2. headers # <<>>
      <4>1. 1 + 1 \in DOMAIN headers
        BY <3>1, DealtIsInTable
      <4>. QED BY <4>1
    <3>. QED BY <2>1, <3>2 DEF ImageRead
  <2>5. ASSUME NEW p \in 2..Len(img.headers)
        PROVE  /\ img.headers[p].checksumOk
               /\ img.headers[p].ownerIsFsbl => WellFormed(img.headers[p])
    <3>1. noOfPartitions = Len(img.headers) /\ DOMAIN headers = 1..Len(img.headers)
      BY <2>1, <2>2, <2>4 DEF ImageRead
    <3>2. p - 1 \in 1..partitionNum /\ (p - 1) + 1 = p /\ p \in DOMAIN headers
      BY <2>1, <3>1
    <3>3. Dealt(p - 1) /\ PartitionHeaderOf(p - 1) = img.headers[p]
      BY <2>1, <2>4, <3>2 DEF AllDealt, PartitionHeaderOf
    <3>4. resetReason \in {XFSBL_SYSTEM_RESET, XFSBL_PS_ONLY_RESET}
      BY DEF Inv, TypeOK, StageTypeOK
    <3>. QED BY <3>3, <3>4, PassedIsWellFormed DEF Dealt
  <2>. QED BY <2>3, <2>4, <2>5
<1>. QED BY <1>1, InvAlways, LoadAlways, PTL
-----------------------------------------------------------------------------
(* The PMU starts only at the end of a run of firmware partitions. *)

(* While the PMU is asleep with the signal to wake pending, the loader stays at
   the partition that ended the firmware. *)
WakeInv ==
  pmu.mode = "sleep" /\ pmu.wake =>
    AllDealt(partitionNum) /\ PmuFwLoadDone(partitionNum)

(* The signal stays meaningful while the partitions stay as they are. *)
LEMMA WakeKept ==
  ASSUME WakeInv, UNCHANGED <<partitionNum, headers, resetReason, noOfPartitions, loaded>>,
         pmu'.mode = "sleep" /\ pmu'.wake => pmu.mode = "sleep" /\ pmu.wake
  PROVE  WakeInv'
<1>1. PICK n : n = partitionNum
  OBVIOUS
<1>2. n = partitionNum' /\ (AllDealt(n) => AllDealt(n)')
  BY <1>1, AllDealtStays
<1>3. PmuFwLoadDone(n) => PmuFwLoadDone(n)'
  BY DEF PmuFwLoadDone, PartitionHeaderOf
<1>. QED BY <1>1, <1>2, <1>3 DEF WakeInv

LEMMA WakeNext ==
  ASSUME FwStaysPresent = FALSE
  PROVE  Inv /\ LoadInv /\ PmuInv /\ WakeInv /\ [Next]_vars => WakeInv'
<1>. SUFFICES ASSUME Inv, LoadInv, PmuInv, WakeInv, [Next]_vars PROVE WakeInv'
  OBVIOUS
<1>. USE DEF boardVars, hwVars, bootVars, imageVars, stageVars, handoffVars
<1>1. pmu \in PmuState
  BY DEF Inv, TypeOK, HardwareTypeOK
<1>2. CASE \/ Initialize \/ BootDeviceInit \/ PartitionHeaderValidation \/ WaitPmuSleep
           \/ DeviceCopy \/ WaitPmuWake \/ Handoff \/ ReleaseCpu \/ HandoffSelf
           \/ HandoffDone \/ PostHandoff \/ StageErr
  <2>1. pmu' = pmu /\ (pc \in {"wait_wake", "reset_wait", "spin"} => pmu.fw)
    BY <1>2
    DEF Initialize, BootDeviceInit, PartitionHeaderValidation, WaitPmuSleep, DeviceCopy,
        WaitPmuWake, Handoff, ReleaseCpu, HandoffSelf, HandoffDone, PostHandoff, StageErr,
        ErrorLockDown
  <2>. QED BY <2>1 DEF PmuInv, WakeInv
<1>3. CASE PartitionCopy
  <2>1. pmu'.mode = pmu.mode /\ pmu'.wake = pmu.wake /\ pc = "copy"
    BY <1>1, <1>3 DEF PartitionCopy, PmuState
  <2>. QED BY <2>1 DEF PmuInv, WakeInv
<1>4. CASE PartitionValidation
  <2>1. CASE PmuFwLoadDone(partitionNum)
    <3>1. /\ pc = "validate" /\ stage = "PARTITION_LOAD" /\ partitionNum \in Nat
          /\ UNCHANGED <<partitionNum, headers, resetReason, noOfPartitions, loaded>>
      BY <1>4, <2>1 DEF Inv, Vetted, TypeOK, StageTypeOK, PartitionValidation, Goto
    <3>2. PICK n : n = partitionNum
      OBVIOUS
    <3>3. AllDealt(n)
      BY <3>1, <3>2, AllDealtUpTo DEF LoadInv
    <3>4. AllDealt(n)' /\ n = partitionNum'
      BY <3>1, <3>2, <3>3, AllDealtStays
    <3>5. PmuFwLoadDone(n)'
      BY <2>1, <3>1, <3>2 DEF PmuFwLoadDone, PartitionHeaderOf
    <3>. QED BY <3>4, <3>5 DEF WakeInv
  <2>2. CASE ~PmuFwLoadDone(partitionNum)
    <3>1. pmu' = pmu /\ pc = "validate"
      BY <1>4, <2>2 DEF PartitionValidation
    <3>. QED BY <3>1 DEF PmuInv, WakeInv
  <2>. QED BY <2>1, <2>2
<1>5. CASE Exception
  <2>1. /\ UNCHANGED <<partitionNum, headers, resetReason, noOfPartitions, loaded>>
        /\ pmu' = pmu
    BY <1>5 DEF Exception, ErrorLockDown, Goto
  <2>. QED BY <2>1, WakeKept
<1>6. CASE PmuSleep
  <2>1. ~pmu'.wake
    BY <1>6 DEF PmuSleep
  <2>. QED BY <2>1 DEF WakeInv
<1>7. CASE PmuStart
  <2>1. pmu'.mode = "run"
    BY <1>1, <1>7 DEF PmuStart, PmuState
  <2>. QED BY <2>1 DEF WakeInv
<1>8. CASE SoftReset \/ WatchdogReset
  <2>1. pmu' \in PowerOnPmu
    BY <1>8 DEF SoftReset, WatchdogReset, Reset
  <2>2. pmu'.mode = "run"
    BY <2>1 DEF PowerOnPmu
  <2>. QED BY <2>2 DEF WakeInv
<1>9. CASE SystemReset
  <2>1. pc \in {"app", "wfe"} /\ (pmu' = pmu \/ pmu' \in PowerOnPmu)
    BY <1>9 DEF SystemReset, Reset
  <2>2. pmu' \in PowerOnPmu => pmu'.mode = "run"
    BY DEF PowerOnPmu
  <2>. QED BY <2>1, <2>2 DEF PmuInv, WakeInv
<1>10. CASE UNCHANGED vars
  BY <1>10, WakeKept DEF vars
<1>. QED
  BY <1>2, <1>3, <1>4, <1>5, <1>6, <1>7, <1>8, <1>9, <1>10 DEF Next, FsblStep

(* Nothing but its own start ends the sleep of the PMU while a boot lasts. *)
LEMMA OnlyPmuStartWakes ==
  ASSUME Inv, [Next]_vars, pmu.mode = "sleep", pmu'.mode = "run", boots' = boots
  PROVE  PmuStart
<1>1. pmu \in PmuState /\ boots \in Nat
  BY MaxBootsAssumption DEF Inv, TypeOK, HardwareTypeOK
<1>2. \A c : ~Reset(c)
  <2>1. boots + 1 # boots
    BY <1>1
  <2>2. \A c : Reset(c) => boots' = boots + 1
    BY Zenon DEF Reset
  <2>. QED BY <2>1, <2>2
<1>3. ~PartitionCopy /\ ~PartitionValidation
  BY <1>1 DEF PartitionCopy, PartitionValidation, PmuState
<1>4. CASE \/ Initialize \/ BootDeviceInit \/ PartitionHeaderValidation \/ WaitPmuSleep
           \/ DeviceCopy \/ WaitPmuWake
  BY <1>4
  DEF Initialize, BootDeviceInit, PartitionHeaderValidation, WaitPmuSleep, DeviceCopy,
      WaitPmuWake
<1>5. CASE \/ Handoff \/ ReleaseCpu \/ HandoffSelf \/ HandoffDone \/ PostHandoff
           \/ StageErr \/ Exception \/ UNCHANGED vars
  BY <1>5
  DEF Handoff, ReleaseCpu, HandoffSelf, HandoffDone, PostHandoff, StageErr, Exception,
      ErrorLockDown, vars
<1>6. CASE PmuSleep
  BY <1>6 DEF PmuSleep
<1>. QED
  BY <1>2, <1>3, <1>4, <1>5, <1>6
  DEF Next, FsblStep, SoftReset, WatchdogReset, SystemReset

(* If going to sleep clears FW_IS_PRESENT, the PMU starts from a run of firmware
   partitions only when every one of the run is in its RAM. *)
THEOREM FirmwareIsWhole ==
  ASSUME FwStaysPresent = FALSE
  PROVE  Spec => FirmwareStartsWhole
<1>1. ASSUME Inv, LoadInv, WakeInv, PmuStart,
             NEW q \in loaded, NEW p \in 1..(noOfPartitions - 1), SameFirmware(p, q),
             Accepted(p), ~PartitionHeaderOf(p).xip, ~SkipsBitstream(PartitionHeaderOf(p))
      PROVE  p \in loaded
  <2>1. /\ AllDealt(partitionNum) /\ PmuFwLoadDone(partitionNum)
        /\ partitionNum \in Nat /\ q \in 1..partitionNum /\ noOfPartitions \in Nat
    BY <1>1 DEF WakeInv, PmuStart, Inv, TypeOK, StageTypeOK, LoadInv
  <2>2. CASE p <= partitionNum
    BY <1>1, <2>1, <2>2 DEF AllDealt, Dealt
  <2>3. CASE p > partitionNum
    <3>1. /\ q <= partitionNum + 1 /\ partitionNum + 1 <= p
          /\ partitionNum + 1 \in 1..(noOfPartitions - 1)
      BY <2>1, <2>3
    <3>2. PartitionHeaderOf(partitionNum + 1).cpu = "PMU"
      BY <1>1, <3>1 DEF SameFirmware
    <3>. QED BY <2>1, <3>1, <3>2 DEF PmuFwLoadDone
  <2>. QED BY <2>1, <2>2, <2>3
<1>2. Inv /\ LoadInv /\ WakeInv /\ [Next]_vars =>
        [pmu.mode = "sleep" /\ pmu.mode' = "run" /\ boots' = boots =>
           \A q \in loaded : \A p \in 1..(noOfPartitions - 1) :
             /\ SameFirmware(p, q) /\ Accepted(p)
             /\ ~PartitionHeaderOf(p).xip /\ ~SkipsBitstream(PartitionHeaderOf(p))
             => p \in loaded]_vars
  BY <1>1, OnlyPmuStartWakes
<1>3. Init => PmuInv /\ WakeInv
  <2>. SUFFICES ASSUME Init PROVE PmuInv /\ WakeInv
    OBVIOUS
  <2>1. pmu.mode = "run" /\ pc = "stage"
    <3>1. pmu \in PowerOnPmu /\ pc = "stage"
      BY DEF Init
    <3>2. \A s \in PowerOnPmu : s.mode = "run"
      BY DEF PowerOnPmu
    <3>. QED BY <3>1, <3>2
  <2>. QED BY <2>1 DEF PmuInv, PmuRamQuiet, WakeInv
<1>4. Inv /\ PmuInv /\ [Next]_vars => PmuInv'
  BY PmuNext
<1>5. Inv /\ LoadInv /\ PmuInv /\ WakeInv /\ [Next]_vars => WakeInv'
  BY WakeNext
<1>. QED BY <1>2, <1>3, <1>4, <1>5, InvAlways, LoadAlways, PTL DEF Spec, FirmwareStartsWhole
-----------------------------------------------------------------------------
(* The handoff list is the first application of each processor. *)

(* Partition p is a program to start, on this processor. *)
App(p) == Accepted(p) /\ IsApplication(PartitionHeaderOf(p))
Target(p) == DestinationCpu(PartitionHeaderOf(p))

(* No processor of the applications up to partition n is missing. *)
AllListed(n) == \A p \in 1..n : App(p) => ~CheckHandoffCpu(handoff, Target(p))

Lists(n) == ListsFirstApplications(n) /\ AllListed(n)

(* A partition executed in place is listed before the validation, another one
   by it. *)
Recorded == pc = "wait_wake" \/ (pc = "validate" /\ CurrentHeader.xip)

ListInv ==
  /\ pc \in Running /\ stage = "PARTITION_LOAD" =>
       Lists(IF Recorded THEN partitionNum ELSE partitionNum - 1)
  /\ stage \in {"HANDOFF", "POST_HANDOFF"} => Lists(partitionNum)
  /\ pc \in {"wait_sleep", "device_copy"} => ~CurrentHeader.xip

LEMMA FirstApplicationsMembers ==
  ASSUME NEW n, NEW p
  PROVE  p \in FirstApplications(n) <=>
           /\ p \in 1..n /\ App(p)
           /\ \A q \in 1..n : App(q) /\ Target(q) = Target(p) => p <= q
BY DEF FirstApplications, App, Target

(* A partition without a program for a new processor leaves the first
   applications, and so the list, as they are. *)
LEMMA ListsSame ==
  ASSUME NEW n \in Nat, handoff \in Seq(HandoffValue), Lists(n),
         App(n + 1) => ~CheckHandoffCpu(handoff, Target(n + 1))
  PROVE  Lists(n + 1)
<1>1. PICK order \in [DOMAIN handoff -> FirstApplications(n)] :
        /\ \A i, j \in DOMAIN handoff : i < j => order[i] < order[j]
        /\ \A p \in FirstApplications(n) : \E i \in DOMAIN handoff : order[i] = p
        /\ \A i \in DOMAIN handoff : handoff[i] = HandoffEntry(PartitionHeaderOf(order[i]))
  BY DEF Lists, ListsFirstApplications
<1>2. \A p : p \in 1..(n + 1) <=> p \in 1..n \/ p = n + 1
  OBVIOUS
<1>3. ASSUME App(n + 1) PROVE n + 1 \notin FirstApplications(n + 1)
  <2>1. PICK i \in DOMAIN handoff : handoff[i].cpu = Target(n + 1)
    BY <1>3 DEF CheckHandoffCpu
  <2>2. order[i] \in 1..n /\ App(order[i])
    BY <1>1, FirstApplicationsMembers
  <2>3. Target(order[i]) = Target(n + 1)
    BY <1>1, <2>1 DEF HandoffEntry, Target
  <2>4. ~(n + 1 <= order[i])
    BY <2>2
  <2>. QED BY <1>2, <2>2, <2>3, <2>4, FirstApplicationsMembers
<1>4. n + 1 \notin FirstApplications(n + 1)
  BY <1>3, FirstApplicationsMembers
<1>5. FirstApplications(n + 1) = FirstApplications(n)
  <2>1. ASSUME NEW p \in FirstApplications(n + 1) PROVE p \in FirstApplications(n)
    <3>1. p # n + 1
      BY <1>4, <2>1
    <3>. QED BY <1>2, <2>1, <3>1, FirstApplicationsMembers
  <2>2. ASSUME NEW p \in FirstApplications(n) PROVE p \in FirstApplications(n + 1)
    <3>1. p \in 1..n /\ p <= n + 1
      BY <2>2, FirstApplicationsMembers
    <3>. QED BY <1>2, <2>2, <3>1, FirstApplicationsMembers
  <2>. QED BY <2>1, <2>2
<1>6. ListsFirstApplications(n + 1)
  BY <1>1, <1>5 DEF ListsFirstApplications
<1>7. AllListed(n + 1)
  BY <1>2 DEF Lists, AllListed
<1>. QED BY <1>6, <1>7 DEF Lists

LEMMA ListsStay ==
  ASSUME UNCHANGED <<handoff, headers, resetReason>>, NEW n, Lists(n)
  PROVE  Lists(n)'
BY DEF Lists, ListsFirstApplications, FirstApplications, AllListed, App, Accepted, Target,
       PartitionHeaderOf

(* The first program for a processor joins the end of the list. *)
LEMMA ListsOneMore ==
  ASSUME NEW n \in Nat, handoff \in Seq(HandoffValue), Lists(n), App(n + 1),
         CheckHandoffCpu(handoff, Target(n + 1)),
         HandoffEntry(PartitionHeaderOf(n + 1)) \in HandoffValue,
         handoff' = Append(handoff, HandoffEntry(PartitionHeaderOf(n + 1))),
         UNCHANGED <<headers, resetReason>>
  PROVE  Lists(n + 1)'
<1>. DEFINE len == Len(handoff)
            new == HandoffEntry(PartitionHeaderOf(n + 1))
<1>1. PICK order \in [DOMAIN handoff -> FirstApplications(n)] :
        /\ \A i, j \in DOMAIN handoff : i < j => order[i] < order[j]
        /\ \A p \in FirstApplications(n) : \E i \in DOMAIN handoff : order[i] = p
        /\ \A i \in DOMAIN handoff : handoff[i] = HandoffEntry(PartitionHeaderOf(order[i]))
  BY DEF Lists, ListsFirstApplications
<1>2. \A p : p \in 1..(n + 1) <=> p \in 1..n \/ p = n + 1
  OBVIOUS
<1>3. /\ len \in Nat /\ DOMAIN handoff = 1..len /\ DOMAIN handoff' = 1..(len + 1)
      /\ \A i \in 1..len : handoff'[i] = handoff[i]
      /\ handoff'[len + 1] = new
  <2>. HIDE DEF new
  <2>. QED BY DEF new
<1>4. \A i : i \in 1..(len + 1) <=> i \in 1..len \/ i = len + 1
  BY <1>3
<1>5. \A q \in 1..n : App(q) => Target(q) # Target(n + 1)
  BY DEF Lists, AllListed
<1>6. FirstApplications(n + 1) = FirstApplications(n) \cup {n + 1}
  <2>1. n + 1 \in FirstApplications(n + 1)
    <3>1. \A q \in 1..(n + 1) : App(q) /\ Target(q) = Target(n + 1) => n + 1 <= q
      BY <1>2, <1>5
    <3>. QED BY <1>2, <3>1, FirstApplicationsMembers
  <2>2. ASSUME NEW p \in FirstApplications(n + 1), p # n + 1
        PROVE  p \in FirstApplications(n)
    BY <1>2, <2>2, FirstApplicationsMembers
  <2>3. ASSUME NEW p \in FirstApplications(n) PROVE p \in FirstApplications(n + 1)
    <3>1. p \in 1..n /\ p <= n + 1
      BY <2>3, FirstApplicationsMembers
    <3>. QED BY <1>2, <2>3, <3>1, FirstApplicationsMembers
  <2>. QED BY <2>1, <2>2, <2>3
<1>7. \A p \in FirstApplications(n) : p \in 1..n
  BY FirstApplicationsMembers
<1>. DEFINE more == [i \in 1..(len + 1) |-> IF i = len + 1 THEN n + 1 ELSE order[i]]
<1>8. /\ more \in [DOMAIN handoff' -> FirstApplications(n + 1)]
      /\ more[len + 1] = n + 1 /\ \A i \in 1..len : more[i] = order[i] /\ more[i] \in 1..n
  <2>1. \A i \in 1..len : i # len + 1 /\ order[i] \in FirstApplications(n)
    BY <1>1, <1>3
  <2>2. len + 1 \in 1..(len + 1)
    BY <1>3
  <2>. QED BY <1>3, <1>4, <1>6, <1>7, <2>1, <2>2
<1>. HIDE DEF more
<1>9. \A i, j \in 1..(len + 1) : i < j => more[i] < more[j]
  <2>. SUFFICES ASSUME NEW i \in 1..(len + 1), NEW j \in 1..(len + 1), i < j
                PROVE  more[i] < more[j]
    OBVIOUS
  <2>1. i \in 1..len
    BY <1>3
  <2>2. CASE j \in 1..len
    BY <1>1, <1>3, <1>8, <2>1, <2>2
  <2>3. CASE j = len + 1
    BY <1>8, <2>1, <2>3
  <2>. QED BY <1>4, <2>2, <2>3
<1>10. \A p \in FirstApplications(n + 1) : \E i \in 1..(len + 1) : more[i] = p
  BY <1>1, <1>3, <1>4, <1>6, <1>8
<1>11. \A i \in 1..(len + 1) : handoff'[i] = HandoffEntry(PartitionHeaderOf(more[i]))
  <2>1. ASSUME NEW i \in 1..len
        PROVE  handoff'[i] = HandoffEntry(PartitionHeaderOf(more[i]))
    <3>1. handoff'[i] = handoff[i] /\ more[i] = order[i] /\ i \in DOMAIN handoff
      BY <1>3, <1>8
    <3>. QED BY <1>1, <3>1
  <2>. QED BY <1>3, <1>4, <1>8, <2>1
<1>12. FirstApplications(n + 1)' = FirstApplications(n + 1)
  BY DEF FirstApplications, Accepted, PartitionHeaderOf
<1>13. \A p : PartitionHeaderOf(p)' = PartitionHeaderOf(p)
  BY DEF PartitionHeaderOf
<1>14. ListsFirstApplications(n + 1)'
  <2>1. \E list \in [DOMAIN handoff' -> FirstApplications(n + 1)'] :
          /\ \A i, j \in DOMAIN handoff' : i < j => list[i] < list[j]
          /\ \A p \in FirstApplications(n + 1)' : \E i \in DOMAIN handoff' : list[i] = p
          /\ \A i \in DOMAIN handoff' :
               handoff'[i] = HandoffEntry(PartitionHeaderOf(list[i]))
    <3>1. \A i, j \in DOMAIN handoff' : i < j => more[i] < more[j]
      BY <1>3, <1>9
    <3>2. \A p \in FirstApplications(n + 1)' : \E i \in DOMAIN handoff' : more[i] = p
      BY <1>3, <1>10, <1>12
    <3>3. \A i \in DOMAIN handoff' :
            handoff'[i] = HandoffEntry(PartitionHeaderOf(more[i]))
      BY <1>3, <1>11
    <3>4. more \in [DOMAIN handoff' -> FirstApplications(n + 1)']
      BY <1>8, <1>12
    <3>. QED BY <3>1, <3>2, <3>3, <3>4, Zenon
  <2>2. ListsFirstApplications(n + 1)' =
          \E list \in [DOMAIN handoff' -> FirstApplications(n + 1)'] :
            /\ \A i, j \in DOMAIN handoff' : i < j => list[i] < list[j]
            /\ \A p \in FirstApplications(n + 1)' : \E i \in DOMAIN handoff' : list[i] = p
            /\ \A i \in DOMAIN handoff' :
                 handoff'[i] = HandoffEntry(PartitionHeaderOf(list[i]))
    BY <1>13 DEF ListsFirstApplications
  <2>. QED BY <2>1, <2>2, Zenon
<1>15. AllListed(n + 1)'
  <2>1. SUFFICES ASSUME NEW p \in 1..(n + 1), App(p)
                 PROVE  ~CheckHandoffCpu(handoff', Target(p))
    BY DEF AllListed, App, Accepted, Target, PartitionHeaderOf
  <2>2. CASE p \in 1..n
    <3>1. PICK i \in DOMAIN handoff : handoff[i].cpu = Target(p)
      BY <2>1, <2>2 DEF Lists, AllListed, CheckHandoffCpu
    <3>2. i \in DOMAIN handoff' /\ handoff'[i] = handoff[i]
      BY <1>3, <3>1
    <3>. QED BY <3>1, <3>2 DEF CheckHandoffCpu
  <2>3. CASE p = n + 1
    <3>1. len + 1 \in DOMAIN handoff' /\ handoff'[len + 1].cpu = Target(p)
      BY <1>3, <2>3 DEF HandoffEntry, Target
    <3>. QED BY <3>1 DEF CheckHandoffCpu
  <2>. QED BY <1>2, <2>2, <2>3
<1>. QED BY <1>14, <1>15 DEF Lists

(* Recording a program, for the first time or again. *)
LEMMA RecordLists ==
  ASSUME NEW n \in Nat, handoff \in Seq(HandoffValue), App(n + 1),
         HandoffEntry(PartitionHeaderOf(n + 1)) \in HandoffValue,
         RecordHandoff(PartitionHeaderOf(n + 1)), UNCHANGED <<headers, resetReason>>,
         Lists(n) \/ Lists(n + 1)
  PROVE  Lists(n + 1)'
<1>1. CASE CheckHandoffCpu(handoff, Target(n + 1))
  <2>1. handoff' = Append(handoff, HandoffEntry(PartitionHeaderOf(n + 1)))
    BY <1>1 DEF RecordHandoff, Target
  <2>2. n + 1 \in 1..(n + 1)
    OBVIOUS
  <2>3. Lists(n)
    BY <1>1, <2>2 DEF Lists, AllListed
  <2>. QED BY <1>1, <2>1, <2>3, ListsOneMore
<1>2. CASE ~CheckHandoffCpu(handoff, Target(n + 1))
  <2>1. handoff' = handoff
    BY <1>2 DEF RecordHandoff, Target
  <2>2. Lists(n + 1)
    BY <1>2, ListsSame
  <2>. QED BY <2>1, <2>2, ListsStay
<1>. QED BY <1>1, <1>2

(* Before the first partition the list is empty. *)
LEMMA EmptyLists ==
  ASSUME handoff' = <<>>
  PROVE  Lists(0)'
<1>1. DOMAIN handoff' = {} /\ \A p : p \notin 1..0
  OBVIOUS
<1>2. FirstApplications(0)' = {}
  BY <1>1 DEF FirstApplications
<1>. DEFINE none == [i \in {} |-> 0]
<1>3. none \in [DOMAIN handoff' -> FirstApplications(0)']
  BY <1>1, <1>2
<1>4. ListsFirstApplications(0)'
  BY <1>1, <1>2, <1>3 DEF ListsFirstApplications
<1>. QED BY <1>1, <1>4 DEF Lists, AllListed

(* The next partition, or the handoff, begins with the list of the last one. *)
LEMMA DoneLists ==
  ASSUME partitionNum \in Nat, stage = "PARTITION_LOAD", PartitionDone,
         NEW n, n = partitionNum, Lists(n)'
  PROVE  ListInv'
<1>1. pc' = "stage"
  BY DEF PartitionDone
<1>2. CASE partitionNum < noOfPartitions - 1
  <2>1. stage' = "PARTITION_LOAD" /\ n = partitionNum' - 1
    BY <1>2 DEF PartitionDone
  <2>2. ~Recorded'
    BY <1>1 DEF Recorded
  <2>. QED BY <1>1, <2>1, <2>2 DEF ListInv
<1>3. CASE ~(partitionNum < noOfPartitions - 1)
  <2>1. stage' = "HANDOFF" /\ n = partitionNum'
    BY <1>3 DEF PartitionDone
  <2>. QED BY <1>1, <2>1 DEF ListInv
<1>. QED BY <1>2, <1>3

(* A label of the same partition. *)
LEMMA SamePartitionLists ==
  ASSUME UNCHANGED <<stage, partitionNum>>, stage = "PARTITION_LOAD",
         NEW n, n = (IF Recorded' THEN partitionNum ELSE partitionNum - 1), Lists(n)',
         pc' \in {"wait_sleep", "device_copy"} => ~CurrentHeader'.xip
  PROVE  ListInv'
<1>1. n = IF Recorded' THEN partitionNum' ELSE partitionNum' - 1
  OBVIOUS
<1>2. stage' = "PARTITION_LOAD"
  OBVIOUS
<1>. QED BY <1>1, <1>2 DEF ListInv

LEMMA PartitionStageLists ==
  /\ Inv /\ ListInv
  /\ \/ PartitionHeaderValidation \/ PartitionCopy \/ WaitPmuSleep \/ DeviceCopy
     \/ PartitionValidation \/ WaitPmuWake
  => ListInv'
<1>. SUFFICES ASSUME Inv, ListInv,
                     \/ PartitionHeaderValidation \/ PartitionCopy \/ WaitPmuSleep
                     \/ DeviceCopy \/ PartitionValidation \/ WaitPmuWake
              PROVE  ListInv'
  OBVIOUS
<1>. USE DEF handoffVars
<1>1. /\ stage = "PARTITION_LOAD" /\ pc \in Running /\ partitionNum \in Nat
      /\ partitionNum > 0 /\ handoff \in Seq(HandoffValue)
      /\ UNCHANGED <<headers, resetReason>>
  <2>1. Loading
    BY LoadingFromPc
    DEF PartitionHeaderValidation, PartitionCopy, WaitPmuSleep, DeviceCopy,
        PartitionValidation, WaitPmuWake
  <2>2. UNCHANGED <<headers, resetReason>>
    BY DEF PartitionHeaderValidation, PartitionCopy, WaitPmuSleep, DeviceCopy,
           PartitionValidation, WaitPmuWake, imageVars
  <2>. QED BY <2>1, <2>2 DEF Loading, Inv, TypeOK, StageTypeOK, HandoffTypeOK
<1>2. PICK m \in Nat : m + 1 = partitionNum
  <2>1. partitionNum - 1 \in Nat /\ (partitionNum - 1) + 1 = partitionNum
    BY <1>1
  <2>. QED BY <2>1
<1>3. m = partitionNum - 1
  BY <1>1, <1>2
<1>. DEFINE h == PartitionHeaderOf(m + 1)
<1>4. CurrentHeader = h
  BY <1>2 DEF CurrentHeader
<1>5. Accepted(m + 1) => HandoffEntry(h) \in HandoffValue
  <2>1. h \in Header
    BY HeaderOfType DEF Inv, TypeOK, StageTypeOK
  <2>2. Accepted(m + 1) => DestinationCpu(h) \in Cpus
    BY <2>1, AcceptedHasCpu DEF Inv, TypeOK, StageTypeOK, Accepted
  <2>. QED BY <2>1, <2>2 DEF HandoffEntry, HandoffValue, Header
<1>6. UNCHANGED <<partitionNum, headers>> => CurrentHeader' = h
  BY <1>4 DEF CurrentHeader, PartitionHeaderOf
<1>. HIDE DEF h
<1>7. CASE PartitionHeaderValidation
  <2>1. Lists(m) /\ UNCHANGED handoff
    BY <1>1, <1>3, <1>7 DEF ListInv, Recorded, PartitionHeaderValidation
  <2>2. CASE Goto("copy")
    <3>1. UNCHANGED <<stage, partitionNum>> /\ ~Recorded' /\ pc' = "copy"
      BY <2>2 DEF Goto, Recorded
    <3>2. Lists(m)'
      BY <1>1, <2>1, ListsStay
    <3>. QED BY <1>1, <1>3, <3>1, <3>2, SamePartitionLists
  <2>3. CASE /\ PartitionDone
             /\ PartitionHeaderStatus(CurrentHeader, resetReason)
                  = XFSBL_SUCCESS_NOT_PARTITION_OWNER
    <3>1. ~App(m + 1)
      BY <1>4, <2>3
      DEF App, Accepted, h, XFSBL_SUCCESS_NOT_PARTITION_OWNER, XFSBL_SUCCESS
    <3>2. Lists(m + 1)
      BY <1>1, <2>1, <3>1, ListsSame
    <3>3. Lists(m + 1)'
      BY <1>1, <2>1, <3>2, ListsStay
    <3>. QED BY <1>1, <1>2, <2>3, <3>3, DoneLists
  <2>4. CASE \E s : PartitionFails(s)
    <3>1. stage' = "ERR"
      BY <2>4 DEF PartitionFails
    <3>2. pc' = "stage"
      BY <2>4 DEF PartitionFails
    <3>. QED BY <3>1, <3>2 DEF ListInv
  <2>. QED BY <1>7, <2>2, <2>3, <2>4 DEF PartitionHeaderValidation
<1>8. CASE PartitionCopy
  <2>1. /\ Lists(m) /\ Accepted(m + 1) /\ UNCHANGED <<stage, partitionNum>>
        /\ CurrentHeader' = h
    BY <1>1, <1>2, <1>3, <1>6, <1>8
    DEF ListInv, Recorded, Inv, Vetted, PartitionCopy, Goto
  <2>2. CASE h.xip
    <3>1. RecordHandoff(h) /\ pc' = "validate" /\ Recorded'
      BY <1>4, <1>8, <2>1, <2>2 DEF PartitionCopy, Goto, Recorded
    <3>2. App(m + 1)
      BY <2>1, <2>2 DEF App, IsApplication, h
    <3>3. Lists(m + 1)'
      BY <1>1, <1>5, <2>1, <3>1, <3>2, RecordLists DEF h
    <3>. QED BY <1>1, <1>2, <2>1, <3>1, <3>3, SamePartitionLists
  <2>3. CASE ~h.xip
    <3>1. UNCHANGED handoff /\ pc' \in {"validate", "wait_sleep", "device_copy"}
      BY <1>4, <1>8, <2>3 DEF PartitionCopy, Goto
    <3>2. ~Recorded'
      BY <2>1, <2>3, <3>1 DEF Recorded
    <3>3. Lists(m)'
      BY <1>1, <2>1, <3>1, ListsStay
    <3>. QED BY <1>1, <1>3, <2>1, <2>3, <3>2, <3>3, SamePartitionLists
  <2>. QED BY <2>2, <2>3
<1>9. CASE WaitPmuSleep
  <2>1. /\ Lists(m) /\ UNCHANGED <<stage, partitionNum, handoff>> /\ ~Recorded'
    BY <1>1, <1>3, <1>9 DEF ListInv, Recorded, WaitPmuSleep, Goto
  <2>3. ~CurrentHeader'.xip
    BY <1>1, <1>4, <1>6, <1>9 DEF ListInv, WaitPmuSleep, Goto
  <2>2. Lists(m)'
    BY <1>1, <2>1, ListsStay
  <2>. QED BY <1>1, <1>3, <2>1, <2>2, <2>3, SamePartitionLists
<1>10. CASE DeviceCopy
  <2>1. Lists(m) /\ UNCHANGED handoff
    BY <1>1, <1>3, <1>10 DEF ListInv, Recorded, DeviceCopy
  <2>2. Lists(m)'
    BY <1>1, <2>1, ListsStay
  <2>3. CASE Goto("validate")
    <3>1. ~h.xip
      BY <1>4, <1>10 DEF ListInv, DeviceCopy
    <3>2. UNCHANGED <<stage, partitionNum>> /\ ~Recorded' /\ pc' = "validate"
      BY <1>1, <1>6, <2>3, <3>1 DEF Goto, Recorded
    <3>. QED BY <1>1, <1>3, <2>2, <3>2, SamePartitionLists
  <2>4. CASE \E s : PartitionFails(s)
    <3>1. stage' = "ERR"
      BY <2>4 DEF PartitionFails
    <3>2. pc' = "stage"
      BY <2>4 DEF PartitionFails
    <3>. QED BY <3>1, <3>2 DEF ListInv
  <2>. QED BY <1>10, <2>3, <2>4 DEF DeviceCopy
<1>11. CASE PartitionValidation
  <2>1. Accepted(m + 1) /\ Lists(IF h.xip THEN m + 1 ELSE m)
    BY <1>1, <1>2, <1>3, <1>4, <1>11
    DEF ListInv, Recorded, Inv, Vetted, PartitionValidation
  <2>2. Lists(m + 1)'
    <3>1. CASE h.device # "PL" /\ DestinationCpu(h) # "PMU"
      <4>1. App(m + 1)
        BY <2>1, <3>1 DEF App, IsApplication, h
      <4>2. RecordHandoff(h) /\ (Lists(m) \/ Lists(m + 1))
        BY <1>4, <1>11, <2>1, <3>1 DEF PartitionValidation
      <4>. QED BY <1>1, <1>5, <2>1, <4>1, <4>2, RecordLists DEF h
    <3>2. CASE ~(h.device # "PL" /\ DestinationCpu(h) # "PMU")
      <4>1. UNCHANGED handoff
        BY <1>4, <1>11, <3>2 DEF PartitionValidation
      <4>2. CASE h.xip
        BY <1>1, <2>1, <4>1, <4>2, ListsStay
      <4>3. CASE ~h.xip
        <5>1. ~App(m + 1)
          BY <3>2, <4>3 DEF App, IsApplication, h
        <5>2. Lists(m + 1)
          BY <1>1, <2>1, <4>3, <5>1, ListsSame
        <5>. QED BY <1>1, <4>1, <5>2, ListsStay
      <4>. QED BY <4>2, <4>3
    <3>. QED BY <3>1, <3>2
  <2>3. CASE PartitionDone
    BY <1>1, <1>2, <2>2, <2>3, DoneLists
  <2>4. CASE Goto("wait_wake")
    <3>1. UNCHANGED <<stage, partitionNum>> /\ Recorded' /\ pc' = "wait_wake"
      BY <2>4 DEF Goto, Recorded
    <3>. QED BY <1>1, <1>2, <2>2, <3>1, SamePartitionLists
  <2>. QED BY <1>11, <2>3, <2>4 DEF PartitionValidation
<1>12. CASE WaitPmuWake
  <2>1. Lists(m + 1) /\ UNCHANGED handoff /\ PartitionDone
    BY <1>1, <1>2, <1>12 DEF ListInv, Recorded, WaitPmuWake
  <2>2. Lists(m + 1)'
    BY <1>1, <2>1, ListsStay
  <2>. QED BY <1>1, <1>2, <2>1, <2>2, DoneLists
<1>. QED BY <1>7, <1>8, <1>9, <1>10, <1>11, <1>12

LEMMA ListNext == Inv /\ LoadInv /\ ListInv /\ [Next]_vars => ListInv'
<1>. SUFFICES ASSUME Inv, LoadInv, ListInv, [Next]_vars PROVE ListInv'
  OBVIOUS
<1>. USE DEF handoffVars
<1>1. CASE Initialize
  <2>1. pc' = "stage" /\ stage' \in {"PRIMARY_BOOT_DEVICE_INIT", "ERR"}
    BY <1>1 DEF Initialize
  <2>. QED BY <2>1 DEF ListInv
<1>2. CASE BootDeviceInit
  <2>1. partitionNum = 0 /\ handoff' = <<>> /\ pc' = "stage"
    BY <1>2 DEF LoadInv, NothingYet, BootDeviceInit
  <2>2. Lists(0)'
    BY <2>1, EmptyLists
  <2>3. \/ stage' = "ERR" \/ (stage' = "HANDOFF" /\ partitionNum' = 0)
        \/ stage' = "PARTITION_LOAD" /\ partitionNum' = 1
    BY <1>2, <2>1 DEF BootDeviceInit
  <2>4. ~Recorded' /\ 0 = 1 - 1
    BY <2>1 DEF Recorded
  <2>. QED BY <2>1, <2>2, <2>3, <2>4 DEF ListInv
<1>3. CASE \/ PartitionHeaderValidation \/ PartitionCopy \/ WaitPmuSleep \/ DeviceCopy
           \/ PartitionValidation \/ WaitPmuWake
  BY <1>3, PartitionStageLists
<1>4. CASE \/ Handoff \/ ReleaseCpu \/ HandoffSelf \/ HandoffDone \/ PostHandoff
           \/ StageErr \/ Exception
  <2>1. UNCHANGED <<handoff, headers, resetReason>>
    BY <1>4
    DEF Handoff, ReleaseCpu, HandoffSelf, HandoffDone, PostHandoff, StageErr, Exception,
        ErrorLockDown, imageVars
  <2>2. PICK n : n = partitionNum
    OBVIOUS
  <2>3. Lists(n) => Lists(n)'
    BY <2>1, ListsStay
  <2>4. CASE stage' = "ERR" /\ pc' = "stage"
    BY <2>4 DEF ListInv
  <2>5. CASE /\ UNCHANGED <<stage, partitionNum>>
             /\ pc' \notin Running \/ (stage # "PARTITION_LOAD" /\ pc' \in {"stage", "execute"})
    BY <2>2, <2>3, <2>5 DEF ListInv, Running
  <2>6. CASE HandoffDone
    <3>1. /\ stage = "HANDOFF" /\ pc = "execute" /\ partitionNum \in Nat
      BY <2>6 DEF HandoffDone, Inv, Progress, TypeOK, StageTypeOK
    <3>2. PICK s \in HandoffResults :
            \/ s = XFSBL_FAILURE /\ HandoffFails(s)
            \/ /\ s # XFSBL_FAILURE
               /\ pc' = "stage" /\ status' = s
               /\ stage' = CASE s = STATUS_PARTITION_LOAD_IN_PROGRESS -> "PARTITION_LOAD"
                             [] s = XFSBL_STATUS_CONTINUE_OTHER_HANDOFF -> "HANDOFF"
                             [] OTHER -> "POST_HANDOFF"
               /\ partitionNum' = IF s = STATUS_PARTITION_LOAD_IN_PROGRESS
                                  THEN partitionNum + 1 ELSE partitionNum
      BY <2>6 DEF HandoffDone
    <3>3. CASE s = XFSBL_FAILURE
      BY <2>4, <3>2, <3>3 DEF HandoffFails
    <3>4. CASE s # XFSBL_FAILURE /\ s = STATUS_PARTITION_LOAD_IN_PROGRESS
      <4>1. s # XFSBL_STATUS_CONTINUE_OTHER_HANDOFF
        BY <3>4 DEF STATUS_PARTITION_LOAD_IN_PROGRESS, XFSBL_STATUS_CONTINUE_OTHER_HANDOFF
      <4>2. /\ pc' = "stage" /\ stage' = "PARTITION_LOAD" /\ n = partitionNum' - 1
            /\ Lists(n)'
        BY <2>2, <2>3, <3>1, <3>2, <3>4, <4>1 DEF ListInv
      <4>3. ~Recorded'
        BY <4>2 DEF Recorded
      <4>. QED BY <4>2, <4>3 DEF ListInv
    <3>5. CASE s # XFSBL_FAILURE /\ s # STATUS_PARTITION_LOAD_IN_PROGRESS
      <4>1. /\ pc' = "stage" /\ stage' \in {"HANDOFF", "POST_HANDOFF"}
            /\ n = partitionNum' /\ Lists(n)'
        BY <2>2, <2>3, <3>1, <3>2, <3>5 DEF ListInv
      <4>. QED BY <4>1 DEF ListInv
    <3>. QED BY <3>3, <3>4, <3>5
  <2>7. CASE Handoff \/ ReleaseCpu \/ HandoffSelf \/ PostHandoff
    <3>1. stage \in {"HANDOFF", "POST_HANDOFF"}
      BY <2>7 DEF Handoff, ReleaseCpu, HandoffSelf, PostHandoff, Inv, Progress
    <3>. QED
      BY <2>4, <2>5, <2>7, <3>1
      DEF Handoff, ReleaseCpu, HandoffSelf, PostHandoff, HandoffFails, Goto, Running
  <2>8. CASE StageErr \/ Exception
    <3>1. UNCHANGED <<stage, partitionNum>> /\ pc' \in {"reset_wait", "spin", "wfe"}
      BY <2>8 DEF StageErr, Exception, ErrorLockDown, Goto
    <3>. QED BY <2>5, <3>1 DEF Running
  <2>. QED BY <1>4, <2>6, <2>7, <2>8
<1>5. CASE PmuSleep \/ PmuStart \/ UNCHANGED vars
  <2>1. UNCHANGED <<handoff, headers, resetReason, pc, stage, partitionNum>>
    BY <1>5 DEF PmuSleep, PmuStart, PmuUnchanged, vars, stageVars, imageVars
  <2>2. PICK n : n = (IF Recorded THEN partitionNum ELSE partitionNum - 1)
    OBVIOUS
  <2>3. PICK m : m = partitionNum
    OBVIOUS
  <2>4. (Lists(n) => Lists(n)') /\ (Lists(m) => Lists(m)')
    BY <2>1, ListsStay
  <2>5. CurrentHeader' = CurrentHeader
    BY <2>1 DEF CurrentHeader, PartitionHeaderOf
  <2>6. Recorded' = Recorded
    BY <2>1, <2>5 DEF Recorded
  <2>7. n = (IF Recorded' THEN partitionNum' ELSE partitionNum' - 1) /\ m = partitionNum'
    BY <2>1, <2>2, <2>3, <2>6
  <2>. QED BY <2>1, <2>2, <2>3, <2>4, <2>5, <2>7 DEF ListInv
<1>6. CASE SoftReset \/ WatchdogReset \/ SystemReset
  <2>1. pc' = "stage" /\ stage' = "SYSTEM_INIT"
    BY <1>6 DEF SoftReset, WatchdogReset, SystemReset, Reset, LoaderRestarts
  <2>. QED BY <2>1 DEF ListInv
<1>. QED BY <1>1, <1>2, <1>3, <1>4, <1>5, <1>6 DEF Next, FsblStep

(* In every image the handoff list is the first application of each processor, in
   partition order: no later partition of the same processor replaces it. *)
THEOREM FirstApplicationsListed == Spec => []HandoffListIsFirstApplications
<1>1. Init => ListInv
  BY DEF Init, ListInv
<1>2. Inv /\ LoadInv /\ ListInv => HandoffListIsFirstApplications
  <2>. SUFFICES ASSUME Inv, LoadInv, ListInv, pc = "stage",
                       stage \in {"PARTITION_LOAD", "HANDOFF", "POST_HANDOFF"}
                PROVE  ListsFirstApplications(IF stage = "PARTITION_LOAD"
                                              THEN partitionNum - 1 ELSE noOfPartitions - 1)
    BY DEF HandoffListIsFirstApplications
  <2>1. CASE stage = "PARTITION_LOAD"
    BY <2>1 DEF ListInv, Recorded, Lists, Running
  <2>2. CASE stage # "PARTITION_LOAD" /\ partitionNum > 0
    <3>1. /\ partitionNum \in Nat /\ noOfPartitions \in Nat /\ Dealt(partitionNum)
          /\ noOfPartitions - 1 <= partitionNum /\ ImageRead
          /\ ListsFirstApplications(partitionNum) /\ headers \in Seq(Header)
      BY <2>2
      DEF Inv, TypeOK, StageTypeOK, LoadInv, WholeImage, AllDealt, ListInv, Lists
    <3>2. partitionNum + 1 \in DOMAIN headers
      BY <3>1, DealtIsInTable
    <3>3. headers # <<>>
      BY <3>2
    <3>4. noOfPartitions = Len(headers)
      BY <3>1, <3>3 DEF ImageRead
    <3>5. partitionNum = noOfPartitions - 1
      BY <3>1, <3>2, <3>4
    <3>. QED BY <2>2, <3>1, <3>5
  <2>3. CASE stage # "PARTITION_LOAD" /\ ~(partitionNum > 0)
    <3>1. partitionNum = 0
      BY <2>3 DEF Inv, TypeOK, StageTypeOK
    <3>2. noOfPartitions = 0 /\ ListsFirstApplications(0)
      BY <2>3, <3>1 DEF LoadInv, NothingYet, ListInv, Lists
    <3>3. FirstApplications(0) = FirstApplications(0 - 1)
      <4>1. 1..0 = 1..(0 - 1)
        OBVIOUS
      <4>. QED BY <4>1 DEF FirstApplications
    <3>4. ListsFirstApplications(0 - 1)
      BY <3>2, <3>3 DEF ListsFirstApplications
    <3>. QED BY <2>3, <3>2, <3>4
  <2>. QED BY <2>1, <2>2, <2>3
<1>. QED BY <1>1, <1>2, ListNext, InvAlways, LoadAlways, PTL DEF Spec
=============================================================================
