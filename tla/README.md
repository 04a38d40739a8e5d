# A TLA+ model of the UltraScale+ first stage boot loader

The program is a first stage boot loader (FSBL) for Zynq UltraScale+: it runs on A53-0
from on-chip memory after the BootROM, brings the system up, reads a boot image from QSPI
flash, copies its partitions, downloads firmware to the platform management unit (PMU),
releases the other processors and leaves for the application of its own processor. On an
error it records a code, steps the multiboot register and asks for a soft reset. With it
comes the power management library (PM) through which a processor talks to the PMU.

This directory holds a specification of that boot as a state machine; specifications of the parts
that are one step of it, down to the register protocols where something else runs beside the
loader; the configurations that check them with TLC on small instances; and proofs, checked by
TLAPS, of the safety properties of the boot for every image, board and number of resets, of the
bring-up and the board's initialisation, of the copy from QSPI flash and the driver's transfers
under it, of the release of the processors for every handoff list, and of the PM library's
channel, suspend, notifiers and clocks. File names below are those of `src/main/` unless another
directory is given.

## Inventory

| Component | State it keeps | Operations | What makes it correct |
|---|---|---|---|
| Main state machine (`xfsbl_main.c`) | `FsblStagesVal`, `FsblInstance`, error status and multiboot registers | one per stage, `XFsbl_ErrorLockDown`, `XFsbl_FallBack` | processors start only from a whole, accepted image; every boot ends; an error is reported and nothing starts after it |
| System initialisation (`xfsbl_initialization.c`, `xfsbl_hooks.c`) | reset reason, general storage 5, interrupts | `XFsbl_Initialize`, `XFsbl_ResetValidation` | a reset is recognised for what it was; a stale register does not pass for a fresh one |
| Boot device initialisation (`xfsbl_initialization.c`) | device operations, image offset | `XFsbl_BootDeviceInit` | the image read is the one the multiboot register selects |
| Image headers (`xfsbl_image_header.c`) | image header table, partition headers, ATF parameters | `XFsbl_ReadImageHeader`, `XFsbl_ValidatePartitionHeader` | a malformed table or header stops the boot; a partition of another owner is skipped; ATF hears of every program it is to load |
| Partition loader (`xfsbl_partition_load.c`) | handoff list | `XFsbl_PartitionLoad` | the list is the first application of each processor; the PMU sleeps while its RAM is written and wakes with a whole firmware |
| Handoff (`xfsbl_handoff.c`) | CPU power, reset, vector and clamp registers | `XFsbl_Handoff`, `XFsbl_HandoffExecute`, `XFsbl_HandoffExit` | each listed processor starts once, powered, at its entry and in its state |
| Exceptions and helpers (`xfsbl_misc.c`) | vector table, island power | `XFsbl_RegisterHandlers`, handlers, `XFsbl_PowerUpIsland` | an exception at any point ends in the lockdown |
| QSPI boot device (`xfsbl_qspi.c`) | bank register, flash size | `XFsbl_Qspi24Copy`, `XFsbl_Qspi32Copy` | a copy brings the bytes at the address asked for, across banks and dies |
| QSPI controller driver (`lib/qspipsu`) | instance, FIFOs, DMA | `XQspiPsu_PolledTransfer` | one transaction on the wire, its bytes in the buffer, nothing left for the next |
| Board (`xfsbl_board.c`) | I2C expander, multiplexer, regulator | `XFsbl_BoardInit` | a success is on the board; a device is addressed after the one before it |
| I2C driver (`lib/xiicps`) | controller, dividers | `XIicPs_MasterSendPolled`, `XIicPs_SetSClk` | one transfer at a time, at the nearest rate |
| Generated bring-up (`generated/psu_init.c`) | PLLs, DDR PHY, lane calibration | `psu_init` | a success means that what it brings up works; it ends |
| PM library, channel (`pm/pm_api_sys.c`, `lib/ipipsu`) | IPI buffers | requests with and without a reply | a reply belongs to its request, also after one that timed out |
| PM library, notifiers (`pm/pm_callbacks.c`) | notifier list | add, remove, the walk of the interrupt | each notifier hears each event once |
| PM library, suspend (`pm/pm_client.c`) | interrupts, power-down request | `XPm_SelfSuspend`, `XPm_AbortSuspend`, `XPm_SuspendFinalize` | the processor sleeps only when the PMU expects it |
| PM library, clocks (`pm/pm_clock.c`) | clock and multiplexer tables | set and get of dividers and parents | what is set is read back |
| PM configuration (`xfsbl_misc_drivers.c`, `pm/pm_cfg_obj.c`) | IPI instance, a generated table | `XFsbl_PmInit` | a failure is reported |
| DDR initialisation (`xfsbl_ddr_init.c`) | controller registers | none that is called | see "Not modelled" |
| UART, IPI, SD drivers, start-up code (`lib/`) | controller instances | vendored | not part of the loader's own logic |

The components interact by calls, except in these places: the PMU runs beside the loader
and is reached through an IPI and through bits of `PMU_GLOBAL_GLOBAL_CNTRL`; exceptions
call `XFsbl_ErrorLockDown` from any point, and the PMU's interrupt the notifiers; resets
come from the loader itself, from the watchdog or from the software it has started, and
leave some registers as they were; released processors run while the loader still works on
the rest of its list; the controllers of QSPI and I2C work through what the drivers gave
them while the drivers poll; the I2C bus has another master; and other processors set the
same clocks through the same library.

The behaviours that are hard are therefore the interleaving of loader and PMU around a
firmware download, the sequences of partition kinds, a failure or reset at any point with
other processors already running, registers that carry state from one boot into the next,
requests whose answer comes after the caller gave up, and decisions taken on a status
register that has changed since. `PROJECT.json` lists each such hazard at its line.

## Modules

| Module | Stands for |
|---|---|
| `FsblCodes` | status words with their values, boot modes, the codes each layer can report |
| `PartitionHeader` | headers and tables as the loader sees them, and the checks on them in their order |
| `FsblBoot` | the boot: one action per stage or per piece of a stage between two points where something else may come in, the PMU, exceptions and resets, and the properties |
| `BootProtocol` | abstract: what a boot promises to the rest of the system |
| `AtfParams` | the loop of `XFsbl_ReadImageHeader` over the partition headers, with the list for ATF |
| `CpuRelease` | `XFsbl_HandoffExecute` down to its register writes, the processors and their power |
| `CpuStarts` | abstract: processors start in the order of the list, each in the state of its entry |
| `QspiCopy` | identification of the flash and the copies from it, one action per piece of a turn of the copy loop between two transfers; the flash chips; and the properties |
| `QspiTransfer` | a polled transfer of the driver against the controller's entries, FIFOs and DMA |
| `FlashTransaction` | abstract: one selection of the flash, the bytes asked for, each at its place |
| `PmClient` | the PM library of one processor: the channel, the notifiers, suspend; the PMU |
| `RemoteCall` | abstract: numbered requests, one outstanding, each served once, replies to the last |
| `ClockTree` | clocks, multiplexers, dividers and selects of `pm_clock.c` as operators |
| `PmClock` | several callers that set and get dividers and parents |
| `LaneSearch` | the search for a lane setting, as operators on one turn of its loop |
| `PsuInit` | PLLs, bring-up of the DDR PHY, calibration of the SERDES |
| `BoardInit` | the ZCU102's initialisation over polled I2C transfers, the bus and its devices |
| `FsblBootClaims` | a statement of a comment that the boot does not keep |
| `MC...` | instances for TLC: `MCFsblBoot`, `MCAtfParams`, `MCCpuRelease`, `MCQspiCopy`, `MCQspiTransfer`, `MCPmClient`, `MCPmClock`, `MCPsuInit`, `MCBoardInit` |
| `FsblBoot_proofs`, `QspiCopy_proofs`, `QspiTransfer_proofs`, `PmClient_proofs`, `PmClock_proofs`, `CpuRelease_proofs`, `PsuInit_proofs`, `BoardInit_proofs` | the theorems about the module of that name and their proofs |

How they stand to each other:

* `FsblBoot` EXTENDS `PartitionHeader`, which EXTENDS `FsblCodes`, and implements
  `BootProtocol` through a refinement mapping.
* `CpuRelease` details the release of the processors, `AtfParams` the reading of the
  headers, `QspiCopy` the copy of a partition, `PsuInit` and `BoardInit` the bring-up. In
  `FsblBoot` each of these is one step, or one per processor, that succeeds or reports the
  error of its layer.
* `QspiTransfer` details one transfer of `QspiCopy`.
* `PmClock` is a client of the channel of `PmClient`: there each remote call is one step
  that is done, refused, or done after the caller gave up, which is what `RemoteCall`
  allows.
* `CpuRelease` implements `CpuStarts`, `QspiTransfer` implements `FlashTransaction`, and
  `PmClient` implements `RemoteCall`.

### How the state corresponds to the code

**FsblBoot.** `stage`, `status` and `partitionNum` are the fields of `FsblStagesVal`.
`resetReason`, `imageOffset`, `noOfPartitions`, `headers` and `handoff` are those of
`FsblInstance`; `handoff` is the used part of `HandoffValues`, its length `HandoffCpuNo`.
`multiBoot`, `errorReg`, `execDone`, `psOnlyReset` and `apuReset` are registers. `pmu` is
what the control register shows of the PMU (`MB_SLEEP`, `FW_IS_PRESENT`), the IPI and the
wake bit. `pc` is the place in the program: `"stage"` is the dispatch loop of `main()`, the
others are places inside a stage where the loader waits or where another actor matters, and
the ends: `"app"` (left for its application), `"wfe"` (waits for events), `"reset_wait"` and
`"spin"` (the two endless loops of `XFsbl_UpdateMultiBoot`). `loaded` and `started` are
history: the partitions copied and the processors released, with the state each starts in.

| Action | Code |
|---|---|
| `Initialize` | stage 1: `XFsbl_Initialize` with the reset reason, the bring-up that may fail, the reset validation |
| `BootDeviceInit` | stage 2: boot mode, driver, boot header, image header table and partition headers |
| `PartitionHeaderValidation`, `PartitionCopy`, `WaitPmuSleep`, `DeviceCopy`, `PartitionValidation`, `WaitPmuWake` | stage 3, one partition at a time |
| `Handoff`, `ReleaseCpu`, `HandoffSelf`, `HandoffDone`, `PostHandoff` | stage 4 and the end |
| `StageErr`, `Exception` | `XFsbl_ErrorLockDown` from the stage loop and from a handler |
| `PmuSleep`, `PmuStart` | the PMU (external) |
| `SoftReset`, `WatchdogReset`, `SystemReset` | resets (external) |

**QspiCopy.** `flashSize` and `multiDie` are `QspiFlashSize` and `MultiDie`; `board` is the
make and size of the chips (`QspiFlashMake`), their connection mode, the bus width and which
of the two device drivers is used; `selected` is what `XQspiPsu_SelectFlash` set last. `copy`
has the variables of the copy routines that live through the loop (`SrcAddress`,
`DestAddress`, `RemainingBytes`, `UnalignedBytes`), `turn` those of one turn (`QspiAddr`,
`TransferBytes`, `TempBuf`). `chips` is the chips' own state, external: bank register,
four-byte addressing, QPI mode. `mem` is the memory a copy may write.

| Action | Code |
|---|---|
| `ProbeFails`, `Probe`, `ProbeMacronix` | `XFsbl_Qspi24Init` and `XFsbl_Qspi32Init`, with `FlashReadID` and `MacronixEnable4B` |
| `BeginCopy` | entry of `XFsbl_Qspi24Copy` and `XFsbl_Qspi32Copy`, with the length check |
| `PrepareTurn`, `SelectBank`, `EnterQpi`, `ReadFlash`, `Deliver` | a turn of their loop, in the order of its transfers |
| `EndCopy` | the return |

**QspiTransfer.** `index`, `rxPtr`, `isUnaligned`, `txLeft`, `rxLeft`, `readMode` and
`isBusy` are the index of the message and the fields of the driver's instance (`TxBytes`,
`RxBytes`, `RxBfrPtr`, `IsUnaligned`, `ReadMode`, `IsBusy`). `status` is the interrupt status
register as a turn of the poll loop has read it; the controller may have moved on before the
turn acts on it. `genFifo`, `txFifo`, `rxFifo`, `dma` and `current` are the controller's,
`wire` and `selected` what the flash sees.

| Action | Code |
|---|---|
| `BeginTransfer` | entry of `XQspiPsu_PolledTransfer`, chip select |
| `GenFifoEntryData`, `ManualStart` | `XQspiPsu_GenFifoEntryData` and its helpers, the start |
| `Poll`, `ActSend`, `ActDma`, `ActIo` | a turn of the loop `while (Index < NumMsg)`: the read of the status, then what the turn does with it, up to the assertion of `XQspiPsu_ReadRxFifo` on its size |
| `Deselect`, `EndTransfer` | chip deselect and its wait, the return |
| `TakeEntry`, `ClockWord`, `MoveWord` | the controller: entries, the wire, the DMA (external) |

**AtfParams.** `partitionIndex`, `partitionHeader`, `numEntries`, `entry` are the variables of
`XFsbl_ReadImageHeader` and the fields of `ATFHandoffParams`; `ReadPartitionHeader` is a turn
of its loop, `ReadFails` a device error in it, `AllRead` what follows the loop.

**CpuRelease.** `vinithi`, `rvbar`, `aa64`, `resets`, `rpuMode`, `halted`, `powered` and
`powerRequest` are registers, named in the module; `running` is, for each processor, what it
found in them when it left reset. An entry passes through `TakeEntry` (the check of the
processor), `SetVector`, `SetRvbarLow` and `SetRvbarHigh`, `Dispatch`, `RequestPower` and
`PollPower` (`XFsbl_PowerUpIsland`), `SetExecState` or `SetRpuMode` and `Halt`,
`ReleaseReset`, `Unhalt`; these are `XFsbl_SetCpuPwrSettings` with the vectors before it, in
the order of their writes. `PmuPowersUp` is the PMU (external).

**PmClient.** `pc`, `op` and `subject` are the call the program is in, its place there and its
notifier; the buffers, the trigger and the observation bit of the IPI, the notifier list with
its links, the interrupt mask and the power-down request are as in the code. A request goes
through `SendPolled` (the wait before it), `WriteMessage`, `TriggerIpi` and, if it waits for
its reply, the poll and `ReadReply`; each wait ends by `PollTimesOut` too. `NotifierAdd`
takes two assignments, between which the interrupt may walk the list
(`NotifierProcessEvent`). `SuspendFinalize`, `WfiExit` are the end of a suspend. `PmuTake`,
`PmuAnswer`, `PmuNotify`, `PmuPowerDown` and `PmuWake` are the PMU (external), which takes a
request out of its buffer before it answers it.

**ClockTree, PmClock.** `ClockModels` and the multiplexers are the tables of `pm_clock.c`;
`ClockParentBySelect`, `SelectByClockParent` and `MapDivider` the functions of that name.
`call` is, for each caller, the request of `pm_api_sys.c` it is in: `BeginSetDivider`,
`SetOneDivider` and so on. `late` holds requests whose callers gave up.

**LaneSearch, PsuInit.** `status` is the value `psu_init` returns, `pllRetry`, `pllLocked`,
`repeatCount`, `match`, `code`, `lane` and `setting` are variables of the parts it calls.
`bypassed`, `inReset`, `locked` are PLL registers, `phyRun`, `phyBusy`, `phyOk` the PHY and
its answer, `phyRefresh` (the refresh the PHY does during a training, `RFSHDT` of `DTCR0`),
`staticRead` and `autoRefresh` modes of the PHY and of the memory controller. `BypassPll` to
`UsePll` are `psu_pll_init_data` once per PLL, `LockPhyPlls` to `EndEye`
`psu_ddr_phybringup_data`, `StartCalibration` to `ChooseCodes` `serdes_fixcal_code`,
`StartSearch` to `EndSearch` `serdes_illcalib_pcie_gen1`, `InitLanes` the rest.

**BoardInit.** `pc` is the step of `XFsbl_BoardConfig` and of `XFsbl_FMCEnable`, `io` the place
in its transfer; `divisors` is what `XIicPs_SetSClk` chose for the rate `clock`; `master`,
`sending` and `intr` are the controller, `bus` who has the bus, and `expander`, `channel`,
`regulator`, `pcieReset` the devices. `StartSend` (with `SetupMaster`), `PollSend`,
`SendTimesOut` are `XIicPs_MasterSendPolled`, `WaitIdle` the loop on `XIicPs_BusIsBusy`;
`BusStarts`, `BusDelivers`, `BusRefuses`, `BusIsLost`, `BusStops` and `OtherMaster` the bus
(external).

### Abstractions

* A header has the outcome of its checksum, its attributes, whether its lengths pass
  their checks, and the range its load address falls in. Data is not copied; that a
  partition arrived is a member of `loaded`.
* A 64-bit address is a pair of words, because one path of the handoff drops the high one.
* The failures of each layer are represented by one or two of its codes. Codes keep their
  numeric values, because `main()` adds stage offsets to them; the sum does not wrap.
* The result of `XFsbl_HandoffExecute` for an empty list is a variable never assigned. It
  is taken to be any of the three words `main()` tells apart, or another one, for which
  `XFSBL_FAILURE` stands; a word whose sum with the stage offset would equal the running
  mark or the completed mark of the error status register is left out.
* A slot of the header array that was never read is a header of zeroes, whose checksum is
  wrong. That is the content of the array at the start of the loader.
* In `FsblBoot` the release of one processor is one step that does not fail for want of
  power; `CpuRelease` has its writes, and leaves out the delays and the clocks, which
  `psu_init` has enabled. Reads of headers from flash are one step of stage 2.
* What the environment does is taken from how the loader uses it. Whether
  `FW_IS_PRESENT` survives the sleep of the PMU is not decided by this repository and is
  the constant `FwStaysPresent`. The multiboot and error status registers survive every
  reset, as the fallback and the reset validation need; general storage 5 and the PMU
  survive resets of the PS or the APU alone.
* A byte of flash is named by its address in the device, so a copy is right when the byte at
  `dest + i` is `src + i`. Commands, dummy cycles and the split of an address into bytes are
  left out; that a 24-bit address loses what is above a bank is in `ChipAddress`. The chips
  answer from their own registers: a chip that is in another mode than the controller reads
  junk, and a read past what its counter reaches wraps. How far that is (the bank with
  24-bit addresses, the die of a multi-die chip, else the chip) is taken from what the cuts of
  the two copies are for.
* Both copies share their actions, because their loops differ in the width of the address,
  the condition of the cut, the bank selection and the length taken out of `TempBuf`, which
  the definitions name. The cut of a turn is computed before the bank command instead of
  after it; neither reads what the other writes.
* In `QspiCopy` a transfer that fails has no effect: `XQspiPsu_PolledTransfer` refuses before
  it touches the bus. In `SelectBank` the read-back may fail after the write took effect.
* `mem` is the memory around the present request. Requests are on even addresses with even
  lengths, since offsets and lengths in boot images are multiples of four.
* In `QspiTransfer` a byte on the wire is named by its place in the transfer; the number of
  wires, the chip select lines and the prescaler are left out, and so are transfers that use
  interrupts, which the loader does not.
* `PmClient` is one processor, as the library is compiled for the first A53. Requests that
  differ only in their words are one kind. Callbacks run in the interrupt and, as
  `pm/pm_api_sys.h:95` asks, do not call the library.
* In `PmClock` a call goes on from one request to the next without a step between; another
  caller may come in between two requests.
* `PsuInit` leaves out the tables of register writes, which wait for nothing and cannot fail, but
  for the refresh of the memory, which one of them turns off (`InitDdr`) and the end of the PHY's
  bring-up on again (`EndEye`); the two writes beside that one, to the ZQ calibration and
  `PGCR1`, are left out too. A lane's test may pass or fail at each counter; a calibration may
  read any code.
* `BoardInit` sends each message as one unit, because each fits in the driver's FIFO. The
  other master of the bus speaks to other devices. A restart finds
  on the board what the loader left there, whole or half way. The errors of the controller's
  own initialisation (`xfsbl_board.c:329`, `337`) are left out: its configuration is in a
  table that has it, and `XIicPs_CfgInitialize` returns nothing but success.

## Runs

All `.cfg` files state their constants with a comment on the instance. Deadlock is not
checked: every specification ends somewhere by intent (the loader in an application, in
`wfe` or in a loop, a behaviour at the bound on its calls), and the liveness properties say
where.

| Run | Instance | Shows |
|---|---|---|
| `Images` | every sequence of one to three partitions of nine kinds that work; one or two of twelve kinds, six of them with one malformed field, one corrupt; four bad tables; five boards; one boot | `TypeOK`, `HandoffListOK`, `HandoffListIsFirstApplications`, `NothingStartsEarly`, `PmuRamQuiet`, `FirmwareStartsWhole`, `OnlyGoodImagesStart` |
| `Resets` | images as bootgen makes them that succeed and fail in different stages, and one without an application, whose handoff list is empty and its status never assigned; five boards, three resets of any cause at any time, under `FairSpec` | `ImplementsProtocol`, `BootSettles` |
| `Qspi` | 22 fittings of chips with 24-bit and 26 with 32-bit addresses, two banks an earlier boot may have left, two copies of 150 requests, every fault but that of the four-byte command, under `FairSpec` | `QspiTypeOK`, `Exact`, `InsideDestination`, `ListensAgain`, `CopyEnds` |
| `Transfer` | two transfers of the shapes `xfsbl_qspi.c` builds, reads of nine sizes, every order of driver and controller, under `FairSpec` | `LeavesNothing`, `ImplementsTransaction`, `TransferEnds` |
| `Pm` | two notifiers, four calls of every kind, two notifications, a PMU that answers, refuses or does not answer, under `FairSpec` | `PmTypeOK`, `ListedAreRegistered`, `SleepIsExpected`, `ImplementsRemoteCall`, `EachHearsOnce`, `CallsEnd` |
| `Release` | every list of up to three entries with equal vectors and one of six, on both parts (with two and four A53), under `FairSpec` | `PoweredBeforeReset`, `StartsAsListed`, `ReleaseEnds` |
| `Psu` | both builds, PLLs that do or do not lock, trainings that fail, any calibration codes, any test results of a lane, under `FairSpec` | `SuccessMeansReady`, `MostFrequentCode`, `SettingHasMargin`, `PhyOneAtATime`, `PsuInitEnds` |
| `Clock` | two callers, three calls of four kinds on each of four clocks, failures and late requests | `ClockTypeOK`, `DividerIsReadBack`, `ParentIsReadBack` |
| `Board` | each protocol on each lane, five clocks of the controller, a bus with another master and silent devices, under `FairSpec` | `BoardTypeOK`, `SuccessIsOnTheBoard`, `NearestRate`, `SpokenToInOrder`, `OneTransferAtATime`, `BoardInitEnds` |
| `ClaimMultiBoot`, `ClaimVector`, `ClaimAtf` | one image or list each | a comment the code does not keep, see below |

The properties, in words. Of the boot:

* `HandoffListOK`: no processor is listed twice, so the list fits its ten entries.
* `HandoffListIsFirstApplications`: when a partition is done, and when the handoff begins,
  the list is exactly the first application of every processor among the partitions done.
* `NothingStartsEarly`: no processor runs before the last partition is in memory.
* `PmuRamQuiet`: the PMU sleeps during every copy to its RAM.
* `FirmwareStartsWhole`: when the PMU starts, no partition of the firmware it starts from
  is still to be copied. A partition that the loader is right not to copy does not count: one
  executed in place, and one for the programmable logic after a reset of the PS alone, which
  leaves the logic as it is.
* `OnlyGoodImagesStart`: an image with a bad table, a corrupt header, or a malformed header
  of the loader's own starts nothing.
* `ImplementsProtocol`: the boot is a behaviour of `BootProtocol`: it announces itself,
  commits, releases processors only after that and each at most once, and a failure is
  reported in the register, after which nothing is released until a reset.
* `BootSettles`: a running loader comes to one of its ends, or hands off an empty list: the
  status of that was never assigned, and if its word asks for another handoff, for ever.

Of the release of the processors:

* `PoweredBeforeReset`: no core leaves reset before all islands it needs have power.
* `StartsAsListed`: the release implements `CpuStarts`: processors start in the order of the
  list, each in the state its program needs, and nothing written for a later one stops or
  restarts one that runs.
* `ReleaseEnds`: the release ends, with the whole list started unless it names a processor
  that is not there or the loader's own.

Of the flash:

* `Exact`: what has been copied is the flash from the first byte asked for on, whatever the
  alignment, the cuts, the chip and the bank.
* `InsideDestination`: no byte outside the destination is written, not even when `TempBuf` is
  emptied with more bytes than were read.
* `ListensAgain`: between reads no chip is in QPI mode, in which it would not hear the next
  bank command.
* `CopyEnds`: a copy that has begun returns.
* `ImplementsTransaction`: a transfer implements `FlashTransaction`: the flash stays selected
  from the first byte to the last, the bytes pass in order, and each byte received is at its
  place when the driver returns, whichever way it came.
* `LeavesNothing`: between transfers the driver is in DMA mode and no FIFO holds anything.
* `TransferEnds`: a transfer returns, or stops in the assertion named below.

Of the PM library:

* `ImplementsRemoteCall`: a request is never overwritten before the PMU took it, and a reply
  that is used belongs to the present call, also after earlier calls gave up.
* `EachHearsOnce`: a notification reaches each listed notifier of its pair once and no other,
  also while the list changes.
* `ListedAreRegistered`: the PMU knows the pair of every listed notifier.
* `SleepIsExpected`: a processor that waits for its power-down is expected to by the PMU,
  with its request set, interrupts off and no request on its way.
* `CallsEnd`: every call returns although the PMU may never answer, but
  `XPm_SuspendFinalize`, which waits for the PMU.
* `DividerIsReadBack`, `ParentIsReadBack`: what a call has set, and no other caller has
  disturbed, is what the get returns, for every caller. For dividers this is about values
  whose split fits the two fields, and says nothing of the others, of which some (primes) are
  refused and some are set to another value with success (128, see below); sets of two units
  that interleave are outside of it too.

Of the bring-up:

* `SuccessMeansReady`: a success of `psu_init` means that no clock comes from a PLL in reset
  or one whose lock was not waited for, that the PHY's PLLs locked and the checked trainings
  passed, the memory is refreshed, static reads are off, and lane codes valid.
* `PhyOneAtATime`: the PHY is told something new only when it is through with the last.
* `MostFrequentCode`: the code forced on the lanes is one of those measured most often.
* `SettingHasMargin`: where five counters in a row pass the test, the setting left in the lane
  passed and so did both beside it.
* `PsuInitEnds`: `psu_init` returns, but for an error of the first training.
* `SuccessIsOnTheBoard`: a success of the board's initialisation means each lane is connected
  to the device its protocol is for; a success of `XFsbl_FMCEnable` that the regulator is on.
* `SpokenToInOrder`: a device is addressed only when it can be reached.
* `OneTransferAtATime`: no transfer begins while the last one of the loader has the bus.
* `NearestRate`: no dividers are nearer to the rate wanted than the chosen ones.
* `BoardInitEnds`: the initialisation ends, unless the bus is busy again and again.

`ReleaseTypeOK` and `PsuTypeOK` are proved and in no run.

### Bounds

*Boot.* Three partitions are enough for each interplay of two: a first and a later
application of a processor with something between, a firmware run of two with a partition
before or after it, an executed-in-place application before or after a copied one. Refused
partitions need one neighbour, since the first error ends the boot. Three resets are a
fallback after a failure, a reset of that boot and one more with the registers of both.
`MaxBoots` is the only bound in a guard. Nothing depends on the number of processors beyond
the eight of the hardware, all of which appear in `Cpus`; the images use five of them, and
the proofs all.

*Release.* Entries interact through registers two of them share, so three in every order
cover what a third can undo; the list of six has every kind of processor. Lists name the RPU
as a pair or by its cores, not both, and the vectors agree with those of the last header,
because the code does not keep them apart (`ClaimVector`).

*Flash.* The sizes of `QspiCopy` are scaled down in their order: a line of 8 bytes, banks of
16, dies of 32, and a largest chip of two dies. Requests start before, at and after the ends
of lines, banks, dies and chips, and reach over up to three of them; destinations lie on,
before and after a line. The chunk and transfer limits are above every request, so they are
never met in a run. Two copies are enough for one to find what another left. The run leaves
out the fittings for which the code does not keep its promise: a stacked pair with 32-bit
addresses of chips of one die, four-byte commands that fail, chips above a bank without a
bank command, and stacked pairs of chips smaller than a bank (8 MB and less), where a 24-bit
read is not cut at the end of the lower chip either. The driver's configuration in this
repository is a parallel pair on four wires (`lib/common/xparameters.h`), which the run has
for both widths of address.

*Transfer.* An entry stands for less than 16 bytes or for a power of two from 16 on, where the
code has 256 (`ExpStart`), so the sizes up to 51 need one, two and three entries; the TX FIFO is
filled 4 bytes at a time for 64, and FIFOs hold 2 words, so they fill up and run empty. The nine
sizes are below eight bytes (FIFO alone), multiples of four (DMA alone) and both. `MaxBuffer` is
the place for a read, a byte above the longest. Two transfers show what one leaves for the next.

*PM.* Two notifiers are a head and a second place of the list; each has a pair of its own,
because with a shared pair the library does not keep its promise (below). Four calls are a
registration, another, a removal and a call after it, or a call that times out, its late
answer in the second, a suspend and its abort. Notifications come at any point of them.

*Clocks.* Dividers of three bits for six, with values below and above one field, beyond both,
and one whose first split does not fit; 28 pins, since an input of a table is
pin 26; one clock for each kind of multiplexer and dividers. Three calls are two sets and a
get, or a set between the two requests of another.

*Bring-up.* One PLL for five, which are set up one after another by the same code; two attempts
of the PHY for ten, two readings of a calibration for eleven, one quantity with three codes for
four with up to 23; seven counters for 64, enough for a row of five with one value before and
after; one search for each generation of the link. Seven and not eight: the proof found that
with exactly eight counters `SettingHasMargin` fails, see below. Divider sizes of the I2C
driver are the real ones. Five clocks are that of this design (99990005 Hz), a multiple of the
rate, one just above a whole ratio, and two too slow for one or both of the rates.

### Fairness

`BootSettles` needs weak fairness of the loader's steps taken together: it is one
processor that executes straight-line code, without blocking calls, and its two waits poll
a register. The PMU answers its IPI and its wake bit (`PmuSleep`, `PmuStart`), and a soft
reset that was requested happens. Exceptions, the watchdog and other resets have no
fairness. It is checked for images as bootgen makes them: with a first firmware partition
that has no entry address no IPI is raised and the wait for the sleep has no timeout, so
the loader hangs; the mutant of that run shows such a hang. A handoff of an empty list is excepted,
because its status is whatever word the stack held.

`CopyEnds` needs weak fairness of the steps of a copy, one processor's straight-line
code between polled transfers. That a transfer ends is assumed there and is the subject of
`TransferEnds`, which needs fairness of the driver and of each part of the controller, all
of which run without waiting for another request.

`CallsEnd` needs fairness of the program's own steps alone: its polls are limited
(`lib/ipipsu/xipipsu.c:158`), and nothing is asked of the PMU. `ReleaseEnds` needs fairness of
the loader and of the PMU's power-up, whose wait has no limit (`xfsbl_misc.c:528`).
`PsuInitEnds` needs fairness of `psu_init` and that the PHY finishes what it was told, with or
without an error, because those waits have no limit either; PLLs and lanes need not come up.
`BoardInitEnds` needs fairness of the loader's steps, and asks nothing of the bus.

### Comments the code does not keep

Three runs find one violation each; `PROJECT.json` quotes the comment for each.

| Run | What happens |
|---|---|
| `ClaimMultiBoot` | the image offset is overwritten with 0, so a fallback boots the same image |
| `ClaimVector` | each released processor gets the vector location of the last partition header |
| `ClaimAtf` | the counter of ATF entries is declared inside the loop, so the list holds the last program alone |

Others were met while modelling and are in the models without a run of their own.

In the boot: an application of A53-0 above 4 GB starts at the low word of its entry
(`xfsbl_handoff.c:849`); one listed before another leaves the other unstarted
(`xfsbl_handoff.c:814`); the mark a watchdog reset leaves is seen and ignored
(`xfsbl_initialization.c:467`); an APU-only restart is taken for a PS-only reset, and
interrupts stay pending (`xfsbl_initialization.c:188`, `254`); the completion bit of the
previous boot stays set after a PS-only reset (`xfsbl_initialization.c:424`); a bad table
checksum returns `0x3FFFFFFF`, whose sum with the stage names the wrong stage
(`xfsbl_main.c:112`); firmware present beforehand ends the wait for the new one at once
(`xfsbl_partition_load.c:792`).

In the flash: a 32-bit copy across a stacked pair reads on in the lower chip
(`xfsbl_qspi.c:1306`); a failed four-byte command is reported as success
(`xfsbl_qspi.c:1069`); a chip above a bank without a bank command answers for every bank with
the same one (`xfsbl_qspi.c:585`); a 24-bit copy leaves its last bank selected
(`xfsbl_qspi.c:895`), and after a cut at a bank end reads directly to an address off the line
(`xfsbl_qspi.c:660`); a poll that finds the generic FIFO empty and no byte left calls
`XQspiPsu_ReadRxFifo` with 0, which it asserts against (`lib/qspipsu/xqspipsu_hw.c:707`,
`640`).

In the PM library: unregistering one of two notifiers on a pair leaves the other listed and
deaf (`pm/pm_api_sys.c:1465`), although the walk of the list provides for pairs with several
(`pm/pm_callbacks.c:132`); waking a processor of another unit dereferences a NULL master
(`pm/pm_client.c:153`); a refused suspend leaves interrupts off until an abort
(`pm/pm_api_sys.c:441`); a divider is split at its smallest divisor, whether or not the rest fits
a field: 128 becomes 2 times 64, of which 0 is written, with success, though 4 times 32 would
fit and the note of the function names primes alone as a problem (`pm/pm_clock.c:1141`, `1100`);
sets of one divider by two callers may leave a pair neither asked for (`pm/pm_api_sys.c:1691`).

In the bring-up: an error of the first training keeps the loop from ending
(`generated/psu_init.c:22310`); the lock of a PLL is waited for and not looked at (`184`); a
failed `XFsbl_FMCEnable` is forgotten (`xfsbl_board.c:453`); a refusal of
`XIicPs_SetupMaster` is dropped, so the send runs into its limit
(`lib/xiicps/xiicps_master.c:312`).

## Proofs

Eight modules hold theorems. They are about the same definitions as the runs; a proof module
adds the invariants, and nothing is assumed but the named assumptions on the constants and,
where a theorem says so, a hypothesis that is explained here. Each invariant was checked with
TLC on the instance of the run before it was proved.

### The boot

`FsblBoot_proofs` proves, from the assumptions on the constants alone
(`BoardsAssumption`, `PmuAssumption`, `MaxBootsAssumption`, `FlashAssumption`: boards have a
boot mode, the flash holds images of any length), for every image and any `MaxBoots`:

| Theorem | States |
|---|---|
| `TypeCorrect` | `Spec => []TypeOK` |
| `HandoffListCorrect` | `Spec => []HandoffListOK` |
| `FirstApplicationsListed` | `Spec => []HandoffListIsFirstApplications` |
| `NoEarlyStart` | `Spec => []NothingStartsEarly` |
| `OnlyGoodImages` | `Spec => []OnlyGoodImagesStart` |
| `PmuRamStaysQuiet` | `Spec => []PmuRamQuiet`, if `FwStaysPresent = FALSE` |
| `FirmwareIsWhole` | `Spec => FirmwareStartsWhole`, if `FwStaysPresent = FALSE` |
| `Implementation` | `Spec => ImplementsProtocol` |

The first two follow from `InvAlways`, that `Inv` is an invariant. `TypeOK` alone is not
inductive: the handoff list has typed entries only because a header was accepted before its
processor is recorded (`Vetted`: past the validation, the current header has passed every
check, so its processor is a real one). `HandoffDistinct` is the inductive part of
`HandoffListOK`; that such a list has at most ten entries is a pigeonhole argument on the
eight processors (`EightCpus`, `HandoffFits`). `Progress` says what each place in the program
implies about the register, the stage and the processors started, and `StartedAreListed`
that the processors started are those the loop has passed. With these two the refinement
goes through: a released processor was not released before, because the list is distinct
and the loop only moves forward, and it is released after the commitment, because
`XFsbl_HandoffExecute` is reached only past the write of `XFSBL_COMPLETED`.
Each action has a lemma that it preserves `Inv`; `InvNext` collects them. `Implementation`
maps every step to a step of `BootProtocol` or a stutter (`ProtocolStep`, one case per
action).

`NoEarlyStart` and `OnlyGoodImages` follow from `LoadInv`, inductive relative to `Inv`: every
partition before the current one has been dealt with (`Dealt`: accepted, and copied or rightly
not copied, or of another owner and skipped), the headers are those of a table that passed its
checks (`ImageRead`), and where something runs or the handoff is under way all of them are
dealt with (`WholeImage`). `FirstApplicationsListed` follows from `ListInv`: the list is that of
the first applications of the partitions done, the current one included just when the copy has
recorded it already (`Recorded`), and each application's processor is in it. The lemma about
one partition more is `ListsOneMore`: the new one is appended exactly when no earlier
application has its processor.

`PmuRamStaysQuiet` needs `PmuInv`: a sleeping PMU has not announced itself, and a sleeping
PMU with its wake bit set means the loader is at the wait that follows, or has stopped for a
reset. Leaving that wait needs `FW_IS_PRESENT`, which a sleeping PMU lacks, so the wake-up
of one firmware cannot come in during the copy of another. `FirmwareIsWhole` adds `WakeInv`:
the wake bit of a sleeping PMU means that its firmware was the last of its run of partitions.
With `FwStaysPresent = TRUE` the argument fails, and so may both properties, for an image with
two firmware runs; this is the hazard at `xfsbl_partition_load.c:794`.

### The flash

`QspiCopy_proofs` proves, from `QspiAssumption` alone (sizes are positive, boards, banks and
requests have their types), for every size of flash, bank, die, line and transfer, every
fitting, request and fault:

| Theorem | States |
|---|---|
| `QspiTypes` | `Spec => []QspiTypeOK` |
| `CopiesStayInside` | `Spec => []InsideDestination` |
| `ChipsListenAgain` | `Spec => []ListensAgain` |
| `CopiesAreExact` | `Spec => []Exact`, for `SensibleFlash` |

The first three follow from `CopyInvAlways`. The types are not inductive alone, because the
bytes left could run below zero: `CursorOK` says that the cursor and what is left add up to the
request, and `TurnOK` that a turn moves between one byte and what is left, and that with
unaligned bytes it reads no more than those. The arithmetic is in `CutShortens`: a cut leaves
at least one byte and no more than was asked for, which rests on the uniqueness of a quotient
(`QuotientUnique`). `WiresOK` says when a chip is in QPI mode: only from `EnterQpi` to
`Deliver`, on the chips selected.

`CopiesAreExact` says what the copy is for. `SensibleFlash` is what it needs and the code does
not check: the four-byte command is obeyed, addresses do not wrap, a chip with 24-bit addresses
is not larger than a bank and divides it, or larger with a bank register, a stacked pair of
such chips is no smaller than a bank, a stacked pair with 32-bit addresses has dies, and a
striped pair is asked for even addresses and lengths. Where the code is known to go wrong
without one of these is listed under "Comments the code does not keep"; the instance of the run
satisfies it. `FlashInv` has the parts of the argument: what the identification found
(`FlashOK`), the source moves with the destination (`SourceOK`), a striped pair is read by
pairs (`PairsOK`, where the cuts and the lines must be even), the turn is set up with the
translated address and stays on its side of every cut (`SetUpOK`, by `CutStays`), the chips
that answer have the bank and the mode of the read (`ChipsOK`), and what was read is the flash
(`ReadOK`). `AddressIs` inverts `XFsbl_GetQspiAddr`, `ChipAddressIs` shows that bank and low
address make the address in the chip, `ReadStaysInWindow` that a chip does not wrap within a
read, because its window is what the loader cuts at or the end of the flash. What `Deliver`
takes out of `TempBuf` beyond the bytes read lies past the new cursor, so the next turn
overwrites it before it counts.

`QspiTransfer_proofs` proves, from `TransfersAssumption` (a transfer is a sequence of messages of
at least one byte, its read the last of them and no longer than the buffer) and `SizesAssumption`
(sizes are positive, `ExpStart` and `TxFill` whole words):

| Theorem | States |
|---|---|
| `LeavesNothingBehind` | `Spec => []LeavesNothing` |
| `TransferIsTransaction` | `Spec => ImplementsTransaction` |

Both hold for messages of any length, FIFOs of any size, and every order of driver and
controller. For the first: before it returns the driver looks at the generic FIFO only, so that
the others are empty is a matter of counting words. `SendOK` says that the words the entries
still send are those in the TX FIFO and those with the driver; `ReceiveOK` that the words they
still bring, with those in the RX FIFO, are those the driver (reading through the FIFO) or the
DMA waits for; `PlaceOK` where in the program something is waited for at all. When the driver
returns, the generic FIFO is empty and the entry taken last moves nothing (`QueueOK`, with
`EndsIdle`), so nothing is left to move and both FIFOs are empty. `StatusOK` says what of the
status stays true while the driver acts on it: an empty generic FIFO stays empty, because only
the driver fills it, and an RX FIFO with a word keeps one, because in IO mode only the driver
empties it. That the TX FIFO was seen empty is not among them: the driver may fill it after it
read the status and leave the message with words still in it, and the proof shows that waiting
for the deselection catches up with them.

A sum over the entries is the end of a function that runs it up (`Sums`), since a recursion over
the FIFO could not be reasoned about; `SumOfBoth` and `SumOfTail` say what adding and taking
entries does to it. That the entries of a count add up to the count (`DataEntriesAdd`) is
proved along the driver's loop: what is left to shift, times the present power, with what the
entries have, is the count without its rest (`Split`).

`TransferIsTransaction` needs to know not only how many words there are but which. A byte is
named by its place in the traffic of the transfer, and the driver and the controller are each
at such a place. `DataInv` is inductive relative to the invariant above:

* `WireOK`: what has passed on the wire is the beginning of the traffic.
* `LayOK`: what has passed, what is left of the entry in work, and the entries behind it lie end
  to end (`Lay`) and reach as far as the driver has come with its messages.
* `TxOK`: the words in the TX FIFO are those (`Chain`) from the next byte of the wire to the
  last the driver has written.
* `ReadOK`: the words in the RX FIFO hold (`Holds`) the bytes between the place to which the
  buffer is filled and the wire.
* `SelectOK`: the flash is selected by the first entry of a transfer and deselected by the last.
* `CurrentOK`: the entry in work is one of the present message or of the one before it.
* `DoneOK`: past the last message the buffer has every byte of the read.

A step of the controller then moves the wire on by what it takes out of a FIFO or puts into it,
and a step of the driver appends to the end (`ClockKeepsData`, `PrepareKeepsData` and so on), so
that each maps to a step of `FlashTransaction` or to none (`StepOfTransaction`). The traffic is
`FlattenSeq` of what the messages pass, a recursion over them; `Begins`, the places where they
begin, and `TrafficIsLaid`, which says what is at a place of the traffic, are proved of it by
the least number of messages for which they would fail (`LeastNatural`).

### The release of the processors

`CpuRelease_proofs` proves, from `ListsAssumption` and `NoneAssumption` (the lists hold
entries, and not running is no start state), for handoff lists of any length:

| Theorem | States |
|---|---|
| `ReleaseTypes` | `Spec => []ReleaseTypeOK` |
| `PowerPrecedesReset` | `Spec => []PoweredBeforeReset` |
| `ReleaseImplementation` | `Spec => StartsAsListed`, for `SensibleLists` |

The first two follow from `ReleaseInv`: `PlaceOK` says what kind of entry the loader is at for
each place in the program, `PowerOK` that an island is powered or still asked for at the poll,
and powered behind it. The refinement needs three more parts. `ApuOK` and `RpuOK` tie the
registers of the resets, the halts and the mode of the RPU to the entries the loop is past
(`Passed`), `SettingsOK` says that the start registers of the processor at hand are those of
its entry when it is let go. From these `ReleasedArePassed` has that the processors out of
reset are exactly those passed and the loader's own, so that a step either starts nobody or,
when it passes an entry, that entry's processor and no other (`PassesStartsOne`).
`SensibleLists` is what the loader does not check: a list names a processor once (proved of
the boot, `HandoffListCorrect`), never has both the lockstep pair and one of its cores (the
hazard at `xfsbl_handoff.c:414`), and its 32-bit programs agree on the vectors with the last
partition header (without it the run `ClaimVector` has a counterexample).

### The PM library

`PmClient_proofs` proves, from the assumptions on the constants (finitely many notifiers, any
number of calls and events):

| Theorem | States |
|---|---|
| `PmTypes` | `Spec => []PmTypeOK` |
| `SleepOnlyWhenExpected` | `Spec => []SleepIsExpected` |
| `ListedStayRegistered` | `Spec => []ListedAreRegistered`, if each notifier has a pair of node and event of its own |
| `EachListedHearsOnce` | `Spec => EachHearsOnce`, for notifiers on pairs of their own or shared |
| `ChannelImplementation` | `Spec => ImplementsRemoteCall` |

All rest on `ChannelOK`: the PMU works on nothing but the request in the buffer, and the
program leaves the buffer alone until the observation bit is clear, so a request that timed
out is served whole or not at all before the next one is written. `NumbersOK` counts for the
refinement: a reply is taken only with as many requests answered as were sent. `SuspendOK`
carries an accepted suspend from the PMU's answer to the `wfi`: while it stands no call that
would undo it is on its way. `ListOK` does the same for a notifier between the answer to its
registration and the list, and for one on its way out. Two notifiers with one pair would
break `ListedStayRegistered`: removing one takes the other's registration with it.

`EachListedHearsOnce` is the action property of the notifier list, and rests on `LinksOK`: the
links make a path (`IsPath`) from the head through every listed notifier, each at one place,
to Null; a notifier on its way in is not on it, and has its own link made before the head
points at it. `PathKept`, `PathAdded` and `PathRemoved` are the assignments of
`XPm_NotifierAdd` and `XPm_NotifierRemove` on such a path, with the interrupt between any two
steps. `Walk`, the recursion of the model, is shown to be the path: the path solves its
equation (`WalkSteps`), and at the least place where the two differed the equation would make
them agree (`WalkIsPath`, by `LeastNatural`). So a listed notifier is at exactly one place of
the walk, and the count the interrupt adds is one.

`PmClock_proofs` proves, for any number of callers and calls, every width of the dividers and
every clock of the tables:

| Theorem | States |
|---|---|
| `ClockTypes` | `Spec => []ClockTypeOK` |
| `DividersReadBack` | `Spec => []DividerIsReadBack` |
| `ParentsReadBack` | `Spec => []ParentIsReadBack` |

All follow from `ClockInv`. A divider of two fields is set by two requests, between which, and
after which, another caller's or a late one may come in. `SetsDivider` says that a call which is
going to be believed is alone in setting, now or late, and half way through has set its first
field; `DividerIsSet` that what is known to be set is in the fields and nobody is about to
change it; `GetsDivider` that a get which is under way has collected as much of it as it has
read. `SetsParent`, `ParentIsSet` and `GetsParent` are the same for parents. The rest is about
the tables: `TableOK`, that each entry of a multiplexer's table has a select value of its own,
is proved table by table, and gives that select and parent are inverse
(`ClockParentBySelect` after `SelectByClockParent`). `WidthAssumption` has more than 26 pins,
because the table of the time stamp unit names pin 26; with fewer a set of that parent would
not exist. `MapDividerType` covers the split of a divider: the product of the parts that
`XPm_MapDivider` chooses is the value asked for. That is not enough for the registers, which keep
of each part what fits a field, so what is known to be set is what the two fields make of it
(`Achieved`), and this is the value asked for where both parts are as narrow as a field (`Fits`,
by `Keeps`). `DividersReadBack` has that as a hypothesis in its property.

### The bring-up

`PsuInit_proofs` proves, for any number of PLLs (at least one, `BoundsAssumption`), attempts,
readings, quantities and codes:

| Theorem | States |
|---|---|
| `PsuTypes` | `Spec => []PsuTypeOK` |
| `SuccessIsReady` | `Spec => []SuccessMeansReady` |
| `PhyStepByStep` | `Spec => PhyOneAtATime` |
| `CodesAreMostFrequent` | `Spec => []MostFrequentCode` |
| `SettingsHaveMargin` | `Spec => []SettingHasMargin`, if `Counters > 8` |

`PsuInv` says for each place in the program which PLLs are through (`PllInv`), what the PHY has
been told and finished (`PhyInv`), and which codes are valid (`CalibInv`); the status becomes
and stays `FALSE` when one of them is not so. With no PLL at all the loop of the lock would
look at the first one, hence the assumption.

The search for the most frequent code is a loop over the counts, in the model a recursive
function. The theorem about it (`FindCodeIs`) needs induction over its turns, which is done
with the least natural number for which the claim fails (`LeastNatural`, from the
well-foundedness in the library); `TurnsExist` shows in the same way that the function exists.

The search for a lane setting counts passes and failures over the counters. `LaneInv` states
what its variables mean after each turn (the rows of passes seen so far, and which is the
longest), `LaneTurns` that a turn keeps it, and `MarginKept` carries the setting to the end.
The proof showed that a row which begins at the fourth counter is credited with one pass more
than it has. With exactly eight counters the results pass, pass, fail and five times pass then
give a setting at the edge of the row, and TLC confirms that `SettingHasMargin` is false there.
The code has 64 (`generated/psu_init.c`), so the theorem is stated for more than eight; the run
has seven, where such a row does not fit and the property holds as well.

### The board

`BoardInit_proofs` proves, for every clock of the controller and every design of the lanes:

| Theorem | States |
|---|---|
| `BoardTypes` | `Spec => []BoardTypeOK` |
| `BoardIsAsTold` | `Spec => []SuccessIsOnTheBoard` |
| `DividersAreNearest` | `Spec => []NearestRate` |
| `BoardInOrder` | `Spec => SpokenToInOrder` |
| `OneTransfer` | `Spec => OneTransferAtATime` |

`BoardInv` has four parts. `Transfers` says that the transfer under way is the step's own, that
one which ended without an error was delivered, and that the bus is the loader's only while it
sends; `Reached` what the steps before have put on the board; `Clocked` that the dividers are
the nearest while they are used. The last one is arithmetic: `XIicPs_SetSClk` tries for each
second divider the one first divider that the division gives, so the proof shows that this one
is at least as near as its neighbours (the gap falls up to it and grows behind it), and that
the choice among those tried, by the least gap, exists.

### What stays with TLC

* The liveness properties `BootSettles`, `CopyEnds`, `TransferEnds`, `CallsEnd`, `ReleaseEnds`,
  `PsuInitEnds` and `BoardInitEnds`: TLAPS does not reason about fairness and `ENABLED`.
* The runs `Claim...`, which are counterexamples.

## Plan

Done: the modules, runs and proofs above. Next, in this order:

1. The composition of `QspiCopy` with the restarts of `FsblBoot`: a chip left in QPI mode or
   with a bank selected when a failed copy leads to a fallback.
2. The acknowledge and suspend callbacks of the PM library.

## Not modelled

* The tables of `generated/psu_init.c` and all of `generated/psu_init.h` (62,000 lines
  between them): generated register writes in a fixed order, without state, guards or
  failures, and the names and masks of registers. What has control flow in them is
  `PsuInit`. The same holds of `XFsbl_ProtectionConfig`, of `pm/pm_cfg_obj.c`, a table of
  words, and of `lib/common/xparameters.h`, constants.
* `xfsbl_ddr_init.c` and its header (9,000 lines). They are compiled, because
  `XPAR_DYNAMIC_DDR_ENABLED` is defined (`lib/common/xparameters.h:297`), but the only call of
  `XFsbl_DdrInit` is inside an `#if 0` (`xfsbl_initialization.c:546`), so no behaviour of the
  loader has a step of them. With that macro `psu_init` leaves out its own bring-up of the
  DDR as well (`generated/psu_init.c:23942`): nothing in this repository initialises the
  memory. `PsuInit` is checked for both values of the macro.
* Code that this build does not compile: authentication, encryption and the SHA3 check
  (`USE_CRYPTO_LIB`), the boards other than the ZCU102 and the adjustable voltage of their
  FMC (`lib/common/xparameters.h:28`), the PM library's variants for other processors, and
  SD, USB and NAND devices, whose boot modes are refused, which the model has. `lib/sdps`
  is not among the libraries that `lib/CMakeLists.txt` builds.
* Code without an effect on the properties, or without a caller: `XFsbl_PowerUpMemory`,
  `XFsbl_CheckEarlyHandoff`, string, print and copy helpers, cache and MMU attributes, delays.
* Of the vendored drivers, everything the loader does not use: interrupt-driven transfers,
  the I2C slave and receiving, the QSPI options and prescaler; and the UART driver, which
  prints, and the start-up code.
* Of the PM library, the acknowledge and suspend callbacks, and the checks of arguments.
