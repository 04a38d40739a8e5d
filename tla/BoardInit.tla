------------------------------- MODULE BoardInit -------------------------------
(****************************************************************************)
(* XFsbl_BoardInit of the ZCU102, the board this build is for: the loader   *)
(* tells the expander and the regulator on I2C0 what the lanes are used     *)
(* for, by polled transfers of the I2C driver. Each message fits in the     *)
(* driver's FIFO, so a transfer holds no clock and is filled in one go.     *)
(*                                                                          *)
(* In FsblBoot the whole of it is an initialisation that succeeds or fails. *)
(****************************************************************************)
EXTENDS Integers

CONSTANTS
  Designs,       \* what the lanes are used for, ICM_CFG of each
  InputClocks    \* clocks the I2C controller may have, in Hz

VARIABLES
  pc,            \* the step of the board's configuration
  io,            \* where a step that sends is: before, polling, or after it
  result, fmc,   \* results of XFsbl_BoardConfig and of XFsbl_FMCEnable
  design, inputClock,
  (* the I2C controller *)
  clock, divisors,  \* the rate asked for, the dividers chosen for it
  master, sending,  \* MS, the message in the FIFO
  intr,             \* ISR
  bus,              \* who has the bus
  (* the board *)
  expander, channel, regulator, pcieReset

boardVars == <<pc, io, result, fmc, design, inputClock>>
clockVars == <<clock, divisors>>
deviceVars == <<expander, channel, regulator>>
vars == <<boardVars, clockVars, master, sending, intr, bus, deviceVars, pcieReset>>

Lanes == 0..3
Protocols == {"powerdown", "pcie", "sata", "usb", "dp", "sgmii"}
ASSUME DesignsAssumption == Designs \subseteq [Lanes -> Protocols]
ASSUME InputClocksAssumption == InputClocks \subseteq Nat

(* What each lane is connected to besides PCIe. *)
Connected == [l \in Lanes |-> IF l <= 1 THEN "dp" ELSE IF l = 2 THEN "usb" ELSE "sata"]

Allowed(d) == \A l \in Lanes : d[l] \in {"pcie", "powerdown", Connected[l]}

(* Mutant: the last two lanes are compared with each other's device. *)
SelectsSwapped(d) == {l \in Lanes : d[l] = Connected[IF l <= 1 THEN l ELSE 5 - l]}

(* Lanes the expander switches away from PCIe. *)
Selects(d) == {l \in Lanes : d[l] = Connected[l]}

(* A cold start finds the expander's outputs off and its register all ones, a
   restart of the PS what the loader left on the board, whole or half way. *)
Init ==
  /\ pc = "start" /\ io = "before" /\ result = "none" /\ fmc = FALSE
  /\ design \in Designs /\ inputClock \in InputClocks
  /\ clock = 0 /\ divisors = <<0, 0>>
  /\ master = FALSE /\ sending = "none" /\ intr = {} /\ bus \in {"idle", "other"}
  /\ channel \in BOOLEAN /\ regulator \in BOOLEAN /\ (regulator => channel)
  /\ \/ expander = [driven |-> FALSE, selects |-> Lanes] /\ ~channel
     \/ expander = [driven |-> TRUE, selects |-> Lanes] /\ ~channel
     \/ expander = [driven |-> TRUE, selects |-> Selects(design)]
  /\ pcieReset = FALSE

SendSteps == {"direction", "lanes", "channel", "regulator"}
FmcSteps == {"muxRate", "channel", "regulator"}

Succeeds ==
  LET next == [start |-> "ioRate", ioRate |-> "direction", direction |-> "check",
               check |-> "lanes", lanes |-> "muxRate", muxRate |-> "channel",
               channel |-> "regulator", regulator |-> "pcie"]
  IN /\ pc' = next[pc] /\ io' = "before"
     /\ fmc' = (pc = "regulator")
     /\ result' = IF pc = "regulator" THEN "success" ELSE result

(* A failure of XFsbl_FMCEnable is reported and forgotten. *)
Fails(error) ==
  /\ io' = "before" /\ fmc' = FALSE
  /\ IF pc \in FmcSteps THEN pc' = "pcie" /\ result' = "success" ELSE pc' = "done" /\ result' = error

(* XIicPs_CfgInitialize: the controller is reset, its FIFO cleared. *)
InitI2c ==
  /\ pc = "start"
  /\ master' = FALSE /\ sending' = "none" /\ intr' = {}
  /\ Succeeds
  /\ UNCHANGED <<design, inputClock, clockVars, bus, deviceVars, pcieReset>>
-----------------------------------------------------------------------------
(* XIicPs_SetSClk. *)

Rate == [ioRate |-> 400000, muxRate |-> 600000]

(* Rates the controller cannot make well are replaced. *)
Corrected(rate) ==
  IF rate > 384600 THEN 384600 ELSE IF rate \in 90001..100000 THEN 90000 ELSE rate

Gap(a, b, rate) ==
  LET actual == inputClock \div (22 * (a + 1) * (b + 1))
  IN IF actual > rate THEN actual - rate ELSE rate - actual

DivA(t, b) == LET q == t \div (b + 1) IN IF q = 0 THEN 0 ELSE q - 1

Temps(asked) ==
  LET first == inputClock \div (22 * asked)
      whole == inputClock % (22 * Corrected(asked)) = 0
  IN first..(IF whole THEN first ELSE first + 1)

(* Mutant: the first divider is not limited to its field. *)
WideDivA(asked) ==
  {try \in Temps(asked) \X (0..63) :
     Gap(DivA(try[1], try[2]), try[2], Corrected(asked)) < Corrected(asked)}

(* Mutant: second dividers above the wanted ratio are skipped. *)
DivisionsOnly(asked) ==
  {try \in Temps(asked) \X (0..63) :
     /\ try[1] \div (try[2] + 1) \in 1..4
     /\ Gap(DivA(try[1], try[2]), try[2], Corrected(asked)) < Corrected(asked)}

(* The pairs the loops look at. *)
Tries(asked) ==
  {try \in Temps(asked) \X (0..63) :
     /\ DivA(try[1], try[2]) <= 3
     /\ Gap(DivA(try[1], try[2]), try[2], Corrected(asked)) < Corrected(asked)}

(* The first of the nearest of them. *)
Divisors(asked) ==
  LET tries == Tries(asked)
      gap[try \in tries] == Gap(DivA(try[1], try[2]), try[2], Corrected(asked))
      Precedes(p, q) == p[1] < q[1] \/ (p[1] = q[1] /\ p[2] <= q[2])
      best == CHOOSE p \in tries : \A q \in tries :
                gap[p] < gap[q] \/ (gap[p] = gap[q] /\ Precedes(p, q))
  IN IF tries = {} THEN <<0, 0>> ELSE <<DivA(best[1], best[2]), best[2]>>

SetSClk ==
  /\ pc \in {"ioRate", "muxRate"}
  /\ IF sending = "none" /\ inputClock \div (22 * Rate[pc]) > 0
     THEN Succeeds /\ clock' = Rate[pc] /\ divisors' = Divisors(Rate[pc])
     ELSE Fails("I2C_SET_SCLK") /\ UNCHANGED clockVars
  /\ UNCHANGED <<design, inputClock, master, sending, intr, bus, deviceVars, pcieReset>>
-----------------------------------------------------------------------------
(* XIicPs_MasterSendPolled, and the wait for the bus after it. *)

Errors == {"NACK", "ARB_LOST"}

(* XIicPs_SetupMaster: refused while the bus is busy. *)
SetupMaster == master' = (master \/ bus = "idle")

(* Nobody looks at the refusal: the FIFO is filled and the address written
   nevertheless. *)
StartSend ==
  /\ pc \in SendSteps /\ io = "before"
  /\ SetupMaster
  /\ intr' = {} /\ sending' = pc /\ io' = "poll"
  /\ UNCHANGED <<pc, result, fmc, design, inputClock, clockVars, bus, deviceVars, pcieReset>>

(* Mutant: the end of the transfer is looked for, not its errors. *)
CompleteIsEnough ==
  /\ io = "poll" /\ intr # {}
  /\ io' = "after" /\ UNCHANGED <<pc, result, fmc>>
  /\ UNCHANGED <<design, inputClock, clockVars, master, sending, intr, bus, deviceVars, pcieReset>>

PollSend ==
  /\ io = "poll" /\ intr # {}
  /\ IF intr \cap Errors = {}
     THEN io' = "after" /\ UNCHANGED <<pc, result, fmc>>
     ELSE Fails("I2C_WRITE")
  /\ UNCHANGED <<design, inputClock, clockVars, master, sending, intr, bus, deviceVars, pcieReset>>

(* Mutant: the loop has no limit. *)
PollForever == FALSE /\ UNCHANGED vars

(* The limit counts even when the last look finds the transfer complete. *)
SendTimesOut ==
  /\ io = "poll"
  /\ Fails("I2C_WRITE")
  /\ UNCHANGED <<design, inputClock, clockVars, master, sending, intr, bus, deviceVars, pcieReset>>

(* Mutant: the bus is not waited for. *)
IdleNotAwaited ==
  /\ io = "after"
  /\ Succeeds
  /\ UNCHANGED <<design, inputClock, clockVars, master, sending, intr, bus, deviceVars, pcieReset>>

WaitIdle ==
  /\ io = "after" /\ bus = "idle"
  /\ Succeeds
  /\ UNCHANGED <<design, inputClock, clockVars, master, sending, intr, bus, deviceVars, pcieReset>>
-----------------------------------------------------------------------------
CheckLanes ==
  /\ pc = "check"
  /\ IF Allowed(design) THEN Succeeds ELSE Fails("GT_LANE_SELECTION")
  /\ UNCHANGED <<design, inputClock, clockVars, master, sending, intr, bus, deviceVars, pcieReset>>

(* XFsbl_PcieReset: a pulse on the reset of the slot, when lane 0 is for PCIe. *)
PcieReset ==
  /\ pc = "pcie"
  /\ pcieReset' = (design[0] = "pcie")
  /\ pc' = "done"
  /\ UNCHANGED <<io, result, fmc, design, inputClock, clockVars, master, sending, intr, bus, deviceVars>>
-----------------------------------------------------------------------------
(* The bus and the devices on it (external). The multiplexer answers when the
   expander's outputs, all ones but for the lanes, hold it out of reset, the
   regulator through the multiplexer only. Any device may fail to. *)

Answers(message) ==
  CASE message \in {"direction", "lanes"} -> TRUE
    [] message = "channel" -> expander.driven
    [] message = "regulator" -> expander.driven /\ channel

BusStarts ==
  /\ master /\ sending # "none" /\ bus = "idle" /\ bus' = "ours"
  /\ UNCHANGED <<boardVars, clockVars, master, sending, intr, deviceVars, pcieReset>>

BusDelivers ==
  /\ bus = "ours" /\ sending # "none" /\ Answers(sending)
  /\ expander' = CASE sending = "direction" -> [expander EXCEPT !.driven = TRUE]
                   [] sending = "lanes" -> [expander EXCEPT !.selects = Selects(design)]
                   [] OTHER -> expander
  /\ channel' = (channel \/ sending = "channel")
  /\ regulator' = (regulator \/ sending = "regulator")
  /\ sending' = "none" /\ intr' = intr \cup {"COMP"}
  /\ UNCHANGED <<boardVars, clockVars, master, bus, pcieReset>>

BusRefuses ==
  /\ bus = "ours" /\ sending # "none"
  /\ sending' = "none" /\ intr' = intr \cup {"NACK"}
  /\ UNCHANGED <<boardVars, clockVars, master, bus, deviceVars, pcieReset>>

BusIsLost ==
  /\ bus = "ours" /\ sending # "none"
  /\ bus' = "other" /\ sending' = "none" /\ intr' = intr \cup {"ARB_LOST"}
  /\ UNCHANGED <<boardVars, clockVars, master, deviceVars, pcieReset>>

BusStops ==
  /\ bus = "ours" /\ sending = "none" /\ bus' = "idle"
  /\ UNCHANGED <<boardVars, clockVars, master, sending, intr, deviceVars, pcieReset>>

(* The board's controller uses the bus too, for other devices. *)
OtherMaster ==
  /\ \/ bus = "idle" /\ bus' = "other"
     \/ bus = "other" /\ bus' = "idle"
  /\ UNCHANGED <<boardVars, clockVars, master, sending, intr, deviceVars, pcieReset>>
-----------------------------------------------------------------------------
BoardStep ==
  InitI2c \/ SetSClk \/ StartSend \/ PollSend \/ SendTimesOut \/ WaitIdle \/ CheckLanes \/ PcieReset

BusStep == BusStarts \/ BusDelivers \/ BusRefuses \/ BusIsLost \/ BusStops \/ OtherMaster

Next == BoardStep \/ BusStep

Spec == Init /\ [][Next]_vars

(* The loader runs on; nothing is asked of the bus. *)
FairSpec == Spec /\ WF_vars(BoardStep)
-----------------------------------------------------------------------------
(* Properties. *)

(* Every variable has its type; the dividers fit their fields. *)
BoardTypeOK ==
  /\ pc \in SendSteps \cup {"start", "ioRate", "check", "muxRate", "pcie", "done"}
  /\ io \in {"before", "poll", "after"}
  /\ result \in {"none", "success", "I2C_SET_SCLK", "I2C_WRITE", "GT_LANE_SELECTION"}
  /\ fmc \in BOOLEAN
  /\ clock \in {0, Rate.ioRate, Rate.muxRate} /\ divisors \in (0..3) \X (0..63)
  /\ master \in BOOLEAN /\ sending \in SendSteps \cup {"none"}
  /\ intr \subseteq Errors \cup {"COMP"} /\ bus \in {"idle", "ours", "other"}
  /\ expander \in [driven : BOOLEAN, selects : SUBSET Lanes]
  /\ channel \in BOOLEAN /\ regulator \in BOOLEAN /\ pcieReset \in BOOLEAN

(* When the board's initialisation succeeds, the expander connects each lane to
   the device its protocol is for, PCIe or the lane's own; and when XFsbl_FMCEnable
   does, the regulator is on. It does so on a bus with another master, with
   devices that do not answer, and after a transfer that was given up. *)
SuccessIsOnTheBoard ==
  /\ result = "success" =>
       /\ expander.driven
       /\ \A l \in Lanes : IF l \in expander.selects THEN design[l] = Connected[l]
                                                     ELSE design[l] \in {"pcie", "powerdown"}
  /\ fmc => regulator /\ channel

(* A device is spoken to when it can be reached: the multiplexer when the expander
   took it out of reset, the regulator when the multiplexer's channel is selected. *)
SpokenToInOrder ==
  [][sending' # sending /\ sending' # "none" => Answers(sending')]_vars

(* The loader starts no transfer while one of its own has the bus. *)
OneTransferAtATime == [][io = "before" /\ io' = "poll" => bus # "ours"]_vars

(* Where the ratio of the clocks fits in the second divider, no pair of dividers
   is nearer to the rate the driver wants than the chosen one. *)
NearestRate ==
  pc \in {"direction", "channel"} /\ io = "before" =>
    LET rate == Corrected(clock) IN
    inputClock \div (22 * rate) < 64 =>
      \A a \in 0..3, b \in 0..63 : Gap(divisors[1], divisors[2], rate) <= Gap(a, b, rate)

(* The initialisation ends, unless it waits for a bus that stays busy or is busy
   again and again: the transfers themselves are limited. *)
BoardInitEnds == <>(pc = "done") \/ (<>[](io = "after") /\ []<>(bus # "idle"))
=============================================================================
