------------------------- MODULE CpuRelease_proofs -------------------------
(****************************************************************************)
(* For handoff lists of any length and any entries: no core leaves reset    *)
(* without power, and the processors start as CpuStarts has it.             *)
(****************************************************************************)
EXTENDS CpuRelease, TLAPS

Listed == [cpu: Cpus, exec: {"AA64", "AA32"}, entry: Addresses, vector: 0..1]

Powering == {"power", "poll"}
Releasing == {"mode", "halt_0", "halt_1", "reset", "unhalt_0", "unhalt_1"}
Halting == {"halt_0", "halt_1"}
Unhalting == {"unhalt_0", "unhalt_1"}

(* Where the loader is says what kind of entry it is at. *)
PlaceOK ==
  /\ entries \in Seq(Listed)
  /\ pc \notin Ended \cup {"next"} => index \in DOMAIN entries /\ Entry.cpu # RunningCpu
  /\ pc \in {"rvbar_low", "rvbar_high"} => ~Is32BitCpu(Entry.cpu, Entry.exec)
  /\ pc \in Powering \cup Releasing => Entry.cpu \in (A53Cpus \cup R5Cpus)
  /\ pc \in Halting \cup Unhalting => Entry.cpu \in R5Cpus
  /\ pc \in {"halt_0", "unhalt_0"} => Entry.cpu # "R5_1"
  /\ pc \in {"halt_1", "unhalt_1"} => Entry.cpu # "R5_0"

(* An island asked for is powered or still asked for; past the poll it is
   powered, and the bus of the RPU leaves reset after its island. *)
PowerOK ==
  /\ PoweredBeforeReset
  /\ "AMBA" \notin resets => "RPU" \in powered
  /\ pc = "poll" => Islands(Entry.cpu) \subseteq powered \cup powerRequest
  /\ pc \in Releasing => Islands(Entry.cpu) \subseteq powered

ReleaseInv == ReleaseTypeOK /\ PlaceOK /\ PowerOK
-----------------------------------------------------------------------------
LEMMA EntryTyped == ASSUME PlaceOK, index \in DOMAIN entries
                    PROVE  /\ Entry \in Listed
                           /\ index \in 1..Len(entries) /\ Len(entries) \in Nat
  BY DEF PlaceOK, Entry

(* Where the loader goes from a reset. *)
LEMMA AfterReset ==
  ASSUME ReleaseReset
  PROVE  /\ pc = "reset" /\ UNCHANGED <<entries, lastVector, cg>>
         /\ UNCHANGED <<startVars, powerVars, rpuMode, halted>>
         /\ Entry.cpu \in A53Cpus => NextEntry
         /\ Entry.cpu = "R5_1" => Goto("unhalt_1")
         /\ Entry.cpu \notin A53Cpus /\ Entry.cpu # "R5_1" => Goto("unhalt_0")
<1>1. "R5_1" \notin A53Cpus
  BY DEF A53Cpus
<1>2. CASE Entry.cpu \in A53Cpus
  <2>1. NextEntry
    BY <1>2, <1>1 DEF ReleaseReset
  <2>. QED BY <2>1, <1>1, <1>2 DEF ReleaseReset, NextEntry
<1>3. CASE Entry.cpu = "R5_1"
  <2>1. Goto("unhalt_1")
    BY <1>3, <1>1 DEF ReleaseReset
  <2>. QED BY <2>1, <1>1, <1>3 DEF ReleaseReset, Goto
<1>4. CASE Entry.cpu \notin A53Cpus /\ Entry.cpu # "R5_1"
  <2>1. Goto("unhalt_0")
    BY <1>4 DEF ReleaseReset
  <2>. QED BY <2>1, <1>4 DEF ReleaseReset, Goto
<1>. QED BY <1>2, <1>3, <1>4

LEMMA ReleaseInvInit == Init => ReleaseInv
<1>. SUFFICES ASSUME Init PROVE ReleaseInv
  OBVIOUS
<1>1. PICK list \in Lists : entries = list.entries /\ lastVector = list.vector
  BY DEF Init
<1>2. entries \in Seq(Listed) /\ lastVector \in 0..1
  BY <1>1, ListsAssumption DEF Listed
<1>3. Loader \in StartStates /\ ZeroAddress \in Addresses
  BY DEF Loader, StartStates, ZeroAddress, Addresses
<1>4. ReleaseTypeOK
  BY <1>2, <1>3
  DEF Init, ReleaseTypeOK, Labels, Ended, Cores, RpuCores, A53Cpus, RunningCpu
<1>5. PlaceOK
  BY <1>2 DEF Init, PlaceOK, Ended, Powering, Releasing, Halting, Unhalting
<1>6. PowerOK
  BY DEF Init, PowerOK, PoweredBeforeReset, Islands, Releasing, Cores, RpuCores, A53Cpus, RunningCpu
<1>. QED BY <1>4, <1>5, <1>6 DEF ReleaseInv

(* What the processors do keeps the type of what they run. *)
LEMMA ProcessorsTyped ==
  ASSUME ReleaseTypeOK, Processors,
         (vinithi \in [Cores -> 0..1])', (rvbar \in [A53Cpus -> Addresses])',
         (rpuMode \in {"split", "lockstep"})'
  PROVE  (running \in [Cpus -> StartStates \cup {None}])'
<1>1. ASSUME NEW c \in Cpus, c \in Released'
      PROVE  StartState(c)' \in StartStates
  <2>1. c \in A53Cpus \cup {"R5_0", "R5_1", "R5_L"}
    BY <1>1 DEF Released, ApuReleased, RpuReleased, RpuCores
  <2>2. ZeroAddress \in Addresses
    BY DEF ZeroAddress, Addresses
  <2>3. (IF c = "R5_L" THEN "R5_0" ELSE c) \in Cores
    BY <2>1 DEF Cores
  <2>. QED BY <2>1, <2>2, <2>3 DEF StartState, StartStates
<1>2. \A c \in Cpus : running[c] \in StartStates \cup {None}
  BY DEF ReleaseTypeOK
<1>. QED BY <1>1, <1>2 DEF Processors
-----------------------------------------------------------------------------
(* Every step keeps the types, *)
LEMMA TypesNext == ReleaseInv /\ Next => ReleaseTypeOK'
<1>. SUFFICES ASSUME ReleaseTypeOK, PlaceOK, Next PROVE ReleaseTypeOK'
  BY DEF ReleaseInv
<1>. DEFINE Rest == /\ pc' \in Labels /\ index' \in 1..(Len(entries') + 1)
                    /\ lastVector' \in 0..1 /\ cg' \in BOOLEAN
                    /\ (vinithi \in [Cores -> 0..1])'
                    /\ (rvbar \in [A53Cpus -> Addresses])' /\ (aa64 \in [A53Cpus -> BOOLEAN])'
                    /\ powered' \subseteq A53Cpus \cup {"FP", "L2", "RPU"}
                    /\ powerRequest' \subseteq A53Cpus \cup {"FP", "L2", "RPU"}
                    /\ resets' \subseteq Cores \cup {"L2", "AMBA"}
                    /\ rpuMode' \in {"split", "lockstep"} /\ halted' \subseteq RpuCores
<1>1. Rest
  <2>. USE DEF ReleaseTypeOK, Labels, Ended, Goto, loaderVars, startVars, powerVars, releaseVars
  <2>1. CASE TakeEntry
    BY <2>1 DEF TakeEntry
  <2>2. CASE SetVector
    BY <2>2 DEF SetVector
  <2>3. CASE SetRvbarLow
    <3>1. Entry.entry \in Addresses
      BY <2>3, EntryTyped DEF SetRvbarLow, PlaceOK, Listed
    <3>2. \A c \in A53Cpus : [rvbar[c] EXCEPT !.lo = Entry.entry.lo] \in Addresses
      BY <3>1 DEF Addresses
    <3>. QED BY <2>3, <3>2 DEF SetRvbarLow, SetRvbar
  <2>4. CASE SetRvbarHigh
    <3>1. Entry.entry \in Addresses
      BY <2>4, EntryTyped DEF SetRvbarHigh, PlaceOK, Listed
    <3>2. \A c \in A53Cpus : [rvbar[c] EXCEPT !.hi = Entry.entry.hi] \in Addresses
      BY <3>1 DEF Addresses
    <3>. QED BY <2>4, <3>2 DEF SetRvbarHigh, SetRvbar
  <2>5. CASE Dispatch
    BY <2>5 DEF Dispatch
  <2>6. CASE RequestPower
    BY <2>6 DEF RequestPower, Islands, PlaceOK, Powering
  <2>7. CASE PollPower
    BY <2>7 DEF PollPower
  <2>8. CASE SetExecState
    BY <2>8 DEF SetExecState
  <2>9. CASE SetRpuMode
    BY <2>9 DEF SetRpuMode
  <2>10. CASE Halt
    BY <2>10 DEF Halt, RpuCores
  <2>11. CASE ReleaseReset
    <3>1. index \in 1..Len(entries) /\ Len(entries) \in Nat
      BY <2>11, AfterReset, EntryTyped DEF PlaceOK
    <3>2. index' \in 1..(Len(entries') + 1) /\ pc' \in Labels
      BY <2>11, <3>1, AfterReset DEF NextEntry
    <3>3. UNCHANGED <<lastVector, cg, vinithi, rvbar, aa64, powered, powerRequest, rpuMode, halted>>
      BY <2>11, AfterReset
    <3>. QED BY <2>11, <3>2, <3>3 DEF ReleaseReset
  <2>12. CASE Unhalt
    <3>1. index' \in 1..(Len(entries') + 1) /\ pc' \in Labels
      BY <2>12, EntryTyped DEF Unhalt, NextEntry, PlaceOK
    <3>. QED BY <2>12, <3>1 DEF Unhalt, NextEntry
  <2>13. CASE PmuPowersUp
    BY <2>13 DEF PmuPowersUp
  <2>. QED BY <2>1, <2>2, <2>3, <2>4, <2>5, <2>6, <2>7,
         <2>8, <2>9, <2>10, <2>11, <2>12, <2>13
      DEF Next, HandoffExecute
<1>2. (running \in [Cpus -> StartStates \cup {None}])'
  BY <1>1, ProcessorsTyped DEF Next
<1>. QED BY <1>1, <1>2 DEF ReleaseTypeOK

(* the place in the program, *)
LEMMA PlaceNext == ReleaseInv /\ Next => PlaceOK'
<1>. SUFFICES ASSUME ReleaseTypeOK, PlaceOK, Next PROVE PlaceOK'
  BY DEF ReleaseInv
<1>. USE DEF PlaceOK, Ended, Powering, Releasing, Halting, Unhalting, Entry, Goto, NextEntry,
         loaderVars
<1>1. CASE TakeEntry
  <2>1. index > Len(entries) \/ index \in DOMAIN entries
    <3>1. Len(entries) \in Nat
      OBVIOUS
    <3>. QED BY <3>1 DEF ReleaseTypeOK
  <2>. QED BY <1>1, <2>1 DEF TakeEntry
<1>2. CASE SetVector
  BY <1>2 DEF SetVector
<1>3. CASE SetRvbarLow
  BY <1>3 DEF SetRvbarLow, SetRvbar
<1>4. CASE SetRvbarHigh
  BY <1>4 DEF SetRvbarHigh, SetRvbar
<1>5. CASE Dispatch
  <2>1. Entry.cpu \in Cpus
    BY <1>5, EntryTyped DEF Dispatch, Listed
  <2>. QED BY <1>5, <2>1 DEF Dispatch, Cpus
<1>6. CASE RequestPower
  BY <1>6 DEF RequestPower
<1>7. CASE PollPower
  BY <1>7 DEF PollPower
<1>8. CASE SetExecState
  BY <1>8 DEF SetExecState
<1>9. CASE SetRpuMode
  BY <1>9 DEF SetRpuMode, R5Cpus
<1>10. CASE Halt
  BY <1>10 DEF Halt
<1>11. CASE ReleaseReset
  <2>1. \/ pc' = "next"
        \/ UNCHANGED index /\ pc' = "unhalt_1" /\ Entry.cpu = "R5_1"
        \/ UNCHANGED index /\ pc' = "unhalt_0" /\ Entry.cpu \notin A53Cpus \cup {"R5_1"}
    BY <1>11, AfterReset
  <2>2. pc = "reset" /\ entries' = entries
    BY <1>11, AfterReset
  <2>. QED BY <2>1, <2>2 DEF R5Cpus
<1>12. CASE Unhalt
  BY <1>12 DEF Unhalt
<1>13. CASE PmuPowersUp
  BY <1>13 DEF PmuPowersUp
<1>. QED BY <1>1, <1>2, <1>3, <1>4, <1>5, <1>6, <1>7,
         <1>8, <1>9, <1>10, <1>11, <1>12, <1>13
      DEF Next, HandoffExecute

(* and the order of power and reset. *)
LEMMA PowerNext == ReleaseInv /\ Next => PowerOK'
<1>. SUFFICES ASSUME ReleaseTypeOK, PlaceOK, PowerOK, Next PROVE PowerOK'
  BY DEF ReleaseInv
<1>. USE DEF PowerOK, Releasing, Entry, Goto, NextEntry, loaderVars, powerVars, releaseVars
<1>1. CASE TakeEntry
  BY <1>1 DEF TakeEntry, PoweredBeforeReset, Islands
<1>2. CASE SetVector
  BY <1>2 DEF SetVector, PoweredBeforeReset, Islands
<1>3. CASE SetRvbarLow
  BY <1>3 DEF SetRvbarLow, PoweredBeforeReset, Islands, SetRvbar
<1>4. CASE SetRvbarHigh
  BY <1>4 DEF SetRvbarHigh, PoweredBeforeReset, Islands, SetRvbar
<1>5. CASE Dispatch
  BY <1>5 DEF Dispatch, PoweredBeforeReset, Islands
<1>6. CASE RequestPower
  BY <1>6 DEF RequestPower, PoweredBeforeReset, Islands
<1>7. CASE PollPower
  BY <1>7 DEF PollPower, PoweredBeforeReset, Islands
<1>8. CASE SetExecState
  BY <1>8 DEF SetExecState, PoweredBeforeReset, Islands
<1>9. CASE SetRpuMode
  BY <1>9 DEF SetRpuMode, PoweredBeforeReset, Islands
<1>10. CASE Halt
  BY <1>10 DEF Halt, PoweredBeforeReset, Islands
<1>11. CASE ReleaseReset
  <2>1. /\ pc' \in {"next", "unhalt_0", "unhalt_1"} /\ powered' = powered
        /\ pc' # "next" => Entry' = Entry
    BY <1>11, AfterReset
  <2>2. Islands(Entry.cpu) \subseteq powered /\ Entry.cpu \in (A53Cpus \cup R5Cpus)
    BY <1>11 DEF ReleaseReset, PlaceOK
  <2>3. \A c \in CoresOf(Entry.cpu) : Islands(c) = Islands(Entry.cpu)
    BY <2>2 DEF CoresOf, Islands, RpuCores, A53Cpus, R5Cpus
  <2>4. PoweredBeforeReset'
    <3>1. SUFFICES ASSUME NEW c \in Cores, c \notin resets' PROVE Islands(c) \subseteq powered
      BY <2>1 DEF PoweredBeforeReset, Islands
    <3>2. c \notin resets \/ c \in CoresOf(Entry.cpu)
      BY <1>11, <3>1 DEF ReleaseReset, Cores, RpuCores, A53Cpus
    <3>. QED BY <2>2, <2>3, <3>2 DEF PoweredBeforeReset
  <2>5. "AMBA" \notin resets' => "RPU" \in powered'
    BY <1>11, <2>1, <2>2 DEF ReleaseReset, Islands, CoresOf, RpuCores, A53Cpus, R5Cpus
  <2>6. pc' \in Releasing => Islands(Entry.cpu)' \subseteq powered'
    BY <2>1, <2>2 DEF Islands
  <2>. QED BY <2>1, <2>4, <2>5, <2>6
<1>12. CASE Unhalt
  BY <1>12 DEF Unhalt, PoweredBeforeReset, Islands
<1>13. CASE PmuPowersUp
  BY <1>13 DEF PmuPowersUp, PoweredBeforeReset, Islands
<1>. QED BY <1>1, <1>2, <1>3, <1>4, <1>5, <1>6, <1>7,
         <1>8, <1>9, <1>10, <1>11, <1>12, <1>13
      DEF Next, HandoffExecute

LEMMA ReleaseInvNext == ReleaseInv /\ [Next]_vars => ReleaseInv'
<1>1. CASE Next
  BY <1>1, TypesNext, PlaceNext, PowerNext DEF ReleaseInv
<1>2. CASE UNCHANGED vars
  <2>1. ReleaseInv => ReleaseTypeOK'
    BY <1>2 DEF ReleaseInv, ReleaseTypeOK, vars, loaderVars, startVars, powerVars, releaseVars
  <2>2. ReleaseInv => PlaceOK'
    BY <1>2 DEF ReleaseInv, PlaceOK, Entry, vars, loaderVars
  <2>3. ReleaseInv => PowerOK'
    BY <1>2 DEF ReleaseInv, PowerOK, PoweredBeforeReset, Islands, Entry,
                   vars, loaderVars, powerVars, releaseVars
  <2>. QED BY <2>1, <2>2, <2>3 DEF ReleaseInv
<1>. QED BY <1>1, <1>2

LEMMA ReleaseInvAlways == Spec => []ReleaseInv
<1>. QED BY ReleaseInvInit, ReleaseInvNext, PTL DEF Spec

(* Every register and every processor of the release keeps its type. *)
THEOREM ReleaseTypes == Spec => []ReleaseTypeOK
<1>1. ReleaseInv => ReleaseTypeOK
  BY DEF ReleaseInv
<1>. QED BY <1>1, ReleaseInvAlways, PTL

(* XFsbl_PowerUpIsland comes before the reset of its core: no core is out of
   reset without all of its islands, whatever the list and the PMU do. *)
THEOREM PowerPrecedesReset == Spec => []PoweredBeforeReset
<1>1. ReleaseInv => PoweredBeforeReset
  BY DEF ReleaseInv, PowerOK
<1>. QED BY <1>1, ReleaseInvAlways, PTL
-----------------------------------------------------------------------------
(* Lists as the loader makes them: a processor is named once, the RPU as a pair
   or by its cores, and the 32-bit programs agree on their vectors with the last
   header. *)
SensibleList(list, vectors) ==
  /\ \A m, n \in DOMAIN list : m # n => list[m].cpu # list[n].cpu
  /\ \A m, n \in DOMAIN list : list[m].cpu = "R5_L" => list[n].cpu \notin RpuCores
  /\ \A n \in DOMAIN list :
       Is32BitCpu(list[n].cpu, list[n].exec) => list[n].vector = vectors

(* The processors the loop is past, and the cores of the RPU among them. *)
Passed == {entries[m].cpu : m \in 1..(index - 1)}
StandsFor(c) == c \in Passed \/ "R5_L" \in Passed

PassedOK ==
  /\ SensibleList(entries, lastVector)
  /\ RunningCpu \notin Passed /\ "PMU" \notin Passed

(* An A53 leaves reset when the loop passes it. *)
ApuOK ==
  \A c \in A53Cpus : c \notin resets <=> c = RunningCpu \/ c \in Passed

(* A core of the RPU runs when it is neither halted nor in reset; the last of
   the two to go is the halt, with which the loop passes it. *)
RpuOK ==
  /\ \A c \in RpuCores :
       c \notin halted <=> \/ StandsFor(c)
                           \/ pc = "unhalt_1" /\ Entry.cpu = "R5_L" /\ c = "R5_0"
  /\ \A c \in RpuCores : StandsFor(c) => c \notin resets
  /\ Passed \cap R5Cpus # {} => "AMBA" \notin resets
  /\ Passed \cap R5Cpus # {} => rpuMode = IF "R5_L" \in Passed THEN "lockstep" ELSE "split"
  /\ pc \in Releasing \ {"mode"} /\ Entry.cpu \in R5Cpus =>
       rpuMode = IF Entry.cpu = "R5_L" THEN "lockstep" ELSE "split"
  /\ pc \in Unhalting => "AMBA" \notin resets /\ CoresOf(Entry.cpu) \cap resets = {}

(* The registers of the processor at hand are set before it starts. *)
SettingsOK ==
  /\ \A c \in A53Cpus : aa64[c] \/ c \in Passed \/ (pc = "reset" /\ Entry.cpu = c)
  /\ pc = "reset" /\ Entry.cpu \in A53Cpus => aa64[Entry.cpu] = (Entry.exec # "AA32")
  /\ pc \in {"dispatch"} \cup Powering \cup Releasing =>
       IF Is32BitCpu(Entry.cpu, Entry.exec)
       THEN \A c \in VectorCore(Entry.cpu) : vinithi[c] = lastVector
       ELSE Entry.cpu \in A53Cpus => rvbar[Entry.cpu] = Entry.entry
  /\ pc = "rvbar_high" /\ Entry.cpu \in A53Cpus => rvbar[Entry.cpu].lo = Entry.entry.lo

StartInv == ReleaseInv /\ PassedOK /\ ApuOK /\ RpuOK /\ SettingsOK

(* What runs is what the loop is past, as it should have started. *)
ReleasedIsPassed == Released = {RunningCpu} \cup Passed

RunningOK ==
  /\ \A c \in Cpus : running[c] = None <=> c \notin {RunningCpu} \cup Passed
  /\ \A m \in 1..(index - 1) : running[entries[m].cpu] = Starts!StartFor(entries[m])
-----------------------------------------------------------------------------
LEMMA EntryIsNew ==
  ASSUME ReleaseTypeOK, PlaceOK, PassedOK, index \in DOMAIN entries
  PROVE  /\ Entry.cpu \notin Passed
         /\ Entry.cpu = "R5_L" => Passed \cap RpuCores = {}
         /\ Entry.cpu \in RpuCores => "R5_L" \notin Passed
         /\ Is32BitCpu(Entry.cpu, Entry.exec) => Entry.vector = lastVector
<1>1. /\ index \in Nat /\ index \in 1..Len(entries)
      /\ DOMAIN entries = 1..Len(entries) /\ Len(entries) \in Nat
  BY EntryTyped DEF PlaceOK
<1>2. \A m \in 1..(index - 1) : m \in DOMAIN entries /\ m # index
  BY <1>1
<1>. QED BY <1>1, <1>2 DEF PassedOK, SensibleList, Passed, Entry

LEMMA PassedGrows ==
  ASSUME ReleaseTypeOK, PlaceOK, index \in DOMAIN entries, NextEntry
  PROVE  Passed' = Passed \cup {Entry.cpu}
<1>1. index \in Nat /\ index \in 1..Len(entries)
  BY EntryTyped DEF PlaceOK
<1>2. 1..(index' - 1) = (1..(index - 1)) \cup {index}
  BY <1>1 DEF NextEntry
<1>. QED BY <1>2 DEF NextEntry, Passed, Entry

(* A step stays at its entry, or passes it with the end of a reset or of a halt. *)
Stays == UNCHANGED <<index, entries, lastVector>> /\ Entry' = Entry /\ Passed' = Passed

PassesA53 == ReleaseReset /\ Entry.cpu \in A53Cpus
PassesR5 == Unhalt /\ (pc = "unhalt_0" => Entry.cpu # "R5_L")
Passes == /\ index \in DOMAIN entries /\ NextEntry
          /\ Passed' = Passed \cup {Entry.cpu}
          /\ PassesA53 \/ PassesR5

LEMMA StepShape ==
  ASSUME ReleaseTypeOK, PlaceOK, Next
  PROVE  /\ Stays \/ Passes
         /\ ~PassesA53 /\ ~PassesR5 => Stays
<1>1. UNCHANGED <<index, entries, lastVector>> => Stays
  BY DEF Stays, Entry, Passed
<1>2. CASE ReleaseReset
  <2>1. CASE Entry.cpu \in A53Cpus
    <3>1. index \in DOMAIN entries /\ NextEntry
      BY <1>2, <2>1, AfterReset DEF PlaceOK, Ended
    <3>. QED BY <3>1, <1>2, <2>1, PassedGrows DEF Passes, PassesA53
  <2>2. CASE Entry.cpu \notin A53Cpus
    BY <1>1, <1>2, <2>2, AfterReset DEF Goto
  <2>. QED BY <2>1, <2>2
<1>3. CASE Unhalt
  <2>1. CASE pc = "unhalt_0" /\ Entry.cpu = "R5_L"
    BY <1>1, <1>3, <2>1 DEF Unhalt, Goto
  <2>2. CASE ~(pc = "unhalt_0" /\ Entry.cpu = "R5_L")
    <3>1. index \in DOMAIN entries /\ NextEntry
      BY <1>3, <2>2 DEF Unhalt, PlaceOK, Ended
    <3>. QED BY <3>1, <1>3, <2>2, PassedGrows DEF Passes, PassesR5
  <2>. QED BY <2>1, <2>2
<1>4. CASE ~ReleaseReset /\ ~Unhalt
  BY <1>1, <1>4
  DEF Next, HandoffExecute, TakeEntry, SetVector, SetRvbarLow, SetRvbarHigh, SetRvbar, Dispatch,
      RequestPower, PollPower, SetExecState, SetRpuMode, Halt, PmuPowersUp, Goto, loaderVars
<1>. QED BY <1>2, <1>3, <1>4

LEMMA PassedNext ==
  ASSUME ReleaseInv, PassedOK, Next
  PROVE  PassedOK'
<1>1. CASE Stays
  BY <1>1 DEF Stays, PassedOK, SensibleList
<1>2. CASE Passes
  <2>1. Entry.cpu # RunningCpu /\ Entry.cpu # "PMU"
    BY <1>2 DEF Passes, PassesA53, PassesR5, ReleaseReset, Unhalt, ReleaseInv, PlaceOK, Ended,
                Unhalting, R5Cpus, A53Cpus
  <2>2. UNCHANGED <<entries, lastVector>>
    BY <1>2 DEF Passes, NextEntry
  <2>. QED BY <1>2, <2>1, <2>2 DEF Passes, PassedOK, SensibleList
<1>. QED BY <1>1, <1>2, StepShape DEF ReleaseInv

LEMMA ApuNext ==
  ASSUME ReleaseInv, PassedOK, ApuOK, Next
  PROVE  ApuOK'
<1>1. CASE ReleaseReset
  <2>1. Entry.cpu \in A53Cpus \cup R5Cpus
    BY <1>1 DEF ReleaseReset, ReleaseInv, PlaceOK, Releasing
  <2>2. CASE Entry.cpu \in A53Cpus
    <3>1. Entry.cpu \notin R5Cpus /\ CoresOf(Entry.cpu) = {Entry.cpu}
      BY <2>2 DEF A53Cpus, R5Cpus, CoresOf
    <3>2. Passed' = Passed \cup {Entry.cpu}
      BY <1>1, <2>2, AfterReset, PassedGrows DEF ReleaseInv, PlaceOK, Ended
    <3>3. \A c \in A53Cpus : c \notin resets' <=> c \notin resets \/ c = Entry.cpu
      BY <1>1, <2>2, <3>1 DEF ReleaseReset, A53Cpus
    <3>. QED BY <3>2, <3>3, <2>2 DEF ApuOK
  <2>3. CASE Entry.cpu \in R5Cpus
    <3>1. \A c \in A53Cpus : c \notin CoresOf(Entry.cpu) /\ c \notin {"L2", "AMBA"}
      BY <2>3 DEF A53Cpus, R5Cpus, CoresOf, RpuCores
    <3>2. Entry.cpu \notin A53Cpus
      BY <2>3 DEF A53Cpus, R5Cpus
    <3>3. Passed' = Passed
      BY <1>1, <3>2, StepShape, Zenon
      DEF ReleaseInv, PassesA53, Passes, PassesR5, Stays, ReleaseReset, Unhalt
    <3>4. \A c \in A53Cpus : c \notin resets' <=> c \notin resets
      BY <1>1, <3>1 DEF ReleaseReset
    <3>. QED BY <3>3, <3>4 DEF ApuOK
  <2>. QED BY <2>1, <2>2, <2>3
<1>2. CASE Unhalt
  <2>1. Entry.cpu \notin A53Cpus
    BY <1>2 DEF Unhalt, ReleaseInv, PlaceOK, Unhalting, R5Cpus, A53Cpus
  <2>2. resets' = resets
    BY <1>2 DEF Unhalt
  <2>. QED BY <1>2, <2>1, <2>2, StepShape DEF ReleaseInv, Stays, Passes, ApuOK
<1>3. CASE ~ReleaseReset /\ ~Unhalt
  <2>1. Stays
    BY <1>3, StepShape DEF ReleaseInv, PassesA53, PassesR5
  <2>2. resets' = resets
    BY <1>3 DEF Next, HandoffExecute, TakeEntry, SetVector, SetRvbarLow, SetRvbarHigh, SetRvbar,
      Dispatch, RequestPower, PollPower, SetExecState, SetRpuMode, Halt, PmuPowersUp, releaseVars
  <2>. QED BY <2>1, <2>2 DEF Stays, ApuOK
<1>. QED BY <1>1, <1>2, <1>3

(* Steps of a processor that stands for no core of the RPU. *)
LEMMA RpuUntouched ==
  ASSUME RpuOK, Stays, UNCHANGED <<resets, rpuMode, halted>>,
         \/ pc' = pc
         \/ pc # "unhalt_1" /\ (pc' \notin Releasing \/ pc' = "mode")
         \/ pc # "unhalt_1" /\ Entry.cpu \notin R5Cpus /\ pc' = "reset"
  PROVE  RpuOK'
  BY DEF RpuOK, Stays, StandsFor, Unhalting, Releasing

LEMMA RpuNext ==
  ASSUME ReleaseInv, PassedOK, RpuOK, Next
  PROVE  RpuOK'
<1>. USE DEF ReleaseInv
<1>1. CASE ~ReleaseReset /\ ~Unhalt /\ ~SetRpuMode /\ ~Halt
  <2>1. Stays
    BY <1>1, StepShape DEF PassesA53, PassesR5
  <2>2. /\ UNCHANGED <<resets, rpuMode, halted>>
        /\ \/ pc' = pc
           \/ pc # "unhalt_1" /\ (pc' \notin Releasing \/ pc' = "mode")
           \/ pc # "unhalt_1" /\ Entry.cpu \notin R5Cpus /\ pc' = "reset"
    <3>1. A53Cpus \cap R5Cpus = {}
      BY DEF A53Cpus, R5Cpus
    <3>. QED BY <1>1, <3>1
      DEF Next, HandoffExecute, TakeEntry, SetVector, SetRvbarLow, SetRvbarHigh, SetRvbar, Dispatch,
          RequestPower, PollPower, SetExecState, PmuPowersUp, Goto, releaseVars,
          loaderVars, Releasing
  <2>. QED BY <2>1, <2>2, RpuUntouched
<1>2. CASE SetRpuMode
  <2>1. Stays
    BY <1>2, StepShape DEF PassesA53, PassesR5, SetRpuMode, ReleaseReset, Unhalt
  <2>2. /\ Entry.cpu \in R5Cpus /\ pc = "mode" /\ index \in DOMAIN entries
        /\ UNCHANGED <<resets, halted>>
        /\ rpuMode' = IF Entry.cpu = "R5_L" THEN "lockstep" ELSE "split"
        /\ pc' \in Halting
    BY <1>2 DEF SetRpuMode, PlaceOK, Ended, Goto, Halting
  <2>3. Passed \cap R5Cpus # {} => (Entry.cpu = "R5_L" <=> "R5_L" \in Passed)
    BY <2>2, EntryIsNew DEF R5Cpus, RpuCores
  <2>. QED BY <2>1, <2>2, <2>3 DEF RpuOK, Stays, StandsFor, Halting, Unhalting
<1>3. CASE Halt
  <2>1. Stays
    BY <1>3, StepShape DEF PassesA53, PassesR5, Halt, ReleaseReset, Unhalt
  <2>2. Entry.cpu \in R5Cpus /\ index \in DOMAIN entries /\ pc \in Releasing \ {"mode"}
    BY <1>3 DEF Halt, PlaceOK, Ended, Halting, Releasing
  <2>3. UNCHANGED <<resets, rpuMode>> /\ pc' \notin Unhalting
    BY <1>3 DEF Halt, Goto, Unhalting
  <2>4. CASE pc = "halt_0"
    <3>1. halted' = halted \cup {"R5_0"} /\ Entry.cpu # "R5_1" /\ pc # "unhalt_1"
      BY <1>3, <2>4 DEF Halt, PlaceOK
    <3>2. ~StandsFor("R5_0")
      BY <2>2, <3>1, EntryIsNew DEF StandsFor, R5Cpus, RpuCores
    <3>. QED BY <2>1, <2>2, <2>3, <3>1, <3>2 DEF RpuOK, Stays, StandsFor, Unhalting
  <2>5. CASE pc = "halt_1"
    <3>1. halted' = halted \cup {"R5_1"} /\ Entry.cpu # "R5_0" /\ pc # "unhalt_1"
      BY <1>3, <2>5 DEF Halt, PlaceOK
    <3>2. ~StandsFor("R5_1")
      BY <2>2, <3>1, EntryIsNew DEF StandsFor, R5Cpus, RpuCores
    <3>. QED BY <2>1, <2>2, <2>3, <3>1, <3>2 DEF RpuOK, Stays, StandsFor, Unhalting
  <2>. QED BY <1>3, <2>4, <2>5 DEF Halt
<1>4. CASE ReleaseReset
  <2>1. pc = "reset" /\ UNCHANGED <<entries, rpuMode, halted>> /\ resets' \subseteq resets
    BY <1>4, AfterReset DEF ReleaseReset
  <2>2. CASE Entry.cpu \in A53Cpus
    <3>1. Passed' = Passed \cup {Entry.cpu} /\ pc' = "next"
      BY <1>4, <2>2, AfterReset, PassedGrows DEF PlaceOK, Ended, NextEntry
    <3>2. Entry.cpu \notin R5Cpus
      BY <2>2 DEF A53Cpus, R5Cpus
    <3>3. /\ Passed' \cap R5Cpus = Passed \cap R5Cpus
          /\ \A c \in RpuCores : StandsFor(c)' = StandsFor(c)
      BY <3>1, <3>2 DEF StandsFor, R5Cpus, RpuCores
    <3>4. "R5_L" \in Passed' <=> "R5_L" \in Passed
      BY <3>1, <3>2 DEF R5Cpus
    <3>. QED BY <2>1, <3>1, <3>3, <3>4 DEF RpuOK, Releasing, Unhalting
  <2>3. CASE Entry.cpu \in R5Cpus
    <3>1. Entry.cpu \notin A53Cpus
      BY <2>3 DEF A53Cpus, R5Cpus
    <3>2. Stays
      BY <1>4, <3>1, StepShape DEF PassesA53, PassesR5, ReleaseReset, Unhalt
    <3>3. pc' \in Unhalting /\ (pc' = "unhalt_1" => Entry.cpu = "R5_1")
      BY <1>4, <3>1, AfterReset DEF Goto, Unhalting
    <3>4. "AMBA" \notin resets' /\ CoresOf(Entry.cpu) \cap resets' = {}
      BY <1>4, <3>1 DEF ReleaseReset
    <3>. QED BY <2>1, <2>3, <3>2, <3>3, <3>4 DEF RpuOK, Stays, StandsFor, Releasing, CoresOf
  <2>. QED BY <1>4, <2>2, <2>3 DEF ReleaseReset, PlaceOK, Releasing
<1>5. CASE Unhalt
  <2>1. /\ Entry.cpu \in R5Cpus /\ index \in DOMAIN entries /\ pc \in Unhalting
        /\ UNCHANGED <<resets, rpuMode>>
        /\ pc = "unhalt_0" => Entry.cpu # "R5_1"
        /\ pc = "unhalt_1" => Entry.cpu # "R5_0"
    BY <1>5 DEF Unhalt, PlaceOK, Ended, Unhalting
  <2>2. CASE pc = "unhalt_0" /\ Entry.cpu = "R5_L"
    <3>1. Stays
      BY <1>5, <2>2, StepShape DEF PassesA53, PassesR5, ReleaseReset
    <3>2. halted' = halted \ {"R5_0"} /\ pc' = "unhalt_1"
      BY <1>5, <2>2 DEF Unhalt, Goto
    <3>. QED BY <2>1, <2>2, <3>1, <3>2 DEF RpuOK, Stays, StandsFor, Releasing, Unhalting
  <2>3. CASE ~(pc = "unhalt_0" /\ Entry.cpu = "R5_L")
    <3>1. NextEntry
      BY <1>5, <2>3 DEF Unhalt
    <3>2. Passed' = Passed \cup {Entry.cpu} /\ pc' = "next"
      BY <2>1, <3>1, PassedGrows DEF NextEntry
    <3>3. \/ halted' = halted \ CoresOf(Entry.cpu)
          \/ (Entry.cpu = "R5_L" /\ halted' = halted \ {"R5_1"})
      BY <1>5, <2>1, <2>3 DEF Unhalt, CoresOf, R5Cpus
    <3>4. \A c \in RpuCores : StandsFor(c)' <=> StandsFor(c) \/ c \in CoresOf(Entry.cpu)
      BY <2>1, <3>2 DEF StandsFor, CoresOf, R5Cpus, RpuCores
    <3>5. \A c \in RpuCores : c \notin halted' <=> StandsFor(c)'
      <4>1. CASE Entry.cpu = "R5_L"
        <5>1. pc = "unhalt_1" /\ halted' = halted \ {"R5_1"}
          BY <1>5, <2>1, <2>3, <4>1 DEF Unhalt, Unhalting
        <5>. QED BY <4>1, <5>1, <3>4 DEF RpuOK, CoresOf, RpuCores
      <4>2. CASE Entry.cpu # "R5_L"
        <5>1. halted' = halted \ CoresOf(Entry.cpu)
          BY <3>3, <4>2
        <5>. QED BY <4>2, <5>1, <3>4 DEF RpuOK
      <4>. QED BY <4>1, <4>2
    <3>6. "AMBA" \notin resets /\ CoresOf(Entry.cpu) \cap resets = {}
      BY <2>1 DEF RpuOK
    <3>7. rpuMode = IF "R5_L" \in Passed' THEN "lockstep" ELSE "split"
      <4>1. Entry.cpu = "R5_L" <=> "R5_L" \in Passed'
        BY <2>1, <3>2, EntryIsNew DEF R5Cpus, RpuCores
      <4>. QED BY <2>1, <4>1 DEF RpuOK, Releasing, Unhalting
    <3>. QED BY <2>1, <3>2, <3>4, <3>5, <3>6, <3>7 DEF RpuOK, Releasing, Unhalting
  <2>. QED BY <2>2, <2>3
<1>. QED BY <1>1, <1>2, <1>3, <1>4, <1>5

Settled == {"dispatch"} \cup Powering \cup Releasing

LEMMA SettingsNext ==
  ASSUME ReleaseInv, PassedOK, SettingsOK, Next
  PROVE  SettingsOK'
<1>. USE DEF ReleaseInv
<1>1. CASE SetVector
  <2>1. Stays /\ pc = "vector" /\ UNCHANGED <<rvbar, aa64>>
    BY <1>1, StepShape DEF PassesA53, PassesR5, SetVector, ReleaseReset, Unhalt
  <2>2. CASE Is32BitCpu(Entry.cpu, Entry.exec)
    <3>1. pc' = "dispatch"
      BY <1>1, <2>2 DEF SetVector, Goto
    <3>2. \A c \in VectorCore(Entry.cpu) : vinithi'[c] = lastVector
      BY <1>1, <2>2 DEF SetVector, VectorCore, Cores, RpuCores
    <3>. QED BY <2>1, <2>2, <3>1, <3>2 DEF SettingsOK, Stays
  <2>3. CASE ~Is32BitCpu(Entry.cpu, Entry.exec)
    <3>1. pc' = "rvbar_low"
      BY <1>1, <2>3 DEF SetVector, Goto
    <3>. QED BY <2>1, <3>1 DEF SettingsOK, Stays, Powering, Releasing
  <2>. QED BY <2>2, <2>3
<1>2. CASE SetRvbarLow
  <2>1. Stays /\ pc = "rvbar_low" /\ pc' = "rvbar_high" /\ UNCHANGED <<vinithi, aa64>>
    BY <1>2, StepShape
    DEF PassesA53, PassesR5, SetRvbarLow, SetRvbar, Goto, ReleaseReset, Unhalt
  <2>2. Entry.cpu \in A53Cpus => rvbar'[Entry.cpu] = [rvbar[Entry.cpu] EXCEPT !.lo = Entry.entry.lo]
    BY <1>2 DEF SetRvbarLow, SetRvbar
  <2>3. Entry.cpu \in A53Cpus => rvbar[Entry.cpu] \in Addresses
    BY DEF ReleaseTypeOK
  <2>4. Entry.cpu \in A53Cpus => rvbar'[Entry.cpu].lo = Entry.entry.lo
    BY <2>2, <2>3 DEF Addresses
  <2>. QED BY <2>1, <2>4 DEF SettingsOK, Stays, Powering, Releasing
<1>3. CASE SetRvbarHigh
  <2>1. Stays /\ pc = "rvbar_high" /\ pc' = "dispatch" /\ UNCHANGED <<vinithi, aa64>>
    BY <1>3, StepShape
    DEF PassesA53, PassesR5, SetRvbarHigh, SetRvbar, Goto, ReleaseReset, Unhalt
  <2>2. Entry.cpu \in A53Cpus => rvbar'[Entry.cpu] = [rvbar[Entry.cpu] EXCEPT !.hi = Entry.entry.hi]
    BY <1>3 DEF SetRvbarHigh, SetRvbar
  <2>3. Entry.cpu \in A53Cpus => rvbar[Entry.cpu] \in Addresses /\ rvbar[Entry.cpu].lo = Entry.entry.lo
    BY <2>1 DEF ReleaseTypeOK, SettingsOK
  <2>4. Entry.entry \in Addresses
    BY <2>1, EntryTyped DEF PlaceOK, Ended, Listed
  <2>5. Entry.cpu \in A53Cpus => rvbar'[Entry.cpu] = Entry.entry
    BY <2>2, <2>3, <2>4 DEF Addresses
  <2>6. ~Is32BitCpu(Entry.cpu, Entry.exec)
    BY <2>1 DEF PlaceOK
  <2>. QED BY <2>1, <2>5, <2>6 DEF SettingsOK, Stays
<1>4. CASE SetExecState
  <2>1. /\ Stays /\ pc = "mode" /\ pc' = "reset" /\ UNCHANGED <<vinithi, rvbar>>
        /\ Entry.cpu \in A53Cpus
    BY <1>4, StepShape DEF PassesA53, PassesR5, SetExecState, Goto, ReleaseReset, Unhalt
  <2>2. aa64[Entry.cpu]
    BY <2>1, EntryIsNew DEF SettingsOK, PlaceOK, Ended
  <2>3. aa64' = [aa64 EXCEPT ![Entry.cpu] = (Entry.exec # "AA32")]
    BY <1>4, <2>2 DEF SetExecState
  <2>4. aa64'[Entry.cpu] = (Entry.exec # "AA32") /\ \A c \in A53Cpus \ {Entry.cpu} : aa64'[c] = aa64[c]
    BY <2>1, <2>3 DEF ReleaseTypeOK
  <2>5. pc \in Settled /\ pc # "reset" /\ pc' \in Settled /\ pc' # "rvbar_high"
    BY <2>1 DEF Settled, Releasing
  <2>. QED BY <2>1, <2>4, <2>5 DEF SettingsOK, Stays, Settled
<1>5. CASE ~SetVector /\ ~SetRvbarLow /\ ~SetRvbarHigh /\ ~SetExecState
  <2>1. UNCHANGED <<vinithi, rvbar, aa64>>
    BY <1>5 DEF Next, HandoffExecute, TakeEntry, Dispatch, RequestPower, PollPower, SetRpuMode,
                Halt, ReleaseReset, Unhalt, PmuPowersUp, startVars
  <2>2. CASE Passes
    <3>1. pc' = "next" /\ Passed' = Passed \cup {Entry.cpu}
      BY <2>2 DEF Passes, NextEntry
    <3>. QED BY <2>1, <3>1 DEF SettingsOK, Powering, Releasing
  <2>3. CASE Stays /\ (ReleaseReset \/ Halt \/ Unhalt)
    <3>1. Entry.cpu \notin A53Cpus
      <4>1. CASE ReleaseReset
        <5>1. Entry.cpu \in A53Cpus => index' = index + 1 /\ index \in Nat
          BY <4>1, AfterReset, EntryTyped DEF PlaceOK, Ended, NextEntry
        <5>. QED BY <2>3, <5>1 DEF Stays
      <4>2. CASE Halt \/ Unhalt
        BY <4>2 DEF Halt, Unhalt, PlaceOK, Halting, Unhalting, A53Cpus, R5Cpus
      <4>. QED BY <2>3, <4>1, <4>2
    <3>2. pc \in Settled /\ pc' # "rvbar_high"
      BY <2>3, <3>1, AfterReset
      DEF Halt, Unhalt, Goto, NextEntry, Settled, Releasing
    <3>. QED BY <2>1, <2>3, <3>1, <3>2 DEF SettingsOK, Stays, Settled
  <2>4. CASE Stays /\ ~ReleaseReset /\ ~Halt /\ ~Unhalt
    <3>1. \/ pc' = pc
          \/ /\ pc' \in Settled => pc \in Settled
             /\ pc # "reset" /\ pc' \notin {"rvbar_high", "reset"}
      BY <1>5, <2>4 DEF Next, HandoffExecute, TakeEntry, Dispatch, RequestPower, PollPower,
         SetRpuMode, PmuPowersUp, Goto, loaderVars, Settled, Powering, Releasing
    <3>2. CASE pc' = pc
      BY <2>1, <2>4, <3>2 DEF SettingsOK, Stays
    <3>3. CASE pc' # pc
      BY <2>1, <2>4, <3>1, <3>3 DEF SettingsOK, Stays, Settled
    <3>. QED BY <3>2, <3>3
  <2>. QED BY <2>2, <2>3, <2>4, StepShape
<1>. QED BY <1>1, <1>2, <1>3, <1>4, <1>5

SensibleLists == \A list \in Lists : SensibleList(list.entries, list.vector)

LEMMA StartInvInit == SensibleLists /\ Init => StartInv
<1>. SUFFICES ASSUME SensibleLists, Init PROVE StartInv
  OBVIOUS
<1>1. PICK list \in Lists : entries = list.entries /\ lastVector = list.vector
  BY DEF Init
<1>2. ReleaseInv
  BY ReleaseInvInit
<1>3. Passed = {} /\ pc = "next"
  BY DEF Init, Passed
<1>4. PassedOK
  BY <1>1, <1>3 DEF SensibleLists, PassedOK
<1>5. ApuOK
  <2>1. resets = (Cores \ {RunningCpu}) \cup {"AMBA"}
    BY DEF Init
  <2>. QED BY <1>3, <2>1 DEF ApuOK, Cores, A53Cpus
<1>6. RpuOK
  BY <1>3 DEF Init, RpuOK, StandsFor, Releasing, Unhalting
<1>7. SettingsOK
  BY <1>3 DEF Init, SettingsOK, Powering, Releasing
<1>. QED BY <1>2, <1>4, <1>5, <1>6, <1>7 DEF StartInv

LEMMA StartInvNext == StartInv /\ [Next]_vars => StartInv'
<1>1. CASE Next
  BY <1>1, ReleaseInvNext, PassedNext, ApuNext, RpuNext, SettingsNext DEF StartInv
<1>2. CASE UNCHANGED vars
  <2>1. /\ UNCHANGED <<pc, lastVector, vinithi, rvbar, aa64, resets, rpuMode, halted>>
        /\ Entry' = Entry /\ Passed' = Passed /\ entries' = entries
    BY <1>2 DEF vars, loaderVars, startVars, releaseVars, Entry, Passed
  <2>2. StartInv => ReleaseInv'
    BY <1>2, ReleaseInvNext DEF StartInv
  <2>3. StartInv => PassedOK' /\ ApuOK' /\ SettingsOK'
    BY <2>1 DEF StartInv, PassedOK, ApuOK, SettingsOK
  <2>4. StartInv => RpuOK'
    BY <2>1 DEF StartInv, RpuOK, StandsFor
  <2>. QED BY <2>2, <2>3, <2>4 DEF StartInv
<1>. QED BY <1>1, <1>2

LEMMA StartInvAlways == ASSUME SensibleLists PROVE Spec => []StartInv
<1>1. Init => StartInv
  BY StartInvInit
<1>. QED BY <1>1, StartInvNext, PTL DEF Spec

LEMMA ReleasedArePassed == StartInv => ReleasedIsPassed
<1>. SUFFICES ASSUME StartInv PROVE ReleasedIsPassed
  OBVIOUS
<1>. USE DEF StartInv, ReleaseInv
<1>1. Passed \subseteq Cpus
  <2>1. \A m \in 1..(index - 1) : m \in 1..Len(entries)
    BY DEF ReleaseTypeOK, PlaceOK
  <2>2. \A m \in 1..Len(entries) : entries[m].cpu \in Cpus
    <3>1. entries \in Seq(Listed)
      BY DEF PlaceOK
    <3>2. \A m \in 1..Len(entries) : entries[m] \in Listed
      BY <3>1
    <3>. QED BY <3>2 DEF Listed
  <2>. QED BY <2>1, <2>2 DEF Passed
<1>2. ApuReleased = ({RunningCpu} \cup Passed) \cap A53Cpus
  <2>1. \A c \in A53Cpus : c \notin resets => {c, "FP", "L2"} \subseteq powered
    BY DEF PowerOK, PoweredBeforeReset, Islands, Cores
  <2>2. \A c \in A53Cpus : c \notin resets <=> c = RunningCpu \/ c \in Passed
    BY DEF ApuOK
  <2>. QED BY <2>1, <2>2 DEF ApuReleased
<1>3. RpuReleased = Passed \cap R5Cpus
  <2>1. CASE Passed \cap R5Cpus = {}
    <3>1. /\ "R5_1" \in halted
          /\ "R5_0" \in halted \/ (pc = "unhalt_1" /\ Entry.cpu = "R5_L")
      BY <2>1 DEF RpuOK, StandsFor, R5Cpus, RpuCores
    <3>2. rpuMode = "split" => "R5_0" \in halted
      BY <3>1 DEF RpuOK, Releasing, Unhalting, R5Cpus
    <3>. QED BY <2>1, <3>1, <3>2 DEF RpuReleased, RpuCores
  <2>2. CASE "R5_L" \in Passed
    <3>1. Passed \cap R5Cpus = {"R5_L"}
      <4>1. \A m, n \in DOMAIN entries : entries[m].cpu = "R5_L" => entries[n].cpu \notin RpuCores
        BY DEF PassedOK, SensibleList
      <4>2. \A m \in 1..(index - 1) : m \in DOMAIN entries
        BY DEF ReleaseTypeOK, PlaceOK
      <4>3. Passed \cap RpuCores = {}
        BY <2>2, <4>1, <4>2 DEF Passed
      <4>. QED BY <2>2, <4>3 DEF R5Cpus, RpuCores
    <3>2. rpuMode = "lockstep" /\ "AMBA" \notin resets /\ "RPU" \in powered
      BY <2>2, <3>1 DEF RpuOK, PowerOK
    <3>3. RpuCores \cap (resets \cup halted) = {}
      BY <2>2 DEF RpuOK, StandsFor
    <3>. QED BY <3>1, <3>2, <3>3 DEF RpuReleased
  <2>3. CASE Passed \cap R5Cpus # {} /\ "R5_L" \notin Passed
    <3>1. rpuMode = "split" /\ "AMBA" \notin resets /\ "RPU" \in powered
      BY <2>3 DEF RpuOK, PowerOK
    <3>2. \A c \in RpuCores : c \notin halted <=> c \in Passed
      BY <2>3, <3>1 DEF RpuOK, StandsFor, Releasing, Unhalting, R5Cpus
    <3>3. \A c \in RpuCores : c \in Passed => c \notin resets
      BY DEF RpuOK, StandsFor
    <3>. QED BY <2>3, <3>1, <3>2, <3>3 DEF RpuReleased, RpuCores, R5Cpus
  <2>. QED BY <2>1, <2>2, <2>3
<1>4. "PMU" \notin Passed
  BY DEF PassedOK
<1>. QED BY <1>1, <1>2, <1>3, <1>4 DEF ReleasedIsPassed, Released, Cpus, RunningCpu, A53Cpus

(* Nothing keeps a processor from the state its entry asks for. *)
LEMMA StartForIs ==
  ASSUME NEW e
  PROVE  Starts!StartFor(e) =
           IF Is32BitCpu(e.cpu, e.exec)
           THEN [exec |-> "AA32", entry |-> ZeroAddress, vector |-> e.vector]
           ELSE [exec |-> "AA64", entry |-> e.entry, vector |-> 0]
  BY DEF Starts!StartFor, Starts!Is32BitCpu, Is32BitCpu, Starts!R5Cpus, R5Cpus,
         Starts!ZeroAddress, ZeroAddress

LEMMA StartsAsItShould ==
  ASSUME StartInv, Passes, NEW c \in Cpus, c = Entry.cpu
  PROVE  StartState(c)' = Starts!StartFor(Entry)
<1>. USE DEF StartInv, ReleaseInv
<1>1. /\ index \in DOMAIN entries /\ pc \in Settled
      /\ UNCHANGED <<vinithi, rvbar, aa64>>
      /\ Entry.exec \in {"AA64", "AA32"}
  <2>1. UNCHANGED <<vinithi, rvbar, aa64>>
    BY AfterReset DEF Passes, PassesA53, PassesR5, Unhalt, startVars
  <2>2. index \in DOMAIN entries /\ pc \in Settled
    BY DEF Passes, PassesA53, PassesR5, Unhalt, ReleaseReset, Settled, Releasing
  <2>. QED BY <2>1, <2>2, EntryTyped DEF Listed
<1>2. Is32BitCpu(Entry.cpu, Entry.exec) => Entry.vector = lastVector
  BY <1>1, EntryIsNew
<1>3. IF Is32BitCpu(Entry.cpu, Entry.exec)
      THEN \A d \in VectorCore(Entry.cpu) : vinithi[d] = Entry.vector
      ELSE Entry.cpu \in A53Cpus => rvbar[Entry.cpu] = Entry.entry
  BY <1>1, <1>2 DEF SettingsOK, Settled
<1>4. CASE PassesA53
  <2>1. Entry.cpu \in A53Cpus /\ Entry.cpu \notin R5Cpus /\ Entry.cpu # "R5_L"
    BY <1>4 DEF PassesA53, A53Cpus, R5Cpus
  <2>2. aa64[Entry.cpu] = (Entry.exec # "AA32")
    BY <1>4, <2>1 DEF PassesA53, ReleaseReset, SettingsOK
  <2>3. Is32BitCpu(Entry.cpu, Entry.exec) <=> Entry.exec = "AA32"
    BY <2>1 DEF Is32BitCpu
  <2>4. Entry.cpu \in VectorCore(Entry.cpu)
    BY <2>1 DEF VectorCore, Cores
  <2>5. StartState(c)' =
          IF aa64'[c]
          THEN [exec |-> "AA64", entry |-> rvbar'[c], vector |-> 0]
          ELSE [exec |-> "AA32", entry |-> ZeroAddress, vector |-> vinithi'[c]]
    BY <2>1 DEF StartState
  <2>. QED BY <1>1, <1>3, <2>1, <2>2, <2>3, <2>4, <2>5, StartForIs
<1>5. CASE PassesR5
  <2>1. Entry.cpu \in R5Cpus /\ Entry.cpu \notin A53Cpus
    BY <1>5 DEF PassesR5, Unhalt, PlaceOK, Unhalting, A53Cpus, R5Cpus
  <2>2. Is32BitCpu(Entry.cpu, Entry.exec)
    BY <2>1 DEF Is32BitCpu
  <2>3. (IF Entry.cpu = "R5_L" THEN "R5_0" ELSE Entry.cpu) \in VectorCore(Entry.cpu)
    BY <2>1 DEF VectorCore, Cores, R5Cpus
  <2>4. StartState(c)' = [exec |-> "AA32", entry |-> ZeroAddress,
                          vector |-> vinithi'[IF c = "R5_L" THEN "R5_0" ELSE c]]
    BY <2>1 DEF StartState
  <2>. QED BY <1>1, <1>3, <2>2, <2>3, <2>4, StartForIs
<1>. QED BY <1>4, <1>5 DEF Passes

LEMMA RunningInit == Init => RunningOK
<1>. SUFFICES ASSUME Init PROVE RunningOK
  OBVIOUS
<1>1. Loader \in StartStates
  BY DEF Loader, StartStates, ZeroAddress, Addresses
<1>2. Loader # None
  BY <1>1, NoneAssumption DEF StartStates
<1>3. Passed = {} /\ 1..(index - 1) = {}
  BY DEF Init, Passed
<1>. QED BY <1>2, <1>3 DEF Init, RunningOK

(* A step that passes no entry leaves every processor alone. *)
LEMMA StaysLeavesAlone ==
  ASSUME StartInv, ReleasedIsPassed, ReleasedIsPassed', RunningOK, Stays, Processors
  PROVE  running' = running
<1>1. Released' = Released
  BY DEF ReleasedIsPassed, Stays
<1>2. \A c \in Cpus : c \notin Released => running[c] = None
  BY DEF RunningOK, ReleasedIsPassed
<1>3. running \in [Cpus -> StartStates \cup {None}]
  BY DEF StartInv, ReleaseInv, ReleaseTypeOK
<1>. QED BY <1>1, <1>2, <1>3 DEF Processors

(* A step that passes an entry starts its processor and no other. *)
LEMMA PassesStartsOne ==
  ASSUME StartInv, ReleasedIsPassed, ReleasedIsPassed', RunningOK, Passes, Processors
  PROVE  /\ running[Entry.cpu] = None
         /\ running' = [running EXCEPT ![Entry.cpu] = Starts!StartFor(Entry)]
<1>1. index \in DOMAIN entries /\ Entry.cpu \in Cpus /\ Entry.cpu # RunningCpu /\ pc \in Settled
  <2>1. index \in DOMAIN entries /\ pc \in Settled
    BY DEF Passes, PassesA53, PassesR5, Unhalt, ReleaseReset, Settled, Releasing
  <2>2. Entry.cpu \in Cpus
    BY <2>1, EntryTyped DEF StartInv, ReleaseInv, Listed
  <2>. QED BY <2>1, <2>2 DEF StartInv, ReleaseInv, PlaceOK, Settled, Powering, Releasing, Ended
<1>2. Entry.cpu \notin Released
  BY <1>1, EntryIsNew DEF ReleasedIsPassed, StartInv, ReleaseInv
<1>3. Released' = Released \cup {Entry.cpu}
  BY DEF ReleasedIsPassed, Passes
<1>4. \A c \in Cpus : c \notin Released => running[c] = None
  BY DEF RunningOK, ReleasedIsPassed
<1>5. running \in [Cpus -> StartStates \cup {None}]
  BY DEF StartInv, ReleaseInv, ReleaseTypeOK
<1>6. \A c \in Cpus : c = Entry.cpu => StartState(c)' = Starts!StartFor(Entry)
  BY StartsAsItShould
<1>7. \A c \in Cpus :
        running'[c] = IF c = Entry.cpu THEN Starts!StartFor(Entry) ELSE running[c]
  BY <1>1, <1>2, <1>3, <1>4, <1>6 DEF Processors
<1>8. running' = [c \in Cpus |-> running'[c]]
  BY DEF Processors
<1>. QED BY <1>1, <1>2, <1>4, <1>5, <1>7, <1>8

LEMMA RunningNext ==
  ASSUME StartInv, ReleasedIsPassed, ReleasedIsPassed', RunningOK, [Next]_vars
  PROVE  RunningOK'
<1>1. CASE UNCHANGED vars
  BY <1>1 DEF RunningOK, Passed, vars, loaderVars
<1>2. CASE Next /\ Stays
  <2>1. running' = running
    BY <1>2, StaysLeavesAlone DEF Next
  <2>. QED BY <1>2, <2>1 DEF RunningOK, Stays
<1>3. CASE Next /\ Passes
  <2>1. /\ running[Entry.cpu] = None
        /\ running' = [running EXCEPT ![Entry.cpu] = Starts!StartFor(Entry)]
    BY <1>3, PassesStartsOne DEF Next
  <2>2. index \in DOMAIN entries /\ index \in Nat \ {0} /\ Entry \in Listed /\ Entry.cpu \in Cpus
    BY <1>3, EntryTyped DEF Passes, StartInv, ReleaseInv, Listed
  <2>3. running \in [Cpus -> StartStates \cup {None}]
    BY DEF StartInv, ReleaseInv, ReleaseTypeOK
  <2>4. Starts!StartFor(Entry) # None
    BY <2>2, StartForIs, NoneAssumption DEF Listed, ZeroAddress, Addresses
  <2>5. /\ Passed' = Passed \cup {Entry.cpu} /\ Entry.cpu \notin Passed
        /\ entries' = entries /\ index' = index + 1
    BY <1>3, <2>2, EntryIsNew DEF Passes, NextEntry, StartInv, ReleaseInv
  <2>6. \A c \in Cpus : running'[c] = None <=> c \notin {RunningCpu} \cup Passed'
    BY <2>1, <2>2, <2>3, <2>4, <2>5 DEF RunningOK
  <2>7. ASSUME NEW m \in 1..(index' - 1)
        PROVE  running'[entries'[m].cpu] = Starts!StartFor(entries'[m])
    <3>1. CASE m = index
      BY <2>1, <2>2, <2>3, <2>5, <3>1 DEF Entry
    <3>2. CASE m \in 1..(index - 1)
      <4>1. entries[m].cpu # Entry.cpu
        BY <2>5, <3>2 DEF Passed
      <4>. QED BY <2>1, <2>3, <2>5, <3>2, <4>1 DEF RunningOK
    <3>. QED BY <2>2, <2>5, <3>1, <3>2
  <2>8. \A m \in 1..(index' - 1) : running'[entries'[m].cpu] = Starts!StartFor(entries[m])'
    BY <2>5, <2>7
  <2>. QED BY <2>6, <2>8 DEF RunningOK
<1>. QED BY <1>1, <1>2, <1>3, StepShape DEF StartInv, ReleaseInv

LEMMA RunningAlways == ASSUME SensibleLists PROVE Spec => [](StartInv /\ RunningOK)
<1>1. Spec => []StartInv
  BY StartInvAlways
<1>. QED BY <1>1, ReleasedArePassed, RunningInit, RunningNext, PTL DEF Spec
-----------------------------------------------------------------------------
LEMMA StartsInit == Init => Starts!Init
<1>. SUFFICES ASSUME Init PROVE Starts!Init
  OBVIOUS
<1>1. entries \in Seq(Listed)
  BY ReleaseInvInit DEF ReleaseInv, PlaceOK
<1>2. /\ Starts!Cpus = Cpus /\ Starts!Addresses = Addresses /\ Starts!RunningCpu = RunningCpu
      /\ Starts!Loader = Loader
  BY DEF Starts!Cpus, Cpus, Starts!A53Cpus, A53Cpus, Starts!R5Cpus, R5Cpus, Starts!Addresses,
         Addresses, Starts!RunningCpu, RunningCpu, Starts!Loader, Loader, Starts!ZeroAddress,
         ZeroAddress
<1>. QED BY <1>1, <1>2 DEF Init, Starts!Init, Listed

LEMMA StartsStep ==
  ASSUME StartInv, ReleasedIsPassed, ReleasedIsPassed', RunningOK, [Next]_vars
  PROVE  [Starts!Next]_<<entries, running>>
<1>1. CASE UNCHANGED vars
  BY <1>1 DEF vars, loaderVars
<1>2. CASE Next /\ Stays
  <2>1. running' = running
    BY <1>2, StaysLeavesAlone DEF Next
  <2>. QED BY <1>2, <2>1 DEF Stays
<1>3. CASE Next /\ Passes
  <2>1. /\ running[Entry.cpu] = None
        /\ running' = [running EXCEPT ![Entry.cpu] = Starts!StartFor(Entry)]
    BY <1>3, PassesStartsOne DEF Next
  <2>2. index \in DOMAIN entries /\ UNCHANGED entries
    BY <1>3 DEF Passes, NextEntry
  <2>3. \A m \in 1..(index - 1) : running[entries[m].cpu] = Starts!StartFor(entries[m])
    BY DEF RunningOK
  <2>4. Starts!Next
    BY <2>1, <2>2, <2>3 DEF Starts!Next, Entry
  <2>. QED BY <2>4
<1>. QED BY <1>1, <1>2, <1>3, StepShape DEF StartInv, ReleaseInv

(* XFsbl_HandoffExecute starts the processors of its list in their order, each as
   its program was linked for, and touches none that runs: for every list that
   names a processor once, has the RPU as a pair or by its cores, and agrees on
   the vectors with the last header. *)
THEOREM ReleaseImplementation == ASSUME SensibleLists PROVE Spec => StartsAsListed
<1>1. Spec => [](StartInv /\ RunningOK)
  BY RunningAlways
<1>2. Init => Starts!Init
  BY StartsInit
<1>. QED BY <1>1, <1>2, ReleasedArePassed, StartsStep, PTL
         DEF Spec, StartsAsListed, Starts!Spec
=============================================================================
