------------------------------- MODULE PsuInit -------------------------------
(****************************************************************************)
(* psu_init: the PLLs, the bring-up of the DDR PHY with its trainings, and  *)
(* the calibration of the SERDES lanes. The tables of register writes that  *)
(* psu_init runs between them wait for nothing and fail never; they are     *)
(* left out, but for the refresh of the memory.                             *)
(*                                                                          *)
(* In FsblBoot the whole of it is a bring-up that succeeds or fails.        *)
(****************************************************************************)
EXTENDS LaneSearch, Sequences, FiniteSets

CONSTANTS
  DdrByPsuInit,  \* builds: psu_init brings up the DDR, XPAR_DYNAMIC_DDR_ENABLED is undefined
  NumPlls,      \* PLLs of the PS, taken in their order: five
  PllRetries,   \* attempts to lock the PLLs of the PHY: ten
  Repeats,      \* the calibration is repeated so often: ten
  Kinds,        \* calibrated quantities: PMOS, NMOS, ICAL and RCAL
  ValidCodes,   \* number of valid codes of each: 23, 23, 7 and 7
  Searches      \* searches for lane settings, TRUE for one of the second generation

ASSUME BuildsAssumption == DdrByPsuInit \subseteq BOOLEAN
ASSUME BoundsAssumption == NumPlls \in Nat \ {0} /\ PllRetries \in Nat \ {0} /\ Repeats \in Nat
ASSUME SearchesAssumption == Searches \in Seq(BOOLEAN)
ASSUME CodesAssumption == ValidCodes \in [Kinds -> Nat \ {0}]

Plls == 1..NumPlls

VARIABLES
  (* psu_init *)
  pc,
  status,       \* FALSE once a part of it failed
  pll,          \* the PLL it is at
  withDdr,      \* it brings up the DDR
  pllRetry, pllLocked,      \* of psu_ddr_phybringup_data
  repeatCount, match, code, \* of serdes_fixcal_code
  search, itercount, lane, setting,   \* of serdes_illcalib
  (* the PLLs *)
  bypassed, inReset, locked,
  (* the DDR PHY *)
  phyRun,       \* what it was told to do last
  phyBusy,      \* it has not finished
  phyOk,        \* how it finished
  phyRefresh,   \* it refreshes the memory while it trains, RFSHDT of DTCR0
  staticRead,   \* it reads in static mode
  autoRefresh,  \* the memory controller refreshes, RFSHCTL3
  (* the calibration of the lanes *)
  calibDone, reading,
  (* history *)
  gaveUp,       \* PLLs that had not locked when the wait for them ended
  completed,    \* what the PHY finished without an error
  measured,     \* the readings, until the searches begin
  results       \* the counters the present search has tested

progVars == <<pc, status, pll, withDdr>>
pllVars == <<bypassed, inReset, locked, gaveUp>>
phyVars == <<pllRetry, pllLocked, phyRun, phyBusy, phyOk, phyRefresh, staticRead, autoRefresh,
             completed>>
calibVars == <<repeatCount, match, code, calibDone, reading, measured>>
searchVars == <<search, itercount, lane, setting, results>>
vars == <<progVars, pllVars, phyVars, calibVars, searchVars>>

NoMatches == [k \in Kinds |-> [c \in 0..(ValidCodes[k] - 1) |-> 0]]

(* A cold start finds the PLLs in reset and bypassed, a warm one running. A reset
   leaves the refresh of the memory controller on. *)
Init ==
  /\ pc = "bypass" /\ status = TRUE /\ pll = 1 /\ withDdr \in DdrByPsuInit
  /\ \/ bypassed = Plls /\ inReset = Plls /\ locked = {}
     \/ bypassed = {} /\ inReset = {} /\ locked = Plls
  /\ pllRetry = PllRetries /\ pllLocked = FALSE
  /\ phyRun = "none" /\ phyBusy = FALSE /\ phyOk = FALSE
  /\ phyRefresh = TRUE /\ staticRead = FALSE /\ autoRefresh = TRUE
  /\ repeatCount = 0 /\ match = NoMatches
  /\ code = ValidCodes /\ calibDone = FALSE /\ reading = ValidCodes
  /\ search = 1 /\ itercount = 0 /\ lane = NewLane
  /\ setting = [n \in DOMAIN Searches |-> Setting(FALSE, 0)]
  /\ gaveUp = {} /\ completed = {} /\ measured = <<>> /\ results = <<>>

Goto(label) == pc' = label /\ UNCHANGED <<status, pll, withDdr>>
Fail(label) == pc' = label /\ status' = FALSE /\ UNCHANGED <<pll, withDdr>>
-----------------------------------------------------------------------------
(* psu_pll_init_data, for each PLL; what the PLL is set to is left out. *)

BypassPll ==
  /\ pc = "bypass"
  /\ bypassed' = bypassed \cup {pll}
  /\ Goto("reset")
  /\ UNCHANGED <<inReset, locked, gaveUp, phyVars, calibVars, searchVars>>

ResetPll ==
  /\ pc = "reset"
  /\ inReset' = inReset \cup {pll} /\ locked' = locked \ {pll}
  /\ Goto("run")
  /\ UNCHANGED <<bypassed, gaveUp, phyVars, calibVars, searchVars>>

RunPll ==
  /\ pc = "run"
  /\ inReset' = inReset \ {pll}
  /\ Goto("lock")
  /\ UNCHANGED <<bypassed, locked, gaveUp, phyVars, calibVars, searchVars>>

(* mask_poll waits for the lock a limited time; nobody looks at its result. *)
PollPllLock ==
  /\ pc = "lock"
  /\ gaveUp' = gaveUp \cup ({pll} \ locked)
  /\ Goto("use")
  /\ UNCHANGED <<bypassed, inReset, locked, phyVars, calibVars, searchVars>>

(* The table of the memory controller keeps its refresh off for the bring-up. *)
InitDdr ==
  IF withDdr THEN pc' = "phyPll" /\ autoRefresh' = FALSE
             ELSE pc' = "calibrate" /\ UNCHANGED autoRefresh

UsePll ==
  /\ pc = "use"
  /\ bypassed' = bypassed \ {pll}
  /\ IF pll < NumPlls THEN pll' = pll + 1 /\ pc' = "bypass" /\ UNCHANGED autoRefresh
                      ELSE pll' = pll /\ InitDdr
  /\ UNCHANGED <<status, withDdr, inReset, locked, gaveUp, calibVars, searchVars>>
  /\ UNCHANGED <<pllRetry, pllLocked, phyRun, phyBusy, phyOk, phyRefresh, staticRead, completed>>
-----------------------------------------------------------------------------
(* psu_ddr_phybringup_data. *)

(* A write to the PHY's initialisation register starts it. *)
StartPhy(run) ==
  /\ phyRun' = run /\ phyBusy' = TRUE
  /\ UNCHANGED <<phyOk, autoRefresh, completed, pllVars, calibVars, searchVars>>

(* The head of the loop that locks the PLLs of the PHY. *)
LockPhyPlls ==
  /\ pc = "phyPll"
  /\ IF pllRetry > 0 /\ ~pllLocked
     THEN Goto("phyPllWait") /\ StartPhy("pll") /\ UNCHANGED <<phyRefresh, staticRead>>
     ELSE /\ IF pllLocked THEN Goto("init") ELSE Fail("calibrate")
          /\ UNCHANGED <<phyRun, phyBusy, phyOk, phyRefresh, staticRead, autoRefresh, completed,
                         pllVars, calibVars, searchVars>>
  /\ UNCHANGED <<pllRetry, pllLocked>>

(* Mutant: the attempts are not counted. *)
RetryNotCounted ==
  /\ pc = "phyPllWait" /\ ~phyBusy
  /\ pllLocked' = phyOk
  /\ Goto("phyPll")
  /\ UNCHANGED <<pllRetry, phyRun, phyBusy, phyOk, phyRefresh, staticRead, autoRefresh, completed,
                 pllVars, calibVars, searchVars>>

ReadPhyLocks ==
  /\ pc = "phyPllWait" /\ ~phyBusy
  /\ pllLocked' = phyOk /\ pllRetry' = pllRetry - 1
  /\ Goto("phyPll")
  /\ UNCHANGED <<phyRun, phyBusy, phyOk, phyRefresh, staticRead, autoRefresh, completed, pllVars,
                 calibVars, searchVars>>

(* The initialisation of the PHY and the memory is waited for in three loops. *)
StartInit ==
  /\ pc = "init" /\ Goto("initWait") /\ StartPhy("init")
  /\ UNCHANGED <<pllRetry, pllLocked, phyRefresh, staticRead>>

EndInit ==
  /\ pc = "initWait" /\ ~phyBusy /\ Goto("train")
  /\ UNCHANGED <<phyVars, pllVars, calibVars, searchVars>>

StartTraining ==
  /\ pc = "train" /\ Goto("trainWait") /\ StartPhy("train")
  /\ UNCHANGED <<pllRetry, pllLocked, phyRefresh, staticRead>>

(* The loop waits for the status of a training without any error: with one it
   does not end, and the check behind it finds none. *)
EndTraining ==
  /\ pc = "trainWait" /\ ~phyBusy /\ phyOk
  /\ Goto("vref")
  /\ UNCHANGED <<phyVars, pllVars, calibVars, searchVars>>

(* The training of the reference voltage needs static reads, and refreshes that do
   not come in between. *)
StartVref ==
  /\ pc = "vref" /\ Goto("vrefWait") /\ StartPhy("vref")
  /\ phyRefresh' = FALSE /\ staticRead' = TRUE
  /\ UNCHANGED <<pllRetry, pllLocked>>

(* Mutant: refreshes are not switched on again. *)
VrefForgetsRefresh ==
  /\ pc = "vrefWait" /\ ~phyBusy
  /\ IF phyOk THEN Goto("eye") /\ staticRead' = FALSE
     ELSE Fail("calibrate") /\ UNCHANGED staticRead
  /\ UNCHANGED <<pllRetry, pllLocked, phyRun, phyBusy, phyOk, phyRefresh, autoRefresh, completed,
                 pllVars, calibVars, searchVars>>

(* Mutant: the end of the training is not waited for. *)
VrefNotWaitedFor ==
  /\ pc = "vrefWait"
  /\ Goto("eye") /\ phyRefresh' = TRUE /\ staticRead' = FALSE
  /\ UNCHANGED <<pllRetry, pllLocked, phyRun, phyBusy, phyOk, autoRefresh, completed, pllVars,
                 calibVars, searchVars>>

EndVref ==
  /\ pc = "vrefWait" /\ ~phyBusy
  /\ IF phyOk THEN Goto("eye") /\ phyRefresh' = TRUE /\ staticRead' = FALSE
     ELSE Fail("calibrate") /\ UNCHANGED <<phyRefresh, staticRead>>
  /\ UNCHANGED <<pllRetry, pllLocked, phyRun, phyBusy, phyOk, autoRefresh, completed, pllVars,
                 calibVars, searchVars>>

StartEye ==
  /\ pc = "eye" /\ Goto("eyeWait") /\ StartPhy("eye")
  /\ UNCHANGED <<pllRetry, pllLocked, phyRefresh, staticRead>>

(* No error is looked for after the last training; the memory controller is given
   its refresh back. *)
EndEye ==
  /\ pc = "eyeWait" /\ ~phyBusy /\ Goto("calibrate")
  /\ autoRefresh' = TRUE
  /\ UNCHANGED <<pllRetry, pllLocked, phyRun, phyBusy, phyOk, phyRefresh, staticRead, completed,
                 pllVars, calibVars, searchVars>>
-----------------------------------------------------------------------------
(* serdes_fixcal_code, after a wait for the supplies that has no result. *)

StartCalibration ==
  /\ pc = "calibrate"
  /\ calibDone' = FALSE
  /\ Goto("calibrateWait")
  /\ UNCHANGED <<repeatCount, match, code, reading, measured, pllVars, phyVars, searchVars>>

CalibrationTimesOut ==
  /\ pc = "calibrateWait" /\ ~calibDone
  /\ Fail("lanes")
  /\ UNCHANGED <<calibVars, pllVars, phyVars, searchVars>>

(* A valid code is counted. *)
Counted(k) == [c \in DOMAIN match[k] |-> match[k][c] + IF reading[k] = c THEN 1 ELSE 0]

ReadCodes ==
  /\ pc = "calibrateWait" /\ calibDone
  /\ match' = [k \in Kinds |-> Counted(k)]
  /\ repeatCount' = repeatCount + 1
  /\ measured' = Append(measured, reading)
  /\ Goto(IF repeatCount < Repeats THEN "calibrate" ELSE "choose")
  /\ UNCHANGED <<code, calibDone, reading, pllVars, phyVars, searchVars>>

(* Mutant: the count to beat stays that of the first code. *)
MaxNotKept(counts, n) ==
  LET turn[i \in 0..n] ==
        IF i = 0 THEN [max |-> counts[0], code |-> n]
        ELSE IF counts[i - 1] >= turn[i - 1].max
             THEN [max |-> turn[i - 1].max, code |-> i - 1]
             ELSE turn[i - 1]
  IN turn[n].code

(* The search for the code that came most often: the count to beat is kept in
   the place of the first code's, and starts with it. *)
FindCode(counts, n) ==
  LET turn[i \in 0..n] ==
        IF i = 0 THEN [max |-> counts[0], code |-> n]
        ELSE IF counts[i - 1] >= turn[i - 1].max
             THEN [max |-> counts[i - 1], code |-> i - 1]
             ELSE turn[i - 1]
  IN turn[n].code

(* The counts are local to the calibration. *)
ChooseCodes ==
  /\ pc = "choose"
  /\ code' = [k \in Kinds |-> FindCode(match[k], ValidCodes[k])]
  /\ match' = NoMatches
  /\ Goto("lanes")
  /\ UNCHANGED <<repeatCount, calibDone, reading, measured, pllVars, phyVars, searchVars>>

-----------------------------------------------------------------------------
(* serdes_illcalib searches for the setting of each lane, one with SATA and two
   generations of one with PCIe here. *)

StartSearch ==
  /\ pc = "lanes" /\ search <= Len(Searches)
  /\ itercount' = 0 /\ lane' = NewLane /\ results' = <<>> /\ measured' = <<>>
  /\ Goto("search")
  /\ UNCHANGED <<search, setting, pllVars, phyVars, repeatCount, match, code, calibDone, reading>>

(* The reset sequence, the self test of the lane, its result. *)
TestCounter ==
  /\ pc = "search" /\ itercount < Counters
  /\ \E result \in BOOLEAN :
       lane' = Turn(lane, itercount, result) /\ results' = Append(results, result)
  /\ itercount' = itercount + 1
  /\ UNCHANGED <<progVars, search, setting, pllVars, phyVars, calibVars>>

EndSearch ==
  /\ pc = "search" /\ itercount = Counters
  /\ setting' = [setting EXCEPT ![search] = Setting(Searches[search], Chosen(lane))]
  /\ search' = search + 1
  /\ Goto("lanes")
  /\ UNCHANGED <<itercount, lane, results, pllVars, phyVars, calibVars>>

(* The lanes leave reset; the waits for the locks of their PLLs have no result
   either. *)
InitLanes ==
  /\ pc = "lanes" /\ search > Len(Searches) /\ Goto("done")
  /\ UNCHANGED <<pllVars, phyVars, calibVars, searchVars>>
-----------------------------------------------------------------------------
(* The hardware (external). *)

PllLocks ==
  /\ \E p \in Plls \ (inReset \cup locked) : locked' = locked \cup {p}
  /\ UNCHANGED <<progVars, bypassed, inReset, gaveUp, phyVars, calibVars, searchVars>>

PhyFinishes ==
  /\ phyBusy
  /\ phyBusy' = FALSE
  /\ \E ok \in BOOLEAN : phyOk' = ok /\ completed' = completed \cup {r \in {phyRun} : ok}
  /\ UNCHANGED <<progVars, pllRetry, pllLocked, phyRun, phyRefresh, staticRead, autoRefresh,
                 pllVars, calibVars, searchVars>>

LaneCalibrates ==
  /\ pc = "calibrateWait" /\ ~calibDone
  /\ calibDone' = TRUE
  /\ \E r \in [Kinds -> UNION {0..ValidCodes[k] : k \in Kinds}] :
       (\A k \in Kinds : r[k] <= ValidCodes[k]) /\ reading' = r
  /\ UNCHANGED <<progVars, repeatCount, match, code, measured, pllVars, phyVars, searchVars>>
-----------------------------------------------------------------------------
PsuStep ==
  \/ BypassPll \/ ResetPll \/ RunPll \/ PollPllLock \/ UsePll
  \/ LockPhyPlls \/ ReadPhyLocks \/ StartInit \/ EndInit
  \/ StartTraining \/ EndTraining \/ StartVref \/ EndVref \/ StartEye \/ EndEye
  \/ StartCalibration \/ CalibrationTimesOut \/ ReadCodes \/ ChooseCodes
  \/ StartSearch \/ TestCounter \/ EndSearch \/ InitLanes

Next == PsuStep \/ PllLocks \/ PhyFinishes \/ LaneCalibrates

Spec == Init /\ [][Next]_vars

(* psu_init runs on, and the PHY finishes what it was told, with or without an
   error. Neither a PLL nor a lane has to come up: the waits for them end. *)
FairSpec == Spec /\ WF_vars(PsuStep) /\ WF_vars(PhyFinishes)
-----------------------------------------------------------------------------
(* Properties. *)

(* Every variable has its type. *)
PsuTypeOK ==
  /\ pc \in {"bypass", "reset", "run", "lock", "use", "phyPll", "phyPllWait", "init", "initWait",
             "train", "trainWait", "vref", "vrefWait", "eye", "eyeWait", "calibrate",
             "calibrateWait", "choose", "lanes", "search", "done"}
  /\ status \in BOOLEAN /\ pll \in Nat /\ withDdr \in BOOLEAN
  /\ pllRetry \in 0..PllRetries /\ pllLocked \in BOOLEAN
  /\ repeatCount \in 0..(Repeats + 1)
  /\ DOMAIN match = Kinds /\ \A k \in Kinds : match[k] \in [0..(ValidCodes[k] - 1) -> Nat]
  /\ code \in [Kinds -> Nat] /\ reading \in [Kinds -> Nat] /\ calibDone \in BOOLEAN
  /\ bypassed \subseteq Plls /\ inReset \subseteq Plls /\ locked \subseteq Plls
  /\ gaveUp \subseteq Plls
  /\ phyRun \in {"none", "pll", "init", "train", "vref", "eye"}
  /\ completed \subseteq {"pll", "init", "train", "vref", "eye"}
  /\ phyBusy \in BOOLEAN /\ phyOk \in BOOLEAN /\ phyRefresh \in BOOLEAN /\ staticRead \in BOOLEAN
  /\ autoRefresh \in BOOLEAN
  /\ measured \in Seq([Kinds -> Nat])
  /\ search \in 1..(Len(Searches) + 1) /\ itercount \in 0..Counters
  /\ Chosen(lane) \in 0..(Counters - 1) /\ lane.pass \in 0..Counters
  /\ DOMAIN setting = DOMAIN Searches /\ results \in Seq(BOOLEAN)

(* When psu_init reports a success, what it brings up works. Clocks come from PLLs
   that were let out of reset and whose lock was waited for since. The memory, in
   a build where that is for psu_init to see to: the PLLs of the PHY locked, both
   trainings that are checked ended without an error, and the memory is refreshed.
   The modes of the trainings are taken back; and every lane quantity has a valid code. A part
   that fails is not covered up by the parts after it. *)
SuccessMeansReady ==
  pc = "done" /\ status =>
    /\ \A p \in Plls \ bypassed : p \notin inReset /\ p \in locked \cup gaveUp
    /\ withDdr => {"pll", "train", "vref"} \subseteq completed /\ autoRefresh
    /\ ~phyBusy /\ phyRefresh /\ ~staticRead
    /\ \A k \in Kinds : code[k] < ValidCodes[k]

(* The PHY is told to do something, or its mode changed, only when it is through
   with what it was told before. *)
PhyOneAtATime ==
  [][phyRun' # phyRun \/ phyRefresh' # phyRefresh \/ staticRead' # staticRead => ~phyBusy]_vars

Times(k, c) == Cardinality({i \in DOMAIN measured : measured[i][k] = c})

(* The code forced on the lanes is one that was measured most often, if a valid
   one was measured at all. *)
MostFrequentCode ==
  pc = "lanes" /\ search = 1 => \A k \in Kinds :
    code[k] < ValidCodes[k] => \A c \in 0..(ValidCodes[k] - 1) : Times(k, c) <= Times(k, code[k])

(* Where five counters in a row pass the test, the setting a search leaves in the
   lane passed, and so did both beside it. *)
Passed(i) == i + 1 \in DOMAIN results /\ results[i + 1]

SettingHasMargin ==
  pc = "lanes" /\ search > 1 /\ (\E i \in 0..(Counters - 5) : \A j \in i..(i + 4) : Passed(j)) =>
    \E i \in 1..(Counters - 2) :
      /\ setting[search - 1] = Setting(Searches[search - 1], i)
      /\ Passed(i - 1) /\ Passed(i) /\ Passed(i + 1)

(* psu_init returns, whatever locks and however the trainings end, but for an
   error of the first training. *)
PsuInitEnds == <>(pc = "done" \/ (pc = "trainWait" /\ ~phyBusy /\ ~phyOk))
=============================================================================
