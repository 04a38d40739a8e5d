------------------------------ MODULE PmClock ------------------------------
(****************************************************************************)
(* Setting and reading the dividers and the parent of a clock, through the  *)
(* PM client library of several processing units. Each remote call is one   *)
(* step (PmClient has its parts): the PMU does it and answers, or refuses   *)
(* it, or does it after the caller gave up waiting.                         *)
(****************************************************************************)
EXTENDS ClockTree

CONSTANTS
  Callers,      \* the processing units
  TheClocks,    \* clocks that are looked at, each in behaviours of its own
  Values,       \* effective dividers that are asked for
  MaxCalls      \* calls in a behaviour (bound)

ASSUME BoundsAssumption ==
  TheClocks \subseteq Clocks /\ Values \subseteq Nat \ {0} /\ MaxCalls \in Nat

VARIABLES
  clk,
  divider, select,    \* its fields in the PMU's registers
  call,               \* what each caller is at
  late,               \* requests whose callers gave up, still to be done
  calls,              \* calls begun
  setDivider, setParent   \* history: what the last call set, undisturbed, or None

vars == <<clk, divider, select, call, late, calls, setDivider, setParent>>

Idle == [op |-> "none", pc |-> "idle", mapped |-> {}, div0 |-> 0, div1 |-> 0,
         value |-> 0, parent |-> None, status |-> "none", expected |-> None]

NoRequest == [field |-> "none", to |-> 0]

(* A clock has been set up by psu_init. *)
Init ==
  /\ clk \in TheClocks
  /\ divider = [d \in DivIds |-> 1] /\ select = 0
  /\ call = [c \in Callers |-> Idle]
  /\ late = [c \in Callers |-> NoRequest]
  /\ calls = 0
  /\ setDivider = None /\ setParent = None

(* An effective divider as a history value. *)
Divides(value) == <<"divider", value>>
-----------------------------------------------------------------------------
(* How an effective divider is split over the fields of the clock. *)
NotMapped == [mapped |-> {}, div0 |-> 0, div1 |-> 0]

Splits(value) == {d \in 2..(DivWidth \div 2 + 1) : value % d = 0}

(* Mutant: a clock with one divider is taken for one with two. *)
NoRange(clock, value) == value > DivWidth * DivWidth

OutOfRange(clock, value) ==
  \/ "div1" \notin Divs(clock) /\ value > DivWidth
  \/ value > DivWidth * DivWidth

(* Mutant: the second divider is left alone where the first is enough. *)
FirstIsEnough(clock, value) ==
  IF Divs(clock) = {} \/ OutOfRange(clock, value) THEN NotMapped
  ELSE IF value <= DivWidth THEN [mapped |-> {"div0"}, div0 |-> value, div1 |-> 1]
  ELSE IF Splits(value) = {} THEN NotMapped
  ELSE [mapped |-> DivIds, div0 |-> Min(Splits(value)), div1 |-> value \div Min(Splits(value))]

(* The splitting stops at the first divisor, whether or not the other fits. *)
MapDivider(clock, value) ==
  IF Divs(clock) = {} \/ OutOfRange(clock, value) THEN NotMapped
  ELSE IF value <= DivWidth THEN [mapped |-> Divs(clock), div0 |-> value, div1 |-> 1]
  ELSE IF Splits(value) = {} THEN NotMapped
  ELSE [mapped |-> DivIds, div0 |-> Min(Splits(value)), div1 |-> value \div Min(Splits(value))]

(* No other unit sets this field, or has a request for it on its way. *)
Undisturbed(c, op, fields) ==
  \A b \in Callers \ {c} :
    (call[b].op # op \/ call[b].pc = "idle") /\ late[b].field \notin fields

(* A call that sets something disturbs every other call about it. *)
Disturbed(ops, entry, c) ==
  [b \in Callers |->
    IF b = c THEN entry
    ELSE IF call[b].op \in ops THEN [call[b] EXCEPT !.expected = None] ELSE call[b]]

DividerOps == {"setDivider", "getDivider"}
ParentOps == {"setParent", "getParent"}

Begins(c) ==
  /\ call[c].pc = "idle" /\ calls < MaxCalls
  /\ calls' = calls + 1
  /\ UNCHANGED <<clk, divider, select, late>>

(* XPm_ClockSetDivider *)
BeginSetDivider(c) ==
  /\ Begins(c)
  /\ \E value \in Values :
       LET map == MapDivider(clk, value)
           entry == [Idle EXCEPT !.op = "setDivider", !.mapped = map.mapped, !.div0 = map.div0,
                                 !.div1 = map.div1, !.value = value,
                                 !.expected = IF Undisturbed(c, "setDivider", DivIds)
                                              THEN Divides(value) ELSE None]
       IN IF map.mapped = {}
          THEN call' = [call EXCEPT ![c] = [entry EXCEPT !.status = "invalid"]] /\ UNCHANGED setDivider
          ELSE /\ call' = Disturbed(DividerOps, [entry EXCEPT !.pc = "div0"], c)
               /\ setDivider' = None
  /\ UNCHANGED setParent

(* XPm_ClockGetDivider *)
BeginGetDivider(c) ==
  /\ Begins(c)
  /\ call' = [call EXCEPT ![c] =
       IF Divs(clk) = {} THEN [Idle EXCEPT !.op = "getDivider", !.status = "invalid"]
       ELSE [Idle EXCEPT !.op = "getDivider", !.pc = "div0", !.mapped = Divs(clk), !.value = 1,
                         !.expected = setDivider]]
  /\ UNCHANGED <<setDivider, setParent>>

(* XPm_ClockSetParent *)
BeginSetParent(c) ==
  /\ Begins(c)
  /\ \E parent \in Parents(clk) \cup {None} :
       LET selects == SelectByClockParent(clk, parent)
           entry == [Idle EXCEPT !.op = "setParent", !.parent = parent,
                                 !.expected = IF Undisturbed(c, "setParent", {"parent"})
                                              THEN parent ELSE None]
       IN IF selects = {}
          THEN call' = [call EXCEPT ![c] = [entry EXCEPT !.status = "invalid"]] /\ UNCHANGED setParent
          ELSE /\ \E s \in selects :
                    call' = Disturbed(ParentOps, [entry EXCEPT !.pc = "parent", !.value = s], c)
               /\ setParent' = None
  /\ UNCHANGED setDivider

(* XPm_ClockGetParent *)
BeginGetParent(c) ==
  /\ Begins(c)
  /\ call' = [call EXCEPT ![c] =
       [Idle EXCEPT !.op = "getParent", !.pc = "parent", !.expected = setParent]]
  /\ UNCHANGED <<setDivider, setParent>>
-----------------------------------------------------------------------------
(* The remote calls. A late request of the same caller comes first. *)

(* A field is as wide as its divider. *)
Written(value) == value % (DivWidth + 1)

(* XPm_ClockSetOneDivider, and the end of the call or its next divider. *)
SetOneDivider(c) ==
  LET d == call[c].pc
      to == IF d = "div0" THEN call[c].div0 ELSE call[c].div1
      more == d = "div0" /\ "div1" \in call[c].mapped
  IN
  /\ call[c].op = "setDivider" /\ d \in DivIds /\ late[c] = NoRequest
  /\ divider' = [divider EXCEPT ![d] = Written(to)]
  /\ call' = [call EXCEPT ![c].pc = IF more THEN "div1" ELSE "idle",
                          ![c].status = IF more THEN @ ELSE "success"]
  /\ setDivider' = IF more THEN setDivider ELSE call[c].expected
  /\ UNCHANGED <<clk, select, late, calls, setParent>>

(* XPm_ClockGetOneDivider *)
GetOneDivider(c) ==
  LET d == call[c].pc
      more == d = "div0" /\ "div1" \in call[c].mapped
  IN
  /\ call[c].op = "getDivider" /\ d \in DivIds /\ late[c] = NoRequest
  /\ call' = [call EXCEPT ![c].pc = IF more THEN "div1" ELSE "idle",
                          ![c].value = @ * divider[d],
                          ![c].status = IF more THEN @ ELSE "success"]
  /\ UNCHANGED <<clk, divider, select, late, calls, setDivider, setParent>>

SetSelect(c) ==
  /\ call[c].op = "setParent" /\ call[c].pc = "parent" /\ late[c] = NoRequest
  /\ select' = call[c].value
  /\ call' = [call EXCEPT ![c].pc = "idle", ![c].status = "success"]
  /\ setParent' = call[c].expected
  /\ UNCHANGED <<clk, divider, late, calls, setDivider>>

GetSelect(c) ==
  LET parent == ClockParentBySelect(clk, select) IN
  /\ call[c].op = "getParent" /\ call[c].pc = "parent" /\ late[c] = NoRequest
  /\ call' = [call EXCEPT ![c].pc = "idle", ![c].parent = parent,
                          ![c].status = IF parent = None THEN "invalid" ELSE "success"]
  /\ UNCHANGED <<clk, divider, select, late, calls, setDivider, setParent>>

(* The PMU refuses, or the caller gives up before or after the request is on its
   way: the call ends there, whatever it has set before. *)
RemoteCallFails(c) ==
  LET setting == call[c].op \in {"setDivider", "setParent"}
      request == [field |-> call[c].pc,
                  to |-> CASE call[c].pc = "div0" -> call[c].div0
                           [] call[c].pc = "div1" -> call[c].div1
                           [] OTHER -> call[c].value]
  IN
  /\ call[c].pc # "idle"
  /\ call' = [call EXCEPT ![c].pc = "idle", ![c].status = "error"]
  /\ \/ UNCHANGED late
     \/ setting /\ late[c] = NoRequest /\ late' = [late EXCEPT ![c] = request]
  /\ UNCHANGED <<clk, divider, select, calls, setDivider, setParent>>

(* The PMU comes to a request whose caller gave up (external). *)
PmuComesLate(c) ==
  /\ late[c] # NoRequest
  /\ IF late[c].field = "parent" THEN select' = late[c].to /\ UNCHANGED divider
     ELSE divider' = [divider EXCEPT ![late[c].field] = Written(late[c].to)] /\ UNCHANGED select
  /\ late' = [late EXCEPT ![c] = NoRequest]
  /\ UNCHANGED <<clk, call, calls, setDivider, setParent>>
-----------------------------------------------------------------------------
Next ==
  \E c \in Callers :
    \/ BeginSetDivider(c) \/ BeginGetDivider(c) \/ BeginSetParent(c) \/ BeginGetParent(c)
    \/ SetOneDivider(c) \/ GetOneDivider(c) \/ SetSelect(c) \/ GetSelect(c)
    \/ RemoteCallFails(c) \/ PmuComesLate(c)

Spec == Init /\ [][Next]_vars
-----------------------------------------------------------------------------
(* Properties. *)

(* Every variable has its type; a clock is only told of dividers it has. *)
ClockTypeOK ==
  /\ clk \in Clocks
  /\ divider \in [DivIds -> 0..DivWidth] /\ select \in 0..(Mios - 1)
  /\ calls \in 0..MaxCalls
  /\ \A c \in Callers :
       /\ call[c].op \in {"none", "setDivider", "getDivider", "setParent", "getParent"}
       /\ call[c].pc \in {"idle", "parent"} \cup DivIds
       /\ call[c].mapped \subseteq Divs(clk)
       /\ call[c].status \in {"none", "invalid", "error", "success"}
       /\ late[c].field \in {"none", "parent"} \cup DivIds

(* A get has returned, and the last set was of this value, without a failure and
   with no other unit setting the divider at the same time. *)
GotAfterSet(c, value) ==
  /\ call[c].op = "getDivider" /\ call[c].status = "success"
  /\ call[c].expected = Divides(value)

(* Both parts of the split are as narrow as a field. *)
Fits(value) ==
  MapDivider(clk, value).div0 <= DivWidth /\ MapDivider(clk, value).div1 <= DivWidth

(* A divider whose split fits its fields, set without a failure and without another
   unit setting it at the same time, is read back as it was asked for, by every
   unit: the two fields are split and multiplied alike, and nothing of an earlier
   divider, of a call that failed half way or of a late request is left in them. It
   says nothing of a value whose smallest divisor leaves a part wider than a field:
   128, split as 2 times 64, is set with success and read back as another, although
   the note at pm_clock.c:1100 has only primes that two fields cannot make. Nor
   does it of sets of several units that interleave. *)
DividerIsReadBack ==
  \A c \in Callers, value \in Values :
    GotAfterSet(c, value) /\ Fits(value) => call[c].value = value

(* Likewise the parent, over a table whose select values have gaps and repeat. *)
ParentIsReadBack ==
  \A c \in Callers :
    call[c].op = "getParent" /\ call[c].status \in {"success", "invalid"} /\ call[c].expected # None =>
      call[c].parent = call[c].expected
=============================================================================
