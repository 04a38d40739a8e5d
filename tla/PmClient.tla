------------------------------ MODULE PmClient ------------------------------
(****************************************************************************)
(* The power management client of one processor: pm_api_sys.c with the list *)
(* of pm_callbacks.c and the suspend of pm_client.c. A program calls the    *)
(* API; the PMU takes its requests from a buffer, answers in another one,   *)
(* and sends notifications, which an interrupt hands to the listed          *)
(* notifiers. Every wait for the PMU can time out while the PMU still works *)
(* on the request.                                                          *)
(*                                                                          *)
(* A step of the program is the code between two points where the PMU or    *)
(* the interrupt may come in.                                               *)
(****************************************************************************)
EXTENDS Naturals, FiniteSets

CONSTANTS
  Notifiers,    \* the notifier objects of the program
  Pairs,        \* the pairs of a node and an event
  PairOf,       \* what each notifier is about
  WakeTargets,  \* targets of wake-ups: "cpu" of this unit, "pu" another unit
  Null,         \* no notifier, no event
  MaxCalls,     \* bound: requests of the program
  MaxEvents     \* bound: notifications of the PMU

ASSUME NotifiersAssumption ==
  /\ IsFiniteSet(Notifiers) /\ PairOf \in [Notifiers -> Pairs]
  /\ Null \notin Notifiers \cup Pairs
ASSUME TargetsAssumption == WakeTargets \subseteq {"cpu", "pu"}
ASSUME CallBounds == MaxCalls \in Nat /\ MaxEvents \in Nat

(* The ways a call of the API uses the channel. "request" waits for the reply,
   "noAck" does not; the others do something of their own besides. *)
Ops == {"request", "noAck", "selfSuspend", "abortSuspend", "register", "unregister"}

InCall == {"send", "write", "trigger", "read", "add", "link", "finalize"}

VARIABLES
  (* the program *)
  pc,           \* its place
  op, subject,  \* the call it is in, and the notifier of that call
  calls,        \* requests so far; the number of the present one
  suspending,   \* the last suspend or abort was a suspend that succeeded
  (* its processor *)
  irqOff,       \* interrupts are disabled
  pwrdnReq,     \* its bit of the power-down requests in APU_PWRCTL
  (* the list of notifiers *)
  head, next, received,
  (* the channel *)
  obs,          \* the observation bit: the PMU has not acknowledged
  request,      \* the request buffer
  reply,        \* the response buffer
  event,        \* the notification waiting for its interrupt, or Null
  (* the PMU *)
  pmu,          \* the request it works on, or Idle
  registered,   \* pairs it sends notifications for
  powerDown,    \* it will power this processor down
  events,       \* notifications so far
  (* history *)
  sent, answered, taken,  \* numbers of requests sent, answered, and of the last reply used
  listed                  \* notifiers added and not removed

programVars == <<pc, op, subject, calls, suspending>>
cpuVars == <<irqOff, pwrdnReq>>
listVars == <<head, next, received, listed>>
channelVars == <<obs, request, reply>>
pmuVars == <<pmu, registered, powerDown>>
eventVars == <<event, events>>
historyVars == <<sent, answered, taken>>
vars == <<programVars, cpuVars, listVars, channelVars, pmuVars, eventVars, historyVars>>

Idle == [id |-> 0, op |-> "request", pair |-> Null]

Init ==
  /\ pc = "boot" /\ op = "request" /\ subject = Null /\ calls = 0 /\ suspending = FALSE
  /\ irqOff = TRUE /\ pwrdnReq = FALSE
  /\ head = Null /\ next = [n \in Notifiers |-> Null] /\ received = [n \in Notifiers |-> 0]
  /\ obs = FALSE /\ request = Idle /\ reply = [id |-> 0, ok |-> FALSE]
  /\ event = Null /\ events = 0
  /\ pmu = Idle /\ registered = {} /\ powerDown = FALSE
  /\ sent = 0 /\ answered = 0 /\ taken = 0
  /\ listed = {}

Goto(label) == pc' = label /\ UNCHANGED <<op, subject, calls, suspending>>
-----------------------------------------------------------------------------
(* Start of the program: XPm_GetBootStatus clears the request of a suspend it
   resumes from, and the program enables its interrupts. *)
Boot ==
  /\ pc = "boot"
  /\ pwrdnReq' = FALSE
  /\ irqOff' = FALSE
  /\ Goto("idle")
  /\ UNCHANGED <<listVars, channelVars, pmuVars, eventVars, historyVars>>

(* Mutant: the request for power-down is not set. *)
ClientSuspendQuietly == irqOff' = TRUE /\ UNCHANGED pwrdnReq

(* XPm_ClientSuspend. *)
ClientSuspend == irqOff' = TRUE /\ pwrdnReq' = TRUE

(* The way through the list, Null past its end. *)
Walk[k \in 0..Cardinality(Notifiers)] ==
  IF k = 0 THEN head ELSE IF Walk[k - 1] = Null THEN Null ELSE next[Walk[k - 1]]

Places(n) == {k \in 0..Cardinality(Notifiers) : Walk[k] = n}

(* XPm_NotifierRemove of a listed notifier. *)
NotifierRemove(n) ==
  LET k == CHOOSE j \in Places(n) : TRUE
  IN /\ IF k = 0 THEN head' = next[n] /\ UNCHANGED next
        ELSE next' = [next EXCEPT ![Walk[k - 1]] = next[n]] /\ UNCHANGED head
     /\ listed' = listed \ {n}
     /\ UNCHANGED received
-----------------------------------------------------------------------------
(* The program begins a call. A notifier is registered when it is not listed,
   and unregistered when it is: XPm_UnregisterNotifier refuses any other one
   before it changes anything. *)
Begin(o, n, place) ==
  /\ pc = "idle" /\ calls < MaxCalls
  /\ pc' = place /\ op' = o /\ subject' = n /\ calls' = calls + 1
  /\ suspending' = (suspending /\ o \notin {"selfSuspend", "abortSuspend"})
  /\ UNCHANGED <<channelVars, pmuVars, eventVars, historyVars>>

(* Every function that only asks the PMU, with and without a reply. *)
BeginRequest ==
  /\ \E o \in {"request", "noAck"} : Begin(o, Null, "send")
  /\ UNCHANGED <<cpuVars, listVars>>

(* XPm_ClientWakeup reads the master of the target, which a processor of
   another unit does not have here. *)
WakeUpPlace(target) == IF target = "cpu" THEN "send" ELSE "fault"

BeginWakeUp ==
  /\ \E t \in WakeTargets, o \in {"request", "noAck"} : Begin(o, Null, WakeUpPlace(t))
  /\ UNCHANGED <<cpuVars, listVars>>

BeginSelfSuspend ==
  /\ Begin("selfSuspend", Null, "send")
  /\ ClientSuspend
  /\ UNCHANGED listVars

BeginAbortSuspend == Begin("abortSuspend", Null, "send") /\ UNCHANGED <<cpuVars, listVars>>

BeginRegister ==
  /\ \E n \in Notifiers \ listed : Begin("register", n, "send")
  /\ UNCHANGED <<cpuVars, listVars>>

BeginUnregister ==
  /\ \E n \in listed : Begin("unregister", n, "send") /\ NotifierRemove(n)
  /\ UNCHANGED cpuVars

BeginSuspendFinalize ==
  /\ pc = "idle" /\ suspending
  /\ Goto("finalize")
  /\ UNCHANGED <<cpuVars, listVars, channelVars, pmuVars, eventVars, historyVars>>
-----------------------------------------------------------------------------
(* pm_ipi_send and pm_ipi_buff_read32, shared by all calls. *)

(* Mutant: the wait for a reply has no end. *)
OnlySendTimesOut ==
  /\ pc = "send" /\ obs
  /\ Goto("idle")
  /\ UNCHANGED <<cpuVars, listVars, channelVars, pmuVars, eventVars, historyVars>>

(* XIpiPsu_PollForAck gives up while the PMU has not acknowledged. *)
PollTimesOut ==
  /\ pc \in {"send", "read"} /\ obs
  /\ Goto("idle")
  /\ UNCHANGED <<cpuVars, listVars, channelVars, pmuVars, eventVars, historyVars>>

(* Mutant: the previous request is not waited for. *)
SendAtOnce ==
  /\ pc = "send"
  /\ Goto("write")
  /\ UNCHANGED <<cpuVars, listVars, channelVars, pmuVars, eventVars, historyVars>>

SendPolled ==
  /\ pc = "send" /\ ~obs
  /\ Goto("write")
  /\ UNCHANGED <<cpuVars, listVars, channelVars, pmuVars, eventVars, historyVars>>

(* Mutant: the notifier itself goes into the request. *)
NotifierMessage == [id |-> calls, op |-> op, pair |-> subject]

Message ==
  [id |-> calls, op |-> op, pair |-> IF subject = Null THEN Null ELSE PairOf[subject]]

WriteMessage ==
  /\ pc = "write"
  /\ request' = Message
  /\ Goto("trigger")
  /\ UNCHANGED <<cpuVars, listVars, obs, reply, pmuVars, eventVars, historyVars>>

TriggerIpi ==
  /\ pc = "trigger"
  /\ obs' = TRUE /\ sent' = calls
  /\ Goto(IF op = "noAck" THEN "idle" ELSE "read")
  /\ UNCHANGED <<cpuVars, listVars, request, reply, pmuVars, eventVars, answered, taken>>

(* Mutant: a notifier is listed whatever the PMU said. *)
ListedAnyway(ok) == IF op = "register" THEN "add" ELSE "idle"

(* Only a registration goes on after its reply. *)
AfterReply(ok) == IF op = "register" /\ ok THEN "add" ELSE "idle"

ReadReply ==
  /\ pc = "read" /\ ~obs
  /\ taken' = reply.id
  /\ pc' = AfterReply(reply.ok)
  /\ suspending' = (suspending \/ (op = "selfSuspend" /\ reply.ok))
  /\ IF op = "abortSuspend" /\ reply.ok
     THEN irqOff' = FALSE /\ pwrdnReq' = FALSE     \* XPm_ClientAbortSuspend
     ELSE UNCHANGED cpuVars
  /\ UNCHANGED <<op, subject, calls, listVars, channelVars, pmuVars, eventVars, sent, answered>>
-----------------------------------------------------------------------------
(* XPm_NotifierAdd, in the order of its assignments. *)

(* Mutant: the head is set before the link. *)
HeadFirst ==
  \/ /\ pc = "add"
     /\ head' = subject /\ received' = [received EXCEPT ![subject] = 0]
     /\ Goto("link")
     /\ UNCHANGED <<next, listed>>
  \/ /\ pc = "link"
     /\ next' = [next EXCEPT ![subject] = IF Cardinality(listed) = 0 THEN Null
                                           ELSE CHOOSE n \in listed : TRUE]
     /\ listed' = listed \cup {subject}
     /\ Goto("idle")
     /\ UNCHANGED <<head, received>>

NotifierAdd ==
  \/ /\ pc = "add"
     /\ received' = [received EXCEPT ![subject] = 0]
     /\ next' = [next EXCEPT ![subject] = head]
     /\ Goto("link")
     /\ UNCHANGED <<head, listed>>
  \/ /\ pc = "link"
     /\ head' = subject
     /\ listed' = listed \cup {subject}
     /\ Goto("idle")
     /\ UNCHANGED <<next, received>>

AddNotifier ==
  /\ NotifierAdd
  /\ UNCHANGED <<cpuVars, channelVars, pmuVars, eventVars, historyVars>>

(* XPm_SuspendFinalize polls until the PMU has acknowledged; a poll that times
   out changes nothing. *)
SuspendFinalize ==
  /\ pc = "finalize" /\ ~obs
  /\ Goto("wfi")
  /\ UNCHANGED <<cpuVars, listVars, channelVars, pmuVars, eventVars, historyVars>>

(* The wfi instruction ends at an interrupt, disabled or not. *)
WfiExit ==
  /\ pc = "wfi" /\ event # Null
  /\ Goto("idle")
  /\ UNCHANGED <<cpuVars, listVars, channelVars, pmuVars, eventVars, historyVars>>
-----------------------------------------------------------------------------
(* The interrupt of a notification: XPm_NotifyCb, XPm_NotifierProcessEvent. The
   program does not run meanwhile. *)
NotifierProcessEvent ==
  /\ event # Null /\ ~irqOff /\ pc # "fault"
  /\ received' = [n \in Notifiers |->
       received[n] + IF PairOf[n] = event THEN Cardinality(Places(n)) ELSE 0]
  /\ event' = Null
  /\ UNCHANGED <<programVars, cpuVars, head, next, listed, channelVars, pmuVars, events, historyVars>>
-----------------------------------------------------------------------------
(* The PMU (external: its firmware, as the library relies on it). *)

PmuTake ==
  /\ obs /\ pmu = Idle
  /\ pmu' = request
  /\ UNCHANGED <<programVars, cpuVars, listVars, channelVars, registered, powerDown, eventVars,
                 historyVars>>

(* It carries the request out or refuses it, writes its reply, acknowledges. A
   registration is for the pair, whoever asked. *)
PmuAnswer ==
  /\ pmu # Idle
  /\ \E ok \in BOOLEAN :
       /\ reply' = [id |-> pmu.id, ok |-> ok]
       /\ registered' = IF ~ok THEN registered
                        ELSE CASE pmu.op = "register" -> registered \cup {pmu.pair}
                               [] pmu.op = "unregister" -> registered \ {pmu.pair}
                               [] OTHER -> registered
       /\ powerDown' = IF ~ok THEN powerDown
                       ELSE CASE pmu.op = "selfSuspend" -> TRUE
                              [] pmu.op = "abortSuspend" -> FALSE
                              [] OTHER -> powerDown
  /\ answered' = pmu.id
  /\ obs' = FALSE /\ pmu' = Idle
  /\ UNCHANGED <<programVars, cpuVars, listVars, request, eventVars, sent, taken>>

(* One notification waits at a time. *)
PmuNotify ==
  /\ event = Null /\ events < MaxEvents /\ pc # "down"
  /\ event' \in registered
  /\ events' = events + 1
  /\ UNCHANGED <<programVars, cpuVars, listVars, channelVars, pmuVars, historyVars>>

PmuPowerDown ==
  /\ pc = "wfi" /\ powerDown /\ event = Null
  /\ Goto("down")
  /\ UNCHANGED <<cpuVars, listVars, channelVars, pmuVars, eventVars, historyVars>>

(* The program starts again at its resume address, with its data cleared. *)
PmuWake ==
  /\ pc = "down"
  /\ pc' = "boot" /\ suspending' = FALSE /\ powerDown' = FALSE
  /\ head' = Null /\ listed' = {}
  /\ next' = [n \in Notifiers |-> Null] /\ received' = [n \in Notifiers |-> 0]
  /\ UNCHANGED <<op, subject, calls, cpuVars, channelVars, pmu, registered, eventVars, historyVars>>
-----------------------------------------------------------------------------
(* The program may stop calling; a call it is in goes on. *)
CallStep ==
  \/ PollTimesOut \/ SendPolled \/ WriteMessage \/ TriggerIpi \/ ReadReply
  \/ AddNotifier \/ SuspendFinalize

BeginCall ==
  \/ BeginRequest \/ BeginWakeUp \/ BeginSelfSuspend \/ BeginAbortSuspend
  \/ BeginRegister \/ BeginUnregister \/ BeginSuspendFinalize

Next ==
  \/ Boot \/ BeginCall \/ CallStep \/ WfiExit
  \/ NotifierProcessEvent
  \/ PmuTake \/ PmuAnswer \/ PmuNotify \/ PmuPowerDown \/ PmuWake

Spec == Init /\ [][Next]_vars

(* The program is one processor running straight-line code, whose polls end by
   themselves. Nothing is assumed of the PMU. *)
FairSpec == Spec /\ WF_vars(CallStep)
-----------------------------------------------------------------------------
(* Properties. *)

(* Every variable has its type. *)
PmTypeOK ==
  /\ pc \in InCall \cup {"boot", "idle", "wfi", "down", "fault"}
  /\ op \in Ops /\ subject \in Notifiers \cup {Null}
  /\ calls \in 0..MaxCalls /\ suspending \in BOOLEAN
  /\ irqOff \in BOOLEAN /\ pwrdnReq \in BOOLEAN
  /\ head \in Notifiers \cup {Null} /\ next \in [Notifiers -> Notifiers \cup {Null}]
  /\ received \in [Notifiers -> Nat] /\ listed \subseteq Notifiers
  /\ obs \in BOOLEAN /\ reply \in [id: Nat, ok: BOOLEAN]
  /\ request \in [id: Nat, op: Ops, pair: Pairs \cup {Null}]
  /\ pmu \in [id: Nat, op: Ops, pair: Pairs \cup {Null}]
  /\ event \in Pairs \cup {Null} /\ events \in 0..MaxEvents
  /\ registered \subseteq Pairs /\ powerDown \in BOOLEAN
  /\ sent \in Nat /\ answered \in Nat /\ taken \in Nat

(* The channel is a remote call: a request is never overwritten before the PMU
   took it, none is served twice, and a reply that is used is the one to the
   present call, although earlier calls may have given up waiting. *)
Channel == INSTANCE RemoteCall WITH served <- answered

ImplementsRemoteCall == Channel!Spec

(* A notification reaches every notifier of its pair that is listed, once, and
   no other one, also when it comes in while the list changes. *)
EachHearsOnce ==
  [][event # Null /\ event' = Null =>
       \A n \in Notifiers :
         received'[n] = received[n] + IF n \in listed /\ PairOf[n] = event THEN 1 ELSE 0]_vars

(* A listed notifier has its pair registered at the PMU: one that was refused,
   or whose registration timed out, is not in the list. *)
ListedAreRegistered == \A n \in listed : PairOf[n] \in registered

(* When the processor waits to be powered down, the PMU expects it, has no
   request of it left, and finds its power-down request; and no interrupt can
   come in before it is down. *)
SleepIsExpected ==
  pc \in {"wfi", "down"} => powerDown /\ pwrdnReq /\ irqOff /\ ~obs

(* Every call returns, even when the PMU never answers; XPm_SuspendFinalize
   alone waits for it without end. *)
CallsEnd ==
  /\ \A p \in InCall \ {"finalize"} : pc = p ~> pc = "idle"
  /\ pc = "finalize" ~> (pc = "wfi" \/ []obs)
=============================================================================
