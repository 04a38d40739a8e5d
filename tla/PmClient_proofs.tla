--------------------------- MODULE PmClient_proofs ---------------------------
(****************************************************************************)
(* For any number of notifiers, pairs, calls and events: the channel to the *)
(* PMU is a remote call whatever times out, a processor goes to sleep only  *)
(* when the PMU expects it, listed notifiers are registered, and each of    *)
(* them hears each of its notifications once.                               *)
(****************************************************************************)
EXTENDS PmClient, FiniteSetTheorems, WellFoundedInduction, TLAPS

(* Registrations name the pair of their notifier. *)
OnPair == {"register", "unregister"}

MessageOK ==
  /\ op \in OnPair => subject \in Notifiers
  /\ request.op \in OnPair => request.pair \in Pairs
  /\ pc \in {"add", "link"} => op = "register"

(* The PMU works on nothing but the request in the buffer, which the program
   leaves alone until the observation bit is clear. *)
ChannelOK ==
  /\ pc \in {"write", "trigger", "add", "link", "wfi", "down", "boot"} => ~obs
  /\ pc = "trigger" => request = Message
  /\ pc = "read" /\ obs => request = Message
  /\ pmu = Idle \/ (obs /\ pmu = request)
  /\ obs => request.id = sent

(* The numbers of the requests, for the refinement. *)
NumbersOK ==
  /\ sent <= calls /\ taken <= sent /\ reply.id = answered
  /\ pc \in {"send", "write", "trigger"} => sent < calls
  /\ pc = "read" => sent = calls /\ taken < sent
  /\ obs => answered < sent
  /\ ~obs => answered = sent

ChannelInv == PmTypeOK /\ MessageOK /\ ChannelOK /\ NumbersOK

(* A suspend that succeeded stands until an abort is begun, and none is on its
   way to the PMU before that. *)
SuspendOK ==
  /\ suspending =>
       /\ powerDown /\ pwrdnReq /\ irqOff /\ pc # "boot"
       /\ obs => request.op # "abortSuspend"
       /\ pc \in {"send", "write", "trigger", "read"} => op \notin {"selfSuspend", "abortSuspend"}
  /\ pc \in {"finalize", "wfi", "down"} => suspending
  /\ pc \in {"send", "write", "trigger", "read"} /\ op = "selfSuspend" => pwrdnReq /\ irqOff
  /\ pc = "read" /\ ~obs /\ op = "selfSuspend" /\ reply.ok => powerDown

(* The pair of a notifier that is listed, or about to be, is registered, and a
   request that takes it away is not on its way. *)
ListOK ==
  /\ ListedAreRegistered
  /\ pc \in {"add", "link"} => PairOf[subject] \in registered
  /\ pc = "read" /\ ~obs /\ op = "register" /\ reply.ok => PairOf[subject] \in registered
  /\ pc \in {"send", "write", "trigger"} /\ op = "unregister" =>
       \A n \in listed : PairOf[n] # PairOf[subject]
  /\ obs /\ request.op = "unregister" => \A n \in listed : PairOf[n] # request.pair
-----------------------------------------------------------------------------
LEMMA PlacesAreFew == ASSUME NEW n PROVE Cardinality(Places(n)) \in Nat
<1>1. Cardinality(Notifiers) \in Nat
  BY NotifiersAssumption, FS_CardinalityType
<1>2. IsFiniteSet(0..Cardinality(Notifiers))
  BY <1>1, FS_Interval
<1>3. Places(n) \subseteq 0..Cardinality(Notifiers)
  BY DEF Places
<1>. QED BY <1>2, <1>3, FS_Subset, FS_CardinalityType

(* Every step of the program and of the PMU keeps the types. *)
LEMMA TypesNext ==
  ASSUME PmTypeOK, MessageOK, ChannelOK, [Next]_vars
  PROVE  PmTypeOK'
<1>. USE NotifiersAssumption, CallBounds
    DEF PmTypeOK, MessageOK, OnPair, Ops, InCall, Idle
<1>1. CASE Boot
  <2>1. irqOff' \in BOOLEAN /\ pwrdnReq' \in BOOLEAN
    BY <1>1, Zenon DEF Boot
  <2>2. pc' = "idle" /\ UNCHANGED <<op, subject, calls, suspending>>
    BY <1>1 DEF Boot, Goto
  <2>3. UNCHANGED <<listVars, channelVars, pmuVars, eventVars, historyVars>>
    BY <1>1 DEF Boot
  <2>. QED BY <2>1, <2>2, <2>3 DEF listVars, channelVars, pmuVars, eventVars, historyVars
<1>2. CASE BeginRequest
  BY <1>2 DEF BeginRequest, Begin, cpuVars, listVars, channelVars, pmuVars, eventVars,
      historyVars
<1>3. CASE BeginWakeUp
  BY <1>3 DEF BeginWakeUp, Begin, WakeUpPlace, cpuVars, listVars, channelVars, pmuVars,
      eventVars, historyVars
<1>4. CASE BeginSelfSuspend
  BY <1>4 DEF BeginSelfSuspend, Begin, ClientSuspend, listVars, channelVars, pmuVars,
      eventVars, historyVars
<1>5. CASE BeginAbortSuspend
  BY <1>5 DEF BeginAbortSuspend, Begin, cpuVars, listVars, channelVars, pmuVars, eventVars,
      historyVars
<1>6. CASE BeginRegister
  BY <1>6 DEF BeginRegister, Begin, cpuVars, listVars, channelVars, pmuVars, eventVars,
      historyVars
<1>7. CASE BeginUnregister
  <2>1. PICK n \in listed : Begin("unregister", n, "send") /\ NotifierRemove(n)
    BY <1>7, Zenon DEF BeginUnregister
  <2>2. /\ head' \in Notifiers \cup {Null} /\ next' \in [Notifiers -> Notifiers \cup {Null}]
        /\ received' \in [Notifiers -> Nat] /\ listed' \subseteq Notifiers
    <3>1. /\ n \in Notifiers /\ listed \subseteq Notifiers
          /\ next \in [Notifiers -> Notifiers \cup {Null}]
          /\ head \in Notifiers \cup {Null} /\ received \in [Notifiers -> Nat]
      BY Zenon
    <3>2. /\ \/ head' = next[n] /\ next' = next
             \/ \E before : next' = [next EXCEPT ![before] = next[n]] /\ head' = head
          /\ listed' = listed \ {n} /\ received' = received
      BY <2>1, Zenon DEF NotifierRemove
    <3>. QED BY ONLY <3>1, <3>2
  <2>3. /\ pc' = "send" /\ op' = "unregister" /\ subject' = n
        /\ calls' \in 0..MaxCalls /\ suspending' \in BOOLEAN
    BY <2>1 DEF Begin
  <2>4. UNCHANGED <<cpuVars, channelVars, pmuVars, eventVars, historyVars>>
    BY <1>7, <2>1, Zenon DEF BeginUnregister, Begin
  <2>. QED BY <2>2, <2>3, <2>4 DEF cpuVars, channelVars, pmuVars, eventVars, historyVars
<1>8. CASE BeginSuspendFinalize
  BY <1>8 DEF BeginSuspendFinalize, Goto, cpuVars, listVars, channelVars, pmuVars,
      eventVars, historyVars
<1>9. CASE PollTimesOut
  BY <1>9 DEF PollTimesOut, Goto, cpuVars, listVars, channelVars, pmuVars, eventVars,
      historyVars
<1>10. CASE SendPolled
  BY <1>10 DEF SendPolled, Goto, cpuVars, listVars, channelVars, pmuVars, eventVars,
      historyVars
<1>11. CASE WriteMessage
  BY <1>11 DEF WriteMessage, Goto, cpuVars, listVars, pmuVars, eventVars, historyVars,
      Message
<1>12. CASE TriggerIpi
  BY <1>12 DEF TriggerIpi, Goto, cpuVars, listVars, pmuVars, eventVars
<1>13. CASE ReadReply
  <2>1. irqOff' \in BOOLEAN /\ pwrdnReq' \in BOOLEAN
    <3>1. irqOff \in BOOLEAN /\ pwrdnReq \in BOOLEAN
      OBVIOUS
    <3>. QED BY <1>13, <3>1, Zenon DEF ReadReply, cpuVars
  <2>2. /\ pc' \in {"add", "idle"} /\ suspending' \in BOOLEAN /\ taken' = reply.id
        /\ UNCHANGED <<op, subject, calls, sent, answered>>
    BY <1>13 DEF ReadReply, AfterReply
  <2>3. UNCHANGED <<listVars, channelVars, pmuVars, eventVars>>
    BY <1>13 DEF ReadReply
  <2>. QED BY <2>1, <2>2, <2>3 DEF listVars, channelVars, pmuVars, eventVars
<1>14. CASE AddNotifier
  BY <1>14 DEF AddNotifier, NotifierAdd, Goto, cpuVars, channelVars, pmuVars, eventVars,
      historyVars
<1>15. CASE SuspendFinalize
  BY <1>15 DEF SuspendFinalize, Goto, cpuVars, listVars, channelVars, pmuVars, eventVars,
      historyVars
<1>16. CASE WfiExit
  BY <1>16 DEF WfiExit, Goto, cpuVars, listVars, channelVars, pmuVars, eventVars,
      historyVars
<1>17. CASE NotifierProcessEvent
  <2>1. received' \in [Notifiers -> Nat]
    BY <1>17, PlacesAreFew DEF NotifierProcessEvent
  <2>2. /\ event' = Null
        /\ UNCHANGED <<programVars, cpuVars, head, next, listed, channelVars, pmuVars, events,
                       historyVars>>
    BY <1>17 DEF NotifierProcessEvent
  <2>. QED BY <2>1, <2>2 DEF programVars, cpuVars, channelVars, pmuVars, historyVars
<1>18. CASE PmuTake
  BY <1>18 DEF PmuTake, programVars, cpuVars, listVars, channelVars, eventVars, historyVars
<1>19. CASE PmuAnswer
  <2>1. PICK ok \in BOOLEAN :
          /\ reply' = [id |-> pmu.id, ok |-> ok]
          /\ registered' = IF ~ok THEN registered
                           ELSE CASE pmu.op = "register" -> registered \cup {pmu.pair}
                                  [] pmu.op = "unregister" -> registered \ {pmu.pair}
                                  [] OTHER -> registered
          /\ powerDown' = IF ~ok THEN powerDown
                          ELSE CASE pmu.op = "selfSuspend" -> TRUE
                                 [] pmu.op = "abortSuspend" -> FALSE
                                 [] OTHER -> powerDown
    BY <1>19 DEF PmuAnswer
  <2>2. powerDown' \in BOOLEAN
    <3>1. CASE ok /\ pmu.op = "selfSuspend"
      BY <2>1, <3>1, Zenon
    <3>2. CASE ok /\ pmu.op = "abortSuspend"
      BY <2>1, <3>2, Zenon
    <3>3. CASE ~ok \/ pmu.op \notin {"selfSuspend", "abortSuspend"}
      BY <2>1, <3>3
    <3>. QED BY <3>1, <3>2, <3>3
  <2>3. reply' \in [id: Nat, ok: BOOLEAN]
    BY <2>1
  <2>4. registered' \subseteq Pairs
    BY <2>1 DEF ChannelOK
  <2>5. obs' \in BOOLEAN
    BY <1>19, Zenon DEF PmuAnswer
  <2>6. answered' = pmu.id /\ pmu' = Idle
        /\ UNCHANGED <<programVars, cpuVars, listVars, request, eventVars, sent, taken>>
    BY <1>19 DEF PmuAnswer
  <2>. QED BY <2>2, <2>3, <2>4, <2>5, <2>6 DEF programVars, cpuVars, listVars, eventVars
<1>20. CASE PmuNotify
  BY <1>20 DEF PmuNotify, programVars, cpuVars, listVars, channelVars, pmuVars, historyVars
<1>21. CASE PmuPowerDown
  BY <1>21 DEF PmuPowerDown, Goto, cpuVars, listVars, channelVars, pmuVars, eventVars,
      historyVars
<1>22. CASE PmuWake
  <2>1. suspending' \in BOOLEAN /\ powerDown' \in BOOLEAN
    BY <1>22, Zenon DEF PmuWake
  <2>2. /\ pc' = "boot" /\ head' = Null /\ listed' = {}
        /\ next' = [n \in Notifiers |-> Null] /\ received' = [n \in Notifiers |-> 0]
        /\ UNCHANGED <<op, subject, calls, cpuVars, channelVars, pmu, registered, eventVars,
                       historyVars>>
    BY <1>22 DEF PmuWake
  <2>. QED BY <2>1, <2>2 DEF cpuVars, channelVars, eventVars, historyVars
<1>23. CASE UNCHANGED vars
  BY <1>23 DEF vars, programVars, cpuVars, listVars, channelVars, pmuVars, eventVars,
      historyVars
<1>. QED
  BY <1>1, <1>2, <1>3, <1>4, <1>5, <1>6, <1>7, <1>8, <1>9, <1>10, <1>11, <1>12, <1>13,
    <1>14, <1>15, <1>16, <1>17, <1>18, <1>19, <1>20, <1>21, <1>22, <1>23
  DEF Next, BeginCall, CallStep

(* Registrations and removals name a pair. *)
LEMMA MessagesNext ==
  ASSUME PmTypeOK, MessageOK, ChannelOK, [Next]_vars
  PROVE  MessageOK'
<1>. USE NotifiersAssumption DEF MessageOK, OnPair
<1>1. CASE Boot
  BY <1>1 DEF Boot, Goto, listVars, channelVars, pmuVars, eventVars, historyVars
<1>2. CASE BeginRequest
  BY <1>2 DEF BeginRequest, Begin, cpuVars, listVars, channelVars, pmuVars, eventVars,
      historyVars
<1>3. CASE BeginWakeUp
  BY <1>3 DEF BeginWakeUp, Begin, WakeUpPlace, cpuVars, listVars, channelVars, pmuVars,
      eventVars, historyVars
<1>4. CASE BeginSelfSuspend
  BY <1>4 DEF BeginSelfSuspend, Begin, ClientSuspend, listVars, channelVars, pmuVars,
      eventVars, historyVars
<1>5. CASE BeginAbortSuspend
  BY <1>5 DEF BeginAbortSuspend, Begin, cpuVars, listVars, channelVars, pmuVars, eventVars,
      historyVars
<1>6. CASE BeginRegister
  BY <1>6 DEF BeginRegister, Begin, cpuVars, listVars, channelVars, pmuVars, eventVars,
      historyVars, PmTypeOK
<1>7. CASE BeginUnregister
  BY <1>7 DEF BeginUnregister, Begin, NotifierRemove, cpuVars, channelVars, pmuVars,
      eventVars, historyVars, PmTypeOK
<1>8. CASE BeginSuspendFinalize
  BY <1>8 DEF BeginSuspendFinalize, Goto, cpuVars, listVars, channelVars, pmuVars,
      eventVars, historyVars
<1>9. CASE PollTimesOut
  BY <1>9 DEF PollTimesOut, Goto, cpuVars, listVars, channelVars, pmuVars, eventVars,
      historyVars
<1>10. CASE SendPolled
  BY <1>10 DEF SendPolled, Goto, cpuVars, listVars, channelVars, pmuVars, eventVars,
      historyVars
<1>11. CASE WriteMessage
  BY <1>11 DEF WriteMessage, Goto, cpuVars, listVars, pmuVars, eventVars, historyVars,
      Message, PmTypeOK
<1>12. CASE TriggerIpi
  BY <1>12 DEF TriggerIpi, Goto, cpuVars, listVars, pmuVars, eventVars
<1>13. CASE ReadReply
  BY <1>13 DEF ReadReply, AfterReply, listVars, channelVars, pmuVars, eventVars
<1>14. CASE AddNotifier
  BY <1>14 DEF AddNotifier, NotifierAdd, Goto, cpuVars, channelVars, pmuVars, eventVars,
      historyVars
<1>15. CASE SuspendFinalize
  BY <1>15 DEF SuspendFinalize, Goto, cpuVars, listVars, channelVars, pmuVars, eventVars,
      historyVars
<1>16. CASE WfiExit
  BY <1>16 DEF WfiExit, Goto, cpuVars, listVars, channelVars, pmuVars, eventVars,
      historyVars
<1>17. CASE NotifierProcessEvent
  BY <1>17 DEF NotifierProcessEvent, programVars, cpuVars, channelVars, historyVars
<1>18. CASE PmuTake
  BY <1>18 DEF PmuTake, programVars, cpuVars, listVars, channelVars, eventVars, historyVars
<1>19. CASE PmuAnswer
  BY <1>19 DEF PmuAnswer, programVars, cpuVars, listVars, eventVars
<1>20. CASE PmuNotify
  BY <1>20 DEF PmuNotify, programVars, cpuVars, listVars, channelVars, pmuVars, historyVars
<1>21. CASE PmuPowerDown
  BY <1>21 DEF PmuPowerDown, Goto, cpuVars, listVars, channelVars, pmuVars, eventVars,
      historyVars
<1>22. CASE PmuWake
  BY <1>22 DEF PmuWake, cpuVars, channelVars, eventVars, historyVars
<1>23. CASE UNCHANGED vars
  BY <1>23 DEF vars, programVars, cpuVars, listVars, channelVars, pmuVars, eventVars,
      historyVars
<1>. QED
  BY <1>1, <1>2, <1>3, <1>4, <1>5, <1>6, <1>7, <1>8, <1>9, <1>10, <1>11, <1>12, <1>13,
    <1>14, <1>15, <1>16, <1>17, <1>18, <1>19, <1>20, <1>21, <1>22, <1>23
  DEF Next, BeginCall, CallStep

(* The request in the buffer stays there until it is acknowledged. *)
LEMMA ChannelNext ==
  ASSUME PmTypeOK, MessageOK, ChannelOK, NumbersOK, [Next]_vars
  PROVE  ChannelOK'
<1>. USE CallBounds DEF ChannelOK, Message
<1>1. CASE Boot
  BY <1>1 DEF Boot, Goto, listVars, channelVars, pmuVars, eventVars, historyVars
<1>2. CASE BeginRequest
  BY <1>2 DEF BeginRequest, Begin, cpuVars, listVars, channelVars, pmuVars, eventVars,
      historyVars
<1>3. CASE BeginWakeUp
  BY <1>3 DEF BeginWakeUp, Begin, WakeUpPlace, cpuVars, listVars, channelVars, pmuVars,
      eventVars, historyVars
<1>4. CASE BeginSelfSuspend
  BY <1>4 DEF BeginSelfSuspend, Begin, ClientSuspend, listVars, channelVars, pmuVars,
      eventVars, historyVars
<1>5. CASE BeginAbortSuspend
  BY <1>5 DEF BeginAbortSuspend, Begin, cpuVars, listVars, channelVars, pmuVars, eventVars,
      historyVars
<1>6. CASE BeginRegister
  BY <1>6 DEF BeginRegister, Begin, cpuVars, listVars, channelVars, pmuVars, eventVars,
      historyVars
<1>7. CASE BeginUnregister
  BY <1>7 DEF BeginUnregister, Begin, NotifierRemove, cpuVars, channelVars, pmuVars,
      eventVars, historyVars
<1>8. CASE BeginSuspendFinalize
  BY <1>8 DEF BeginSuspendFinalize, Goto, cpuVars, listVars, channelVars, pmuVars,
      eventVars, historyVars
<1>9. CASE PollTimesOut
  BY <1>9 DEF PollTimesOut, Goto, cpuVars, listVars, channelVars, pmuVars, eventVars,
      historyVars
<1>10. CASE SendPolled
  BY <1>10 DEF SendPolled, Goto, cpuVars, listVars, channelVars, pmuVars, eventVars,
      historyVars
<1>11. CASE WriteMessage
  BY <1>11 DEF WriteMessage, Goto, cpuVars, listVars, pmuVars, eventVars, historyVars
<1>12. CASE TriggerIpi
  BY <1>12 DEF TriggerIpi, Goto, cpuVars, listVars, pmuVars, eventVars, PmTypeOK
<1>13. CASE ReadReply
  BY <1>13 DEF ReadReply, AfterReply, listVars, channelVars, pmuVars, eventVars
<1>14. CASE AddNotifier
  BY <1>14 DEF AddNotifier, NotifierAdd, Goto, cpuVars, channelVars, pmuVars, eventVars,
      historyVars
<1>15. CASE SuspendFinalize
  BY <1>15 DEF SuspendFinalize, Goto, cpuVars, listVars, channelVars, pmuVars, eventVars,
      historyVars
<1>16. CASE WfiExit
  BY <1>16 DEF WfiExit, Goto, cpuVars, listVars, channelVars, pmuVars, eventVars,
      historyVars
<1>17. CASE NotifierProcessEvent
  <2>1. UNCHANGED <<programVars, channelVars, pmuVars, historyVars>>
    BY <1>17 DEF NotifierProcessEvent
  <2>. QED BY <2>1 DEF programVars, channelVars, pmuVars, historyVars
<1>18. CASE PmuTake
  BY <1>18 DEF PmuTake, programVars, cpuVars, listVars, channelVars, eventVars, historyVars
<1>19. CASE PmuAnswer
  BY <1>19 DEF PmuAnswer, programVars, cpuVars, listVars, eventVars, PmTypeOK
<1>20. CASE PmuNotify
  BY <1>20 DEF PmuNotify, programVars, cpuVars, listVars, channelVars, pmuVars, historyVars
<1>21. CASE PmuPowerDown
  BY <1>21 DEF PmuPowerDown, Goto, cpuVars, listVars, channelVars, pmuVars, eventVars,
      historyVars
<1>22. CASE PmuWake
  BY <1>22 DEF PmuWake, cpuVars, channelVars, eventVars, historyVars
<1>23. CASE UNCHANGED vars
  BY <1>23 DEF vars, programVars, cpuVars, listVars, channelVars, pmuVars, eventVars,
      historyVars
<1>. QED
  BY <1>1, <1>2, <1>3, <1>4, <1>5, <1>6, <1>7, <1>8, <1>9, <1>10, <1>11, <1>12, <1>13,
    <1>14, <1>15, <1>16, <1>17, <1>18, <1>19, <1>20, <1>21, <1>22, <1>23
  DEF Next, BeginCall, CallStep

(* Requests are numbered in the order they are sent. *)
LEMMA NumbersNext ==
  ASSUME PmTypeOK, MessageOK, ChannelOK, NumbersOK, [Next]_vars
  PROVE  NumbersOK'
<1>. USE CallBounds DEF NumbersOK, ChannelOK, PmTypeOK, Message, Ops, Idle
<1>1. CASE Boot
  BY <1>1 DEF Boot, Goto, listVars, channelVars, pmuVars, eventVars, historyVars
<1>2. CASE BeginRequest
  BY <1>2 DEF BeginRequest, Begin, cpuVars, listVars, channelVars, pmuVars, eventVars,
      historyVars
<1>3. CASE BeginWakeUp
  BY <1>3 DEF BeginWakeUp, Begin, WakeUpPlace, cpuVars, listVars, channelVars, pmuVars,
      eventVars, historyVars
<1>4. CASE BeginSelfSuspend
  BY <1>4 DEF BeginSelfSuspend, Begin, ClientSuspend, listVars, channelVars, pmuVars,
      eventVars, historyVars
<1>5. CASE BeginAbortSuspend
  BY <1>5 DEF BeginAbortSuspend, Begin, cpuVars, listVars, channelVars, pmuVars, eventVars,
      historyVars
<1>6. CASE BeginRegister
  BY <1>6 DEF BeginRegister, Begin, cpuVars, listVars, channelVars, pmuVars, eventVars,
      historyVars
<1>7. CASE BeginUnregister
  BY <1>7 DEF BeginUnregister, Begin, NotifierRemove, cpuVars, channelVars, pmuVars,
      eventVars, historyVars
<1>8. CASE BeginSuspendFinalize
  BY <1>8 DEF BeginSuspendFinalize, Goto, cpuVars, listVars, channelVars, pmuVars,
      eventVars, historyVars
<1>9. CASE PollTimesOut
  BY <1>9 DEF PollTimesOut, Goto, cpuVars, listVars, channelVars, pmuVars, eventVars,
      historyVars
<1>10. CASE SendPolled
  BY <1>10 DEF SendPolled, Goto, cpuVars, listVars, channelVars, pmuVars, eventVars,
      historyVars
<1>11. CASE WriteMessage
  BY <1>11 DEF WriteMessage, Goto, cpuVars, listVars, pmuVars, eventVars, historyVars
<1>12. CASE TriggerIpi
  BY <1>12 DEF TriggerIpi, Goto, cpuVars, listVars, pmuVars, eventVars
<1>13. CASE ReadReply
  BY <1>13 DEF ReadReply, AfterReply, listVars, channelVars, pmuVars, eventVars
<1>14. CASE AddNotifier
  BY <1>14 DEF AddNotifier, NotifierAdd, Goto, cpuVars, channelVars, pmuVars, eventVars,
      historyVars
<1>15. CASE SuspendFinalize
  BY <1>15 DEF SuspendFinalize, Goto, cpuVars, listVars, channelVars, pmuVars, eventVars,
      historyVars
<1>16. CASE WfiExit
  BY <1>16 DEF WfiExit, Goto, cpuVars, listVars, channelVars, pmuVars, eventVars,
      historyVars
<1>17. CASE NotifierProcessEvent
  <2>1. UNCHANGED <<programVars, channelVars, pmuVars, historyVars>>
    BY <1>17 DEF NotifierProcessEvent
  <2>. QED BY <2>1 DEF programVars, channelVars, pmuVars, historyVars
<1>18. CASE PmuTake
  BY <1>18 DEF PmuTake, programVars, cpuVars, listVars, channelVars, eventVars, historyVars
<1>19. CASE PmuAnswer
  BY <1>19 DEF PmuAnswer, programVars, cpuVars, listVars, eventVars
<1>20. CASE PmuNotify
  BY <1>20 DEF PmuNotify, programVars, cpuVars, listVars, channelVars, pmuVars, historyVars
<1>21. CASE PmuPowerDown
  BY <1>21 DEF PmuPowerDown, Goto, cpuVars, listVars, channelVars, pmuVars, eventVars,
      historyVars
<1>22. CASE PmuWake
  BY <1>22 DEF PmuWake, cpuVars, channelVars, eventVars, historyVars
<1>23. CASE UNCHANGED vars
  BY <1>23 DEF vars, programVars, cpuVars, listVars, channelVars, pmuVars, eventVars,
      historyVars
<1>. QED
  BY <1>1, <1>2, <1>3, <1>4, <1>5, <1>6, <1>7, <1>8, <1>9, <1>10, <1>11, <1>12, <1>13,
    <1>14, <1>15, <1>16, <1>17, <1>18, <1>19, <1>20, <1>21, <1>22, <1>23
  DEF Next, BeginCall, CallStep

(* Only what the PMU agreed to puts the processor to sleep. *)
LEMMA SuspendNext ==
  ASSUME PmTypeOK, MessageOK, ChannelOK, SuspendOK, [Next]_vars
  PROVE  SuspendOK'
<1>. USE DEF SuspendOK, ChannelOK, Message
<1>1. CASE Boot
  BY <1>1 DEF Boot, Goto, listVars, channelVars, pmuVars, eventVars, historyVars
<1>2. CASE BeginRequest
  <2>1. PICK o \in {"request", "noAck"} : Begin(o, Null, "send")
    BY <1>2 DEF BeginRequest
  <2>2. suspending' => suspending
    BY <2>1, Zenon DEF Begin
  <2>3. /\ pc' = "send" /\ op' \in {"request", "noAck"}
        /\ UNCHANGED <<cpuVars, channelVars, pmuVars>>
    BY <1>2, <2>1 DEF BeginRequest, Begin
  <2>. QED BY <2>2, <2>3 DEF cpuVars, channelVars, pmuVars
<1>3. CASE BeginWakeUp
  <2>1. PICK t \in WakeTargets, o \in {"request", "noAck"} :
          Begin(o, Null, WakeUpPlace(t))
    BY <1>3 DEF BeginWakeUp
  <2>2. suspending' => suspending
    BY <2>1, Zenon DEF Begin
  <2>3. /\ pc' \in {"send", "fault"} /\ op' \in {"request", "noAck"}
        /\ UNCHANGED <<cpuVars, channelVars, pmuVars>>
    BY <1>3, <2>1 DEF BeginWakeUp, Begin, WakeUpPlace
  <2>. QED BY <2>2, <2>3 DEF cpuVars, channelVars, pmuVars
<1>4. CASE BeginSelfSuspend
  BY <1>4 DEF BeginSelfSuspend, Begin, ClientSuspend, listVars, channelVars, pmuVars,
      eventVars, historyVars
<1>5. CASE BeginAbortSuspend
  BY <1>5 DEF BeginAbortSuspend, Begin, cpuVars, listVars, channelVars, pmuVars, eventVars,
      historyVars
<1>6. CASE BeginRegister
  <2>1. PICK n \in Notifiers \ listed : Begin("register", n, "send")
    BY <1>6 DEF BeginRegister
  <2>2. suspending' => suspending
    BY <2>1, Zenon DEF Begin
  <2>3. /\ pc' = "send" /\ op' \in {"register"}
        /\ UNCHANGED <<cpuVars, channelVars, pmuVars>>
    BY <1>6, <2>1 DEF BeginRegister, Begin
  <2>. QED BY <2>2, <2>3 DEF cpuVars, channelVars, pmuVars
<1>7. CASE BeginUnregister
  <2>1. PICK n \in listed : Begin("unregister", n, "send")
    BY <1>7 DEF BeginUnregister
  <2>2. suspending' => suspending
    BY <2>1, Zenon DEF Begin
  <2>3. /\ pc' = "send" /\ op' \in {"unregister"}
        /\ UNCHANGED <<cpuVars, channelVars, pmuVars>>
    BY <1>7, <2>1 DEF BeginUnregister, Begin
  <2>. QED BY <2>2, <2>3 DEF cpuVars, channelVars, pmuVars
<1>8. CASE BeginSuspendFinalize
  BY <1>8 DEF BeginSuspendFinalize, Goto, cpuVars, listVars, channelVars, pmuVars,
      eventVars, historyVars
<1>9. CASE PollTimesOut
  BY <1>9 DEF PollTimesOut, Goto, cpuVars, listVars, channelVars, pmuVars, eventVars,
      historyVars
<1>10. CASE SendPolled
  BY <1>10 DEF SendPolled, Goto, cpuVars, listVars, channelVars, pmuVars, eventVars,
      historyVars
<1>11. CASE WriteMessage
  BY <1>11 DEF WriteMessage, Goto, cpuVars, listVars, pmuVars, eventVars, historyVars
<1>12. CASE TriggerIpi
  BY <1>12 DEF TriggerIpi, Goto, cpuVars, listVars, pmuVars, eventVars
<1>13. CASE ReadReply
  <2>1. /\ pc = "read" /\ ~obs /\ pc' \in {"idle", "add"} /\ op' = op
        /\ UNCHANGED <<channelVars, pmuVars>>
    BY <1>13 DEF ReadReply, AfterReply
  <2>2. CASE op = "abortSuspend"
    <3>1. ~suspending'
      BY <1>13, <2>1, <2>2 DEF ReadReply
    <3>. QED BY <2>1, <3>1
  <2>3. CASE op = "selfSuspend" /\ reply.ok
    <3>1. UNCHANGED cpuVars
      BY <1>13, <2>3 DEF ReadReply
    <3>. QED BY <2>1, <2>3, <3>1 DEF cpuVars, channelVars, pmuVars
  <2>4. CASE op # "abortSuspend" /\ ~(op = "selfSuspend" /\ reply.ok)
    <3>1. UNCHANGED cpuVars
      BY <1>13, <2>4 DEF ReadReply
    <3>2. suspending' => suspending
      BY <1>13, <2>4, Zenon DEF ReadReply
    <3>. QED BY <2>1, <3>1, <3>2 DEF cpuVars, channelVars, pmuVars
  <2>. QED BY <2>2, <2>3, <2>4
<1>14. CASE AddNotifier
  BY <1>14 DEF AddNotifier, NotifierAdd, Goto, cpuVars, channelVars, pmuVars, eventVars,
      historyVars
<1>15. CASE SuspendFinalize
  BY <1>15 DEF SuspendFinalize, Goto, cpuVars, listVars, channelVars, pmuVars, eventVars,
      historyVars
<1>16. CASE WfiExit
  BY <1>16 DEF WfiExit, Goto, cpuVars, listVars, channelVars, pmuVars, eventVars,
      historyVars
<1>17. CASE NotifierProcessEvent
  BY <1>17 DEF NotifierProcessEvent, programVars, cpuVars, channelVars, historyVars
<1>18. CASE PmuTake
  BY <1>18 DEF PmuTake, programVars, cpuVars, listVars, channelVars, eventVars, historyVars
<1>19. CASE PmuAnswer
  BY <1>19 DEF PmuAnswer, programVars, cpuVars, listVars, eventVars
<1>20. CASE PmuNotify
  BY <1>20 DEF PmuNotify, programVars, cpuVars, listVars, channelVars, pmuVars, historyVars
<1>21. CASE PmuPowerDown
  BY <1>21 DEF PmuPowerDown, Goto, cpuVars, listVars, channelVars, pmuVars, eventVars,
      historyVars
<1>22. CASE PmuWake
  BY <1>22 DEF PmuWake, cpuVars, channelVars, eventVars, historyVars
<1>23. CASE UNCHANGED vars
  BY <1>23 DEF vars, programVars, cpuVars, listVars, channelVars, pmuVars, eventVars,
      historyVars
<1>. QED
  BY <1>1, <1>2, <1>3, <1>4, <1>5, <1>6, <1>7, <1>8, <1>9, <1>10, <1>11, <1>12, <1>13,
    <1>14, <1>15, <1>16, <1>17, <1>18, <1>19, <1>20, <1>21, <1>22, <1>23
  DEF Next, BeginCall, CallStep

(* With a pair for each notifier, the list follows the PMU. *)
LEMMA ListNext ==
  ASSUME \A m, n \in Notifiers : PairOf[m] = PairOf[n] => m = n,
         PmTypeOK, MessageOK, ChannelOK, ListOK, [Next]_vars
  PROVE  ListOK'
<1>. USE DEF ListOK, ListedAreRegistered, ChannelOK, MessageOK, Message, OnPair
<1>1. CASE Boot
  BY <1>1 DEF Boot, Goto, listVars, channelVars, pmuVars, eventVars, historyVars
<1>2. CASE BeginRequest
  BY <1>2 DEF BeginRequest, Begin, cpuVars, listVars, channelVars, pmuVars, eventVars,
      historyVars
<1>3. CASE BeginWakeUp
  BY <1>3 DEF BeginWakeUp, Begin, WakeUpPlace, cpuVars, listVars, channelVars, pmuVars,
      eventVars, historyVars
<1>4. CASE BeginSelfSuspend
  BY <1>4 DEF BeginSelfSuspend, Begin, ClientSuspend, listVars, channelVars, pmuVars,
      eventVars, historyVars
<1>5. CASE BeginAbortSuspend
  BY <1>5 DEF BeginAbortSuspend, Begin, cpuVars, listVars, channelVars, pmuVars, eventVars,
      historyVars
<1>6. CASE BeginRegister
  BY <1>6 DEF BeginRegister, Begin, cpuVars, listVars, channelVars, pmuVars, eventVars,
      historyVars
<1>7. CASE BeginUnregister
  <2>1. PICK n \in listed : Begin("unregister", n, "send") /\ NotifierRemove(n)
    BY <1>7 DEF BeginUnregister
  <2>2. /\ pc' = "send" /\ op' = "unregister" /\ subject' = n /\ listed' = listed \ {n}
        /\ UNCHANGED <<channelVars, pmuVars>>
    BY <2>1 DEF Begin, NotifierRemove
  <2>3. \A m \in listed' : PairOf[m] # PairOf[n]
    BY <2>2 DEF PmTypeOK
  <2>. QED BY <2>2, <2>3 DEF channelVars, pmuVars
<1>8. CASE BeginSuspendFinalize
  BY <1>8 DEF BeginSuspendFinalize, Goto, cpuVars, listVars, channelVars, pmuVars,
      eventVars, historyVars
<1>9. CASE PollTimesOut
  BY <1>9 DEF PollTimesOut, Goto, cpuVars, listVars, channelVars, pmuVars, eventVars,
      historyVars
<1>10. CASE SendPolled
  BY <1>10 DEF SendPolled, Goto, cpuVars, listVars, channelVars, pmuVars, eventVars,
      historyVars
<1>11. CASE WriteMessage
  BY <1>11 DEF WriteMessage, Goto, cpuVars, listVars, pmuVars, eventVars, historyVars
<1>12. CASE TriggerIpi
  <2>1. /\ pc = "trigger" /\ pc' \in {"idle", "read"} /\ obs' = TRUE
        /\ UNCHANGED <<op, subject, listVars, request, reply, pmuVars>>
    BY <1>12 DEF TriggerIpi, Goto
  <2>2. request.op = op /\ (op = "unregister" => request.pair = PairOf[subject])
    BY <2>1, NotifiersAssumption
  <2>. QED BY <2>1, <2>2 DEF listVars, pmuVars
<1>13. CASE ReadReply
  BY <1>13 DEF ReadReply, AfterReply, listVars, channelVars, pmuVars, eventVars
<1>14. CASE AddNotifier
  BY <1>14 DEF AddNotifier, NotifierAdd, Goto, cpuVars, channelVars, pmuVars, eventVars,
      historyVars
<1>15. CASE SuspendFinalize
  BY <1>15 DEF SuspendFinalize, Goto, cpuVars, listVars, channelVars, pmuVars, eventVars,
      historyVars
<1>16. CASE WfiExit
  BY <1>16 DEF WfiExit, Goto, cpuVars, listVars, channelVars, pmuVars, eventVars,
      historyVars
<1>17. CASE NotifierProcessEvent
  <2>1. UNCHANGED <<programVars, listed, channelVars, registered>>
    BY <1>17 DEF NotifierProcessEvent, pmuVars
  <2>. QED BY <2>1 DEF programVars, channelVars
<1>18. CASE PmuTake
  BY <1>18 DEF PmuTake, programVars, cpuVars, listVars, channelVars, eventVars, historyVars
<1>19. CASE PmuAnswer
  <2>1. PICK ok \in BOOLEAN :
          /\ reply' = [id |-> pmu.id, ok |-> ok]
          /\ registered' = IF ~ok THEN registered
                           ELSE CASE pmu.op = "register" -> registered \cup {pmu.pair}
                                  [] pmu.op = "unregister" -> registered \ {pmu.pair}
                                  [] OTHER -> registered
    BY <1>19 DEF PmuAnswer
  <2>2. obs /\ pmu = request /\ UNCHANGED <<programVars, listed, request>> /\ ~obs'
    BY <1>19 DEF PmuAnswer, listVars
  <2>3. ListedAreRegistered'
    BY <2>1, <2>2
  <2>4. pc' \notin {"write", "trigger", "add", "link"}
    BY <2>2 DEF programVars
  <2>5. pc = "read" /\ op = "register" /\ ok => PairOf[subject] \in registered'
    BY <2>1, <2>2, NotifiersAssumption
  <2>6. reply'.ok = ok
    BY <2>1
  <2>. QED BY <2>2, <2>3, <2>4, <2>5, <2>6 DEF programVars
<1>20. CASE PmuNotify
  BY <1>20 DEF PmuNotify, programVars, cpuVars, listVars, channelVars, pmuVars, historyVars
<1>21. CASE PmuPowerDown
  BY <1>21 DEF PmuPowerDown, Goto, cpuVars, listVars, channelVars, pmuVars, eventVars,
      historyVars
<1>22. CASE PmuWake
  BY <1>22 DEF PmuWake, cpuVars, channelVars, eventVars, historyVars
<1>23. CASE UNCHANGED vars
  BY <1>23 DEF vars, programVars, cpuVars, listVars, channelVars, pmuVars, eventVars,
      historyVars
<1>. QED
  BY <1>1, <1>2, <1>3, <1>4, <1>5, <1>6, <1>7, <1>8, <1>9, <1>10, <1>11, <1>12, <1>13,
    <1>14, <1>15, <1>16, <1>17, <1>18, <1>19, <1>20, <1>21, <1>22, <1>23
  DEF Next, BeginCall, CallStep
-----------------------------------------------------------------------------
(* The list of notifiers. *)

(* The list is a path of m links through all its members, each at one place,
   with Null behind the last. *)
IsPath(path, m, first, links, members) ==
  /\ path \in [0..m -> Notifiers \cup {Null}]
  /\ path[0] = first /\ path[m] = Null
  /\ \A i \in 0..m - 1 : path[i] \in members /\ path[i + 1] = links[path[i]]
  /\ \A n \in members : \E i \in 0..m - 1 : path[i] = n
  /\ \A i, j \in 0..m : path[i] = path[j] => i = j

(* A notifier about to be added is not in the list, and its own link is made
   before the head points at it. *)
LinksOK ==
  /\ \E path : IsPath(path, Cardinality(listed), head, next, listed)
  /\ op = "register" /\ pc \in {"send", "write", "trigger", "read", "add", "link"} =>
       subject \notin listed
  /\ pc = "link" => next[subject] = head

(* A set of numbers has a least one. *)
LEMMA LeastNatural ==
  ASSUME NEW S, S \subseteq Nat, S # {}
  PROVE  \E m \in S : \A n \in S : m <= n
<1>. DEFINE R == OpToRel(<, Nat)
<1>1. IsWellFoundedOn(R, Nat)
  BY NatLessThanWellFounded, Zenon
<1>. HIDE DEF R
<1>2. PICK m \in S : \A n \in S : ~ (<<n, m>> \in R)
  BY <1>1, WFMin
<1>3. \A n, k \in Nat : n < k => <<n, k>> \in R
  BY DEF R, OpToRel
<1>4. \A n \in S : ~ (n < m)
  BY <1>2, <1>3, Zenon
<1>. QED BY <1>4

(* What Walk follows in a list of m members, Null past its end. *)
Followed(path, m, k) == IF k <= m THEN path[k] ELSE Null

Step(f, k) == IF k = 0 THEN head ELSE IF f[k - 1] = Null THEN Null ELSE next[f[k - 1]]

(* The recursion of Walk has a solution: the path itself. *)
LEMMA WalkSteps ==
  ASSUME NEW m \in 0..Cardinality(Notifiers), NEW path, IsPath(path, m, head, next, listed),
         listed \subseteq Notifiers
  PROVE  \A k \in 0..Cardinality(Notifiers) : Walk[k] = Step(Walk, k)
<1>. DEFINE N == Cardinality(Notifiers)
            f == [k \in 0..N |-> Followed(path, m, k)]
<1>1. N \in Nat /\ m \in Nat /\ Null \notin listed
  BY NotifiersAssumption, FS_CardinalityType
<1>2. \A k \in 0..N : f[k] = Step(f, k)
  <2>. SUFFICES ASSUME NEW k \in 0..N PROVE Followed(path, m, k) = Step(f, k)
    OBVIOUS
  <2>1. CASE k = 0
    BY <1>1, <2>1 DEF Followed, Step, IsPath
  <2>2. CASE k # 0
    <3>1. k - 1 \in 0..N /\ f[k - 1] = Followed(path, m, k - 1)
      BY <1>1, <2>2
    <3>2. CASE k <= m
      <4>1. k - 1 \in 0..m - 1 /\ k - 1 + 1 = k /\ k - 1 <= m
        BY <1>1, <2>2, <3>2
      <4>2. path[k - 1] # Null /\ path[k] = next[path[k - 1]]
        BY <1>1, <4>1 DEF IsPath
      <4>3. f[k - 1] = path[k - 1] /\ Followed(path, m, k) = path[k]
        BY <3>1, <3>2, <4>1 DEF Followed
      <4>. QED BY <2>2, <4>2, <4>3, Zenon DEF Step
    <3>3. CASE ~ (k <= m)
      <4>1. f[k - 1] = Null
        <5>1. CASE k - 1 <= m
          <6>1. k - 1 = m
            BY <1>1, <3>3, <5>1
          <6>. QED BY <3>1, <5>1, <6>1 DEF Followed, IsPath
        <5>2. CASE ~ (k - 1 <= m)
          BY <3>1, <5>2 DEF Followed
        <5>. QED BY <5>1, <5>2
      <4>. QED BY <2>2, <3>3, <4>1, Zenon DEF Followed, Step
    <3>. QED BY <3>2, <3>3
  <2>. QED BY <2>1, <2>2
<1>. DEFINE Solves(g) == g = [k \in 0..N |-> Step(g, k)]
<1>3. Solves(f)
  <2>1. \A k \in 0..N : Followed(path, m, k) = Step(f, k)
    BY <1>2
  <2>. QED BY <2>1, Zenon
<1>. HIDE DEF f
<1>4. Walk = CHOOSE g : Solves(g)
  BY Zenon DEF Walk, Step
<1>5. Solves(Walk)
  BY <1>3, <1>4, Zenon
<1>. QED BY <1>5, Zenon

(* The walk is the path. *)
LEMMA WalkIsPath ==
  ASSUME NEW m \in 0..Cardinality(Notifiers), NEW path, IsPath(path, m, head, next, listed),
         listed \subseteq Notifiers
  PROVE  \A k \in 0..Cardinality(Notifiers) : Walk[k] = Followed(path, m, k)
<1>. DEFINE N == Cardinality(Notifiers)
            S == {k \in 0..N : Walk[k] # Followed(path, m, k)}
<1>. SUFFICES ASSUME S # {} PROVE FALSE
  OBVIOUS
<1>1. N \in Nat /\ m \in Nat /\ Null \notin listed
  BY NotifiersAssumption, FS_CardinalityType
<1>2. S \subseteq Nat
  BY <1>1
<1>3. PICK k \in S : \A j \in S : k <= j
  <2>. HIDE DEF S
  <2>. QED BY <1>2, LeastNatural
<1>4. k \in 0..N /\ Walk[k] # Followed(path, m, k) /\ Walk[k] = Step(Walk, k)
  BY <1>3, WalkSteps
<1>5. k # 0
  BY <1>1, <1>4 DEF Step, Followed, IsPath
<1>6. k - 1 \in 0..N /\ k - 1 + 1 = k /\ ~ (k <= k - 1)
  BY <1>1, <1>4, <1>5
<1>7. Walk[k - 1] = Followed(path, m, k - 1)
  BY <1>3, <1>6
<1>8. CASE k <= m
  <2>1. k - 1 \in 0..m - 1 /\ k - 1 <= m
    BY <1>1, <1>4, <1>5, <1>8
  <2>2. path[k - 1] # Null /\ path[k] = next[path[k - 1]]
    BY <1>1, <1>6, <2>1 DEF IsPath
  <2>. QED BY <1>4, <1>5, <1>7, <1>8, <2>1, <2>2, Zenon DEF Step, Followed
<1>9. CASE ~ (k <= m)
  <2>1. k - 1 = m \/ ~ (k - 1 <= m)
    BY <1>1, <1>4, <1>9
  <2>2. Walk[k - 1] = Null
    BY <1>1, <1>7, <2>1 DEF Followed, IsPath
  <2>. QED BY <1>4, <1>5, <1>9, <2>2, Zenon DEF Step, Followed
<1>. QED BY <1>8, <1>9

(* A listed notifier is at one place of the walk, any other at none. *)
LEMMA PlacesOfPath ==
  ASSUME NEW m \in 0..Cardinality(Notifiers), NEW path, IsPath(path, m, head, next, listed),
         listed \subseteq Notifiers, NEW n \in Notifiers
  PROVE  /\ n \notin listed => Places(n) = {}
         /\ \A i \in 0..m - 1 : path[i] = n => Places(n) = {i}
<1>1. Cardinality(Notifiers) \in Nat /\ m \in Nat /\ m <= Cardinality(Notifiers) /\ n # Null
  BY NotifiersAssumption, FS_CardinalityType
<1>2. \A k \in 0..Cardinality(Notifiers) : k \in Places(n) <=> Followed(path, m, k) = n
  BY WalkIsPath DEF Places
<1>3. Places(n) \subseteq 0..Cardinality(Notifiers)
  BY DEF Places
<1>4. \A k \in Places(n) : k \in 0..m - 1 /\ path[k] = n
  <2>. SUFFICES ASSUME NEW k \in Places(n) PROVE k \in 0..m - 1 /\ path[k] = n
    OBVIOUS
  <2>1. k \in Nat /\ Followed(path, m, k) = n
    BY <1>2, <1>3
  <2>2. k <= m /\ path[k] = n
    BY <1>1, <2>1 DEF Followed
  <2>3. k # m
    BY <1>1, <2>2 DEF IsPath
  <2>. QED BY <1>1, <2>1, <2>2, <2>3
<1>5. n \notin listed => Places(n) = {}
  BY <1>4 DEF IsPath
<1>6. ASSUME NEW i \in 0..m - 1, path[i] = n
      PROVE  Places(n) = {i}
  <2>1. i \in 0..Cardinality(Notifiers) /\ i <= m /\ i \in 0..m
    BY <1>1
  <2>2. i \in Places(n)
    BY <1>2, <1>6, <2>1 DEF Followed
  <2>3. \A k \in Places(n) : k = i
    <3>. SUFFICES ASSUME NEW k \in Places(n) PROVE k = i
      OBVIOUS
    <3>1. k \in 0..m /\ path[k] = path[i]
      BY <1>1, <1>4, <1>6
    <3>. QED BY <2>1, <3>1 DEF IsPath
  <2>. QED BY <2>2, <2>3
<1>. QED BY <1>5, <1>6

(* Assigning the link of an object outside the list changes no path. *)
LEMMA PathKept ==
  ASSUME NEW m \in Nat, NEW path, NEW first, NEW members \in SUBSET Notifiers,
         NEW links \in [Notifiers -> Notifiers \cup {Null}],
         IsPath(path, m, first, links, members),
         NEW n \in Notifiers \ members, NEW x
  PROVE  IsPath(path, m, first, [links EXCEPT ![n] = x], members)
<1>1. \A p \in members : [links EXCEPT ![n] = x][p] = links[p]
  OBVIOUS
<1>. QED BY <1>1, Zenon DEF IsPath

(* XPm_NotifierAdd: the new member is the first place of the path. *)
LEMMA PathAdded ==
  ASSUME NEW m \in Nat, NEW path, NEW first, NEW members \in SUBSET Notifiers,
         NEW links, IsPath(path, m, first, links, members),
         NEW n \in Notifiers \ members, links[n] = first
  PROVE  IsPath([i \in 0..m + 1 |-> IF i = 0 THEN n ELSE path[i - 1]],
                m + 1, n, links, members \cup {n})
<1>. DEFINE longer == [i \in 0..m + 1 |-> IF i = 0 THEN n ELSE path[i - 1]]
<1>1. n # Null /\ Null \notin members
  BY NotifiersAssumption
<1>2. longer[0] = n /\ \A i \in 0..m : longer[i + 1] = path[i]
  OBVIOUS
<1>3. longer \in [0..m + 1 -> Notifiers \cup {Null}]
  <2>1. \A i \in 1..m + 1 : path[i - 1] \in Notifiers \cup {Null}
    <3>1. \A i \in 1..m + 1 : i - 1 \in 0..m
      OBVIOUS
    <3>. QED BY <3>1 DEF IsPath
  <2>2. \A i \in 0..m + 1 : i # 0 => i \in 1..m + 1
    OBVIOUS
  <2>. QED BY <2>1, <2>2
<1>. HIDE DEF longer
<1>4. \A i \in 0..m + 1 : i = 0 \/ \E j \in 0..m : i = j + 1
  <2>1. \A i \in 0..m + 1 : i = 0 \/ (i - 1 \in 0..m /\ i = i - 1 + 1)
    OBVIOUS
  <2>. QED BY <2>1
<1>5. longer[m + 1] = Null
  BY <1>2 DEF IsPath
<1>6. ASSUME NEW i \in 0..m
      PROVE  longer[i] \in members \cup {n} /\ longer[i + 1] = links[longer[i]]
  <2>1. CASE i = 0
    BY <1>2, <2>1 DEF IsPath
  <2>2. CASE i # 0
    <3>1. PICK j \in 0..m - 1 : i = j + 1
      BY <1>4, <2>2
    <3>2. j \in 0..m /\ j + 1 \in 0..m
      BY <3>1
    <3>3. longer[i] = path[j] /\ longer[i + 1] = path[j + 1]
      BY <1>2, <3>1, <3>2
    <3>. QED BY <3>1, <3>3 DEF IsPath
  <2>. QED BY <2>1, <2>2
<1>7. ASSUME NEW p \in members \cup {n} PROVE \E i \in 0..m : longer[i] = p
  <2>1. CASE p = n
    BY <1>2, <2>1
  <2>2. CASE p # n
    <3>1. PICK j \in 0..m - 1 : path[j] = p
      BY <2>2 DEF IsPath
    <3>2. j + 1 \in 0..m /\ j \in 0..m
      BY <3>1
    <3>. QED BY <1>2, <3>1, <3>2
  <2>. QED BY <2>1, <2>2
<1>8. \A i \in 0..m : path[i] # n
  <2>1. \A i \in 0..m : i = m \/ i \in 0..m - 1
    OBVIOUS
  <2>. QED BY <1>1, <2>1 DEF IsPath
<1>9. ASSUME NEW i \in 0..m + 1, NEW j \in 0..m + 1, longer[i] = longer[j]
      PROVE  i = j
  <2>1. CASE i = 0 \/ j = 0
    BY <1>2, <1>4, <1>8, <1>9, <2>1
  <2>2. CASE i # 0 /\ j # 0
    <3>1. PICK a \in 0..m, b \in 0..m : i = a + 1 /\ j = b + 1
      BY <1>4, <2>2
    <3>2. path[a] = path[b]
      BY <1>2, <1>9, <3>1
    <3>. QED BY <3>1, <3>2 DEF IsPath
  <2>. QED BY <2>1, <2>2
<1>10. m + 1 - 1 = m
  OBVIOUS
<1>11. IsPath(longer, m + 1, n, links, members \cup {n})
  BY <1>2, <1>3, <1>5, <1>6, <1>7, <1>9, <1>10 DEF IsPath
<1>. QED BY <1>11 DEF longer

(* XPm_NotifierRemove: the link before the member, or the head, takes the
   member's own. *)
LEMMA PathRemoved ==
  ASSUME NEW m \in Nat, NEW path, NEW first, NEW members \in SUBSET Notifiers,
         NEW links \in [Notifiers -> Notifiers \cup {Null}],
         IsPath(path, m, first, links, members),
         NEW n \in members, NEW k \in 0..m - 1, path[k] = n
  PROVE  /\ k = 0 => \E p : IsPath(p, m - 1, links[n], links, members \ {n})
         /\ k # 0 => \E p : IsPath(p, m - 1, first, [links EXCEPT ![path[k - 1]] = links[n]],
                                  members \ {n})
<1>. SUFFICES ASSUME NEW head2, NEW links2,
                     k = 0 => head2 = links[n] /\ links2 = links,
                     k # 0 => /\ links2 = [links EXCEPT ![path[k - 1]] = links[n]]
                              /\ head2 = first
              PROVE  \E p : IsPath(p, m - 1, head2, links2, members \ {n})
  OBVIOUS
<1>. DEFINE shorter == [i \in 0..m - 1 |-> IF i < k THEN path[i] ELSE path[i + 1]]
<1>1. m - 1 \in Nat /\ k \in Nat /\ k <= m - 1 /\ Null \notin members
  BY NotifiersAssumption
<1>2. /\ \A i \in 0..m - 1 : i < k => shorter[i] = path[i]
      /\ \A i \in 0..m - 1 : ~ (i < k) => shorter[i] = path[i + 1]
  OBVIOUS
<1>3. shorter \in [0..m - 1 -> Notifiers \cup {Null}]
  <2>1. \A i \in 0..m - 1 : i \in 0..m /\ i + 1 \in 0..m
    BY <1>1
  <2>. QED BY <2>1 DEF IsPath
<1>. HIDE DEF shorter
<1>4. \A i, j \in 0..m : path[i] = path[j] => i = j
  BY DEF IsPath
<1>5. \A i \in 0..m - 1 : path[i] \in members /\ path[i + 1] = links[path[i]]
  BY DEF IsPath
<1>6. path[0] = first /\ path[m] = Null
  BY DEF IsPath
<1>7. \A i \in 0..m - 1 : i # k => path[i] # n
  <2>1. \A i \in 0..m - 1 : i \in 0..m
    BY <1>1
  <2>. QED BY <1>4, <2>1
<1>8. shorter[0] = head2
  <2>1. CASE k = 0
    BY <1>1, <1>2, <1>5, <2>1
  <2>2. CASE k # 0
    BY <1>1, <1>2, <1>6, <2>2
  <2>. QED BY <2>1, <2>2
<1>9. shorter[m - 1] = Null
  BY <1>1, <1>2, <1>6
<1>10. ASSUME NEW i \in 0..m - 1, i # k - 1
       PROVE  links2[path[i]] = links[path[i]]
  <2>1. CASE k = 0
    BY <2>1
  <2>2. CASE k # 0
    <3>1. k - 1 \in 0..m /\ i \in 0..m
      BY <1>1, <2>2
    <3>2. path[i] # path[k - 1]
      BY <1>4, <1>10, <3>1
    <3>3. path[i] \in Notifiers
      BY <1>5
    <3>. QED BY <2>2, <3>2, <3>3
  <2>. QED BY <2>1, <2>2
<1>11. ASSUME NEW i \in 0..m - 2
       PROVE  shorter[i] \in members \ {n} /\ shorter[i + 1] = links2[shorter[i]]
  <2>1. /\ i \in 0..m - 1 /\ i + 1 \in 0..m - 1 /\ i \in Nat
        /\ (i + 1) + 1 = i + 2
    BY <1>1
  <2>2. CASE i + 1 < k
    <3>1. i < k /\ i # k /\ i # k - 1
      BY <1>1, <2>1, <2>2
    <3>2. shorter[i] = path[i] /\ shorter[i + 1] = path[i + 1]
      BY <1>2, <2>1, <2>2, <3>1
    <3>. QED BY <1>5, <1>7, <1>10, <2>1, <3>1, <3>2
  <2>3. CASE i + 1 = k
    <3>1. i < k /\ i = k - 1 /\ k # 0 /\ ~ (i + 1 < k) /\ i # k
      BY <1>1, <2>1, <2>3
    <3>2. shorter[i] = path[i] /\ shorter[i + 1] = path[k + 1]
      BY <1>2, <2>1, <2>3, <3>1
    <3>3. path[k + 1] = links[n]
      BY <1>5
    <3>4. path[i] \in Notifiers /\ links2 = [links EXCEPT ![path[i]] = links[n]]
      BY <1>5, <2>1, <3>1
    <3>5. links2[path[i]] = links[n]
      BY <3>4
    <3>. QED BY <1>5, <1>7, <2>1, <3>1, <3>2, <3>3, <3>5
  <2>4. CASE ~ (i + 1 <= k)
    <3>1. ~ (i < k) /\ ~ (i + 1 < k) /\ i + 1 # k /\ i + 1 # k - 1
      BY <1>1, <2>1, <2>4
    <3>2. shorter[i] = path[i + 1] /\ shorter[i + 1] = path[(i + 1) + 1]
      BY <1>2, <2>1, <3>1
    <3>. QED BY <1>5, <1>7, <1>10, <2>1, <3>1, <3>2
  <2>5. i + 1 < k \/ i + 1 = k \/ ~ (i + 1 <= k)
    BY <1>1, <2>1
  <2>. QED BY <2>2, <2>3, <2>4, <2>5
<1>12. ASSUME NEW p \in members \ {n} PROVE \E i \in 0..m - 2 : shorter[i] = p
  <2>1. PICK j \in 0..m - 1 : path[j] = p
    BY DEF IsPath
  <2>2. CASE j < k
    <3>1. j \in 0..m - 2
      BY <1>1, <2>1, <2>2
    <3>. QED BY <1>2, <2>1, <2>2, <3>1
  <2>3. CASE ~ (j < k)
    <3>1. j # k
      BY <2>1
    <3>2. j - 1 \in 0..m - 2 /\ j - 1 \in 0..m - 1 /\ ~ (j - 1 < k) /\ (j - 1) + 1 = j
      BY <1>1, <2>1, <2>3, <3>1
    <3>. QED BY <1>2, <2>1, <3>2
  <2>. QED BY <2>2, <2>3
<1>13. ASSUME NEW i \in 0..m - 1, NEW j \in 0..m - 1, shorter[i] = shorter[j]
       PROVE  i = j
  <2>1. PICK a \in 0..m : shorter[i] = path[a] /\ (IF i < k THEN a = i ELSE a = i + 1)
    BY <1>1, <1>2
  <2>2. PICK b \in 0..m : shorter[j] = path[b] /\ (IF j < k THEN b = j ELSE b = j + 1)
    BY <1>1, <1>2
  <2>3. a = b
    BY <1>4, <1>13, <2>1, <2>2
  <2>. QED BY <1>1, <2>1, <2>2, <2>3
<1>14. m - 1 - 1 = m - 2
  BY <1>1
<1>15. IsPath(shorter, m - 1, head2, links2, members \ {n})
  BY <1>3, <1>8, <1>9, <1>11, <1>12, <1>13, <1>14 DEF IsPath
<1>. QED BY <1>15, Zenon

(* The number of the listed is within the reach of Walk. *)
LEMMA ListedAreFew ==
  ASSUME PmTypeOK
  PROVE  /\ IsFiniteSet(listed) /\ Cardinality(listed) \in 0..Cardinality(Notifiers)
         /\ Cardinality(listed) \in Nat
<1>1. listed \in SUBSET Notifiers
  BY DEF PmTypeOK
<1>2. IsFiniteSet(Notifiers) /\ Cardinality(Notifiers) \in Nat
  BY NotifiersAssumption, FS_CardinalityType
<1>. QED BY <1>1, <1>2, FS_Subset, FS_CardinalityType

LEMMA LinksNext ==
  ASSUME PmTypeOK, MessageOK, LinksOK, [Next]_vars
  PROVE  LinksOK'
<1>. DEFINE m == Cardinality(listed)
            Registering == op = "register" /\ pc \in {"send", "write", "trigger", "read", "add",
                                                       "link"}
<1>1. /\ m \in Nat /\ m \in 0..Cardinality(Notifiers) /\ IsFiniteSet(listed)
      /\ listed \in SUBSET Notifiers /\ next \in [Notifiers -> Notifiers \cup {Null}]
  BY ListedAreFew DEF PmTypeOK
<1>2. PICK path : IsPath(path, m, head, next, listed)
  BY DEF LinksOK
<1>3. CASE BeginRegister
  BY <1>3 DEF BeginRegister, Begin, listVars, LinksOK
<1>4. CASE BeginUnregister
  <2>1. PICK n \in listed : Begin("unregister", n, "send") /\ NotifierRemove(n)
    BY <1>4, Zenon DEF BeginUnregister
  <2>2. PICK k \in 0..m - 1 : path[k] = n
    BY <1>2 DEF IsPath
  <2>3. Places(n) = {k}
    BY <1>1, <1>2, <2>2, PlacesOfPath
  <2>4. /\ IF k = 0 THEN head' = next[n] /\ next' = next
           ELSE next' = [next EXCEPT ![Walk[k - 1]] = next[n]] /\ head' = head
        /\ listed' = listed \ {n}
    <3>1. (CHOOSE j \in Places(n) : TRUE) = k
      BY <2>3
    <3>. QED BY <2>1, <3>1, Zenon DEF NotifierRemove
  <2>5. k # 0 => Walk[k - 1] = path[k - 1]
    <3>1. k # 0 => k - 1 \in 0..Cardinality(Notifiers) /\ k - 1 <= m
      <4>1. m \in Nat /\ Cardinality(Notifiers) \in Nat /\ m <= Cardinality(Notifiers)
        BY <1>1, NotifiersAssumption, FS_CardinalityType
      <4>. HIDE DEF m
      <4>. QED BY <2>2, <4>1
    <3>. QED BY <1>1, <1>2, <3>1, WalkIsPath DEF Followed
  <2>6. IF k = 0 THEN head' = next[n] /\ next' = next
        ELSE next' = [next EXCEPT ![path[k - 1]] = next[n]] /\ head' = head
    BY <2>4, <2>5, Zenon
  <2>7. \E p : IsPath(p, m - 1, head', next', listed \ {n})
    <3>1. m \in Nat /\ listed \in SUBSET Notifiers
      BY <1>1
    <3>2. next \in [Notifiers -> Notifiers \cup {Null}]
      BY <1>1
    <3>3. /\ k = 0 => head' = next[n] /\ next' = next
          /\ k # 0 => next' = [next EXCEPT ![path[k - 1]] = next[n]] /\ head' = head
      BY <2>6, Zenon
    <3>. HIDE DEF m
    <3>4. /\ k = 0 => \E p : IsPath(p, m - 1, next[n], next, listed \ {n})
          /\ k # 0 => \E p : IsPath(p, m - 1, head, [next EXCEPT ![path[k - 1]] = next[n]],
                                   listed \ {n})
      BY <1>2, <2>2, <3>1, <3>2, PathRemoved
    <3>. QED BY <3>3, <3>4, Zenon
  <2>8. Cardinality(listed') = m - 1
    BY <1>1, <2>4, FS_RemoveElement
  <2>9. pc' = "send" /\ op' = "unregister"
    BY <2>1 DEF Begin
  <2>. QED BY <2>4, <2>7, <2>8, <2>9 DEF LinksOK
<1>5. CASE AddNotifier /\ pc = "add"
  <2>1. /\ next' = [next EXCEPT ![subject] = head] /\ pc' = "link"
        /\ UNCHANGED <<head, listed, op, subject>>
    BY <1>5 DEF AddNotifier, NotifierAdd, Goto
  <2>2. subject \in Notifiers \ listed
    BY <1>5 DEF MessageOK, OnPair, LinksOK
  <2>3. IsPath(path, m, head, next', listed)
    BY <1>1, <1>2, <2>1, <2>2, PathKept
  <2>4. next'[subject] = head
    BY <1>1, <2>1, <2>2
  <2>. QED BY <2>1, <2>2, <2>3, <2>4 DEF LinksOK
<1>6. CASE AddNotifier /\ pc = "link"
  <2>1. /\ head' = subject /\ listed' = listed \cup {subject} /\ next' = next /\ pc' = "idle"
    BY <1>6 DEF AddNotifier, NotifierAdd, Goto
  <2>2. subject \in Notifiers \ listed /\ next[subject] = head
    BY <1>6 DEF MessageOK, OnPair, LinksOK
  <2>3. \E p : IsPath(p, m + 1, subject, next, listed \cup {subject})
    BY <1>1, <1>2, <2>2, PathAdded
  <2>4. Cardinality(listed') = m + 1
    BY <1>1, <2>1, <2>2, FS_AddElement
  <2>. QED BY <2>1, <2>3, <2>4 DEF LinksOK
<1>7. CASE PmuWake
  <2>1. /\ head' = Null /\ listed' = {} /\ pc' = "boot"
    BY <1>7 DEF PmuWake
  <2>2. IsPath([i \in 0..0 |-> Null], 0, Null, next', {})
    <3>1. 0..0 = {0} /\ 0..0 - 1 = {}
      OBVIOUS
    <3>. QED BY <3>1 DEF IsPath
  <2>3. Cardinality(listed') = 0
    BY <2>1, FS_EmptySet
  <2>. QED BY <2>1, <2>2, <2>3 DEF LinksOK
<1>8. \/ BeginRegister \/ BeginUnregister \/ AddNotifier \/ PmuWake
      \/ /\ UNCHANGED <<head, next, listed>> /\ (Registering' => Registering)
         /\ (Registering' => subject' = subject)
         /\ pc' = "link" => pc = "link" /\ subject' = subject
  <2>1. CASE BeginCall
    BY <2>1 DEF BeginCall, BeginRequest, BeginWakeUp, WakeUpPlace, BeginSelfSuspend,
                BeginAbortSuspend, BeginSuspendFinalize, Begin, Goto, listVars
  <2>2. CASE CallStep
    BY <2>2 DEF CallStep, PollTimesOut, SendPolled, WriteMessage, TriggerIpi, ReadReply,
                AfterReply, SuspendFinalize, Goto, listVars
  <2>3. CASE Boot \/ WfiExit \/ PmuPowerDown
    BY <2>3 DEF Boot, WfiExit, PmuPowerDown, Goto, listVars
  <2>4. CASE NotifierProcessEvent \/ PmuTake \/ PmuAnswer \/ PmuNotify
    BY <2>4 DEF NotifierProcessEvent, PmuTake, PmuAnswer, PmuNotify, programVars, listVars
  <2>5. CASE UNCHANGED vars
    BY <2>5 DEF vars, programVars, listVars
  <2>. QED BY <2>1, <2>2, <2>3, <2>4, <2>5 DEF Next
<1>9. CASE /\ UNCHANGED <<head, next, listed>> /\ (Registering' => Registering)
           /\ (Registering' => subject' = subject)
           /\ pc' = "link" => pc = "link" /\ subject' = subject
  BY <1>9 DEF LinksOK
<1>10. AddNotifier => pc \in {"add", "link"}
  BY DEF AddNotifier, NotifierAdd
<1>. QED BY <1>3, <1>4, <1>5, <1>6, <1>7, <1>8, <1>9, <1>10

-----------------------------------------------------------------------------
LEMMA ChannelInvInit == Init => ChannelInv /\ SuspendOK /\ ListOK
<1>. SUFFICES ASSUME Init PROVE ChannelInv /\ SuspendOK /\ ListOK
  OBVIOUS
<1>. USE NotifiersAssumption, CallBounds DEF Init, Idle
<1>1. /\ suspending \in BOOLEAN /\ irqOff \in BOOLEAN /\ pwrdnReq \in BOOLEAN /\ obs \in BOOLEAN
      /\ powerDown \in BOOLEAN /\ reply \in [id: Nat, ok: BOOLEAN]
  BY Zenon
<1>2. PmTypeOK
  BY <1>1 DEF PmTypeOK, Ops, InCall
<1>3. MessageOK /\ ChannelOK /\ NumbersOK
  BY DEF MessageOK, ChannelOK, NumbersOK, OnPair
<1>4. SuspendOK /\ ListOK
  BY DEF SuspendOK, ListOK, ListedAreRegistered
<1>. QED BY <1>2, <1>3, <1>4 DEF ChannelInv

LEMMA ChannelInvNext == ChannelInv /\ [Next]_vars => ChannelInv'
BY TypesNext, MessagesNext, ChannelNext, NumbersNext DEF ChannelInv

LEMMA ChannelInvAlways == Spec => []ChannelInv
BY ChannelInvInit, ChannelInvNext, PTL DEF Spec

(* The variables of the library and of its channel keep their types, with calls
   that time out at any point and an interrupt at any point. *)
THEOREM PmTypes == Spec => []PmTypeOK
BY ChannelInvAlways, PTL DEF ChannelInv

(* XPm_SuspendFinalize reaches its wfi only after the PMU agreed to power the
   processor down, and no abort, late or not, takes that back meanwhile. *)
THEOREM SleepOnlyWhenExpected == Spec => []SleepIsExpected
<1>1. ChannelInv /\ SuspendOK /\ [Next]_vars => SuspendOK'
  BY SuspendNext DEF ChannelInv
<1>2. ChannelInv /\ SuspendOK => SleepIsExpected
  BY DEF ChannelInv, ChannelOK, SuspendOK, SleepIsExpected
<1>. QED BY ChannelInvInit, ChannelInvAlways, <1>1, <1>2, PTL DEF Spec

(* Where each notifier has a pair of its own, XPm_RegisterNotifier and
   XPm_UnregisterNotifier keep the list within what is registered, whatever the
   PMU refuses or answers too late. *)
THEOREM ListedStayRegistered ==
  ASSUME \A m, n \in Notifiers : PairOf[m] = PairOf[n] => m = n
  PROVE  Spec => []ListedAreRegistered
<1>1. ChannelInv /\ ListOK /\ [Next]_vars => ListOK'
  BY ListNext DEF ChannelInv
<1>2. ListOK => ListedAreRegistered
  BY DEF ListOK
<1>. QED BY ChannelInvInit, ChannelInvAlways, <1>1, <1>2, PTL DEF Spec

LEMMA LinksInit == Init => LinksOK
<1>. SUFFICES ASSUME Init PROVE LinksOK
  OBVIOUS
<1>1. Cardinality(listed) = 0 /\ listed = {} /\ head = Null /\ pc = "boot"
  BY FS_EmptySet DEF Init
<1>2. IsPath([i \in 0..0 |-> Null], 0, Null, next, {})
  <2>1. 0..0 = {0} /\ 0..0 - 1 = {}
    OBVIOUS
  <2>. QED BY <2>1 DEF IsPath
<1>. QED BY <1>1, <1>2 DEF LinksOK

(* XPm_NotifierProcessEvent walks a list that XPm_NotifierAdd and
   XPm_NotifierRemove keep whole at each of their assignments, so an interrupt
   between two of them still reaches each listed notifier of its pair once, and
   no other: for any number of notifiers, on pairs of their own or shared. *)
THEOREM EachListedHearsOnce == Spec => EachHearsOnce
<1>. DEFINE Heard ==
       event # Null /\ event' = Null =>
         \A n \in Notifiers :
           received'[n] = received[n] + IF n \in listed /\ PairOf[n] = event THEN 1 ELSE 0
<1>1. PmTypeOK /\ LinksOK /\ [Next]_vars => [Heard]_vars
  <2>. SUFFICES ASSUME PmTypeOK, LinksOK, Next, event # Null, event' = Null, NEW n \in Notifiers
                PROVE  received'[n] = received[n] + IF n \in listed /\ PairOf[n] = event
                                                    THEN 1 ELSE 0
    OBVIOUS
  <2>1. NotifierProcessEvent
    <3>1. CASE BeginCall
      BY <3>1 DEF BeginCall, BeginRequest, BeginWakeUp, BeginSelfSuspend, BeginAbortSuspend,
                  BeginRegister, BeginUnregister, BeginSuspendFinalize, Begin, eventVars
    <3>2. CASE CallStep
      BY <3>2 DEF CallStep, PollTimesOut, SendPolled, WriteMessage, TriggerIpi, ReadReply,
                  AddNotifier, SuspendFinalize, eventVars
    <3>3. CASE Boot \/ WfiExit \/ PmuTake \/ PmuAnswer \/ PmuNotify \/ PmuPowerDown \/ PmuWake
      BY <3>3 DEF Boot, WfiExit, PmuTake, PmuAnswer, PmuNotify, PmuPowerDown, PmuWake, eventVars
    <3>. QED BY <3>1, <3>2, <3>3 DEF Next
  <2>2. received'[n] = received[n] + IF PairOf[n] = event THEN Cardinality(Places(n)) ELSE 0
    BY <2>1 DEF NotifierProcessEvent
  <2>3. PICK path : IsPath(path, Cardinality(listed), head, next, listed)
    BY DEF LinksOK
  <2>4. Cardinality(listed) \in 0..Cardinality(Notifiers) /\ listed \subseteq Notifiers
    BY ListedAreFew DEF PmTypeOK
  <2>5. CASE n \in listed
    <3>1. PICK i \in 0..Cardinality(listed) - 1 : path[i] = n
      BY <2>3, <2>5 DEF IsPath
    <3>2. Places(n) = {i}
      BY <2>3, <2>4, <3>1, PlacesOfPath
    <3>3. Cardinality(Places(n)) = 1
      BY <3>2, FS_Singleton
    <3>. QED BY <2>2, <2>5, <3>3
  <2>6. CASE n \notin listed
    <3>1. Cardinality(Places(n)) = 0
      BY <2>3, <2>4, <2>6, PlacesOfPath, FS_EmptySet
    <3>. QED BY <2>2, <2>6, <3>1
  <2>. QED BY <2>5, <2>6
<1>2. PmTypeOK /\ MessageOK /\ LinksOK /\ [Next]_vars => LinksOK'
  BY LinksNext
<1>3. ChannelInv => PmTypeOK /\ MessageOK
  BY DEF ChannelInv
<1>4. Spec => [](PmTypeOK /\ LinksOK)
  BY LinksInit, ChannelInvAlways, <1>2, <1>3, PTL DEF Spec
<1>. QED BY <1>1, <1>4, PTL DEF Spec, EachHearsOnce
-----------------------------------------------------------------------------
(* Only three steps are visible to the caller of the remote call. *)
LEMMA ChannelStep ==
  ASSUME ChannelInv, [Next]_vars
  PROVE  [Channel!Next]_(Channel!vars)
<1>. USE DEF ChannelInv, NumbersOK, ChannelOK, PmTypeOK
<1>1. CASE TriggerIpi
  <2>1. /\ sent' = calls /\ UNCHANGED <<answered, taken>> /\ answered = sent /\ calls > sent
    BY <1>1 DEF TriggerIpi
  <2>. QED BY <2>1 DEF Channel!Next, Channel!Send
<1>2. CASE ReadReply
  <2>1. /\ taken' = reply.id /\ UNCHANGED <<sent, answered>> /\ answered = sent /\ taken < sent
    BY <1>2 DEF ReadReply
  <2>. QED BY <2>1 DEF Channel!Next, Channel!Take
<1>3. CASE PmuAnswer
  <2>1. /\ answered' = sent /\ UNCHANGED <<sent, taken>> /\ answered < sent
    BY <1>3 DEF PmuAnswer
  <2>. QED BY <2>1 DEF Channel!Next, Channel!Serve
<1>4. CASE UNCHANGED historyVars
  BY <1>4 DEF historyVars, Channel!vars
<1>5. TriggerIpi \/ ReadReply \/ PmuAnswer \/ UNCHANGED historyVars
  <2>1. CASE BeginCall
    BY <2>1 DEF BeginCall, BeginRequest, BeginWakeUp, BeginSelfSuspend, BeginAbortSuspend,
                BeginRegister, BeginUnregister, BeginSuspendFinalize, Begin
  <2>2. CASE CallStep
    BY <2>2 DEF CallStep, PollTimesOut, SendPolled, WriteMessage, AddNotifier, SuspendFinalize
  <2>3. CASE Boot \/ WfiExit \/ NotifierProcessEvent \/ PmuTake \/ PmuNotify \/ PmuPowerDown
             \/ PmuWake
    BY <2>3 DEF Boot, WfiExit, NotifierProcessEvent, PmuTake, PmuNotify, PmuPowerDown, PmuWake
  <2>4. CASE UNCHANGED vars
    BY <2>4 DEF vars
  <2>. QED BY <2>1, <2>2, <2>3, <2>4 DEF Next
<1>. QED BY <1>1, <1>2, <1>3, <1>4, <1>5

(* pm_ipi_send and pm_ipi_buff_read32 make the buffers and the observation bit a
   remote call, although any wait for the PMU may be given up. *)
THEOREM ChannelImplementation == Spec => ImplementsRemoteCall
<1>1. Init => Channel!Init
  BY DEF Init, Channel!Init
<1>. QED
  BY <1>1, ChannelStep, ChannelInvAlways, PTL DEF Spec, ImplementsRemoteCall, Channel!Spec
=============================================================================
