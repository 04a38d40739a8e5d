---------------------------- MODULE QspiTransfer ----------------------------
(****************************************************************************)
(* A polled transfer of the QSPI driver (XQspiPsu_PolledTransfer) with the  *)
(* controller it drives. The driver turns messages into entries of the      *)
(* generic FIFO, starts them, and polls a status register while the         *)
(* controller works through them: short messages through the FIFOs, long    *)
(* ones by DMA, the last bytes of an uneven one through the FIFO again. It  *)
(* acts on a status that may be out of date when it does.                   *)
(****************************************************************************)
EXTENDS Naturals, FiniteSets, Sequences, SequencesExt

CONSTANTS
  Transfers,     \* sequences of messages, as xfsbl_qspi.c builds them
  ExpStart,      \* the first power of two an entry stands for: 256 in the code
  TxFill,        \* bytes written to the TX FIFO at a time: 64 in the code
  TxWords,       \* words the TX FIFO holds
  RxWords,       \* words the RX FIFO holds
  MaxBuffer,     \* bound: places of the buffer
  MaxTransfers   \* bound: transfers of a behaviour

Message == [kind: {"TX", "DUMMY", "RX"}, count: Nat \ {0}]

(* The read comes last in every transfer of the boot loader, and has room. *)
ASSUME TransfersAssumption ==
  \A t \in Transfers :
    /\ t \in Seq(Message) /\ t # <<>>
    /\ \A i \in DOMAIN t : t[i].kind = "RX" => i = Len(t) /\ t[i].count <= MaxBuffer

ASSUME SizesAssumption ==
  /\ ExpStart \in Nat \ {0} /\ ExpStart % 4 = 0
  /\ MaxTransfers \in Nat /\ MaxBuffer \in Nat
  /\ TxFill \in Nat /\ TxFill > 0 /\ TxFill % 4 = 0
  /\ TxWords \in Nat \ {0} /\ RxWords \in Nat \ {0}

MinOf(a, b) == IF a < b THEN a ELSE b

Words(bytes) == (bytes + 3) \div 4

VARIABLES
  (* the transfer *)
  pc, transfer, transfers,
  index,          \* the message in work
  byteCount,      \* its ByteCount, which the driver changes
  rxPtr,          \* how far its RxBfrPtr has moved
  (* the driver's instance *)
  isBusy, readMode, isUnaligned, txLeft, rxLeft,
  status,         \* QspiPsuStatusReg, as it was read last
  (* the controller *)
  genFifo,        \* its entries
  started,        \* how many of them it may work on
  current,        \* the entry it works on; left = 0 for none
  txFifo, rxFifo, \* words of bytes, identified by their place in the traffic
  dma,            \* destination, bytes left, and the bit of its completion
  (* the outside *)
  selected, wire, \* the flash is selected, and the bytes clocked since
  buffer          \* the buffer of the read: which byte of the flash is where

transferVars == <<transfer, transfers>>
driverVars == <<isBusy, readMode, isUnaligned>>
busVars == <<started, current, selected, wire>>
vars == <<pc, transferVars, index, byteCount, rxPtr, driverVars, txLeft, rxLeft, status,
          genFifo, busVars, txFifo, rxFifo, dma, buffer>>

NoEntry == [kind |-> "NONE", left |-> 0]

Init ==
  /\ pc = "idle" /\ transfer = <<>> /\ transfers = 0
  /\ index = 0 /\ byteCount = 0 /\ rxPtr = 0
  /\ isBusy = FALSE /\ readMode = "DMA" /\ isUnaligned = FALSE
  /\ txLeft = 0 /\ rxLeft = 0
  /\ status = [genEmpty |-> TRUE, txEmpty |-> TRUE, txNotFull |-> TRUE, rxNotEmpty |-> FALSE]
  /\ genFifo = <<>> /\ started = 0 /\ current = NoEntry
  /\ txFifo = <<>> /\ rxFifo = <<>> /\ dma = [at |-> 0, left |-> 0, done |-> FALSE]
  /\ selected = FALSE /\ wire = <<>> /\ buffer = [i \in 1..MaxBuffer |-> 0]

Kind == transfer[index].kind
-----------------------------------------------------------------------------
(* The start of a transfer. *)

Entry(kind, count) == [kind |-> kind, left |-> count]

CSAssert == Entry("SELECT", 0)
CSDeAssert == Entry("DESELECT", 0)
DummyEntry == Entry("NONE", 0)

BeginTransfer ==
  /\ pc = "idle" /\ transfers < MaxTransfers
  /\ \E t \in Transfers : transfer' = t /\ byteCount' = t[1].count
  /\ transfers' = transfers + 1
  /\ isBusy' = TRUE
  /\ genFifo' = Append(genFifo, CSAssert)
  /\ index' = 1 /\ rxPtr' = 0 /\ buffer' = [i \in 1..MaxBuffer |-> 0]
  /\ pc' = "prepare"
  /\ UNCHANGED <<readMode, isUnaligned, txLeft, rxLeft, status, busVars, txFifo, rxFifo, dma>>
-----------------------------------------------------------------------------
(* XQspiPsu_GenFifoEntryData: one message becomes entries. *)

(* Less than eight bytes go through the FIFOs. *)
ModeFor(count) == IF count < 8 THEN "IO" ELSE readMode

(* The DMA moves whole words. *)
DmaBytes(count) == count - (count % 4)

(* The bytes of this turn of the message. *)
CountFor(count, mode) == IF Kind = "RX" /\ mode = "DMA" THEN DmaBytes(count) ELSE count

(* One turn of the loop in XQspiPsu_GenFifoEntryDataLen: an entry for the power
   of two that unit is when its bit is set in the count, of which temp is left. *)
Shift(kind, t) ==
  [temp |-> t.temp \div 2, unit |-> 2 * t.unit,
   entries |-> t.entries \o IF (t.temp \div ExpStart) % 2 = 1 THEN <<Entry(kind, t.unit)>>
                                                              ELSE <<>>]

(* The loop, with turns enough to come to the last bit. *)
ExponentEntries(kind, count) ==
  LET turns == count \div ExpStart
      turn[i \in 0..turns] ==
        IF i = 0 THEN [temp |-> count, unit |-> ExpStart, entries |-> <<>>]
                 ELSE Shift(kind, turn[i - 1])
  IN turn[turns].entries

(* Mutant: the part of the count below the exponents is forgotten. *)
ExponentsOnly(kind, count) ==
  IF count < ExpStart THEN <<Entry(kind, count)>> ELSE ExponentEntries(kind, count)

(* XQspiPsu_GenFifoEntryDataLen: a small count is one entry, a large one is split
   into powers of two and a rest. *)
DataEntries(kind, count) ==
  IF count < ExpStart THEN <<Entry(kind, count)>>
  ELSE ExponentEntries(kind, count)
       \o IF count % ExpStart = 0 THEN <<>> ELSE <<Entry(kind, count % ExpStart)>>

(* Mutant: no dummy entry. *)
NothingBehind(mode) == <<>>

(* Behind a read through the FIFO goes an entry that does nothing: when the
   generic FIFO is empty, the controller is through with the read. *)
Behind(mode) == IF Kind = "RX" /\ mode = "IO" THEN <<DummyEntry>> ELSE <<>>

(* The next words of the present message for the TX FIFO. *)
NextWords(left) ==
  [w \in 1..Words(MinOf(left, TxFill)) |->
     [index |-> index, from |-> byteCount - left + 4 * (w - 1)]]

(* XQspiPsu_FillTxFifo. *)
FillTxFifo(left) ==
  /\ txFifo' = txFifo \o NextWords(left)
  /\ txLeft' = left - MinOf(left, TxFill)

GenFifoEntryData ==
  /\ pc = "prepare"
  /\ LET mode == ModeFor(byteCount)
         count == CountFor(byteCount, mode)
     IN /\ readMode' = mode
        /\ isUnaligned' = (isUnaligned \/ mode # readMode)
        /\ byteCount' = count
        /\ rxLeft' = IF Kind = "RX" THEN byteCount ELSE 0
        /\ genFifo' = genFifo \o DataEntries(Kind, count) \o Behind(mode)
        /\ dma' = IF Kind = "RX" /\ mode = "DMA"
                  THEN [dma EXCEPT !.at = DmaBytes(rxPtr), !.left = DmaBytes(byteCount)]
                  ELSE dma
  /\ IF Kind = "TX" THEN FillTxFifo(byteCount) ELSE txLeft' = 0 /\ UNCHANGED txFifo
  /\ pc' = "start"
  /\ UNCHANGED <<transferVars, index, rxPtr, isBusy, status, busVars, rxFifo, buffer>>

(* XQspiPsu_ManualStartEnable; after the last message, of the deselection. *)
ManualStart ==
  /\ pc = "start"
  /\ started' = Len(genFifo)
  /\ pc' = IF index > Len(transfer) THEN "drain" ELSE "poll"
  /\ UNCHANGED <<transferVars, index, byteCount, rxPtr, driverVars, txLeft, rxLeft, status,
                 genFifo, current, selected, wire, txFifo, rxFifo, dma, buffer>>
-----------------------------------------------------------------------------
(* The polling loop: the status is read, and acted on later. *)

Poll ==
  /\ pc = "poll"
  /\ status' = [genEmpty |-> genFifo = <<>>, txEmpty |-> txFifo = <<>>,
                txNotFull |-> Len(txFifo) < TxWords, rxNotEmpty |-> rxFifo # <<>>]
  /\ pc' = "act"
  /\ UNCHANGED <<transferVars, index, byteCount, rxPtr, driverVars, txLeft, rxLeft, genFifo,
                 busVars, txFifo, rxFifo, dma, buffer>>

(* The condition of the loop, on the status read at its beginning. *)
GoesOn(tx, rx) == ~status.genEmpty \/ tx # 0 \/ ~status.txEmpty \/ rx # 0

(* Mutant: the driver stays in IO mode. *)
ModeStays ==
  /\ index' = index + 1
  /\ byteCount' = IF index < Len(transfer) THEN transfer[index + 1].count ELSE byteCount
  /\ pc' = IF index < Len(transfer) THEN "prepare" ELSE "deselect"
  /\ UNCHANGED <<readMode, isUnaligned>>

(* After the loop: DMA mode again, and the next message. *)
EndMessage ==
  /\ isUnaligned' = FALSE
  /\ readMode' = IF isUnaligned THEN "DMA" ELSE readMode
  /\ index' = index + 1
  /\ byteCount' = IF index < Len(transfer) THEN transfer[index + 1].count ELSE byteCount
  /\ pc' = IF index < Len(transfer) THEN "prepare" ELSE "deselect"

Turn(tx, rx) ==
  IF GoesOn(tx, rx) THEN pc' = "poll" /\ UNCHANGED <<index, byteCount, readMode, isUnaligned>>
  ELSE EndMessage

(* A message without a read. *)
ActSend ==
  /\ pc = "act" /\ Kind # "RX"
  /\ IF status.txNotFull /\ txLeft > 0 THEN FillTxFifo(txLeft) ELSE UNCHANGED <<txFifo, txLeft>>
  /\ Turn(txLeft', 0)
  /\ UNCHANGED <<transferVars, rxPtr, isBusy, rxLeft, status, genFifo, busVars, rxFifo, dma,
                 buffer>>

(* XQspiPsu_SetIOMode once the DMA is through: the bytes that are no whole word
   become a message of their own, which is prepared next. *)
SetIOMode ==
  /\ rxLeft % 4 # 0
  /\ readMode' = "IO" /\ isUnaligned' = TRUE
  /\ byteCount' = rxLeft % 4
  /\ rxPtr' = rxPtr + DmaBytes(rxLeft)
  /\ pc' = "prepare"
  /\ UNCHANGED index

ActDma ==
  /\ pc = "act" /\ Kind = "RX" /\ readMode = "DMA"
  /\ IF ~dma.done
     THEN Turn(0, rxLeft) /\ UNCHANGED <<rxPtr, rxLeft, dma>>
     ELSE /\ dma' = [dma EXCEPT !.done = FALSE]
          /\ rxLeft' = 0
          /\ SetIOMode \/ (rxLeft % 4 = 0 /\ Turn(0, 0) /\ UNCHANGED rxPtr)
  /\ UNCHANGED <<transferVars, isBusy, txLeft, status, genFifo, busVars, txFifo, rxFifo, buffer>>

(* The value a word of the RX FIFO brings, 0 when there is none. *)
ByteOf(fifo, i) ==
  LET word == i \div 4 + 1
  IN IF word <= Len(fifo) /\ i % 4 < fifo[word].count THEN fifo[word].from + (i % 4) ELSE 0

(* XQspiPsu_ReadRxFifo of at most size bytes. *)
ReadRxFifo(size) ==
  LET bytes == MinOf(rxLeft, 4 * Words(size))
  IN /\ buffer' = [i \in 1..MaxBuffer |-> IF i > rxPtr /\ i <= rxPtr + bytes
                                          THEN ByteOf(rxFifo, i - rxPtr - 1) ELSE buffer[i]]
     /\ rxFifo' = SubSeq(rxFifo, Words(bytes) + 1, Len(rxFifo))
     /\ rxLeft' = rxLeft - bytes
     /\ rxPtr' = rxPtr + bytes

(* XQspiPsu_IORead: a word when one waits, all that is left when the generic
   FIFO is empty. XQspiPsu_ReadRxFifo asserts that something is asked for. *)
IORead ==
  \/ status.rxNotEmpty /\ ReadRxFifo(4)
  \/ ~status.rxNotEmpty /\ status.genEmpty /\ ReadRxFifo(rxLeft)
  \/ ~status.rxNotEmpty /\ ~status.genEmpty /\ UNCHANGED <<buffer, rxFifo, rxLeft, rxPtr>>

AssertionFails == ~status.rxNotEmpty /\ status.genEmpty /\ rxLeft = 0

ActIo ==
  /\ pc = "act" /\ Kind = "RX" /\ readMode = "IO"
  /\ IF AssertionFails
     THEN /\ pc' = "assert"
          /\ UNCHANGED <<index, byteCount, readMode, isUnaligned, buffer, rxFifo, rxLeft, rxPtr>>
     ELSE IORead /\ Turn(0, rxLeft')
  /\ UNCHANGED <<transferVars, isBusy, txLeft, status, genFifo, busVars, txFifo, dma>>

Deselect ==
  /\ pc = "deselect"
  /\ genFifo' = Append(genFifo, CSDeAssert)
  /\ pc' = "start"
  /\ UNCHANGED <<transferVars, index, byteCount, rxPtr, driverVars, txLeft, rxLeft, status,
                 busVars, txFifo, rxFifo, dma, buffer>>

EndTransfer ==
  /\ pc = "drain" /\ genFifo = <<>>
  /\ isBusy' = FALSE
  /\ pc' = "idle"
  /\ UNCHANGED <<transferVars, index, byteCount, rxPtr, readMode, isUnaligned, txLeft, rxLeft,
                 status, genFifo, busVars, txFifo, rxFifo, dma, buffer>>
-----------------------------------------------------------------------------
(* The controller (external), as the driver relies on it. An entry leaves the
   generic FIFO when the work on it begins. *)

TakeEntry ==
  /\ current.left = 0 /\ started > 0
  /\ current' = IF Head(genFifo).left = 0 THEN NoEntry ELSE Head(genFifo)
  /\ selected' = CASE Head(genFifo) = CSAssert -> TRUE
                   [] Head(genFifo) = CSDeAssert -> FALSE
                   [] OTHER -> selected
  /\ wire' = IF Head(genFifo) = CSAssert THEN <<>> ELSE wire
  /\ genFifo' = Tail(genFifo) /\ started' = started - 1
  /\ UNCHANGED <<pc, transferVars, index, byteCount, rxPtr, driverVars, txLeft, rxLeft, status,
                 txFifo, rxFifo, dma, buffer>>

IsReceived(byte) == byte[1] = "RX"

(* The next bytes of the flash. *)
FlashByte == Cardinality({p \in DOMAIN wire : IsReceived(wire[p])}) + 1

(* A word passes; with the TX FIFO empty or the RX FIFO full the clock stops. *)
ClockWord ==
  /\ current.left > 0
  /\ LET n == MinOf(4, current.left)
     IN /\ current' = [current EXCEPT !.left = current.left - n]
        /\ CASE current.kind = "TX" ->
                  /\ txFifo # <<>>
                  /\ wire' = wire \o [k \in 1..n |-> <<"TX", Head(txFifo).index,
                                                       Head(txFifo).from + k>>]
                  /\ txFifo' = Tail(txFifo) /\ UNCHANGED rxFifo
             [] current.kind = "DUMMY" ->
                  /\ wire' = wire \o [k \in 1..n |-> <<"DUMMY", 0, 0>>]
                  /\ UNCHANGED <<txFifo, rxFifo>>
             [] current.kind = "RX" ->
                  /\ Len(rxFifo) < RxWords
                  /\ wire' = wire \o [k \in 1..n |-> <<"RX", 0, FlashByte + k - 1>>]
                  /\ rxFifo' = Append(rxFifo, [from |-> FlashByte, count |-> n])
                  /\ UNCHANGED txFifo
  /\ UNCHANGED <<pc, transferVars, index, byteCount, rxPtr, driverVars, txLeft, rxLeft, status,
                 genFifo, started, selected, dma, buffer>>

(* In DMA mode the words go to memory. *)
MoveWord ==
  /\ readMode = "DMA" /\ dma.left > 0 /\ rxFifo # <<>>
  /\ buffer' = [i \in 1..MaxBuffer |-> IF i > dma.at /\ i <= dma.at + 4
                                       THEN ByteOf(rxFifo, i - dma.at - 1) ELSE buffer[i]]
  /\ rxFifo' = Tail(rxFifo)
  /\ dma' = [at |-> dma.at + 4, left |-> dma.left - 4, done |-> dma.left = 4]
  /\ UNCHANGED <<pc, transferVars, index, byteCount, rxPtr, driverVars, txLeft, rxLeft, status,
                 genFifo, busVars, txFifo>>
-----------------------------------------------------------------------------
DriverStep ==
  \/ GenFifoEntryData \/ ManualStart \/ Poll \/ ActSend \/ ActDma \/ ActIo
  \/ Deselect \/ EndTransfer

Next == BeginTransfer \/ DriverStep \/ TakeEntry \/ ClockWord \/ MoveWord

Spec == Init /\ [][Next]_vars

(* The program runs and so does each part of the controller. *)
FairSpec == Spec /\ WF_vars(DriverStep) /\ WF_vars(TakeEntry) /\ WF_vars(ClockWord)
                 /\ WF_vars(MoveWord)
-----------------------------------------------------------------------------
(* Properties. *)

(* The wire traffic a transfer asks for, message by message. *)
MessageTraffic(t, i) ==
  [k \in 1..t[i].count |-> CASE t[i].kind = "TX" -> <<"TX", i, k>>
                              [] t[i].kind = "DUMMY" -> <<"DUMMY", 0, 0>>
                              [] t[i].kind = "RX" -> <<"RX", 0, k>>]

Traffic(t) == FlattenSeq([i \in DOMAIN t |-> MessageTraffic(t, i)])

(* A transfer is one transaction of the flash: the flash stays selected from the
   first byte to the last, the bytes pass in the order of the messages, and the
   driver returns with every byte of the read in its place, none read before it
   came, whatever part of the read went through the FIFO or by DMA. *)
Flash == INSTANCE FlashTransaction WITH
  asked <- IF isBusy THEN Traffic(transfer) ELSE <<>>,
  Requests <- {Traffic(t) : t \in Transfers}

ImplementsTransaction == Flash!Spec

(* Between transfers the driver is back in DMA mode, and nothing of the last
   transfer is left in a FIFO or at the DMA for the next one to take up. *)
LeavesNothing ==
  ~isBusy =>
    /\ readMode = "DMA" /\ ~isUnaligned
    /\ txFifo = <<>> /\ rxFifo = <<>> /\ genFifo = <<>>
    /\ dma.left = 0 /\ ~dma.done

(* A transfer returns, unless an assertion of the driver stops the program. *)
TransferEnds == isBusy ~> (~isBusy \/ pc = "assert")
=============================================================================
