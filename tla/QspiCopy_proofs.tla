--------------------------- MODULE QspiCopy_proofs ---------------------------
(****************************************************************************)
(* For flash, banks, chunks and cache lines of every size and for every     *)
(* request: a turn moves on by at least a byte and by no more than is left, *)
(* a copy writes nowhere but into its destination, what it writes there is  *)
(* the flash, and the chips listen on one wire between the reads.           *)
(****************************************************************************)
EXTENDS QspiCopy, TLAPS

(* The quotient of XFsbl_Qspi24Copy's bank arithmetic: the only number whose
   multiple is at most one bank below the address. *)
LEMMA QuotientUnique ==
  ASSUME NEW x \in Nat, NEW c \in Nat \ {0}, NEW q \in Nat, q * c <= x, x < q * c + c
  PROVE  x \div c = q
OBVIOUS

LEMMA QuotientBounds ==
  ASSUME NEW x \in Nat, NEW c \in Nat \ {0}
  PROVE  /\ x \div c \in Nat
         /\ (x \div c) * c \in Nat
         /\ (x \div c) * c <= x
         /\ x < (x \div c) * c + c
OBVIOUS

(* The sizes, one by one. *)
LEMMA Sizes ==
  /\ BankSize \in Nat \ {0} /\ DieSize \in Nat \ {0} /\ LineSize \in Nat \ {0}
  /\ ChunkLimit \in Nat \ {0} /\ MaxCopies \in Nat \ {0}
BY QspiAssumption

(* What is left ends where the request ends. *)
CursorOK ==
  InCopy => /\ copy.dest >= request.dest
            /\ copy.dest + copy.left = request.dest + request.len

(* A turn takes a byte or more, no more than is left, and through TempBuf no
   more than lies before the next cache line. *)
TurnOK ==
  pc \in {"bank", "command", "read", "deliver"} =>
    /\ turn.bytes \in 1..copy.left /\ copy.skew <= copy.left
    /\ copy.skew # 0 => turn.bytes <= copy.skew

(* A chip listens on four wires only for a read, and only when selected. *)
WiresOK ==
  \A c \in Chips :
    chips[c].qpi => /\ pc \in {"read", "deliver", "failed"}
                    /\ pc # "failed" => c \in selected /\ QpiReads

CopyInv == QspiTypeOK /\ CursorOK /\ TurnOK /\ InsideDestination /\ WiresOK

LEMMA StripingType == Striping \in {1, 2}
BY DEF Striping

LEMMA CutSizeType == CutSize \in Nat \ {0}
<1>1. DieSize \in Nat \ {0} /\ BankSize \in Nat \ {0}
  BY QspiAssumption
<1>2. CASE Striping = 1
  BY <1>1, <1>2 DEF CutSize
<1>3. CASE Striping = 2
  BY <1>1, <1>3 DEF CutSize
<1>. QED BY <1>2, <1>3, StripingType

LEMMA AddressType ==
  ASSUME QspiTypeOK, NEW a \in Nat
  PROVE  GetQspiAddr(a) \in Nat
<1>1. flashSize \div 2 \in Nat /\ a \div 2 \in Nat
  <2>1. flashSize \in Nat /\ a \in Nat
    BY DEF QspiTypeOK
  <2>. QED BY ONLY <2>1, QuotientBounds
<1>. QED BY <1>1 DEF GetQspiAddr

(* A cut leaves something, and never adds to a read. *)
LEMMA CutShortens ==
  ASSUME NEW original \in Nat, NEW n \in Nat \ {0}
  PROVE  CutAtEnd(original, n) \in 1..n
<1>. DEFINE q == original \div CutSize
<1>1. /\ CutSize \in Nat \ {0} /\ q \in Nat /\ q * CutSize \in Nat
      /\ q * CutSize <= original /\ original < q * CutSize + CutSize
  BY CutSizeType, QuotientBounds
<1>2. CASE Cuts /\ q # (original + n) \div CutSize
  <2>1. ~(original + n < q * CutSize + CutSize)
    <3>. SUFFICES ASSUME original + n < q * CutSize + CutSize PROVE FALSE
      OBVIOUS
    <3>. DEFINE end == original + n  c == CutSize  quotient == q
    <3>1. end \in Nat /\ c \in Nat \ {0} /\ quotient \in Nat
          /\ quotient * c <= end /\ end < quotient * c + c
      BY <1>1
    <3>. HIDE DEF end, c, quotient
    <3>2. end \div c = quotient
      BY <3>1, QuotientUnique
    <3>. QED BY <1>2, <3>2 DEF end, c, quotient
  <2>2. CutAtEnd(original, n) = q * CutSize + CutSize - original
    BY <1>2 DEF CutAtEnd
  <2>. QED BY <1>1, <2>1, <2>2
<1>3. CASE ~(Cuts /\ q # (original + n) \div CutSize)
  BY <1>3 DEF CutAtEnd
<1>. QED BY <1>2, <1>3

LEMMA BoardFacts ==
  ASSUME QspiTypeOK
  PROVE  /\ board \in BoardType /\ board.chipSize \in Nat \ {0}
         /\ ChipWindow \in Nat \ {0}
<1>1. board \in BoardType /\ board.chipSize \in Nat \ {0}
  BY QspiAssumption DEF QspiTypeOK, BoardType
<1>. QED
  BY <1>1, QspiAssumption DEF ChipWindow, Smaller

(* A byte on the bus is one of the flash, or junk. *)
LEMMA ByteReadType ==
  ASSUME QspiTypeOK, NEW i \in Nat
  PROVE  ByteRead(i) \in Nat \cup {Junk}
<1>. DEFINE window == ChipWindow * Striping
            start == ChipAddress * Striping
            origin == IF AnsweringChip = "upper" THEN board.chipSize ELSE 0
<1>1. window \in Nat \ {0}
  BY BoardFacts, StripingType
<1>2. ChipAddress \in Nat
  <2>1. CASE board.width = 24
    <3>1. AnsweringChip \in Chips
      BY DEF AnsweringChip, Chips
    <3>2. chips[AnsweringChip].bank \in Nat /\ BankSize \in Nat \ {0} /\ turn.addr \in Nat
      BY <3>1, QspiAssumption DEF QspiTypeOK
    <3>3. chips[AnsweringChip].bank * BankSize + (turn.addr % BankSize) \in Nat
      BY <3>2
    <3>. QED BY <2>1, <3>3, BoardFacts DEF ChipAddress
  <2>2. CASE board.width # 24
    BY <2>2 DEF ChipAddress, QspiTypeOK
  <2>. QED BY <2>1, <2>2
<1>3. start \in Nat /\ origin \in Nat
  BY <1>2, StripingType, BoardFacts
<1>. HIDE DEF window, start, origin
<1>4. (start \div window) * window \in Nat /\ (start + i) % window \in Nat
  BY <1>1, <1>3, QuotientBounds
<1>5. origin + (start \div window) * window + ((start + i) % window) \in Nat
  BY <1>3, <1>4
<1>. QED BY <1>5 DEF ByteRead, window, start, origin

-----------------------------------------------------------------------------
(* Status words are natural numbers. *)
LEMMA CodeTypes ==
  {XFSBL_SUCCESS, XFSBL_ERROR_QSPI_INIT, XFSBL_ERROR_QSPI_MANUAL_START,
   XFSBL_ERROR_QSPI_PRESCALER_CLK, XFSBL_FAILURE, XFSBL_ERROR_UNSUPPORTED_QSPI,
   XFSBL_ERROR_QSPI_LENGTH, XFSBL_ERROR_QSPI_READ} \subseteq Nat
BY DEF XFSBL_SUCCESS, XFSBL_ERROR_QSPI_INIT, XFSBL_ERROR_QSPI_MANUAL_START,
   XFSBL_ERROR_QSPI_PRESCALER_CLK, XFSBL_FAILURE, XFSBL_ERROR_UNSUPPORTED_QSPI,
   XFSBL_ERROR_QSPI_LENGTH, XFSBL_ERROR_QSPI_READ

LEMMA CopyInvInit == Init => CopyInv
<1>. SUFFICES ASSUME Init PROVE CopyInv
  OBVIOUS
<1>1. QspiTypeOK
  <2>1. board \in Boards /\ selected \in (SUBSET Chips) \ {{}}
    BY DEF Init, Chips
  <2>5. request \in RequestType
    BY DEF Init, NoRequest, RequestType
  <2>6. flashSize \in Nat /\ status \in Nat /\ copies \in 0..MaxCopies
    BY Sizes DEF Init, XFSBL_SUCCESS
  <2>7. multiDie \in BOOLEAN /\ pc = "off"
    BY DEF Init
  <2>2. chips \in [Chips -> [bank: Nat, wide: BOOLEAN, qpi: BOOLEAN]]
    BY QspiAssumption DEF Init
  <2>3. /\ copy \in [src: Nat, dest: Nat, left: Nat, skew: 0..LineSize - 1]
        /\ turn \in [addr: Nat, bytes: Nat, bounce: [0..LineSize - 1 -> Nat \cup {Junk}]]
    BY QspiAssumption DEF Init, NoTurn
  <2>4. mem \in [DOMAIN mem -> Nat \cup {Untouched, Junk}]
    BY DEF Init
  <2>. QED BY <2>1, <2>2, <2>3, <2>4, <2>5, <2>6, <2>7 DEF QspiTypeOK
<1>2. CursorOK /\ TurnOK /\ InsideDestination /\ WiresOK
  BY DEF Init, CursorOK, TurnOK, InsideDestination, WiresOK, InCopy
<1>. QED BY <1>1, <1>2 DEF CopyInv

(* The three ways to probe leave the copy alone and no chip on four wires. *)
LEMMA ProbeInv ==
  ASSUME CopyInv, ProbeFails \/ Probe \/ ProbeMacronix
  PROVE  CopyInv'
<1>. USE DEF copyVars, fittedVars, chipVars
<1>1. /\ UNCHANGED <<board, copyVars, copies>> /\ pc = "off"
      /\ pc' \in {"ready", "failed"} /\ status' \in Nat
  BY CodeTypes DEF ProbeFails, Probe, ProbeMacronix, Fail
<1>2. flashSize' \in Nat /\ multiDie' \in BOOLEAN
  <2>1. CASE ProbeFails
    BY <2>1 DEF ProbeFails, CopyInv, QspiTypeOK
  <2>2. CASE Probe \/ ProbeMacronix
    <3>1. PICK n \in {1, 2} : Identify(n)
      BY <2>2 DEF Probe, ProbeMacronix, ChipCount
    <3>2. board.chipSize \in Nat
      BY BoardFacts DEF CopyInv
    <3>. QED BY <3>1, <3>2 DEF Identify, CopyInv, QspiTypeOK
  <2>. QED BY <2>1, <2>2
<1>3. /\ chips' \in [Chips -> [bank: Nat, wide: BOOLEAN, qpi: BOOLEAN]]
      /\ selected' \in (SUBSET Chips) \ {{}}
      /\ \A c \in Chips : ~chips'[c].qpi
  <2>1. /\ chips \in [Chips -> [bank: Nat, wide: BOOLEAN, qpi: BOOLEAN]]
        /\ selected \in (SUBSET Chips) \ {{}}
        /\ \A c \in Chips : ~chips[c].qpi
    BY <1>1 DEF CopyInv, QspiTypeOK, WiresOK
  <2>2. CASE ProbeFails \/ Probe
    BY <2>1, <2>2 DEF ProbeFails, Probe, Chips
  <2>3. CASE ProbeMacronix
    <3>1. PICK done \in 0..Len(FourByteSteps) :
            /\ chips' = [c \in Chips |->
                 [chips[c] EXCEPT !.wide = @ \/ \E k \in 1..done : c \in FourByteSteps[k]]]
            /\ selected' = FourByteSteps[Smaller(done + 1, Len(FourByteSteps))]
      BY <2>3 DEF ProbeMacronix
    <3>2. /\ chips' \in [Chips -> [bank: Nat, wide: BOOLEAN, qpi: BOOLEAN]]
          /\ \A c \in Chips : chips'[c].qpi = chips[c].qpi
      BY <2>1, <3>1
    <3>3. /\ Len(FourByteSteps) \in {1, 2}
          /\ \A k \in 1..Len(FourByteSteps) : FourByteSteps[k] \in (SUBSET Chips) \ {{}}
      <4>1. board.mode \in {"single", "stacked", "parallel"}
        BY BoardFacts DEF CopyInv, BoardType
      <4>2. CASE board.mode = "parallel"
        BY <4>2 DEF FourByteSteps, Chips
      <4>3. CASE board.mode = "stacked"
        BY <4>3 DEF FourByteSteps, Chips
      <4>4. CASE board.mode = "single"
        BY <4>4 DEF FourByteSteps, Chips
      <4>. QED BY <4>1, <4>2, <4>3, <4>4
    <3>4. Smaller(done + 1, Len(FourByteSteps)) \in 1..Len(FourByteSteps)
      BY <3>3 DEF Smaller
    <3>5. selected' \in (SUBSET Chips) \ {{}}
      BY <3>1, <3>3, <3>4
    <3>6. \A c \in Chips : ~chips'[c].qpi
      BY <2>1, <3>2
    <3>. QED BY <3>2, <3>5, <3>6
  <2>. QED BY <2>2, <2>3
<1>4. QspiTypeOK'
  BY <1>1, <1>2, <1>3 DEF CopyInv, QspiTypeOK
<1>5. CursorOK' /\ TurnOK' /\ InsideDestination' /\ WiresOK'
  BY <1>1, <1>3 DEF CopyInv, CursorOK, TurnOK, InsideDestination, InCopy, WiresOK
<1>. QED BY <1>4, <1>5 DEF CopyInv

LEMMA BeginCopyInv ==
  ASSUME CopyInv, NEW r \in Requests, BeginCopy(r)
  PROVE  CopyInv'
<1>1. /\ r \in RequestType /\ LineSize \in Nat \ {0} /\ MaxCopies \in Nat \ {0}
      /\ r.src \in Nat /\ r.dest \in Nat /\ r.len \in Nat
  BY QspiAssumption, Sizes DEF RequestType
<1>2. r.dest % LineSize \in 0..LineSize - 1
  BY <1>1 DEF RequestType
<1>3. /\ copy' = [src |-> r.src, dest |-> r.dest, left |-> r.len,
                   skew |-> r.dest % LineSize]
      /\ request' = r
      /\ mem' = [a \in 0..r.dest + r.len + LineSize |-> Untouched]
      /\ pc' \in {"turn", "failed"} /\ pc = "ready"
      /\ turn' = NoTurn
      /\ copies' = copies + 1 /\ copies < MaxCopies
      /\ UNCHANGED <<board, flashSize, multiDie, chips, selected>>
  BY DEF BeginCopy, Fail, fittedVars, chipVars
<1>10. copy' \in [src: Nat, dest: Nat, left: Nat, skew: 0..LineSize - 1]
  BY <1>1, <1>2, <1>3
<1>11. copies' \in 0..MaxCopies
  <2>1. copies \in 0..MaxCopies
    BY DEF CopyInv, QspiTypeOK
  <2>. QED BY <1>1, <1>3, <2>1
<1>4. status' \in Nat
  BY CodeTypes DEF BeginCopy, Fail, CopyInv, QspiTypeOK
<1>5. turn' \in [addr: Nat, bytes: Nat, bounce: [0..LineSize - 1 -> Nat \cup {Junk}]]
  BY <1>3 DEF NoTurn
<1>6. mem' \in [DOMAIN mem' -> Nat \cup {Untouched, Junk}]
  BY <1>3
<1>7. QspiTypeOK'
  BY <1>1, <1>3, <1>4, <1>5, <1>6, <1>10, <1>11 DEF CopyInv, QspiTypeOK, InCopy
<1>8. CursorOK' /\ TurnOK'
  BY <1>1, <1>3 DEF CursorOK, TurnOK, InCopy, RequestType
<1>9. InsideDestination' /\ WiresOK'
  BY <1>3 DEF CopyInv, InsideDestination, WiresOK
<1>. QED BY <1>7, <1>8, <1>9 DEF CopyInv

(* The head of a turn: the alignment and the cut leave a byte or more. *)
LEMMA PrepareTurnInv ==
  ASSUME CopyInv, PrepareTurn
  PROVE  CopyInv'
<1>. DEFINE chunk == Smaller(copy.left, ChunkLimit)
            skew == BeforeLine(chunk)
            wanted == IF skew = 0 THEN chunk ELSE skew
            addr == GetQspiAddr(copy.src)
            bytes == CutAtEnd(addr * Striping, wanted)
<1>1. /\ copy \in [src: Nat, dest: Nat, left: Nat, skew: 0..LineSize - 1]
      /\ copy.left > 0 /\ pc = "turn"
      /\ ChunkLimit \in Nat \ {0} /\ LineSize \in Nat \ {0}
  BY Sizes DEF CopyInv, QspiTypeOK, PrepareTurn
<1>2. chunk \in 1..copy.left
  <2>1. copy.left \in Nat /\ ChunkLimit \in Nat
    BY <1>1
  <2>2. chunk \in Nat /\ chunk <= copy.left /\ chunk > 0
    BY <1>1, <2>1 DEF Smaller
  <2>. QED BY <2>1, <2>2
<1>3. skew \in 0..LineSize - 1 /\ skew <= chunk
  BY <1>1, <1>2 DEF BeforeLine, Smaller
<1>4. wanted \in 1..copy.left
  <2>. HIDE DEF chunk, skew
  <2>1. copy.left \in Nat
    BY <1>1
  <2>. QED BY <1>2, <1>3, <2>1
<1>5. addr \in Nat /\ addr * Striping \in Nat
  BY <1>1, AddressType, StripingType DEF CopyInv
<1>6. bytes \in 1..copy.left /\ bytes <= wanted
  <2>. HIDE DEF wanted, addr
  <2>1. copy.left \in Nat /\ wanted \in Nat \ {0}
    BY <1>1, <1>4
  <2>2. bytes \in 1..wanted
    BY <1>5, <2>1, CutShortens
  <2>. QED BY <1>4, <2>1, <2>2
<1>7. /\ copy' = [copy EXCEPT !.skew = skew]
      /\ turn' = [turn EXCEPT !.addr = addr, !.bytes = bytes]
      /\ selected' = SelectedFor(copy.src)
      /\ pc' \in {"bank", "command"}
      /\ UNCHANGED <<board, flashSize, multiDie, chips, request, mem, status, copies>>
  BY DEF PrepareTurn, fittedVars
<1>14. skew # 0 => bytes <= skew
  <2>. HIDE DEF skew, bytes
  <2>. QED BY <1>6
<1>. HIDE DEF chunk, skew, wanted, addr, bytes
<1>8. selected' \in (SUBSET Chips) \ {{}}
  BY <1>7 DEF SelectedFor, Chips
<1>9. /\ copy' \in [src: Nat, dest: Nat, left: Nat, skew: 0..LineSize - 1]
      /\ copy'.skew = skew /\ copy'.left = copy.left /\ copy'.dest = copy.dest
  BY <1>1, <1>3, <1>7
<1>10. /\ turn' \in [addr: Nat, bytes: Nat, bounce: [0..LineSize - 1 -> Nat \cup {Junk}]]
       /\ turn'.bytes = bytes
  <2>1. /\ turn \in [addr: Nat, bytes: Nat, bounce: [0..LineSize - 1 -> Nat \cup {Junk}]]
        /\ addr \in Nat /\ bytes \in Nat
    <3>1. turn \in [addr: Nat, bytes: Nat, bounce: [0..LineSize - 1 -> Nat \cup {Junk}]]
      BY Zenon DEF CopyInv, QspiTypeOK
    <3>2. addr \in Nat /\ copy.left \in Nat
      BY <1>1, <1>5
    <3>3. bytes \in Nat
      BY <1>6, <3>2
    <3>. QED BY <3>1, <3>2, <3>3
  <2>. QED BY <1>7, <2>1
<1>11. QspiTypeOK'
  BY <1>7, <1>8, <1>9, <1>10 DEF CopyInv, QspiTypeOK, InCopy
<1>12. CursorOK' /\ TurnOK'
  <2>1. CursorOK'
    BY <1>1, <1>7, <1>9 DEF CopyInv, CursorOK, InCopy
  <2>2. bytes \in 1..copy.left /\ skew <= copy.left
    <3>1. PICK left \in Nat : left = copy.left
      BY <1>1
    <3>2. chunk \in 1..left /\ skew \in Nat /\ skew <= chunk
      BY <1>1, <1>2, <1>3, <3>1
    <3>3. skew <= left
      BY ONLY <3>2
    <3>. QED BY <1>6, <3>1, <3>3
  <2>. QED BY <1>9, <1>10, <1>14, <2>1, <2>2 DEF TurnOK
<1>13. InsideDestination' /\ WiresOK'
  BY <1>1, <1>7 DEF CopyInv, InsideDestination, WiresOK
<1>. QED BY <1>11, <1>12, <1>13 DEF CopyInv

LEMMA SelectBankInv ==
  ASSUME CopyInv, SelectBank
  PROVE  CopyInv'
<1>1. /\ pc = "bank" /\ pc' \in {"command", "failed"} /\ status' \in Nat
      /\ UNCHANGED <<board, flashSize, multiDie, selected, request, copy, turn, mem, copies>>
      /\ chips' \in {chips, WithBank(turn.addr \div BankSize)}
  BY CodeTypes DEF SelectBank, Fail, fittedVars, copyVars, CopyInv, QspiTypeOK
<1>2. /\ chips' \in [Chips -> [bank: Nat, wide: BOOLEAN, qpi: BOOLEAN]]
      /\ \A c \in Chips : chips'[c].qpi = chips[c].qpi
  <2>1. turn.addr \div BankSize \in Nat
    BY Sizes, QuotientBounds DEF CopyInv, QspiTypeOK
  <2>2. chips \in [Chips -> [bank: Nat, wide: BOOLEAN, qpi: BOOLEAN]]
    BY DEF CopyInv, QspiTypeOK
  <2>. DEFINE bank == turn.addr \div BankSize
  <2>. HIDE DEF bank
  <2>3. /\ WithBank(bank) \in [Chips -> [bank: Nat, wide: BOOLEAN, qpi: BOOLEAN]]
        /\ \A c \in Chips : WithBank(bank)[c].qpi = chips[c].qpi
    BY <2>1, <2>2 DEF WithBank, bank
  <2>. QED BY <1>1, <2>2, <2>3 DEF bank
<1>3. QspiTypeOK'
  BY <1>1, <1>2 DEF CopyInv, QspiTypeOK, InCopy
<1>4. CursorOK' /\ TurnOK' /\ InsideDestination'
  BY <1>1 DEF CopyInv, CursorOK, TurnOK, InsideDestination, InCopy
<1>5. WiresOK'
  BY <1>1, <1>2 DEF CopyInv, WiresOK
<1>. QED BY <1>3, <1>4, <1>5 DEF CopyInv

LEMMA EnterQpiInv ==
  ASSUME CopyInv, EnterQpi
  PROVE  CopyInv'
<1>1. /\ pc = "command" /\ pc' \in {"read", "failed"} /\ status' \in Nat
      /\ UNCHANGED <<board, flashSize, multiDie, selected, request, copy, turn, mem, copies>>
      /\ chips' = chips \/ (QpiReads /\ chips' = WithQpi(TRUE))
  BY CodeTypes DEF EnterQpi, Fail, fittedVars, copyVars, CopyInv, QspiTypeOK
<1>2. chips' \in [Chips -> [bank: Nat, wide: BOOLEAN, qpi: BOOLEAN]]
  <2>1. chips \in [Chips -> [bank: Nat, wide: BOOLEAN, qpi: BOOLEAN]]
    BY DEF CopyInv, QspiTypeOK
  <2>2. WithQpi(TRUE) \in [Chips -> [bank: Nat, wide: BOOLEAN, qpi: BOOLEAN]]
    BY <2>1 DEF WithQpi
  <2>. QED BY <1>1, <2>1, <2>2
<1>3. QspiTypeOK'
  BY <1>1, <1>2 DEF CopyInv, QspiTypeOK, InCopy
<1>4. CursorOK' /\ TurnOK' /\ InsideDestination'
  BY <1>1 DEF CopyInv, CursorOK, TurnOK, InsideDestination, InCopy
<1>5. WiresOK'
  BY <1>1 DEF CopyInv, QspiTypeOK, WiresOK, WithQpi, QpiReads, Macronix
<1>. QED BY <1>3, <1>4, <1>5 DEF CopyInv

(* A read writes TransferBytes at the destination, or fills TempBuf. *)
LEMMA ReadFlashInv ==
  ASSUME CopyInv, ReadFlash
  PROVE  CopyInv'
<1>1. /\ pc = "read" /\ pc' \in {"deliver", "failed"} /\ status' \in Nat
      /\ UNCHANGED <<board, flashSize, multiDie, chips, selected, request, copy, copies>>
  BY CodeTypes DEF ReadFlash, Fail, fittedVars, chipVars, CopyInv, QspiTypeOK
<1>2. /\ turn \in [addr: Nat, bytes: Nat, bounce: [0..LineSize - 1 -> Nat \cup {Junk}]]
      /\ mem \in [DOMAIN mem -> Nat \cup {Untouched, Junk}]
      /\ copy \in [src: Nat, dest: Nat, left: Nat, skew: 0..LineSize - 1]
      /\ request \in RequestType
  BY DEF CopyInv, QspiTypeOK
<1>3. /\ turn' \in [addr: Nat, bytes: Nat, bounce: [0..LineSize - 1 -> Nat \cup {Junk}]]
      /\ turn'.bytes = turn.bytes
  <2>1. CASE turn' = turn
    BY <1>2, <2>1
  <2>2. CASE turn' = [turn EXCEPT !.bounce =
               [i \in DOMAIN @ |-> IF i < turn.bytes THEN ByteRead(i) ELSE @[i]]]
    <3>. DEFINE bounce == [i \in DOMAIN turn.bounce |->
                             IF i < turn.bytes THEN ByteRead(i) ELSE turn.bounce[i]]
    <3>1. \A i \in 0..LineSize - 1 : ByteRead(i) \in Nat \cup {Junk}
      BY Sizes, ByteReadType DEF CopyInv
    <3>2. bounce \in [0..LineSize - 1 -> Nat \cup {Junk}]
      BY <1>2, <3>1
    <3>3. turn' = [turn EXCEPT !.bounce = bounce]
      BY <2>2
    <3>. HIDE DEF bounce
    <3>. QED BY <1>2, <3>2, <3>3
  <2>. QED BY <2>1, <2>2 DEF ReadFlash
<1>4. /\ DOMAIN mem' = DOMAIN mem
      /\ \A a \in DOMAIN mem :
           \/ mem'[a] = mem[a]
           \/ /\ a \in copy.dest..copy.dest + turn.bytes - 1
              /\ mem'[a] \in Nat \cup {Junk}
      /\ mem' \in [DOMAIN mem' -> Nat \cup {Untouched, Junk}]
  <2>1. CASE mem' = mem
    BY <1>2, <2>1
  <2>2. CASE mem' = [a \in DOMAIN mem |-> IF a \in copy.dest..copy.dest + turn.bytes - 1
                                         THEN ByteRead(a - copy.dest) ELSE mem[a]]
    <3>1. \A a \in copy.dest..copy.dest + turn.bytes - 1 :
            ByteRead(a - copy.dest) \in Nat \cup {Junk}
      <4>1. \A a \in copy.dest..copy.dest + turn.bytes - 1 : a - copy.dest \in Nat
        BY <1>2
      <4>. QED BY <4>1, ByteReadType DEF CopyInv
    <3>. QED BY <1>2, <2>2, <3>1
  <2>. QED BY <2>1, <2>2 DEF ReadFlash
<1>5. QspiTypeOK'
  BY <1>1, <1>3, <1>4 DEF CopyInv, QspiTypeOK, InCopy
<1>6. CursorOK' /\ TurnOK'
  BY <1>1, <1>3 DEF CopyInv, CursorOK, TurnOK, InCopy
<1>7. InsideDestination'
  <2>1. /\ copy.dest >= request.dest /\ turn.bytes \in 1..copy.left
        /\ copy.dest + copy.left = request.dest + request.len
    BY <1>1 DEF CopyInv, CursorOK, TurnOK, InCopy
  <2>2. copy.dest \in Nat /\ copy.left \in Nat /\ request.dest \in Nat /\ request.len \in Nat
    BY <1>2 DEF RequestType
  <2>3. \A a \in copy.dest..copy.dest + turn.bytes - 1 :
          a \in request.dest..request.dest + request.len - 1
    BY <2>1, <2>2
  <2>. QED BY <1>1, <1>4, <2>3 DEF CopyInv, InsideDestination
<1>8. WiresOK'
  BY <1>1 DEF CopyInv, WiresOK, QpiReads, Macronix
<1>. QED BY <1>5, <1>6, <1>7, <1>8 DEF CopyInv

(* Emptying TempBuf writes no more than was wanted before the cut, which is
   no more than is left; then the cursor moves on by what was read. *)
LEMMA DeliverInv ==
  ASSUME CopyInv, Deliver
  PROVE  CopyInv'
<1>1. /\ pc = "deliver" /\ status' \in Nat
      /\ UNCHANGED <<board, flashSize, multiDie, selected, request, copies, turn>>
  BY CodeTypes DEF Deliver, Fail, fittedVars, CopyInv, QspiTypeOK
<1>2. /\ turn \in [addr: Nat, bytes: Nat, bounce: [0..LineSize - 1 -> Nat \cup {Junk}]]
      /\ mem \in [DOMAIN mem -> Nat \cup {Untouched, Junk}]
      /\ copy \in [src: Nat, dest: Nat, left: Nat, skew: 0..LineSize - 1]
      /\ chips \in [Chips -> [bank: Nat, wide: BOOLEAN, qpi: BOOLEAN]]
      /\ request.dest \in Nat /\ request.len \in Nat
  BY DEF CopyInv, QspiTypeOK, RequestType
<1>3. /\ copy.dest >= request.dest /\ turn.bytes \in 1..copy.left /\ copy.skew <= copy.left
      /\ copy.skew # 0 => turn.bytes <= copy.skew
      /\ copy.dest + copy.left = request.dest + request.len
  BY <1>1 DEF CopyInv, CursorOK, TurnOK, InCopy
<1>4. CASE Fail(XFSBL_ERROR_QSPI_READ) /\ UNCHANGED <<chips, copy, turn, mem>>
  BY <1>1, <1>4 DEF CopyInv, QspiTypeOK, CursorOK, TurnOK, InsideDestination, WiresOK,
                    InCopy, Fail
<1>5. CASE ~(Fail(XFSBL_ERROR_QSPI_READ) /\ UNCHANGED <<chips, copy, turn, mem>>)
  <2>. DEFINE taken == IF copy.skew = 0 THEN 0
                       ELSE IF board.width = 24 THEN copy.skew ELSE turn.bytes
  <2>1. /\ chips' = IF QpiReads THEN WithQpi(FALSE) ELSE chips
        /\ mem' = [a \in DOMAIN mem |-> IF a \in copy.dest..copy.dest + taken - 1
                                        THEN turn.bounce[a - copy.dest] ELSE mem[a]]
        /\ copy' = [src |-> copy.src + turn.bytes, dest |-> copy.dest + turn.bytes,
                    left |-> copy.left - turn.bytes, skew |-> 0]
        /\ pc' = "turn"
    BY <1>5 DEF Deliver
  <2>2. taken \in 0..copy.left /\ taken <= LineSize - 1
    <3>1. copy.left \in Nat /\ copy.skew \in 0..LineSize - 1 /\ LineSize \in Nat \ {0}
      BY <1>2, Sizes
    <3>. QED BY <1>3, <3>1
  <2>. HIDE DEF taken
  <2>3. chips' \in [Chips -> [bank: Nat, wide: BOOLEAN, qpi: BOOLEAN]]
    <3>1. WithQpi(FALSE) \in [Chips -> [bank: Nat, wide: BOOLEAN, qpi: BOOLEAN]]
      BY <1>2 DEF WithQpi
    <3>. QED BY <1>2, <2>1, <3>1
  <2>4. /\ copy' \in [src: Nat, dest: Nat, left: Nat, skew: 0..LineSize - 1]
        /\ copy'.dest >= request.dest
        /\ copy'.dest + copy'.left = request.dest + request.len
    <3>1. /\ copy.src \in Nat /\ copy.dest \in Nat /\ copy.left \in Nat
          /\ turn.bytes \in Nat /\ 0 \in 0..LineSize - 1
      BY <1>2, Sizes
    <3>2. /\ copy'.dest = copy.dest + turn.bytes /\ copy'.left = copy.left - turn.bytes
          /\ copy'.dest \in Nat /\ copy'.left \in Nat
      BY <1>3, <2>1, <3>1
    <3>3. copy' \in [src: Nat, dest: Nat, left: Nat, skew: 0..LineSize - 1]
      BY <2>1, <3>1, <3>2
    <3>4. PICK dest, left, bytes, from, len \in Nat :
            /\ dest = copy.dest /\ left = copy.left /\ bytes = turn.bytes
            /\ from = request.dest /\ len = request.len
      BY <1>2, <3>1
    <3>5. dest >= from /\ dest + left = from + len
      BY <1>3, <3>4
    <3>6. dest + bytes >= from /\ (dest + bytes) + (left - bytes) = from + len
      BY <3>5
    <3>. QED BY <3>2, <3>3, <3>4, <3>6
  <2>5. \A c \in Chips : ~chips'[c].qpi
    <3>1. CASE QpiReads
      BY <1>1, <1>2, <2>1, <3>1 DEF CopyInv, WiresOK, WithQpi
    <3>2. CASE ~QpiReads
      BY <1>1, <2>1, <3>2 DEF CopyInv, WiresOK
    <3>. QED BY <3>1, <3>2
  <2>6. /\ DOMAIN mem' = DOMAIN mem
        /\ \A a \in DOMAIN mem :
             \/ mem'[a] = mem[a]
             \/ /\ a \in copy.dest..copy.dest + taken - 1
                /\ mem'[a] \in Nat \cup {Junk}
        /\ mem' \in [DOMAIN mem' -> Nat \cup {Untouched, Junk}]
    <3>1. \A a \in copy.dest..copy.dest + taken - 1 : a - copy.dest \in 0..LineSize - 1
      <4>1. copy.dest \in Nat /\ copy.left \in Nat /\ LineSize \in Nat
        BY <1>2, Sizes
      <4>2. taken \in Nat /\ taken <= LineSize - 1
        BY <2>2, <4>1
      <4>. QED BY <4>1, <4>2
    <3>2. \A a \in copy.dest..copy.dest + taken - 1 :
            turn.bounce[a - copy.dest] \in Nat \cup {Junk}
      BY <1>2, <3>1
    <3>. QED BY <1>2, <2>1, <3>2
  <2>7. QspiTypeOK'
    BY <1>1, <2>1, <2>3, <2>4, <2>6 DEF CopyInv, QspiTypeOK, InCopy
  <2>8. CursorOK' /\ TurnOK' /\ WiresOK'
    BY <1>1, <2>1, <2>4, <2>5 DEF CursorOK, TurnOK, WiresOK
  <2>9. InsideDestination'
    <3>1. copy.dest \in Nat /\ copy.left \in Nat
      BY <1>2
    <3>2. \A a \in copy.dest..copy.dest + taken - 1 :
            a \in request.dest..request.dest + request.len - 1
      <4>1. taken \in Nat /\ taken <= copy.left
        BY <2>2, <3>1
      <4>2. PICK dest, left, from, len \in Nat :
              dest = copy.dest /\ left = copy.left /\ from = request.dest /\ len = request.len
        BY <1>2, <3>1
      <4>3. dest >= from /\ dest + left = from + len /\ taken <= left
        BY <1>3, <4>1, <4>2
      <4>4. \A a \in dest..dest + taken - 1 : a \in from..from + len - 1
        BY <4>1, <4>3
      <4>. QED BY <4>2, <4>4
    <3>. QED BY <1>1, <2>6, <3>2 DEF CopyInv, InsideDestination
  <2>. QED BY <2>7, <2>8, <2>9 DEF CopyInv
<1>. QED BY <1>4, <1>5

LEMMA EndCopyInv ==
  ASSUME CopyInv, EndCopy
  PROVE  CopyInv'
<1>1. /\ pc = "turn" /\ pc' = "ready" /\ status' \in Nat
      /\ UNCHANGED <<board, flashSize, multiDie, chips, selected, request, copy, turn, mem,
                    copies>>
  BY CodeTypes DEF EndCopy, fittedVars, chipVars, copyVars
<1>2. QspiTypeOK'
  BY <1>1 DEF CopyInv, QspiTypeOK, InCopy
<1>3. CursorOK' /\ TurnOK' /\ InsideDestination' /\ WiresOK'
  BY <1>1 DEF CopyInv, CursorOK, TurnOK, InsideDestination, WiresOK, InCopy
<1>. QED BY <1>2, <1>3 DEF CopyInv

LEMMA CopyInvNext == CopyInv /\ [Next]_vars => CopyInv'
<1>. SUFFICES ASSUME CopyInv, [Next]_vars PROVE CopyInv'
  OBVIOUS
<1>1. CASE ProbeFails \/ Probe \/ ProbeMacronix
  BY <1>1, ProbeInv
<1>2. CASE \E r \in Requests : BeginCopy(r)
  BY <1>2, BeginCopyInv
<1>3. CASE CopyStep
  BY <1>3, PrepareTurnInv, SelectBankInv, EnterQpiInv, ReadFlashInv, DeliverInv, EndCopyInv
  DEF CopyStep
<1>4. CASE UNCHANGED vars
  BY <1>4 DEF vars, CopyInv, QspiTypeOK, CursorOK, TurnOK, InsideDestination, WiresOK,
              InCopy, QpiReads, Macronix
<1>. QED BY <1>1, <1>2, <1>3, <1>4 DEF Next

(* A copy stays in its types, advances within the request, and the rest. *)
LEMMA CopyInvAlways == Spec => []CopyInv
BY CopyInvInit, CopyInvNext, PTL DEF Spec

(* The variables of xfsbl_qspi.c keep their types: no count of XFsbl_Qspi24Copy
   or 32Copy runs below zero, and TempBuf holds bytes of the flash or junk. *)
THEOREM QspiTypes == Spec => []QspiTypeOK
BY CopyInvAlways, PTL DEF CopyInv

(* Both copies write nowhere but into the destination they were given, whatever
   the sizes, the alignment, the cuts and the failures. *)
THEOREM CopiesStayInside == Spec => []InsideDestination
BY CopyInvAlways, PTL DEF CopyInv

(* Whenever a bank is to be selected or a copy to begin, MacronixEnableQPIMode
   has taken every chip back to one wire. *)
THEOREM ChipsListenAgain == Spec => []ListensAgain
<1>1. CopyInv => ListensAgain
  BY DEF CopyInv, WiresOK, ListensAgain
<1>. QED BY <1>1, CopyInvAlways, PTL
-----------------------------------------------------------------------------
(* What was read is the flash. *)

(* A chip made of dies, as FlashReadID tells one. *)
OfDies(b) == b.chipSize = LargestChip /\ b.make \in {"micron", "winbond"}

(* What the copies rely on and do not check: the four-byte command is obeyed,
   addresses do not wrap, a 24-bit chip is a bank or part of one or has a bank
   register, a stacked pair is cut at the end of the lower chip, and a striped
   pair is asked for pairs of bytes. *)
SensibleFlash ==
  /\ ~Failing("fourByte")
  /\ \A r \in Requests : r.src + r.len < WordMod
  /\ \A b \in Boards :
       /\ b.width = 24 =>
            \/ b.chipSize <= BankSize /\ BankSize % b.chipSize = 0
               /\ (b.mode = "stacked" => b.chipSize = BankSize)
            \/ b.chipSize > BankSize /\ b.make \in {"micron", "macronix", "spansion"}
       /\ b.width = 32 /\ b.mode = "stacked" => OfDies(b)
       /\ b.mode = "parallel" =>
            /\ LineSize % 2 = 0 /\ ChunkLimit % 2 = 0
            /\ \A r \in Requests : r.src % 2 = 0 /\ r.dest % 2 = 0 /\ r.len % 2 = 0

(* What FlashReadID and MacronixEnable4B found and set. *)
FlashOK ==
  /\ pc = "off" => ~multiDie
  /\ board.width = 24 => \A c \in Chips : ~chips[c].wide
  /\ pc \notin {"off", "failed"} =>
       /\ flashSize = ChipCount * board.chipSize /\ multiDie = OfDies(board)
       /\ QpiReads /\ board.width = 32 => \A c \in FittedChips : chips[c].wide

(* The cursor is where as much was copied as the destination has got. *)
SourceOK ==
  InCopy => /\ copy.src >= request.src
            /\ copy.src + copy.left = request.src + request.len
            /\ request.src + request.len <= flashSize

(* The destination is memory. *)
MemoryOK == InCopy => DOMAIN mem = 0..request.dest + request.len + LineSize

(* A pair of striped chips is read from an even byte, and by pairs. *)
PairsOK ==
  InCopy /\ board.mode = "parallel" =>
    /\ copy.src % 2 = 0 /\ copy.left % 2 = 0 /\ copy.skew % 2 = 0
    /\ pc # "turn" => turn.bytes % 2 = 0

(* The read now set up stays on its side of every cut. *)
SetUpOK ==
  pc \in {"bank", "command", "read"} =>
    /\ turn.addr = GetQspiAddr(copy.src) /\ selected = SelectedFor(copy.src)
    /\ Cuts => (turn.addr * Striping + turn.bytes - 1) \div CutSize
                 = (turn.addr * Striping) \div CutSize

(* The chips that answer are in the mode and the bank of the read. *)
ChipsOK ==
  /\ pc = "read" => \A c \in selected : chips[c].qpi = QpiReads
  /\ pc \in {"command", "read"} /\ board.width = 24 /\ board.chipSize > BankSize =>
       \A c \in selected : chips[c].bank = turn.addr \div BankSize

(* What was read is the flash. *)
ReadOK ==
  pc = "deliver" =>
    \A i \in 0..turn.bytes - 1 :
      IF copy.skew = 0 THEN mem[copy.dest + i] = copy.src + i
      ELSE turn.bounce[i] = copy.src + i

FlashInv == FlashOK /\ SourceOK /\ MemoryOK /\ PairsOK /\ SetUpOK /\ ChipsOK /\ ReadOK /\ Exact

LEMMA SensibleBoard ==
  ASSUME SensibleFlash, QspiTypeOK
  PROVE  /\ board \in BoardType /\ board.chipSize \in Nat \ {0}
         /\ board.width = 24 =>
              \/ board.chipSize <= BankSize /\ BankSize % board.chipSize = 0
                 /\ (board.mode = "stacked" => board.chipSize = BankSize)
              \/ board.chipSize > BankSize /\ board.make \in {"micron", "macronix", "spansion"}
         /\ board.width = 32 /\ board.mode = "stacked" => OfDies(board)
         /\ board.mode = "parallel" =>
              /\ LineSize % 2 = 0 /\ ChunkLimit % 2 = 0
              /\ \A r \in Requests : r.src % 2 = 0 /\ r.dest % 2 = 0 /\ r.len % 2 = 0
<1>1. board \in Boards
  BY DEF QspiTypeOK
<1>2. board \in BoardType /\ board.chipSize \in Nat \ {0}
  BY BoardFacts
<1>. QED BY <1>1, <1>2, Zenon DEF SensibleFlash

(* Numbers between two of one quotient have it as well. *)
LEMMA QuotientBetween ==
  ASSUME NEW c \in Nat \ {0}, NEW a \in Nat, NEW b \in Nat, NEW x \in Nat,
         a <= x, x <= b, a \div c = b \div c
  PROVE  x \div c = a \div c
<1>. DEFINE q == a \div c
<1>1. q \in Nat /\ q * c \in Nat /\ q * c <= a /\ b < q * c + c
  BY QuotientBounds
<1>. HIDE DEF q
<1>2. x \div c = q
  BY <1>1, QuotientUnique
<1>. QED BY <1>2 DEF q

LEMMA DivisionIs ==
  ASSUME NEW x \in Nat, NEW c \in Nat \ {0}
  PROVE  x = (x \div c) * c + (x % c) /\ x % c \in Nat
OBVIOUS

(* A read that stays in its window does not wrap. *)
LEMMA NoWrap ==
  ASSUME NEW w \in Nat \ {0}, NEW start \in Nat, NEW i \in Nat,
         (start + i) \div w = start \div w
  PROVE  (start \div w) * w + ((start + i) % w) = start + i
<1>. DEFINE x == start + i
<1>1. x \in Nat /\ x = (x \div w) * w + (x % w)
  OBVIOUS
<1>. QED BY <1>1

LEMMA EvenRemainder ==
  ASSUME NEW x \in Nat, NEW y \in Nat \ {0}, x % 2 = 0, y % 2 = 0
  PROVE  (x % y) % 2 = 0
<1>1. PICK a \in Nat : x = 2 * a
  <2>1. x = 2 * (x \div 2) /\ x \div 2 \in Nat
    OBVIOUS
  <2>. QED BY <2>1
<1>2. PICK b \in Nat : y = 2 * b
  <2>1. y = 2 * (y \div 2) /\ y \div 2 \in Nat
    OBVIOUS
  <2>. QED BY <2>1
<1>3. x \div y \in Nat /\ x % y = x - (x \div y) * y
  OBVIOUS
<1>. DEFINE q == x \div y
<1>. HIDE DEF q
<1>4. q \in Nat /\ x % y = 2 * a - q * (2 * b)
  BY <1>1, <1>2, <1>3 DEF q
<1>5. q * (2 * b) = 2 * (q * b) /\ q * b \in Nat
  BY <1>2, <1>4
<1>6. PICK z \in Int : z = a - q * b
  BY <1>1, <1>5
<1>7. x % y = 2 * z
  BY <1>1, <1>4, <1>5, <1>6
<1>. QED BY <1>7

(* A cut keeps a read on its side of it. *)
LEMMA CutStays ==
  ASSUME NEW original \in Nat, NEW n \in Nat \ {0}, Cuts
  PROVE  (original + CutAtEnd(original, n) - 1) \div CutSize = original \div CutSize
<1>. DEFINE c == CutSize
            q == original \div c
            bytes == CutAtEnd(original, n)
            last == original + bytes - 1
<1>1. /\ c \in Nat \ {0} /\ q \in Nat /\ q * c \in Nat
      /\ q * c <= original /\ original < q * c + c
  BY CutSizeType, QuotientBounds
<1>2. bytes \in 1..n
  BY CutShortens
<1>3. last \in Nat /\ q * c <= last
  <2>. HIDE DEF bytes, q, c
  <2>. QED BY <1>1, <1>2
<1>4. last < q * c + c
  <2>1. CASE q # (original + n) \div c
    <3>1. bytes = q * c + c - original
      BY <2>1 DEF CutAtEnd
    <3>. HIDE DEF bytes, q, c
    <3>. QED BY <1>1, <3>1
  <2>2. CASE q = (original + n) \div c
    <3>1. bytes = n
      BY <2>2 DEF CutAtEnd
    <3>2. original + n < ((original + n) \div c) * c + c
      <4>. DEFINE x == original + n
      <4>1. x \in Nat
        OBVIOUS
      <4>. HIDE DEF x, c
      <4>2. x < (x \div c) * c + c
        BY <1>1, <4>1, QuotientBounds
      <4>. QED BY <4>2 DEF x
    <3>3. original + n < q * c + c
      BY <2>2, <3>2
    <3>. HIDE DEF bytes, q, c
    <3>. QED BY <1>1, <3>1, <3>3
  <2>. QED BY <2>1, <2>2
<1>. HIDE DEF c, q, last
<1>5. last \div c = q
  BY <1>1, <1>3, <1>4, QuotientUnique
<1>. QED BY <1>5 DEF c, q, last

(* Of a striped pair a cut takes an even number of bytes. *)
LEMMA CutIsEven ==
  ASSUME NEW addr \in Nat, NEW n \in Nat \ {0}, Striping = 2, n % 2 = 0
  PROVE  CutAtEnd(addr * Striping, n) % 2 = 0
<1>. DEFINE half == IF board.width = 32 /\ multiDie THEN DieSize ELSE BankSize
            q == (addr * Striping) \div CutSize
<1>1. half \in Nat \ {0} /\ CutSize = half * 2
  BY Sizes DEF CutSize
<1>2. q \in Nat
  BY CutSizeType, QuotientBounds
<1>3. CASE Cuts /\ q # (addr * Striping + n) \div CutSize
  <2>1. CutAtEnd(addr * Striping, n) = q * CutSize + CutSize - addr * Striping
    BY <1>3 DEF CutAtEnd
  <2>. HIDE DEF half, q
  <2>2. CutAtEnd(addr * Striping, n) = q * (half * 2) + half * 2 - addr * 2
    BY <1>1, <2>1
  <2>3. q * half \in Nat /\ q * (half * 2) = 2 * (q * half)
    BY <1>1, <1>2
  <2>4. PICK z \in Int : z = q * half + half - addr
    BY <1>1, <2>3
  <2>5. CutAtEnd(addr * Striping, n) = 2 * z
    BY <1>1, <2>2, <2>3, <2>4
  <2>. QED BY <2>5
<1>4. CASE ~ (Cuts /\ q # (addr * Striping + n) \div CutSize)
  BY <1>4 DEF CutAtEnd
<1>. QED BY <1>3, <1>4

(* XFsbl_GetQspiAddr: which chip answers, and where it is. *)
LEMMA AddressIs ==
  ASSUME SensibleFlash, QspiTypeOK, FlashOK, SourceOK, PairsOK, InCopy, copy.left > 0
  PROVE  LET addr == GetQspiAddr(copy.src)
             sel == SelectedFor(copy.src)
             origin == IF "lower" \in sel THEN 0 ELSE board.chipSize
         IN /\ addr \in Nat /\ addr < board.chipSize
            /\ sel \subseteq FittedChips /\ sel # {}
            /\ origin + addr * Striping = copy.src
            /\ board.mode # "stacked" =>
                 addr * Striping = copy.src /\ flashSize = board.chipSize * Striping
<1>1. /\ board.mode \in {"single", "stacked", "parallel"} /\ board.chipSize \in Nat \ {0}
  BY SensibleBoard DEF BoardType
<1>2. /\ copy.src \in Nat /\ copy.left \in Nat /\ flashSize = ChipCount * board.chipSize
      /\ request.src + request.len <= flashSize
      /\ copy.src + copy.left = request.src + request.len
      /\ request.src \in Nat /\ request.len \in Nat
  BY DEF QspiTypeOK, RequestType, FlashOK, SourceOK, InCopy
<1>3. copy.src < flashSize
  <2>1. flashSize \in Nat
    BY DEF QspiTypeOK
  <2>. QED BY <1>2, <2>1
<1>4. CASE board.mode = "single"
  <2>1. GetQspiAddr(copy.src) = copy.src /\ SelectedFor(copy.src) = {"lower"}
        /\ Striping = 1 /\ FittedChips = {"lower"} /\ ChipCount = 1
    BY <1>4 DEF GetQspiAddr, SelectedFor, Striping, FittedChips, ChipCount
  <2>. QED BY <1>1, <1>2, <1>3, <1>4, <2>1
<1>5. CASE board.mode = "parallel"
  <2>1. /\ GetQspiAddr(copy.src) = copy.src \div 2 /\ SelectedFor(copy.src) = Chips
        /\ Striping = 2 /\ FittedChips = Chips /\ ChipCount = 2
    BY <1>5 DEF GetQspiAddr, SelectedFor, Striping, FittedChips, ChipCount
  <2>2. copy.src % 2 = 0
    BY <1>5 DEF PairsOK
  <2>3. copy.src \div 2 \in Nat /\ (copy.src \div 2) * 2 = copy.src
    BY <1>2, <2>2
  <2>4. "lower" \in Chips
    BY DEF Chips
  <2>5. flashSize = board.chipSize * 2
    BY <1>1, <1>2, <2>1
  <2>6. copy.src \div 2 < board.chipSize
    BY <1>1, <1>3, <2>3, <2>5
  <2>. QED BY <1>5, <2>1, <2>3, <2>4, <2>5, <2>6
<1>6. CASE board.mode = "stacked"
  <2>1. Striping = 1 /\ FittedChips = Chips /\ ChipCount = 2
    BY <1>6 DEF Striping, FittedChips, ChipCount
  <2>2. flashSize = board.chipSize * 2 /\ flashSize \div 2 = board.chipSize
    BY <1>1, <1>2, <2>1
  <2>3. CASE copy.src >= board.chipSize
    <3>1. GetQspiAddr(copy.src) = copy.src - board.chipSize /\ SelectedFor(copy.src) = {"upper"}
      BY <1>6, <2>2, <2>3 DEF GetQspiAddr, SelectedFor
    <3>2. {"upper"} \subseteq Chips /\ "lower" \notin {"upper"}
      BY DEF Chips
    <3>. QED BY <1>1, <1>2, <1>3, <1>6, <2>1, <2>2, <2>3, <3>1, <3>2
  <2>4. CASE ~ (copy.src >= board.chipSize)
    <3>1. GetQspiAddr(copy.src) = copy.src /\ SelectedFor(copy.src) = {"lower"}
      BY <1>6, <2>2, <2>4 DEF GetQspiAddr, SelectedFor
    <3>2. {"lower"} \subseteq Chips
      BY DEF Chips
    <3>. QED BY <1>1, <1>2, <1>6, <2>1, <2>4, <3>1, <3>2
  <2>. QED BY <2>3, <2>4
<1>. QED BY <1>1, <1>4, <1>5, <1>6

(* Bank and address together name the byte in the chip. *)
LEMMA ChipAddressIs ==
  ASSUME SensibleFlash, QspiTypeOK, FlashOK, SourceOK, PairsOK, SetUpOK, ChipsOK,
         pc = "read", copy.left > 0
  PROVE  ChipAddress = turn.addr
<1>. DEFINE bank == chips[AnsweringChip].bank
<1>1. /\ turn.addr = GetQspiAddr(copy.src) /\ selected = SelectedFor(copy.src) /\ InCopy
  BY DEF SetUpOK, InCopy
<1>2. /\ turn.addr \in Nat /\ turn.addr < board.chipSize /\ selected # {}
      /\ selected \subseteq Chips
  BY <1>1, AddressIs DEF FittedChips, Chips
<1>3. AnsweringChip \in selected /\ AnsweringChip \in Chips
  BY <1>2 DEF AnsweringChip, Chips
<1>4. bank \in Nat /\ BankSize \in Nat \ {0} /\ board.chipSize \in Nat \ {0}
  BY <1>3, Sizes, SensibleBoard DEF QspiTypeOK
<1>5. CASE board.width # 24
  BY <1>5 DEF ChipAddress
<1>6. CASE board.width = 24 /\ board.chipSize > BankSize
  <2>1. bank = turn.addr \div BankSize
    BY <1>3, <1>6 DEF ChipsOK
  <2>. HIDE DEF bank
  <2>2. (turn.addr \div BankSize) * BankSize + (turn.addr % BankSize) = turn.addr
    <3>. DEFINE x == turn.addr
    <3>1. x \in Nat
      BY <1>2
    <3>. HIDE DEF x
    <3>2. (x \div BankSize) * BankSize + (x % BankSize) = x
      BY <1>4, <3>1, DivisionIs
    <3>. QED BY <3>2 DEF x
  <2>3. turn.addr % board.chipSize = turn.addr
    BY <1>2, <1>4
  <2>. QED BY <1>6, <2>1, <2>2, <2>3 DEF ChipAddress, bank
<1>7. CASE board.width = 24 /\ ~ (board.chipSize > BankSize)
  <2>1. board.chipSize <= BankSize /\ BankSize % board.chipSize = 0
    BY <1>4, <1>7, SensibleBoard
  <2>2. PICK k \in Nat : BankSize = k * board.chipSize
    <3>. DEFINE k == BankSize \div board.chipSize
    <3>1. k \in Nat /\ BankSize = k * board.chipSize
      BY <1>4, <2>1
    <3>. QED BY <3>1
  <2>3. turn.addr % BankSize = turn.addr
    BY <1>2, <1>4, <2>1
  <2>. HIDE DEF bank
  <2>4. PICK n \in Nat : n = bank * k
    BY <1>4, <2>2
  <2>5. bank * BankSize = n * board.chipSize /\ n * board.chipSize \in Nat
    BY <1>4, <2>2, <2>4
  <2>. DEFINE x == n * board.chipSize + turn.addr
  <2>6. x \in Nat /\ x \div board.chipSize = n
    <3>1. n * board.chipSize <= x /\ x < n * board.chipSize + board.chipSize /\ x \in Nat
      BY <1>2, <1>4, <2>5
    <3>. HIDE DEF x
    <3>. QED BY <1>4, <3>1, QuotientUnique
  <2>7. x % board.chipSize = turn.addr
    <3>. DEFINE r == x % board.chipSize
    <3>1. x = (x \div board.chipSize) * board.chipSize + r /\ r \in Nat
      <4>. HIDE DEF x
      <4>. QED BY <1>4, <2>6, DivisionIs
    <3>2. x = n * board.chipSize + r
      BY <2>6, <3>1, Zenon
    <3>. HIDE DEF r
    <3>3. r = turn.addr
      BY <1>2, <2>5, <3>1, <3>2
    <3>. QED BY <3>3 DEF r
  <2>8. ChipAddress = x % board.chipSize
    BY <1>7, <2>3, <2>5 DEF ChipAddress, bank
  <2>. QED BY <2>7, <2>8
<1>. QED BY <1>5, <1>6, <1>7

(* A read that is set up ends before the chips wrap. *)
LEMMA ReadStaysInWindow ==
  ASSUME SensibleFlash, QspiTypeOK, FlashOK, SourceOK, PairsOK, SetUpOK, TurnOK,
         pc = "read", copy.left > 0, NEW i \in 0..turn.bytes - 1
  PROVE  (turn.addr * Striping + i) \div (ChipWindow * Striping)
           = (turn.addr * Striping) \div (ChipWindow * Striping)
<1>. DEFINE start == turn.addr * Striping
            window == ChipWindow * Striping
<1>1. /\ turn.addr = GetQspiAddr(copy.src) /\ selected = SelectedFor(copy.src) /\ InCopy
  BY DEF SetUpOK, InCopy
<1>2. /\ turn.addr \in Nat /\ turn.addr < board.chipSize
      /\ board.mode # "stacked" => start = copy.src /\ flashSize = board.chipSize * Striping
  BY <1>1, AddressIs
<1>3. /\ start \in Nat /\ window \in Nat \ {0} /\ turn.bytes \in Nat /\ copy.left \in Nat
      /\ turn.bytes \in 1..copy.left /\ copy.src \in Nat
  <2>1. start \in Nat /\ window \in Nat \ {0}
    BY <1>2, StripingType, BoardFacts
  <2>2. turn.bytes \in Nat /\ copy.left \in Nat /\ copy.src \in Nat
    BY DEF QspiTypeOK
  <2>3. turn.bytes \in 1..copy.left
    BY DEF TurnOK
  <2>. QED BY <2>1, <2>2, <2>3
<1>4. i \in Nat /\ i <= turn.bytes - 1
  BY <1>3
<1>5. CASE Cuts /\ window = CutSize
  <2>1. (start + turn.bytes - 1) \div window = start \div window
    BY <1>5 DEF SetUpOK
  <2>. HIDE DEF start, window
  <2>. QED
    <3>. DEFINE last == start + turn.bytes - 1
                x == start + i
    <3>1. last \in Nat /\ x \in Nat /\ start <= x /\ x <= last
      BY <1>3, <1>4
    <3>2. start \div window = last \div window
      BY <2>1
    <3>. HIDE DEF last, x
    <3>3. x \div window = start \div window
      BY <1>3, <3>1, <3>2, QuotientBetween
    <3>. QED BY <3>3 DEF x, start, window
<1>6. CASE board.mode # "stacked" /\ ChipWindow = board.chipSize
  <2>1. start = copy.src /\ flashSize = window
    BY <1>2, <1>6
  <2>2. copy.src + copy.left <= flashSize /\ flashSize \in Nat
    BY <1>1 DEF SourceOK, QspiTypeOK
  <2>. HIDE DEF start, window
  <2>3. start + i < window /\ start < window
    BY <1>3, <1>4, <2>1, <2>2
  <2>4. start \div window = 0
    BY <1>3, <2>3, QuotientUnique
  <2>5. (start + i) \div window = 0
    <3>. DEFINE x == start + i
    <3>1. x \in Nat /\ x < window
      BY <1>3, <1>4, <2>3
    <3>. HIDE DEF x
    <3>2. x \div window = 0
      BY <1>3, <3>1, QuotientUnique
    <3>. QED BY <3>2 DEF x
  <2>. QED BY <2>4, <2>5 DEF start, window
<1>7. (Cuts /\ window = CutSize) \/ (board.mode # "stacked" /\ ChipWindow = board.chipSize)
  <2>0. BankSize \in Nat \ {0} /\ board.chipSize \in Nat \ {0} /\ board.width \in {24, 32}
    BY Sizes, SensibleBoard DEF BoardType
  <2>1. CASE board.width = 24
    <3>1. ChipWindow = Smaller(BankSize, board.chipSize) /\ Cuts
          /\ CutSize = BankSize * Striping
      BY <2>1 DEF ChipWindow, Cuts, CutSize
    <3>2. CASE board.chipSize >= BankSize
      BY <2>0, <3>1, <3>2 DEF Smaller
    <3>3. CASE board.chipSize < BankSize
      BY <2>0, <2>1, <3>1, <3>3, SensibleBoard DEF Smaller
    <3>. QED BY <2>0, <3>2, <3>3
  <2>2. CASE board.width = 32
    <3>1. (multiDie <=> OfDies(board)) /\ board.width # 24
      BY <2>2 DEF FlashOK
    <3>2. CASE multiDie
      <4>1. ChipWindow = DieSize /\ Cuts /\ CutSize = DieSize * Striping
        BY <2>2, <3>1, <3>2 DEF ChipWindow, Cuts, CutSize, OfDies
      <4>. QED BY <4>1
    <3>3. CASE ~multiDie
      <4>1. ChipWindow = board.chipSize
        BY <3>1, <3>3 DEF ChipWindow, OfDies
      <4>2. board.mode # "stacked"
        BY <2>2, <3>1, <3>3, SensibleBoard
      <4>. QED BY <4>1, <4>2
    <3>. QED BY <3>2, <3>3
  <2>. QED BY <2>0, <2>1, <2>2
<1>. QED BY <1>5, <1>6, <1>7

(* The chips read what the copy wants. *)
LEMMA ByteReadIs ==
  ASSUME SensibleFlash, CopyInv, FlashOK, SourceOK, PairsOK, SetUpOK, ChipsOK,
         pc = "read", NEW i \in 0..turn.bytes - 1
  PROVE  ByteRead(i) = copy.src + i
<1>. DEFINE start == turn.addr * Striping
            window == ChipWindow * Striping
            origin == IF AnsweringChip = "upper" THEN board.chipSize ELSE 0
<1>0. copy.left > 0 /\ QspiTypeOK /\ TurnOK /\ i \in Nat
  <2>1. turn.bytes \in 1..copy.left /\ copy.left \in Nat
    BY DEF CopyInv, TurnOK, QspiTypeOK
  <2>. QED BY <2>1 DEF CopyInv
<1>1. /\ turn.addr = GetQspiAddr(copy.src) /\ selected = SelectedFor(copy.src) /\ InCopy
  BY DEF SetUpOK, InCopy
<1>2. /\ turn.addr \in Nat /\ selected \subseteq FittedChips /\ selected # {}
      /\ (IF "lower" \in selected THEN 0 ELSE board.chipSize) + start = copy.src
  BY <1>0, <1>1, AddressIs
<1>3. origin + start = copy.src
  BY <1>2 DEF AnsweringChip
<1>4. Understands
  <2>1. \A c \in selected : chips[c].qpi = QpiReads
    BY DEF ChipsOK
  <2>2. \A c \in selected : QpiReads => chips[c].wide = (board.width = 32)
    <3>1. board.width \in {24, 32} /\ selected \subseteq Chips
      BY <1>0, <1>2, SensibleBoard DEF BoardType, FittedChips, Chips
    <3>2. chips \in [Chips -> [bank: Nat, wide: BOOLEAN, qpi: BOOLEAN]]
      BY <1>0 DEF QspiTypeOK
    <3>3. CASE board.width = 24
      <4>1. \A c \in Chips : ~chips[c].wide
        BY <3>3 DEF FlashOK
      <4>2. \A c \in selected : chips[c].wide = FALSE /\ c \in Chips
        BY <3>1, <3>2, <4>1
      <4>3. (board.width = 32) = FALSE
        BY <3>3
      <4>. QED BY <4>2, <4>3, Zenon
    <3>4. CASE board.width = 32
      BY <1>2, <3>1, <3>2, <3>4 DEF FlashOK
    <3>. QED BY <3>1, <3>3, <3>4
  <2>. QED BY <2>1, <2>2, Zenon DEF Understands
<1>5. ChipAddress = turn.addr
  BY <1>0, ChipAddressIs
<1>6. ByteRead(i) = origin + (start \div window) * window + ((start + i) % window)
  BY <1>4, <1>5 DEF ByteRead
<1>7. start \in Nat /\ window \in Nat \ {0} /\ origin \in Nat /\ copy.src \in Nat
  <2>1. start \in Nat /\ window \in Nat \ {0} /\ origin \in Nat
    BY <1>0, <1>2, StripingType, BoardFacts
  <2>. QED BY <1>0, <2>1 DEF QspiTypeOK
<1>8. (start + i) \div window = start \div window
  BY <1>0, ReadStaysInWindow
<1>. HIDE DEF start, window, origin
<1>9. (start \div window) * window + ((start + i) % window) = start + i
  BY <1>0, <1>7, <1>8, NoWrap
<1>10. (start \div window) * window \in Nat /\ (start + i) % window \in Nat
  <2>. DEFINE x == start + i
  <2>1. x \in Nat
    BY <1>0, <1>7
  <2>. HIDE DEF x
  <2>2. x % window \in Nat
    BY <1>7, <2>1, DivisionIs
  <2>. QED BY <1>7, <2>2, QuotientBounds DEF x
<1>. QED BY <1>0, <1>3, <1>6, <1>7, <1>9, <1>10

-----------------------------------------------------------------------------
(* Every step keeps what was copied the flash. *)

FlashSame == UNCHANGED <<board, flashSize, multiDie>>

(* What follows from the board alone. *)
LEMMA BoardStays ==
  ASSUME FlashSame
  PROVE  /\ Striping' = Striping /\ CutSize' = CutSize /\ (Cuts' <=> Cuts)
         /\ ChipCount' = ChipCount /\ (QpiReads' <=> QpiReads) /\ FittedChips' = FittedChips
         /\ \A a : GetQspiAddr(a)' = GetQspiAddr(a) /\ SelectedFor(a)' = SelectedFor(a)
         /\ (OfDies(board)' <=> OfDies(board))
<1>1. board' = board /\ flashSize' = flashSize /\ multiDie' = multiDie
  BY DEF FlashSame
<1>2. /\ Striping' = Striping /\ ChipCount' = ChipCount /\ (QpiReads' <=> QpiReads)
      /\ FittedChips' = FittedChips /\ (OfDies(board)' <=> OfDies(board))
  BY <1>1 DEF Striping, ChipCount, QpiReads, Macronix, FittedChips, OfDies
<1>3. (Cuts' <=> Cuts) /\ CutSize' = CutSize
  BY <1>1, <1>2 DEF Cuts, CutSize
<1>4. \A a : GetQspiAddr(a)' = GetQspiAddr(a) /\ SelectedFor(a)' = SelectedFor(a)
  BY <1>1 DEF GetQspiAddr, SelectedFor
<1>. QED BY <1>2, <1>3, <1>4

(* A step of a copy leaves what was found out about the flash. *)
LEMMA FlashStays ==
  ASSUME FlashOK, FlashSame, pc \notin {"off", "failed"}, pc' # "off",
         \A c \in Chips : chips'[c].wide = chips[c].wide
  PROVE  FlashOK'
<1>1. board' = board /\ flashSize' = flashSize /\ multiDie' = multiDie
  BY DEF FlashSame
<1>2. board.width = 24 => \A c \in Chips : ~chips'[c].wide
  BY DEF FlashOK
<1>3. QpiReads /\ board.width = 32 => \A c \in FittedChips : chips'[c].wide
  BY DEF FlashOK, FittedChips, Chips
<1>4. flashSize = ChipCount * board.chipSize /\ (multiDie <=> OfDies(board))
  BY DEF FlashOK
<1>5. /\ ChipCount' = ChipCount /\ (QpiReads' <=> QpiReads) /\ FittedChips' = FittedChips
      /\ (OfDies(board)' <=> OfDies(board))
  BY BoardStays
<1>6. multiDie' = OfDies(board)'
  <2>1. multiDie = OfDies(board)
    BY DEF FlashOK
  <2>2. OfDies(board)' = OfDies(board)
    BY <1>1 DEF OfDies
  <2>. QED BY <1>1, <2>1, <2>2, Zenon
<1>7. flashSize' = ChipCount' * board'.chipSize
  BY <1>1, <1>4, <1>5
<1>. QED BY <1>1, <1>2, <1>3, <1>5, <1>6, <1>7 DEF FlashOK

LEMMA FlashInit == Init => FlashInv
<1>. SUFFICES ASSUME Init PROVE FlashInv
  OBVIOUS
<1>1. FlashOK
  BY DEF Init, FlashOK
<1>2. SourceOK /\ MemoryOK /\ PairsOK /\ SetUpOK /\ ChipsOK /\ ReadOK
  BY DEF Init, SourceOK, MemoryOK, PairsOK, SetUpOK, ChipsOK, ReadOK, InCopy
<1>3. Exact
  <2>1. Copied = 0
    BY DEF Init, Copied, NoRequest
  <2>. QED BY <2>1 DEF Exact
<1>. QED BY <1>1, <1>2, <1>3 DEF FlashInv

(* FlashReadID finds the size and the dies, MacronixEnable4B reaches every chip. *)
LEMMA ProbeFlash ==
  ASSUME SensibleFlash, CopyInv, FlashInv, ProbeFails \/ Probe \/ ProbeMacronix
  PROVE  FlashInv'
<1>1. /\ UNCHANGED <<board, request, copy, turn, mem, copies>> /\ pc = "off" /\ ~multiDie
      /\ pc' \in {"ready", "failed"}
  BY DEF ProbeFails, Probe, ProbeMacronix, Fail, copyVars, fittedVars, FlashInv, FlashOK
<1>2. SourceOK' /\ MemoryOK' /\ PairsOK' /\ SetUpOK' /\ ChipsOK' /\ ReadOK'
  BY <1>1 DEF SourceOK, MemoryOK, PairsOK, SetUpOK, ChipsOK, ReadOK, InCopy
<1>3. Exact'
  BY <1>1 DEF FlashInv, Exact, Copied
<1>4. chips \in [Chips -> [bank: Nat, wide: BOOLEAN, qpi: BOOLEAN]]
  BY DEF CopyInv, QspiTypeOK
<1>5. board.width = 24 => \A c \in Chips : ~chips[c].wide
  BY DEF FlashInv, FlashOK
<1>6. FlashOK'
  <2>1. CASE ProbeFails
    <3>1. pc' = "failed" /\ chips' = chips
      BY <2>1 DEF ProbeFails, Fail, chipVars
    <3>. QED BY <1>1, <1>5, <3>1 DEF FlashOK
  <2>2. CASE Probe
    <3>1. /\ pc' = "ready" /\ chips' = chips /\ Identify(ChipCount)
          /\ (board.width = 24 \/ ~Macronix)
      BY <2>2 DEF Probe
    <3>2. flashSize' = ChipCount * board.chipSize /\ multiDie' = (FALSE \/ OfDies(board))
      BY <1>1, <3>1 DEF Identify, OfDies
    <3>3. ChipCount' = ChipCount /\ (QpiReads' <=> QpiReads) /\ OfDies(board)' = OfDies(board)
      BY <1>1 DEF ChipCount, QpiReads, Macronix, OfDies
    <3>4. multiDie' = OfDies(board)'
      BY <3>2, <3>3 DEF OfDies
    <3>5. ~ (QpiReads' /\ board'.width = 32)
      BY <1>1, <3>1, <3>3 DEF QpiReads
    <3>6. flashSize' = ChipCount' * board'.chipSize
      BY <1>1, <3>2, <3>3
    <3>. QED BY <1>1, <1>5, <3>1, <3>4, <3>5, <3>6 DEF FlashOK
  <2>3. CASE ProbeMacronix
    <3>1. PICK done \in 0..Len(FourByteSteps) :
            /\ done < Len(FourByteSteps) => Failing("fourByte")
            /\ chips' = [c \in Chips |->
                 [chips[c] EXCEPT !.wide = @ \/ \E k \in 1..done : c \in FourByteSteps[k]]]
            /\ Identify(IF done < Len(FourByteSteps) THEN 1 ELSE ChipCount)
      BY <2>3 DEF ProbeMacronix
    <3>2. board.mode \in {"single", "stacked", "parallel"}
      BY BoardFacts DEF CopyInv, BoardType
    <3>3. Len(FourByteSteps) \in {1, 2}
      BY <3>2 DEF FourByteSteps
    <3>4. \A c \in FittedChips : \E k \in 1..Len(FourByteSteps) : c \in FourByteSteps[k]
      <4>1. CASE board.mode = "parallel"
        <5>1. FourByteSteps = <<Chips>> /\ FittedChips = Chips
          BY <4>1 DEF FourByteSteps, FittedChips
        <5>. QED BY <5>1
      <4>2. CASE board.mode = "stacked"
        <5>1. FourByteSteps = <<{"lower"}, {"upper"}>> /\ FittedChips = {"lower", "upper"}
          BY <4>2 DEF FourByteSteps, FittedChips, Chips
        <5>2. Len(FourByteSteps) = 2 /\ "lower" \in FourByteSteps[1]
              /\ "upper" \in FourByteSteps[2]
          BY <5>1
        <5>. QED BY <5>1, <5>2
      <4>3. CASE board.mode = "single"
        <5>1. FourByteSteps = <<{"lower"}>> /\ FittedChips = {"lower"}
          BY <4>3 DEF FourByteSteps, FittedChips
        <5>. QED BY <5>1
      <4>. QED BY <3>2, <4>1, <4>2, <4>3
    <3>5. done = Len(FourByteSteps)
      BY <3>1, <3>3 DEF SensibleFlash
    <3>6. \A c \in FittedChips : chips'[c].wide
      <4>1. FittedChips \subseteq Chips
        BY DEF FittedChips, Chips
      <4>. QED BY <1>4, <3>1, <3>4, <3>5, <4>1
    <3>7. flashSize' = ChipCount * board.chipSize /\ multiDie' = (FALSE \/ OfDies(board))
      BY <1>1, <3>1, <3>3, <3>5 DEF Identify, OfDies
    <3>8. /\ ChipCount' = ChipCount /\ FittedChips' = FittedChips
          /\ OfDies(board)' = OfDies(board)
      BY <1>1 DEF ChipCount, FittedChips, OfDies
    <3>9. multiDie' = OfDies(board)'
      BY <3>7, <3>8 DEF OfDies
    <3>10. flashSize' = ChipCount' * board'.chipSize
      BY <1>1, <3>7, <3>8
    <3>11. pc' = "ready" /\ board'.width # 24
      BY <1>1, <2>3 DEF ProbeMacronix
    <3>. QED BY <3>6, <3>8, <3>9, <3>10, <3>11 DEF FlashOK
  <2>. QED BY <2>1, <2>2, <2>3
<1>. QED BY <1>2, <1>3, <1>6 DEF FlashInv

(* A copy begins with nothing copied, inside the flash, unless it is refused. *)
LEMMA BeginCopyFlash ==
  ASSUME SensibleFlash, CopyInv, FlashInv, NEW r \in Requests, BeginCopy(r)
  PROVE  FlashInv'
<1>1. /\ r.src \in Nat /\ r.dest \in Nat /\ r.len \in Nat /\ LineSize \in Nat \ {0}
      /\ WordMod \in Nat \ {0} /\ r.src + r.len < WordMod
  BY QspiAssumption, Sizes DEF RequestType, SensibleFlash
<1>2. /\ copy' = [src |-> r.src, dest |-> r.dest, left |-> r.len,
                   skew |-> r.dest % LineSize]
      /\ request' = r /\ mem' = [a \in 0..r.dest + r.len + LineSize |-> Untouched]
      /\ pc' \in {"turn", "failed"} /\ pc = "ready" /\ chips' = chips /\ FlashSame
      /\ pc' = "turn" => (r.src + r.len) % WordMod <= flashSize
  BY DEF BeginCopy, Fail, fittedVars, chipVars, FlashSame
<1>3. FlashOK'
  BY <1>2, FlashStays DEF FlashInv
<1>4. SourceOK'
  <2>1. (r.src + r.len) % WordMod = r.src + r.len
    BY <1>1
  <2>2. flashSize' = flashSize
    BY <1>2 DEF FlashSame
  <2>. QED BY <1>1, <1>2, <2>1, <2>2 DEF SourceOK, InCopy
<1>5. MemoryOK'
  BY <1>2 DEF MemoryOK
<1>6. PairsOK'
  <2>. SUFFICES ASSUME board'.mode = "parallel"
                PROVE  copy'.src % 2 = 0 /\ copy'.left % 2 = 0 /\ copy'.skew % 2 = 0
    BY <1>2 DEF PairsOK, InCopy
  <2>1. LineSize % 2 = 0 /\ r.src % 2 = 0 /\ r.dest % 2 = 0 /\ r.len % 2 = 0
    BY <1>2, SensibleBoard DEF FlashSame, CopyInv
  <2>2. (r.dest % LineSize) % 2 = 0
    BY <1>1, <2>1, EvenRemainder
  <2>. QED BY <1>2, <2>1, <2>2
<1>7. SetUpOK' /\ ChipsOK' /\ ReadOK'
  BY <1>2 DEF SetUpOK, ChipsOK, ReadOK
<1>8. Exact'
  <2>1. Copied' = 0
    BY <1>1, <1>2 DEF Copied
  <2>. QED BY <2>1 DEF Exact
<1>. QED BY <1>3, <1>4, <1>5, <1>6, <1>7, <1>8 DEF FlashInv

(* A turn is set up with the address of the next byte, and cut where the chips
   would wrap; a striped pair is read by pairs. *)
LEMMA PrepareTurnFlash ==
  ASSUME SensibleFlash, CopyInv, FlashInv, PrepareTurn
  PROVE  FlashInv'
<1>. DEFINE chunk == Smaller(copy.left, ChunkLimit)
            skew == BeforeLine(chunk)
            wanted == IF skew = 0 THEN chunk ELSE skew
            addr == GetQspiAddr(copy.src)
            bytes == CutAtEnd(addr * Striping, wanted)
<1>1. /\ copy \in [src: Nat, dest: Nat, left: Nat, skew: 0..LineSize - 1]
      /\ turn \in [addr: Nat, bytes: Nat, bounce: [0..LineSize - 1 -> Nat \cup {Junk}]]
      /\ copy.left > 0 /\ pc = "turn" /\ InCopy
      /\ ChunkLimit \in Nat \ {0} /\ LineSize \in Nat \ {0}
  BY Sizes DEF CopyInv, QspiTypeOK, PrepareTurn, InCopy
<1>2. /\ copy' = [copy EXCEPT !.skew = skew]
      /\ turn' = [turn EXCEPT !.addr = addr, !.bytes = bytes]
      /\ selected' = SelectedFor(copy.src) /\ FlashSame
      /\ pc' = IF board.width = 24 /\ flashSize > CutSize THEN "bank" ELSE "command"
      /\ UNCHANGED <<chips, request, mem>>
  BY DEF PrepareTurn, fittedVars, FlashSame
<1>3. chunk \in Nat \ {0} /\ skew \in 0..chunk /\ wanted \in Nat \ {0}
  <2>1. copy.left \in Nat /\ copy.skew \in 0..LineSize - 1
    BY <1>1
  <2>2. chunk \in Nat \ {0}
    BY <1>1, <2>1 DEF Smaller
  <2>. HIDE DEF chunk
  <2>3. skew \in 0..chunk
    BY <1>1, <2>1, <2>2 DEF BeforeLine, Smaller
  <2>. HIDE DEF skew
  <2>. QED BY <2>2, <2>3
<1>4. addr \in Nat /\ addr * Striping \in Nat
  BY <1>1, AddressIs, StripingType DEF CopyInv, FlashInv
<1>5. /\ copy'.src = copy.src /\ copy'.left = copy.left /\ copy'.skew = skew
      /\ copy'.dest = copy.dest /\ turn'.addr = addr /\ turn'.bytes = bytes
  <2>. HIDE DEF skew, bytes, addr
  <2>. QED BY <1>1, <1>2
<1>6. pc' \in {"bank", "command"}
  BY <1>2
<1>7. FlashOK'
  BY <1>1, <1>2, <1>6, FlashStays DEF FlashInv
<1>8. SourceOK' /\ MemoryOK' /\ ReadOK' /\ Exact'
  <2>1. flashSize' = flashSize
    BY <1>2 DEF FlashSame
  <2>2. /\ copy.src >= request.src /\ copy.src + copy.left = request.src + request.len
        /\ request.src + request.len <= flashSize
        /\ DOMAIN mem = 0..request.dest + request.len + LineSize
    BY <1>1 DEF FlashInv, SourceOK, MemoryOK
  <2>3. SourceOK' /\ MemoryOK'
    BY <1>2, <1>5, <2>1, <2>2 DEF SourceOK, MemoryOK
  <2>4. Exact'
    BY <1>2, <1>5 DEF FlashInv, Exact, Copied
  <2>. QED BY <1>6, <2>3, <2>4 DEF ReadOK
<1>9. PairsOK'
  <2>. SUFFICES ASSUME board.mode = "parallel"
                PROVE  copy.src % 2 = 0 /\ copy.left % 2 = 0 /\ skew % 2 = 0 /\ bytes % 2 = 0
    BY <1>2, <1>5 DEF PairsOK, FlashSame
  <2>1. copy.src % 2 = 0 /\ copy.left % 2 = 0 /\ copy.skew % 2 = 0
    BY <1>1 DEF FlashInv, PairsOK
  <2>2. LineSize % 2 = 0 /\ ChunkLimit % 2 = 0
    BY SensibleBoard DEF CopyInv
  <2>3. chunk % 2 = 0
    BY <2>1, <2>2 DEF Smaller
  <2>4. skew % 2 = 0
    <3>1. (LineSize - copy.skew) % 2 = 0
      BY <1>1, <2>1, <2>2
    <3>. HIDE DEF chunk
    <3>. QED BY <2>3, <3>1 DEF BeforeLine, Smaller
  <2>5. wanted % 2 = 0
    <3>. HIDE DEF chunk, skew
    <3>. QED BY <2>3, <2>4
  <2>6. Striping = 2
    BY DEF Striping
  <2>. HIDE DEF chunk, skew, wanted, addr
  <2>7. bytes % 2 = 0
    BY <1>3, <1>4, <2>5, <2>6, CutIsEven
  <2>. QED BY <2>1, <2>4, <2>7
<1>10. SetUpOK'
  <2>1. \A a : GetQspiAddr(a)' = GetQspiAddr(a) /\ SelectedFor(a)' = SelectedFor(a)
    BY <1>2, BoardStays
  <2>2. PICK src : src = copy.src
    OBVIOUS
  <2>3. GetQspiAddr(copy.src)' = addr /\ SelectedFor(copy.src)' = SelectedFor(copy.src)
    <3>1. GetQspiAddr(copy.src)' = GetQspiAddr(src)' /\ SelectedFor(copy.src)' = SelectedFor(src)'
      BY <1>5, <2>2 DEF GetQspiAddr, SelectedFor
    <3>. QED BY <2>1, <2>2, <3>1
  <2>4. Striping' = Striping /\ CutSize' = CutSize /\ (Cuts' <=> Cuts)
    BY <1>2, BoardStays
  <2>5. Cuts => (addr * Striping + bytes - 1) \div CutSize = (addr * Striping) \div CutSize
    <3>. HIDE DEF wanted, addr
    <3>. QED BY <1>3, <1>4, CutStays
  <2>6. turn'.addr = GetQspiAddr(copy.src)' /\ selected' = SelectedFor(copy.src)'
    BY <1>2, <1>5, <2>3
  <2>7. Cuts' => (turn'.addr * Striping' + turn'.bytes - 1) \div CutSize'
                   = (turn'.addr * Striping') \div CutSize'
    <3>. HIDE DEF bytes, addr
    <3>. QED BY <1>5, <2>4, <2>5
  <2>. QED BY <2>6, <2>7 DEF SetUpOK
<1>11. ChipsOK'
  <2>. SUFFICES ASSUME board.width = 24, board.chipSize > BankSize
                PROVE  pc' = "bank"
    BY <1>2, <1>6 DEF ChipsOK, FlashSame
  <2>1. CutSize = BankSize * Striping /\ flashSize = ChipCount * board.chipSize
    BY <1>1 DEF CutSize, FlashInv, FlashOK
  <2>2. BankSize \in Nat \ {0} /\ board.chipSize \in Nat \ {0}
    BY Sizes, BoardFacts DEF CopyInv
  <2>3. ChipCount \in {1, 2} /\ Striping \in {1, 2} /\ Striping <= ChipCount
    BY DEF ChipCount, Striping
  <2>4. flashSize > CutSize
    BY <2>1, <2>2, <2>3
  <2>. QED BY <1>2, <2>4
<1>. QED BY <1>7, <1>8, <1>9, <1>10, <1>11 DEF FlashInv

(* A step that leaves what is set up. *)
LEMMA SetUpStays ==
  ASSUME SetUpOK, FlashSame, UNCHANGED <<selected, copy, turn>>,
         pc \in {"bank", "command", "read"}
  PROVE  SetUpOK'
<1>1. PICK src : src = copy.src
  OBVIOUS
<1>2. GetQspiAddr(copy.src)' = GetQspiAddr(copy.src)
      /\ SelectedFor(copy.src)' = SelectedFor(copy.src)
  <2>1. GetQspiAddr(src)' = GetQspiAddr(src) /\ SelectedFor(src)' = SelectedFor(src)
    BY BoardStays
  <2>2. GetQspiAddr(copy.src)' = GetQspiAddr(src)' /\ SelectedFor(copy.src)' = SelectedFor(src)'
    BY <1>1 DEF GetQspiAddr, SelectedFor
  <2>. QED BY <1>1, <2>1, <2>2
<1>3. Striping' = Striping /\ CutSize' = CutSize /\ (Cuts' <=> Cuts)
  BY BoardStays
<1>. QED BY <1>2, <1>3 DEF SetUpOK

(* The bank of the read is selected in the chips that answer it. *)
LEMMA SelectBankFlash ==
  ASSUME SensibleFlash, CopyInv, FlashInv, SelectBank
  PROVE  FlashInv'
<1>. DEFINE bank == turn.addr \div BankSize
<1>1. /\ pc = "bank" /\ pc' \in {"command", "failed"} /\ FlashSame
      /\ UNCHANGED <<selected, request, copy, turn, mem>>
      /\ chips' \in {chips, WithBank(bank)}
      /\ pc' = "command" => chips' = WithBank(bank)
  BY DEF SelectBank, Fail, fittedVars, copyVars, FlashSame
<1>2. /\ chips \in [Chips -> [bank: Nat, wide: BOOLEAN, qpi: BOOLEAN]]
      /\ selected \subseteq Chips
  BY DEF CopyInv, QspiTypeOK
<1>. HIDE DEF bank
<1>3. FlashOK'
  <2>1. \A c \in Chips : WithBank(bank)[c].wide = chips[c].wide
    BY <1>2 DEF WithBank
  <2>2. \A c \in Chips : chips'[c].wide = chips[c].wide
    BY <1>1, <2>1
  <2>. QED BY <1>1, <2>2, FlashStays DEF FlashInv
<1>4. SourceOK' /\ MemoryOK' /\ PairsOK' /\ ReadOK' /\ Exact'
  BY <1>1 DEF FlashInv, SourceOK, MemoryOK, PairsOK, ReadOK, Exact, Copied, InCopy, FlashSame
<1>5. SetUpOK'
  BY <1>1, SetUpStays DEF FlashInv
<1>6. ChipsOK'
  <2>. SUFFICES ASSUME pc' = "command", board.width = 24, board.chipSize > BankSize,
                       NEW c \in selected
                PROVE  chips'[c].bank = bank
    BY <1>1 DEF ChipsOK, FlashSame, bank
  <2>1. board.make \in {"micron", "macronix", "spansion"}
    <3>1. board.chipSize \in Nat /\ BankSize \in Nat
      BY SensibleBoard, Sizes DEF CopyInv
    <3>. QED BY <3>1, SensibleBoard DEF CopyInv
  <2>. QED BY <1>1, <1>2, <2>1 DEF WithBank
<1>. QED BY <1>3, <1>4, <1>5, <1>6 DEF FlashInv

(* The chips that answer are in the mode of the read. *)
LEMMA EnterQpiFlash ==
  ASSUME SensibleFlash, CopyInv, FlashInv, EnterQpi
  PROVE  FlashInv'
<1>1. /\ pc = "command" /\ pc' \in {"read", "failed"} /\ FlashSame
      /\ UNCHANGED <<selected, request, copy, turn, mem>>
      /\ \/ ~QpiReads /\ chips' = chips
         \/ QpiReads /\ chips' = WithQpi(TRUE)
         \/ pc' = "failed" /\ chips' = chips
  BY DEF EnterQpi, Fail, fittedVars, copyVars, FlashSame
<1>2. /\ chips \in [Chips -> [bank: Nat, wide: BOOLEAN, qpi: BOOLEAN]]
      /\ selected \subseteq Chips
      /\ \A c \in Chips : chips[c].qpi = FALSE
  <2>1. \A c \in Chips : ~chips[c].qpi
    BY <1>1 DEF CopyInv, WiresOK
  <2>. QED BY <2>1 DEF CopyInv, QspiTypeOK
<1>3. \A c \in Chips : WithQpi(TRUE)[c].wide = chips[c].wide
                       /\ WithQpi(TRUE)[c].bank = chips[c].bank
  BY <1>2 DEF WithQpi
<1>4. \A c \in Chips : chips'[c].wide = chips[c].wide /\ chips'[c].bank = chips[c].bank
  BY <1>1, <1>3
<1>5. FlashOK'
  BY <1>1, <1>4, FlashStays DEF FlashInv
<1>6. SourceOK' /\ MemoryOK' /\ PairsOK' /\ ReadOK' /\ Exact'
  BY <1>1 DEF FlashInv, SourceOK, MemoryOK, PairsOK, ReadOK, Exact, Copied, InCopy, FlashSame
<1>7. SetUpOK'
  BY <1>1, SetUpStays DEF FlashInv
<1>8. pc' = "read" => \A c \in selected : chips'[c].qpi = QpiReads
  <2>. SUFFICES ASSUME pc' = "read", NEW c \in selected PROVE chips'[c].qpi = QpiReads
    OBVIOUS
  <2>1. CASE ~QpiReads
    <3>1. chips' = chips /\ QpiReads = FALSE
      BY <1>1, <2>1 DEF QpiReads
    <3>. QED BY <1>2, <3>1, Zenon
  <2>2. CASE QpiReads
    <3>1. chips'[c].qpi = TRUE
      BY <1>1, <1>2, <2>2 DEF WithQpi
    <3>2. QpiReads = TRUE
      BY <2>2 DEF QpiReads
    <3>. QED BY <3>1, <3>2, Zenon
  <2>. QED BY <2>1, <2>2
<1>9. ChipsOK'
  <2>1. QpiReads' = QpiReads
    BY <1>1 DEF FlashSame, QpiReads, Macronix
  <2>2. pc' = "read" => \A c \in selected' : chips'[c].qpi = QpiReads'
    BY <1>1, <1>8, <2>1, Zenon
  <2>3. board.width = 24 /\ board.chipSize > BankSize =>
          \A c \in selected : chips[c].bank = turn.addr \div BankSize
    BY <1>1 DEF FlashInv, ChipsOK
  <2>4. \A c \in selected : chips'[c].bank = chips[c].bank
    BY <1>2, <1>4
  <2>. QED BY <1>1, <2>2, <2>3, <2>4 DEF ChipsOK, FlashSame
<1>. QED BY <1>5, <1>6, <1>7, <1>9 DEF FlashInv

(* The read brings the flash, to its place or into TempBuf, and does not touch
   what was copied before. *)
LEMMA ReadFlashFlash ==
  ASSUME SensibleFlash, CopyInv, FlashInv, ReadFlash
  PROVE  FlashInv'
<1>1. /\ pc = "read" /\ pc' \in {"deliver", "failed"} /\ FlashSame /\ InCopy
      /\ UNCHANGED <<chips, selected, request, copy>>
  BY DEF ReadFlash, Fail, fittedVars, chipVars, FlashSame, InCopy
<1>2. /\ turn \in [addr: Nat, bytes: Nat, bounce: [0..LineSize - 1 -> Nat \cup {Junk}]]
      /\ copy \in [src: Nat, dest: Nat, left: Nat, skew: 0..LineSize - 1]
      /\ request.dest \in Nat /\ request.len \in Nat /\ LineSize \in Nat \ {0}
  BY Sizes DEF CopyInv, QspiTypeOK, RequestType
<1>3. /\ copy.dest >= request.dest /\ copy.dest + copy.left = request.dest + request.len
      /\ turn.bytes \in 1..copy.left /\ (copy.skew # 0 => turn.bytes <= copy.skew)
      /\ DOMAIN mem = 0..request.dest + request.len + LineSize
  BY <1>1 DEF CopyInv, CursorOK, TurnOK, FlashInv, MemoryOK
<1>12. /\ copy.src \in Nat /\ copy.dest \in Nat /\ copy.left \in Nat /\ turn.bytes \in Nat
       /\ copy.skew \in Nat /\ turn.bytes > 0 /\ turn.bytes <= copy.left
       /\ (copy.skew # 0 => copy.skew <= LineSize - 1)
       /\ request.dest \in Nat /\ request.len \in Nat /\ LineSize \in Nat \ {0}
  <2>1. copy.left \in Nat
    BY <1>2
  <2>. QED BY <1>2, <1>3, <2>1
<1>4. \A i \in 0..turn.bytes - 1 : ByteRead(i) = copy.src + i
  BY <1>1, ByteReadIs DEF FlashInv
<1>5. /\ DOMAIN mem' = DOMAIN mem
      /\ \A a \in DOMAIN mem : a < copy.dest => mem'[a] = mem[a]
  BY <1>1, <1>2 DEF ReadFlash
<1>6. turn'.bytes = turn.bytes
  BY <1>2 DEF ReadFlash
<1>7. FlashOK'
  BY <1>1, FlashStays DEF FlashInv
<1>8. SourceOK' /\ MemoryOK' /\ PairsOK'
  BY <1>1, <1>5, <1>6 DEF FlashInv, SourceOK, MemoryOK, PairsOK, InCopy, FlashSame
<1>9. SetUpOK' /\ ChipsOK'
  BY <1>1 DEF SetUpOK, ChipsOK
<1>10. Exact'
  <2>. SUFFICES ASSUME NEW i \in 0..Copied - 1
                PROVE  mem'[request.dest + i] = request.src + i
    BY <1>1 DEF Exact, Copied
  <2>1. /\ i \in Nat /\ request.dest + i < copy.dest
        /\ request.dest + i \in 0..request.dest + request.len + LineSize
    <3>1. PICK dest, left, from, len \in Nat :
            dest = copy.dest /\ left = copy.left /\ from = request.dest /\ len = request.len
      BY <1>12
    <3>2. dest >= from /\ dest + left = from + len /\ i \in 0..(len - left) - 1
      BY <1>3, <3>1 DEF Copied
    <3>3. LineSize \in Nat
      BY <1>12
    <3>4. i \in Nat /\ from + i < dest /\ from + i \in 0..from + len + LineSize
      BY <3>2, <3>3
    <3>. QED BY <3>1, <3>4
  <2>2. request.dest + i \in DOMAIN mem
    BY <1>3, <2>1
  <2>. QED BY <1>5, <2>1, <2>2 DEF FlashInv, Exact
<1>11. ReadOK'
  <2>. SUFFICES ASSUME pc' = "deliver", NEW i \in 0..turn.bytes - 1
                PROVE  IF copy.skew = 0 THEN mem'[copy.dest + i] = copy.src + i
                       ELSE turn'.bounce[i] = copy.src + i
    BY <1>1, <1>6 DEF ReadOK
  <2>1. i \in Nat /\ i < turn.bytes
    BY <1>2
  <2>2. CASE copy.skew = 0
    <3>1. mem' = [a \in DOMAIN mem |->
                   IF a \in copy.dest..copy.dest + turn.bytes - 1
                   THEN ByteRead(a - copy.dest) ELSE mem[a]]
      BY <2>2 DEF ReadFlash, Fail
    <3>2. copy.dest + i \in DOMAIN mem /\ copy.dest + i \in copy.dest..copy.dest + turn.bytes - 1
      <4>0. PICK dest, left, from, len, bytes, line \in Nat :
              /\ dest = copy.dest /\ left = copy.left /\ from = request.dest
              /\ len = request.len /\ bytes = turn.bytes /\ line = LineSize
        BY <1>12
      <4>5. dest + left = from + len /\ bytes <= left /\ i \in Nat /\ i < bytes
        BY <1>3, <1>12, <2>1, <4>0
      <4>6. /\ dest + i \in Nat /\ dest + i <= dest + bytes - 1
            /\ dest + i <= from + len + line
        BY ONLY <4>5, dest \in Nat, left \in Nat, from \in Nat, len \in Nat, bytes \in Nat,
                line \in Nat
      <4>1. /\ copy.dest + i \in Nat /\ copy.dest + i <= copy.dest + turn.bytes - 1
            /\ copy.dest + i <= request.dest + request.len + LineSize
        BY <4>0, <4>6
      <4>2. PICK place \in Nat : place = copy.dest + i
        BY <4>1
      <4>3. place >= copy.dest
        BY <1>12, <2>1, <4>2
      <4>4. place \in DOMAIN mem
        BY <1>3, <1>12, <4>1, <4>2
      <4>. QED BY <1>12, <4>1, <4>2, <4>3, <4>4
    <3>3. PICK place : place = copy.dest + i
      OBVIOUS
    <3>4. mem'[place] = ByteRead(place - copy.dest)
      <4>1. \A a \in DOMAIN mem : mem'[a] = IF a \in copy.dest..copy.dest + turn.bytes - 1
                                           THEN ByteRead(a - copy.dest) ELSE mem[a]
        BY <3>1
      <4>. QED BY <3>2, <3>3, <4>1
    <3>5. place - copy.dest = i
      BY <1>12, <2>1, <3>3
    <3>6. mem'[place] = copy.src + i
      BY <1>4, <3>4, <3>5
    <3>. QED BY <2>2, <3>3, <3>6
  <2>3. CASE copy.skew # 0
    <3>. DEFINE bounce == [k \in DOMAIN turn.bounce |->
                             IF k < turn.bytes THEN ByteRead(k) ELSE turn.bounce[k]]
    <3>1. turn' = [turn EXCEPT !.bounce = bounce]
      BY <2>3 DEF ReadFlash, Fail
    <3>2. turn'.bounce = bounce
      <4>. HIDE DEF bounce
      <4>. QED BY <1>2, <3>1
    <3>3. i \in 0..LineSize - 1 /\ DOMAIN turn.bounce = 0..LineSize - 1
      BY <1>2, <1>3, <2>1, <2>3
    <3>4. bounce[i] = ByteRead(i)
      BY <2>1, <3>3
    <3>. QED BY <1>4, <2>3, <3>2, <3>4
  <2>. QED BY <2>2, <2>3
<1>. QED BY <1>7, <1>8, <1>9, <1>10, <1>11 DEF FlashInv

LEMMA CursorArithmetic ==
  ASSUME NEW src \in Nat, NEW dest \in Nat, NEW left \in Nat, NEW bytes \in Nat,
         NEW s \in Nat, NEW d \in Nat, NEW len \in Nat,
         dest >= d, dest + left = d + len, src + left = s + len
  PROVE  /\ len - left \in Nat /\ len - (left - bytes) = len - left + bytes
         /\ dest = d + (len - left) /\ src = s + (len - left)
OBVIOUS

(* What is taken out of TempBuf beyond the bytes read lies behind the cursor's
   new place, where the next turn writes. *)
LEMMA DeliverFlash ==
  ASSUME SensibleFlash, CopyInv, FlashInv, Deliver
  PROVE  FlashInv'
<1>1. pc = "deliver" /\ FlashSame /\ InCopy /\ UNCHANGED <<selected, request, turn>>
  BY DEF Deliver, fittedVars, FlashSame, InCopy
<1>2. /\ turn \in [addr: Nat, bytes: Nat, bounce: [0..LineSize - 1 -> Nat \cup {Junk}]]
      /\ copy \in [src: Nat, dest: Nat, left: Nat, skew: 0..LineSize - 1]
      /\ chips \in [Chips -> [bank: Nat, wide: BOOLEAN, qpi: BOOLEAN]]
      /\ request.dest \in Nat /\ request.len \in Nat /\ LineSize \in Nat \ {0}
      /\ request.src \in Nat
  BY Sizes DEF CopyInv, QspiTypeOK, RequestType
<1>3. /\ copy.dest >= request.dest /\ copy.dest + copy.left = request.dest + request.len
      /\ turn.bytes \in 1..copy.left /\ (copy.skew # 0 => turn.bytes <= copy.skew)
      /\ DOMAIN mem = 0..request.dest + request.len + LineSize
      /\ copy.src >= request.src /\ copy.src + copy.left = request.src + request.len
      /\ request.src + request.len <= flashSize
  BY <1>1 DEF CopyInv, CursorOK, TurnOK, FlashInv, MemoryOK, SourceOK
<1>12. /\ copy.src \in Nat /\ copy.dest \in Nat /\ copy.left \in Nat /\ turn.bytes \in Nat
       /\ copy.skew \in Nat /\ turn.bytes > 0 /\ turn.bytes <= copy.left
       /\ (copy.skew # 0 => copy.skew <= LineSize - 1)
       /\ request.dest \in Nat /\ request.len \in Nat /\ request.src \in Nat
       /\ LineSize \in Nat \ {0}
  <2>1. copy.left \in Nat
    BY <1>2
  <2>. QED BY <1>2, <1>3, <2>1
<1>4. CASE Fail(XFSBL_ERROR_QSPI_READ) /\ UNCHANGED <<chips, copy, turn, mem>>
  <2>1. FlashOK'
    BY <1>1, <1>4, FlashStays DEF FlashInv, Fail
  <2>2. SourceOK' /\ MemoryOK' /\ PairsOK' /\ SetUpOK' /\ ChipsOK' /\ ReadOK'
    BY <1>4 DEF SourceOK, MemoryOK, PairsOK, SetUpOK, ChipsOK, ReadOK, InCopy, Fail
  <2>3. Exact'
    BY <1>1, <1>4 DEF FlashInv, Exact, Copied
  <2>. QED BY <2>1, <2>2, <2>3 DEF FlashInv
<1>5. CASE ~(Fail(XFSBL_ERROR_QSPI_READ) /\ UNCHANGED <<chips, copy, turn, mem>>)
  <2>. DEFINE taken == IF copy.skew = 0 THEN 0
                       ELSE IF board.width = 24 THEN copy.skew ELSE turn.bytes
  <2>1. /\ chips' = IF QpiReads THEN WithQpi(FALSE) ELSE chips
        /\ mem' = [a \in DOMAIN mem |-> IF a \in copy.dest..copy.dest + taken - 1
                                        THEN turn.bounce[a - copy.dest] ELSE mem[a]]
        /\ copy' = [src |-> copy.src + turn.bytes, dest |-> copy.dest + turn.bytes,
                    left |-> copy.left - turn.bytes, skew |-> 0]
        /\ pc' = "turn"
    BY <1>5 DEF Deliver
  <2>2. /\ taken \in Nat
        /\ copy.skew = 0 => taken = 0
        /\ copy.skew # 0 => taken >= turn.bytes /\ taken <= LineSize - 1
    BY <1>2, <1>3
  <2>. HIDE DEF taken
  <2>3. /\ copy'.src = copy.src + turn.bytes /\ copy'.dest = copy.dest + turn.bytes
        /\ copy'.left = copy.left - turn.bytes /\ copy'.skew = 0 /\ DOMAIN mem' = DOMAIN mem
    BY <2>1
  <2>4. FlashOK'
    <3>1. \A c \in Chips : WithQpi(FALSE)[c].wide = chips[c].wide
      BY <1>2 DEF WithQpi
    <3>2. \A c \in Chips : chips'[c].wide = chips[c].wide
      BY <2>1, <3>1
    <3>. QED BY <1>1, <2>1, <3>2, FlashStays DEF FlashInv
  <2>5. SourceOK' /\ MemoryOK'
    <3>1. PICK src, left, bytes, from, end \in Nat :
            /\ src = copy.src /\ left = copy.left /\ bytes = turn.bytes
            /\ from = request.src /\ end = request.src + request.len
      BY <1>12
    <3>2. src >= from /\ src + left = end
      BY <1>3, <3>1
    <3>3. src + bytes >= from /\ (src + bytes) + (left - bytes) = end
      BY <3>2
    <3>4. copy'.src >= request.src /\ copy'.src + copy'.left = request.src + request.len
      BY <2>3, <3>1, <3>3
    <3>. QED BY <1>1, <1>3, <2>3, <3>4 DEF SourceOK, MemoryOK, FlashSame
  <2>6. PairsOK'
    <3>. SUFFICES ASSUME board.mode = "parallel"
                  PROVE  copy'.src % 2 = 0 /\ copy'.left % 2 = 0 /\ copy'.skew % 2 = 0
      BY <1>1, <2>1 DEF PairsOK, FlashSame
    <3>1. copy.src % 2 = 0 /\ copy.left % 2 = 0 /\ turn.bytes % 2 = 0
      BY <1>1 DEF FlashInv, PairsOK
    <3>. QED BY <1>12, <2>3, <3>1
  <2>7. SetUpOK' /\ ChipsOK' /\ ReadOK'
    BY <2>1 DEF SetUpOK, ChipsOK, ReadOK
  <2>8. Exact'
    <3>. SUFFICES ASSUME NEW i \in 0..Copied' - 1
                  PROVE  mem'[request.dest + i] = request.src + i
      BY <1>1 DEF Exact
    <3>0. Copied = request.len - copy.left /\ Copied' = request.len - (copy.left - turn.bytes)
      BY <1>1, <2>3 DEF Copied
    <3>1. /\ Copied' = Copied + turn.bytes /\ Copied \in Nat /\ i \in Nat
          /\ i < Copied + turn.bytes /\ i < request.len
          /\ copy.dest = request.dest + Copied /\ copy.src = request.src + Copied
      <4>1. /\ Copied \in Nat /\ Copied' = Copied + turn.bytes
            /\ copy.dest = request.dest + Copied /\ copy.src = request.src + Copied
        <5>1. /\ copy.dest >= request.dest
              /\ copy.dest + copy.left = request.dest + request.len
              /\ copy.src + copy.left = request.src + request.len
          BY <1>3
        <5>. DEFINE n == request.len - copy.left
        <5>2. /\ n \in Nat /\ request.len - (copy.left - turn.bytes) = n + turn.bytes
              /\ copy.dest = request.dest + n /\ copy.src = request.src + n
          BY <1>12, <5>1, CursorArithmetic
        <5>. HIDE DEF n
        <5>3. Copied = n
          BY <3>0 DEF n
        <5>. QED BY <3>0, <5>2, <5>3
      <4>2. Copied + turn.bytes <= request.len
        BY <1>12, <3>0
      <4>. QED BY <1>12, <4>1, <4>2
    <3>2. request.dest + i \in DOMAIN mem
      <4>1. request.dest + i \in 0..request.dest + request.len + LineSize
        BY <1>12, <3>1
      <4>. QED BY <1>3, <4>1, Zenon
    <3>3. CASE i < Copied
      <4>1. i \in 0..Copied - 1 /\ request.dest + i < copy.dest
        <5>1. PICK n \in Nat : n = Copied
          BY <3>1
        <5>2. i \in Nat /\ i < n /\ request.dest \in Nat /\ copy.dest = request.dest + n
          BY <1>12, <3>1, <3>3, <5>1
        <5>. QED BY <5>1, <5>2
      <4>2. mem'[request.dest + i] = mem[request.dest + i]
        <5>1. PICK place : place = request.dest + i
          OBVIOUS
        <5>2. place \in DOMAIN mem /\ place \notin copy.dest..copy.dest + taken - 1
          <6>1. place \in DOMAIN mem /\ place < copy.dest
            BY <3>2, <4>1, <5>1
          <6>2. place \in Nat /\ copy.dest \in Nat /\ taken \in Nat
            BY <1>12, <2>2, <3>1, <5>1
          <6>. QED BY ONLY <6>1, <6>2
        <5>3. mem'[place] = mem[place]
          BY <2>1, <5>2
        <5>. QED BY <5>1, <5>3
      <4>. QED BY <4>1, <4>2 DEF FlashInv, Exact
    <3>4. CASE ~ (i < Copied)
      <4>1. PICK k \in 0..turn.bytes - 1 : i = Copied + k
        BY <1>2, <3>1, <3>4
      <4>2. /\ k \in Nat /\ k < turn.bytes /\ request.dest + i = copy.dest + k
            /\ request.src + i = copy.src + k
        BY <1>12, <3>1, <4>1
      <4>3. IF copy.skew = 0 THEN mem[copy.dest + k] = copy.src + k
            ELSE turn.bounce[k] = copy.src + k
        BY <1>1, <4>1 DEF FlashInv, ReadOK
      <4>4. CASE copy.skew = 0
        <5>1. mem'[copy.dest + k] = mem[copy.dest + k]
          BY <1>2, <2>1, <2>2, <3>2, <4>2, <4>4
        <5>. QED BY <4>2, <4>3, <4>4, <5>1
      <4>5. CASE copy.skew # 0
        <5>1. copy.dest + k \in copy.dest..copy.dest + taken - 1
          BY <1>12, <2>2, <4>2, <4>5
        <5>2. PICK place : place = copy.dest + k
          OBVIOUS
        <5>3. mem'[place] = turn.bounce[place - copy.dest]
          <6>1. copy.dest + k \in DOMAIN mem
            BY <3>2, <4>2
          <6>2. \A a \in DOMAIN mem : a \in copy.dest..copy.dest + taken - 1
                                       => mem'[a] = turn.bounce[a - copy.dest]
            BY <2>1
          <6>. QED BY <5>1, <5>2, <6>1, <6>2
        <5>4. place - copy.dest = k
          BY <1>12, <4>2, <5>2
        <5>5. mem'[place] = copy.src + k
          BY <4>3, <4>5, <5>3, <5>4
        <5>. QED BY <4>2, <5>2, <5>5
      <4>. QED BY <4>4, <4>5
    <3>. QED BY <3>3, <3>4
  <2>. QED BY <2>4, <2>5, <2>6, <2>7, <2>8 DEF FlashInv
<1>. QED BY <1>4, <1>5

LEMMA EndCopyFlash ==
  ASSUME FlashInv, EndCopy
  PROVE  FlashInv'
<1>1. /\ pc = "turn" /\ pc' = "ready" /\ FlashSame
      /\ UNCHANGED <<chips, selected, request, copy, turn, mem>>
  BY DEF EndCopy, fittedVars, chipVars, copyVars, FlashSame
<1>2. FlashOK'
  BY <1>1, FlashStays DEF FlashInv
<1>3. SourceOK' /\ MemoryOK' /\ PairsOK' /\ SetUpOK' /\ ChipsOK' /\ ReadOK'
  BY <1>1 DEF SourceOK, MemoryOK, PairsOK, SetUpOK, ChipsOK, ReadOK, InCopy
<1>4. Exact'
  BY <1>1 DEF FlashInv, Exact, Copied
<1>. QED BY <1>2, <1>3, <1>4 DEF FlashInv

LEMMA FlashNext == SensibleFlash /\ CopyInv /\ FlashInv /\ [Next]_vars => FlashInv'
<1>. SUFFICES ASSUME SensibleFlash, CopyInv, FlashInv, [Next]_vars PROVE FlashInv'
  OBVIOUS
<1>1. CASE ProbeFails \/ Probe \/ ProbeMacronix
  BY <1>1, ProbeFlash
<1>2. CASE \E r \in Requests : BeginCopy(r)
  BY <1>2, BeginCopyFlash
<1>3. CASE CopyStep
  BY <1>3, PrepareTurnFlash, SelectBankFlash, EnterQpiFlash, ReadFlashFlash, DeliverFlash,
     EndCopyFlash DEF CopyStep
<1>4. CASE UNCHANGED vars
  <2>1. FlashSame /\ UNCHANGED <<chips, selected, request, copy, turn, mem, pc>>
    BY <1>4 DEF vars, FlashSame
  <2>2. SourceOK' /\ MemoryOK' /\ PairsOK' /\ ReadOK' /\ Exact'
    BY <2>1 DEF FlashInv, SourceOK, MemoryOK, PairsOK, ReadOK, Exact, Copied, InCopy, FlashSame
  <2>3. SetUpOK'
    <3>1. CASE pc \in {"bank", "command", "read"}
      BY <2>1, <3>1, SetUpStays DEF FlashInv
    <3>2. CASE pc \notin {"bank", "command", "read"}
      BY <2>1, <3>2 DEF SetUpOK
    <3>. QED BY <3>1, <3>2
  <2>4. FlashOK' /\ ChipsOK'
    <3>1. /\ QpiReads' = QpiReads /\ OfDies(board)' = OfDies(board)
          /\ ChipCount' = ChipCount /\ FittedChips' = FittedChips
      BY <2>1 DEF FlashSame, QpiReads, Macronix, OfDies, ChipCount, FittedChips
    <3>. QED BY <2>1, <3>1, Zenon DEF FlashInv, FlashOK, ChipsOK, FlashSame
  <2>. QED BY <2>2, <2>3, <2>4 DEF FlashInv
<1>. QED BY <1>1, <1>2, <1>3, <1>4 DEF Next

(* Both copies bring the flash from the first byte asked for on, in order: for
   every size of flash, bank, die, line and chunk, every request and every fault
   but that of the four-byte command, on boards whose chips fit the bank
   arithmetic of XFsbl_Qspi24Copy and the dies of XFsbl_Qspi32Copy. *)
THEOREM CopiesAreExact ==
  ASSUME SensibleFlash
  PROVE  Spec => []Exact
<1>1. Init => CopyInv /\ FlashInv
  BY CopyInvInit, FlashInit
<1>2. (CopyInv /\ FlashInv) /\ [Next]_vars => (CopyInv /\ FlashInv)'
  BY CopyInvNext, FlashNext
<1>3. CopyInv /\ FlashInv => Exact
  BY DEF FlashInv
<1>. QED BY <1>1, <1>2, <1>3, PTL DEF Spec
=============================================================================
