------------------------------ MODULE QspiCopy ------------------------------
(****************************************************************************)
(* Reading the boot flash (xfsbl_qspi.c): XFsbl_Qspi24Init and 32Init find  *)
(* out what is fitted, XFsbl_Qspi24Copy and 32Copy bring a stretch of flash *)
(* into memory.  A copy is cut where the destination is not on a cache      *)
(* line, where a bank (24-bit addresses) or a die (32-bit) ends, and at the *)
(* length of one transfer; its bytes come from one chip or from a pair that *)
(* is stacked or striped.                                                   *)
(*                                                                          *)
(* A byte of flash is named by its address in the whole device, so memory   *)
(* holds what a copy promises when mem[dest + i] = src + i.  The chips      *)
(* answer from their own registers, not from what the loader believes.      *)
(****************************************************************************)
EXTENDS Integers, Sequences, FsblCodes

CONSTANTS
  BankSize,       \* BANKSIZE: what a 24-bit address reaches
  DieSize,        \* BANKSIZE_64MB: a die of a chip made of several
  LargestChip,    \* FLASH_SIZE_2G
  LineSize,       \* XFSBL_SIXTY_FOUR_BYTE_VAL
  ChunkLimit,     \* DMA_DATA_TRAN_SIZE
  TransferLimit,  \* XQSPIPSU_DMA_BYTES_MAX of the controller's driver
  WordMod,        \* 2^32: the range of a u32
  Boards,         \* the flash that may be fitted, and how it is addressed
  LeftBanks,      \* banks an earlier boot may have left selected
  Requests,       \* the copies the loader may ask for
  Faults,         \* the controller operations that may fail
  MaxCopies       \* bound: copies in a behaviour

Chips == {"lower", "upper"}
Makes == {"micron", "spansion", "macronix", "winbond", "issi"}
Operations == {"controller", "identify", "fourByte", "bank", "qpi", "read"}

BoardType ==
  [width: {24, 32}, mode: {"single", "stacked", "parallel"}, make: Makes,
   chipSize: Nat \ {0}, fourWires: BOOLEAN]
RequestType == [src: Nat, dest: Nat, len: Nat]

ASSUME QspiAssumption ==
  /\ {BankSize, DieSize, LargestChip, LineSize, ChunkLimit, TransferLimit, WordMod,
      MaxCopies} \subseteq Nat \ {0}
  /\ Boards \subseteq BoardType /\ LeftBanks \subseteq Nat
  /\ Requests \subseteq RequestType /\ Faults \subseteq Operations

VARIABLES
  board,       \* what is fitted
  chips,       \* registers of each chip: bank, four-byte addresses, QPI mode
  selected,    \* chips the controller addresses (XQspiPsu_SelectFlash)
  flashSize,   \* QspiFlashSize
  multiDie,    \* MultiDie
  request,     \* arguments of the copy in progress or last made
  copy,        \* SrcAddress, DestAddress, RemainingBytes, UnalignedBytes
  turn,        \* this turn: QspiAddr, TransferBytes, and what TempBuf holds
  mem,         \* memory a copy may write, by address
  status,      \* what the last routine returned
  pc,          \* where the loader is
  copies       \* copies made

fittedVars == <<board, flashSize, multiDie>>
chipVars == <<chips, selected>>
copyVars == <<request, copy, turn, mem>>
vars == <<board, chips, selected, flashSize, multiDie, request, copy, turn, mem, status,
          pc, copies>>

Untouched == -1                  \* memory no copy wrote
Junk == -2                       \* bytes that are not in the flash
NoRequest == [src |-> 0, dest |-> 0, len |-> 0]

NoTurn == [addr |-> 0, bytes |-> 0, bounce |-> [i \in 0..LineSize - 1 |-> Junk]]

Smaller(a, b) == IF a < b THEN a ELSE b
Failing(operation) == operation \in Faults

Macronix == board.make = "macronix"
QpiReads == Macronix /\ board.fourWires
FittedChips == IF board.mode = "single" THEN {"lower"} ELSE Chips
Striping == IF board.mode = "parallel" THEN 2 ELSE 1

Fail(code) == status' = code /\ pc' = "failed"

-----------------------------------------------------------------------------
(* The chips, from their side of the bus. *)

(* A read goes on to the end of what a chip can count through, then wraps. *)
ChipWindow ==
  IF board.width = 24 THEN Smaller(BankSize, board.chipSize)
  ELSE IF board.chipSize = LargestChip /\ board.make \in {"micron", "winbond"} THEN DieSize
  ELSE board.chipSize

AnsweringChip == IF "lower" \in selected THEN "lower" ELSE "upper"

(* The address a chip reads at: a 24-bit one is completed by the bank. *)
ChipAddress ==
  IF board.width = 24
  THEN (chips[AnsweringChip].bank * BankSize + (turn.addr % BankSize)) % board.chipSize
  ELSE turn.addr

(* A chip understands the read when it listens on as many wires, and for as
   many address bytes, as the controller sends it on. *)
Understands ==
  \A c \in selected : /\ chips[c].qpi = QpiReads
                      /\ QpiReads => chips[c].wide = (board.width = 32)

(* Byte i of the read now set up; a pair of striped chips is read in step. *)
ByteRead(i) ==
  IF ~Understands THEN Junk
  ELSE LET window == ChipWindow * Striping
           start == ChipAddress * Striping
           origin == IF AnsweringChip = "upper" THEN board.chipSize ELSE 0
       IN origin + (start \div window) * window + ((start + i) % window)

-----------------------------------------------------------------------------
Init ==
  /\ board \in Boards
  /\ \E bank \in LeftBanks :
       chips = [c \in Chips |-> [bank |-> bank, wide |-> FALSE, qpi |-> FALSE]]
  /\ selected = {"lower"} /\ flashSize = 0 /\ multiDie = FALSE
  /\ request = NoRequest
  /\ copy = [src |-> 0, dest |-> 0, left |-> 0, skew |-> 0]
  /\ turn = NoTurn
  /\ mem = [a \in {} |-> Untouched]
  /\ status = XFSBL_SUCCESS /\ pc = "off" /\ copies = 0

(* The controller or the identification of the chip fails. *)
ProbeFails ==
  /\ pc = "off"
  /\ \/ /\ Failing("controller")
        /\ \E code \in {XFSBL_ERROR_QSPI_INIT, XFSBL_ERROR_QSPI_MANUAL_START,
                        XFSBL_ERROR_QSPI_PRESCALER_CLK} : Fail(code)
     \/ /\ Failing("identify")
        /\ \E code \in {XFSBL_FAILURE, XFSBL_ERROR_UNSUPPORTED_QSPI} : Fail(code)
  /\ UNCHANGED <<fittedVars, chipVars, copyVars, copies>>

(* FlashReadID: the size of one chip, and whether it is made of dies. *)
Identify(chipCount) ==
  /\ flashSize' = chipCount * board.chipSize
  /\ multiDie' = (multiDie \/ (board.chipSize = LargestChip
                               /\ board.make \in {"micron", "winbond"}))

ChipCount == IF board.mode = "single" THEN 1 ELSE 2

(* XFsbl_Qspi24Init, and 32Init for all makes but Macronix. *)
Probe ==
  /\ pc = "off" /\ (board.width = 24 \/ ~Macronix)
  /\ Identify(ChipCount)
  /\ selected' = {"lower"}
  /\ status' = XFSBL_SUCCESS /\ pc' = "ready"
  /\ UNCHANGED <<board, chips, copyVars, copies>>

(* MacronixEnable4B for the chips in turn: both at once, or one by one. *)
FourByteSteps ==
  CASE board.mode = "parallel" -> <<Chips>>
    [] board.mode = "stacked" -> <<{"lower"}, {"upper"}>>
    [] board.mode = "single" -> <<{"lower"}>>

(* XFsbl_Qspi32Init for Macronix.  A chip that does not take the command ends
   it before the size is doubled, with the status of FlashReadID. *)
ProbeMacronix ==
  /\ pc = "off" /\ board.width = 32 /\ Macronix
  /\ \E done \in 0..Len(FourByteSteps) :
       /\ done < Len(FourByteSteps) => Failing("fourByte")
       /\ chips' = [c \in Chips |->
                      [chips[c] EXCEPT !.wide = @ \/ \E k \in 1..done : c \in FourByteSteps[k]]]
       /\ selected' = FourByteSteps[Smaller(done + 1, Len(FourByteSteps))]
       /\ Identify(IF done < Len(FourByteSteps) THEN 1 ELSE ChipCount)
  /\ status' = XFSBL_SUCCESS /\ pc' = "ready"
  /\ UNCHANGED <<board, copyVars, copies>>

-----------------------------------------------------------------------------
(* The entry of XFsbl_Qspi24Copy and XFsbl_Qspi32Copy. *)
BeginCopy(r) ==
  /\ pc = "ready" /\ copies < MaxCopies
  /\ request' = r
  /\ copy' = [src |-> r.src, dest |-> r.dest, left |-> r.len, skew |-> r.dest % LineSize]
  /\ mem' = [a \in 0..r.dest + r.len + LineSize |-> Untouched]
  /\ \/ /\ (r.src + r.len) % WordMod > flashSize
        /\ Fail(XFSBL_ERROR_QSPI_LENGTH)
     \/ /\ (r.src + r.len) % WordMod <= flashSize
        /\ pc' = "turn" /\ UNCHANGED status
  /\ turn' = NoTurn
  /\ copies' = copies + 1
  /\ UNCHANGED <<fittedVars, chipVars>>

(* XFsbl_GetQspiAddr: the chips to select and the address within them. *)
SelectedFor(address) ==
  CASE board.mode = "parallel" -> Chips
    [] board.mode = "stacked" /\ address >= flashSize \div 2 -> {"upper"}
    [] OTHER -> {"lower"}

(* Mutant: the size of the first chip is not subtracted. *)
UpperUnshifted(address) == IF board.mode = "parallel" THEN address \div 2 ELSE address

GetQspiAddr(address) ==
  CASE board.mode = "parallel" -> address \div 2
    [] board.mode = "stacked" /\ address >= flashSize \div 2 -> address - flashSize \div 2
    [] OTHER -> address

(* BankSize of the two copies; a 32-bit copy looks at dies only. *)
CutSize == (IF board.width = 32 /\ multiDie THEN DieSize ELSE BankSize) * Striping
Cuts == board.width = 24 \/ multiDie

(* Mutant: the end of the bank is taken for its start. *)
CutAtStart(original, n) ==
  IF Cuts /\ original \div CutSize # (original + n) \div CutSize
  THEN (original \div CutSize) * CutSize - original ELSE n

(* Mutant: the bytes since the start of the bank, not those to its end. *)
CutToStart(original, n) ==
  IF Cuts /\ original \div CutSize # (original + n) \div CutSize
  THEN Smaller(original % CutSize, n) ELSE n

(* The bytes of a read of n bytes that are left of the next end of a bank. *)
CutAtEnd(original, n) ==
  IF Cuts /\ original \div CutSize # (original + n) \div CutSize
  THEN (original \div CutSize) * CutSize + CutSize - original
  ELSE n

(* Mutant: the rest of the line, however little is to be copied. *)
RestOfLine(chunk) == IF copy.skew = 0 THEN 0 ELSE LineSize - copy.skew

(* UnalignedBytes: what of the chunk lies before the next cache line. *)
BeforeLine(chunk) ==
  IF copy.skew = 0 THEN 0 ELSE Smaller(LineSize - copy.skew, chunk)

(* The head of a turn, up to the bank: how much, from where. *)
PrepareTurn ==
  /\ pc = "turn" /\ copy.left > 0
  /\ LET chunk == Smaller(copy.left, ChunkLimit)
         skew == BeforeLine(chunk)
         wanted == IF skew = 0 THEN chunk ELSE skew
         addr == GetQspiAddr(copy.src)
     IN /\ copy' = [copy EXCEPT !.skew = skew]
        /\ turn' = [turn EXCEPT !.addr = addr,
                                !.bytes = CutAtEnd(addr * Striping, wanted)]
  /\ selected' = SelectedFor(copy.src)
  /\ pc' = IF board.width = 24 /\ flashSize > CutSize THEN "bank" ELSE "command"
  /\ UNCHANGED <<fittedVars, chips, request, mem, status, copies>>

(* SendBankSelect: Micron, Macronix and Spansion have a register for it; the
   others take no command. *)
WithBank(bank) ==
  [c \in Chips |-> IF c \in selected /\ board.make \in {"micron", "macronix", "spansion"}
                   THEN [chips[c] EXCEPT !.bank = bank] ELSE chips[c]]

SelectBank ==
  /\ pc = "bank"
  /\ \/ /\ chips' = WithBank(turn.addr \div BankSize)
        /\ pc' = "command" /\ UNCHANGED status
     \/ /\ Failing("bank") /\ Fail(XFSBL_ERROR_QSPI_READ)
        /\ chips' \in {chips, WithBank(turn.addr \div BankSize)}
  /\ UNCHANGED <<fittedVars, selected, copyVars, copies>>

(* Mutant: the command is always the one that enables it. *)
AlwaysEnable(on) ==
  [c \in Chips |-> IF c \in selected THEN [chips[c] EXCEPT !.qpi = TRUE] ELSE chips[c]]

(* MacronixEnableQPIMode around a read on four wires. *)
WithQpi(on) ==
  [c \in Chips |-> IF c \in selected THEN [chips[c] EXCEPT !.qpi = on] ELSE chips[c]]

EnterQpi ==
  /\ pc = "command"
  /\ \/ /\ ~QpiReads /\ pc' = "read" /\ UNCHANGED <<chips, status>>
     \/ /\ QpiReads /\ chips' = WithQpi(TRUE)
        /\ pc' = "read" /\ UNCHANGED status
     \/ /\ QpiReads /\ Failing("qpi")
        /\ Fail(XFSBL_ERROR_QSPI_READ) /\ UNCHANGED chips
  /\ UNCHANGED <<fittedVars, selected, copyVars, copies>>

(* The read itself, to memory or to TempBuf. *)
ReadFlash ==
  /\ pc = "read"
  /\ \/ /\ turn.bytes <= TransferLimit
        /\ \/ /\ copy.skew = 0 /\ UNCHANGED turn
              /\ mem' = [a \in DOMAIN mem |->
                           IF a \in copy.dest..copy.dest + turn.bytes - 1
                           THEN ByteRead(a - copy.dest) ELSE mem[a]]
           \/ /\ copy.skew # 0 /\ UNCHANGED mem
              /\ turn' = [turn EXCEPT !.bounce =
                            [i \in DOMAIN @ |-> IF i < turn.bytes THEN ByteRead(i) ELSE @[i]]]
        /\ pc' = "deliver" /\ UNCHANGED status
     \/ /\ turn.bytes > TransferLimit \/ Failing("read")
        /\ Fail(XFSBL_ERROR_QSPI_READ) /\ UNCHANGED <<turn, mem>>
  /\ UNCHANGED <<fittedVars, chipVars, request, copy, copies>>

(* The tail of a turn: out of QPI mode, TempBuf to memory, on to what is left.
   The 24-bit copy takes UnalignedBytes out of TempBuf even when the bank
   ended sooner. *)
Deliver ==
  /\ pc = "deliver"
  /\ \/ /\ QpiReads /\ Failing("qpi") /\ Fail(XFSBL_ERROR_QSPI_READ)
        /\ UNCHANGED <<chips, copy, turn, mem>>
     \/ LET taken == IF copy.skew = 0 THEN 0
                     ELSE IF board.width = 24 THEN copy.skew ELSE turn.bytes
        IN /\ chips' = IF QpiReads THEN WithQpi(FALSE) ELSE chips
           /\ mem' = [a \in DOMAIN mem |-> IF a \in copy.dest..copy.dest + taken - 1
                                          THEN turn.bounce[a - copy.dest] ELSE mem[a]]
           /\ copy' = [src |-> copy.src + turn.bytes, dest |-> copy.dest + turn.bytes,
                       left |-> copy.left - turn.bytes, skew |-> 0]
           /\ pc' = "turn" /\ UNCHANGED <<turn, status>>
  /\ UNCHANGED <<fittedVars, selected, request, copies>>

(* The return; BankSwitchFlag is never set, so the bank stays selected. *)
EndCopy ==
  /\ pc = "turn" /\ copy.left = 0
  /\ status' = XFSBL_SUCCESS /\ pc' = "ready"
  /\ UNCHANGED <<fittedVars, chipVars, copyVars, copies>>

CopyStep ==
  PrepareTurn \/ SelectBank \/ EnterQpi \/ ReadFlash \/ Deliver \/ EndCopy

Next ==
  \/ ProbeFails \/ Probe \/ ProbeMacronix
  \/ \E r \in Requests : BeginCopy(r)
  \/ CopyStep

Spec == Init /\ [][Next]_vars

(* A polled transfer ends, well or not, so a copy that was begun goes on. *)
FairSpec == Spec /\ WF_vars(CopyStep)

-----------------------------------------------------------------------------
InCopy == pc \in {"turn", "bank", "command", "read", "deliver"}
Copied == request.len - copy.left

QspiTypeOK ==
  /\ board \in Boards
  /\ chips \in [Chips -> [bank: Nat, wide: BOOLEAN, qpi: BOOLEAN]]
  /\ selected \in (SUBSET Chips) \ {{}} /\ flashSize \in Nat /\ multiDie \in BOOLEAN
  /\ request \in RequestType
  /\ copy \in [src: Nat, dest: Nat, left: Nat, skew: 0..LineSize - 1]
  /\ turn \in [addr: Nat, bytes: Nat, bounce: [0..LineSize - 1 -> Nat \cup {Junk}]]
  /\ mem \in [DOMAIN mem -> Nat \cup {Untouched, Junk}]
  /\ status \in Nat /\ copies \in 0..MaxCopies
  /\ pc \in {"off", "ready", "failed"} \/ InCopy

(* What was copied so far is the flash from the first byte asked for on, in
   order; at the return that is the whole request.  Address translation, bank
   selection and every cut of XFsbl_Qspi24Copy and 32Copy must agree for it. *)
Exact == \A i \in 0..Copied - 1 : mem[request.dest + i] = request.src + i

(* No byte outside the destination is written, not even while TempBuf is
   emptied or after a failure: what lies there belongs to somebody else. *)
InsideDestination ==
  \A a \in DOMAIN mem :
    mem[a] # Untouched => a \in request.dest..request.dest + request.len - 1

(* Between the reads every chip listens on one wire, as the bank command of
   the next turn and the next copy need it to. *)
ListensAgain == pc \in {"ready", "turn", "bank"} => \A c \in Chips : ~chips[c].qpi

(* A copy that has begun returns, whatever its cuts. *)
CopyEnds == InCopy ~> pc \in {"ready", "failed"}
=============================================================================
