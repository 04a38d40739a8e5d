\* 24- and 32-bit addresses: every fitting of one or two chips.
SPECIFICATION FairSpec
CONSTANTS
  BankSize = 16
  DieSize = 32
  LargestChip = 64
  LineSize = 8
  ChunkLimit = 128
  TransferLimit = 64
  WordMod = 65536
  Boards <- AllBoards
  LeftBanks = {0, 1}
  Requests <- AroundTheEnds
  Faults = {"controller", "identify", "bank", "qpi", "read"}
  MaxCopies = 2
INVARIANTS
  QspiTypeOK
  Exact
  InsideDestination
  ListensAgain
PROPERTIES
  CopyEnds
\* The loader goes on elsewhere after a failure or the last copy.
CHECK_DEADLOCK FALSE
