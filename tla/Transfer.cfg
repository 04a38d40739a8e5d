\* Reads of 1 to 51 bytes: the FIFO alone, the DMA alone, the DMA with each
\* rest; one, two and three entries.
SPECIFICATION FairSpec
CONSTANTS
  Transfers <- BootTransfers
  ReadSizes = {1, 4, 7, 8, 9, 16, 22, 39, 51}
  ExpStart = 16
  TxFill = 4
  TxWords = 2
  RxWords = 2
  MaxBuffer = 52
  MaxTransfers = 2
INVARIANTS
  LeavesNothing
PROPERTIES
  ImplementsTransaction
  TransferEnds
\* The bound on the transfers ends a behaviour, and so does an assertion.
CHECK_DEADLOCK FALSE
