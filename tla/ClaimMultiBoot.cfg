\* One fallback.
SPECIFICATION Spec
CONSTANTS
  Boards <- QspiBoard
  FlashContents <- SelfOnly
  FwStaysPresent = FALSE
  MaxBoots = 1
INVARIANTS
  PartitionsFollowMultiBoot
\* The loader ends in a wait for events, in the application, or for a reset
\* past MaxBoots.
CHECK_DEADLOCK FALSE
