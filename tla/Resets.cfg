\* Boots, falls back and is reset up to three times, with fair processors.
SPECIFICATION FairSpec
CONSTANTS
  Boards <- AllBoards
  FlashContents <- RepeatedImages
  FwStaysPresent = FALSE
  MaxBoots = 3
PROPERTIES
  ImplementsProtocol
  BootSettles
\* The loader ends in a wait for events, in the application, or for a reset
\* past MaxBoots.
CHECK_DEADLOCK FALSE
