\* Every order of up to three working partitions, and partitions, tables and
\* boards the loader refuses; one boot.
SPECIFICATION Spec
CONSTANTS
  Boards <- AllBoards
  FlashContents <- AllImages
  FwStaysPresent = FALSE
  MaxBoots = 0
INVARIANTS
  TypeOK
  HandoffListOK
  HandoffListIsFirstApplications
  NothingStartsEarly
  PmuRamQuiet
  OnlyGoodImagesStart
PROPERTIES
  FirmwareStartsWhole
\* The loader ends in a wait for events, in the application, or for a reset
\* past MaxBoots.
CHECK_DEADLOCK FALSE
