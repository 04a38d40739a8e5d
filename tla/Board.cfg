\* One lane at a time with each protocol, five clocks of the controller.
SPECIFICATION FairSpec
CONSTANTS
  Designs <- OneLaneChanged
  InputClocks <- FiveClocks
INVARIANTS
  BoardTypeOK
  SuccessIsOnTheBoard
  NearestRate
PROPERTIES
  SpokenToInOrder
  OneTransferAtATime
  BoardInitEnds
\* The initialisation ends.
CHECK_DEADLOCK FALSE
