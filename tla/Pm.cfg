\* Two notifiers with a pair each, four requests, two notifications.
SPECIFICATION FairSpec
CONSTANTS
  n1 = n1
  n2 = n2
  p1 = p1
  p2 = p2
  Null = Null
  Notifiers <- TwoNotifiers
  Pairs = {p1, p2}
  PairOf <- OwnPairs
  WakeTargets = {"cpu", "pu"}
  MaxCalls = 4
  MaxEvents = 2
INVARIANTS
  PmTypeOK
  ListedAreRegistered
  SleepIsExpected
PROPERTIES
  ImplementsRemoteCall
  EachHearsOnce
  CallsEnd
\* The program may stop calling, and the bounds end it.
CHECK_DEADLOCK FALSE
