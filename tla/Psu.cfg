\* Both builds, one PLL, two attempts of the PHY, two calibrations, a search
\* for each generation over seven counters.
SPECIFICATION FairSpec
CONSTANTS
  DdrByPsuInit <- BothBuilds
  NumPlls = 1
  PllRetries = 2
  Repeats = 1
  Kinds <- OneKind
  ValidCodes <- ThreeCodes
  Counters = 7
  Searches <- BothGenerations
INVARIANTS
  SuccessMeansReady
  MostFrequentCode
  SettingHasMargin
PROPERTIES
  PhyOneAtATime
  PsuInitEnds
\* psu_init ends, or hangs in the first training.
CHECK_DEADLOCK FALSE
