\* Lists of up to three processors in every order, and a longer one.
SPECIFICATION FairSpec
CONSTANTS
  Lists <- ManyLists
  None = None
INVARIANTS
  PoweredBeforeReset
PROPERTIES
  StartsAsListed
  ReleaseEnds
\* The release ends.
CHECK_DEADLOCK FALSE
