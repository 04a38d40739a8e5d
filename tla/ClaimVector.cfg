\* Two programs with different vector locations.
SPECIFICATION Spec
CONSTANTS
  Lists <- MixedVectors
  None = None
INVARIANTS
  VectorsAsListed
CHECK_DEADLOCK FALSE
