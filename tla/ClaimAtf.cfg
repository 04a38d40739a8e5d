\* ATF with two programs to start.
SPECIFICATION Spec
CONSTANTS
  Images <- SecureAndNot
INVARIANTS
  AtfGetsAllApplications
\* The headers are read once.
CHECK_DEADLOCK FALSE
