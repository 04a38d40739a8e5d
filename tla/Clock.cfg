\* Two units, three-bit dividers and 28 pins.
SPECIFICATION Spec
CONSTANTS
  DivWidth = 7
  Mios = 28
  apu = apu
  rpu = rpu
  Callers <- Units
  TheClocks <- Kinds
  Values <- SomeValues
  MaxCalls = 3
SYMMETRY UnitsAreAlike
INVARIANTS
  ClockTypeOK
  DividerIsReadBack
  ParentIsReadBack
\* The calls of a behaviour are bounded.
CHECK_DEADLOCK FALSE
