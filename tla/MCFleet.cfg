SPECIFICATION Spec
CONSTANTS
  a = a
  b = b
  c = c
  Symbols <- MCSymbols
  MaxConcurrent = 2
  MaxGross = 2
  FlattenOnRetire = TRUE
  Targets <- MCTargets
  Drifts = TRUE
  MaxScans = 2
  MaxEvents = 2
INVARIANTS
  GrossWithinCap
  PositionHasDriver
SYMMETRY MCSymmetry
CHECK_DEADLOCK FALSE
