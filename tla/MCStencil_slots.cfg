SPECIFICATION Spec
CONSTANTS
  N = 3
  Total = 4
  Warmup = 0
  SyncModes <- TokenModes
  Eager = TRUE
INVARIANTS NoOverwrittenGhost DriftBound MessagesPair IInv
PROPERTIES JacobiSpec
