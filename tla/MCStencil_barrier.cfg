SPECIFICATION Spec
CONSTANTS
  N = 2
  Total = 3
  Warmup = 0
  SyncModes <- BarrierMode
  Eager = TRUE
INVARIANT NoOverwrittenGhost
