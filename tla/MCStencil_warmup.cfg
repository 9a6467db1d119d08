SPECIFICATION Spec
CONSTANTS
  N = 2
  Total = 3
  Warmup = 1
  SyncModes <- NeighborMode
  Eager = TRUE
INVARIANT NoStaleGhost
