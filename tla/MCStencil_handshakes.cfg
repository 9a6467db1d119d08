SPECIFICATION Spec
CONSTANTS
  N = 3
  Total = 3
  Warmup = 0
  SyncModes <- AllModes
  Eager = FALSE
INVARIANTS TypeOK NoStaleGhost
PROPERTIES SendBufStable Termination
