SPECIFICATION Spec
CONSTANTS
  N = 3
  Topologies <- AllMachines
  Calls <- BothCalls
  Votes <- AnyVote
  NoMem = FALSE
  MayAbort = TRUE
  AppSync = TRUE
INVARIANTS TypeOK VerdictExact CollectivesMatch SelfQuerySucceeds WindowInv
PROPERTIES PeerWindowSpec EveryCallReturns
