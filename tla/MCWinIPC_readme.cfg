SPECIFICATION Spec
CONSTANTS
  N = 2
  Topologies <- WholeMachine
  Calls <- AllocateCall
  Votes <- Able
  NoMem = FALSE
  MayAbort = FALSE
  AppSync = FALSE
INVARIANT NoLostStore
