SPECIFICATION Spec
CONSTANTS
  N = 2
  Topologies <- WholeMachine
  Calls <- AllocateCall
  Votes <- Able
  NoMem = TRUE
  MayAbort = FALSE
  AppSync = TRUE
PROPERTIES EveryCallReturns
CHECK_DEADLOCK FALSE
