SPECIFICATION Spec
CONSTANTS
  Ranks <- MCRanks
  Loc <- MCLoc
  Builds <- SoundBuilds
  Cycles = 4
INVARIANTS TypeOK SameDataflow FaultsStop PrintedCurrent AllReceived InStep
PROPERTY CycleSpec
