SPECIFICATION Spec
CONSTANTS
  Ranks <- MCRanks
  Loc <- MCLoc
  Builds <- StagedBuilds
  Cycles = 2
INVARIANT SameDataflow
