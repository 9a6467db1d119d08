SPECIFICATION Spec
CONSTANTS
  Shapes <- AllShapes
  Phases <- AllPhases
  Paths <- AllPaths
INVARIANTS ExchangeInv BuffersFit PutsMatchPosts WaitCoversRead ExchangeExact
