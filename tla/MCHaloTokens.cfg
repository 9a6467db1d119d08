SPECIFICATION Spec
CONSTANTS
  N = 3
  Row <- Triangle
  Total = 6
  Packings <- BothPackings
  Mappings <- SomeMappings
INVARIANTS TypeOK UnpacksExact TagsSuffice QuietAtTeardown TokensInv
PROPERTIES Termination ExchangeSpec
