SPECIFICATION Spec
CONSTANTS
  P = 3
  Total = 2
  Warmup = 1
  Modes <- AllModes
  Mappings <- AllMappings
INVARIANTS TransposeInv BlocksExact UnpacksExact QuietAtFree
PROPERTIES Termination
