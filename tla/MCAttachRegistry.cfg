SPECIFICATION RegistryFairSpec
CONSTANTS
  a1 = a1
  a2 = a2
  z1 = z1
  z2 = z2
  Attaches <- MCAttaches
  Sizes <- MCSizes
INVARIANTS SerialMirrors
PROPERTIES DetachReaches
CHECK_DEADLOCK FALSE
