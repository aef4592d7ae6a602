SPECIFICATION FairSpec
CONSTANTS
  c1 = c1
  c2 = c2
  Conns <- MCOne
  Sizes <- MCSizes
  StartSize <- MCStartSize
  OutCap = 1
  Resizers <- MCNone
  Typists <- MCNone
  Detached <- MCNone
  LiveCap = 1
PROPERTIES TeardownFinishes
CHECK_DEADLOCK FALSE
