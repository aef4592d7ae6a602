SPECIFICATION FairSpec
CONSTANTS
  c1 = c1
  c2 = c2
  Conns <- MCConns
  Sizes <- MCSizes
  StartSize <- MCStartSize
  OutCap = 1
  Resizers <- MCNone
  Typists <- MCTypists
  Detached <- MCNone
  LiveCap = 1
PROPERTIES LostAttachLeaves
CHECK_DEADLOCK FALSE
