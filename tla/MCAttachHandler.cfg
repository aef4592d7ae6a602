SPECIFICATION Spec
CONSTANTS
  c1 = c1
  c2 = c2
  Conns <- MCConns
  Sizes <- MCSizes
  StartSize <- MCStartSize
  OutCap = 1
  Resizers <- MCResizers
  Typists <- MCTypists
  Detached <- MCDetached
  LiveCap = 1
INVARIANTS ServedAttachLeaves OwnSendersDone
PROPERTIES WireOrder
CHECK_DEADLOCK FALSE
