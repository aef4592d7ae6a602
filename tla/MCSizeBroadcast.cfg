SPECIFICATION Spec
CONSTANTS
  c1 = c1
  c2 = c2
  c3 = c3
  Conns <- MCConns
  Sizes <- MCSizes
  StartSize <- MCStartSize
  MaxVersion = 3
SYMMETRY MCSymmetry
INVARIANTS NegotiatedSize EveryMemberIsTold
CHECK_DEADLOCK FALSE
