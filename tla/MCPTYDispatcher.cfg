SPECIFICATION FairSpec
CONSTANTS
  v1 = v1
  s1 = s1
  z1 = z1
  z2 = z2
  w1 = w1
  p1 = p1
  Viewers <- MCViewers
  Streams <- MCStreams
  Resizers <- MCResizers
  Writers <- MCWriters
  Pasters <- MCPasters
  Casts <- MCCasts
  Reader = Reader
  Closer = Closer
  NoResize = NoResize
  Nobody = Nobody
  ActCap = 1
  SubCap = 1
  LineCap = 1
INVARIANTS SubscribedIsOpen EveryReadIsFed SerialResizesAgree WritesAreWhole
PROPERTIES SnapshotThenLive DoReturns
CHECK_DEADLOCK FALSE
