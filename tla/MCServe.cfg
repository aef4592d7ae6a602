SPECIFICATION MCSpec
CONSTANTS
  h1 = h1
  h2 = h2
  k1 = k1
  k2 = k2
  Handlers = {h1, h2}
  Keys = {k1, k2}
  Home = home
  None = none
  Requests <- MCRequests
INVARIANTS RightSession LiveIsReached CreatedIsOwn
PROPERTIES BridgeEnds
CHECK_DEADLOCK FALSE
