SPECIFICATION MCSpec
CONSTANTS
  BucketMs = 2
  DeltaMax = 2
  SpacerMax = 4
  PayloadMax = 1
  MaxTime = 9
  MaxItems = 4
  x1 = x1
  x2 = x2
  Watchers <- MCWatchers
  EventCap = 2
  MaxState = 4
INVARIANTS OrderKept
PROPERTIES LogPlays EventsInOrder EventsCatchUp
CHECK_DEADLOCK FALSE
