SPECIFICATION Spec
CONSTANTS
  CSICap = 6
  OSCCap = 7
  ObserveCap = 7
  UserFrames = 1
  MaxFrames = 2
  Programs <- MCText
INVARIANTS TextPasses
CHECK_DEADLOCK FALSE
