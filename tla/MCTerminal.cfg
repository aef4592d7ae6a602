SPECIFICATION MCSpec
CONSTANTS
  CSICap = 6
  OSCCap = 7
  ObserveCap = 7
  UserFrames = 1
  MaxFrames = 2
  Programs <- MCPrograms
INVARIANTS OutputFollows AnsweredOnce MirrorIsPrimary KeyboardRestored ChordsFound
CHECK_DEADLOCK FALSE
