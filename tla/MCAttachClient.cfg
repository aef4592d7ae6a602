SPECIFICATION MCSpec
CONSTANTS
  OutCap = 1
  MaxSize = 2
  MaxClones = 1
INVARIANTS SizeCurrent RetriesOn TerminalRestored
PROPERTIES SwitchReaches DetachLeaves SilenceEnds Reconnects
CHECK_DEADLOCK FALSE
