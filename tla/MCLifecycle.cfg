SPECIFICATION FairSpec
CONSTANTS
  p1 = p1
  p2 = p2
  x1 = x1
  Procs <- MCProcs
  Listers <- MCListers
  Attended <- MCAttended
  NoProc = NoProc
INVARIANTS FlockHeld StateIsOwners RecordingIsOwners
PROPERTIES OneServesAtATime RestartServes TermEnds
CHECK_DEADLOCK FALSE
