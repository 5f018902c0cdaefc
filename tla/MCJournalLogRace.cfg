CONSTANTS
  Procs = {p1, p2}
  NoProc = NoProc
  MaxEvents = 5
  MaxFiles = 3
  OpenAlone = FALSE
SPECIFICATION Spec
CHECK_DEADLOCK FALSE
INVARIANT AckedSurvive
