CONSTANTS
  Procs = {p1, p2, p3}
  NoProc = NoProc
  MaxEvents = 6
  MaxFiles = 4
  OpenAlone = TRUE
SPECIFICATION Spec
CHECK_DEADLOCK FALSE
SYMMETRY ProcSymmetry
INVARIANTS TypeOK AckedSurvive ReturnedStay LogReplayable OneFactPerTail OneInFlight
PROPERTY ImplementsAppendOnlyLog
