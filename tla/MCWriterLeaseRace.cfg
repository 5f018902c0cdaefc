\* Two recovery commands, each told to remove a proven-dead lease, at once.
CONSTANTS
  Procs = {p1, p2, p3}
  NoProc = NoProc
  MaxDirs = 2
  StaleAlone = FALSE
  PidReuse = FALSE
SPECIFICATION Spec
CHECK_DEADLOCK FALSE
PROPERTY EvictsOnlyTheDead
