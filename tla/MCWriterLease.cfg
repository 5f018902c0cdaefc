\* Four processes, of which any may take over a lease, but one at a time.
CONSTANTS
  Procs = {p1, p2, p3, p4}
  NoProc = NoProc
  MaxDirs = 4
  StaleAlone = TRUE
  PidReuse = TRUE
SPECIFICATION Spec
CHECK_DEADLOCK FALSE
SYMMETRY ProcSymmetry
INVARIANTS Exclusion HolderIsNamed
PROPERTIES EvictsOnlyTheDead ReleasesOnlyItsOwn ImplementsExclusiveLease
