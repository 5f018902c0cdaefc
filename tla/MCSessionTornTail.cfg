\* An append right behind a recovery run's boundary is torn.
CONSTANTS
  Kinds <- LookAndAct
  MaxCalls = 1
  Parallelism = 2
  MaxUnread = 1
  MaxRuns = 4
  MaxBlobs = 5
  MaxTries = 1
  CleanTails = FALSE
  CleanContinue = TRUE
SPECIFICATION Spec
CHECK_DEADLOCK FALSE
INVARIANT PlannedStepIsAdmitted
