\* Recovery on its own, without a bound on the runs it starts.
CONSTANTS
  Kinds <- LookAndAct
  MaxCalls = 2
  Parallelism = 2
  MaxUnread = 2
  MaxRuns = 3
  MaxBlobs = 4
  MaxTries = 1
  CleanTails = TRUE
  CleanContinue = TRUE
SPECIFICATION Spec
CHECK_DEADLOCK FALSE
PROPERTY RecoveryEnds
