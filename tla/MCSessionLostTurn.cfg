\* A continued session dies before the user's message is recorded.
CONSTANTS
  Kinds <- LookAndAct
  MaxCalls = 1
  Parallelism = 2
  MaxUnread = 1
  MaxRuns = 4
  MaxBlobs = 5
  MaxTries = 1
  CleanTails = TRUE
  CleanContinue = FALSE
SPECIFICATION Spec
CHECK_DEADLOCK FALSE
PROPERTY ImplementsConversation
