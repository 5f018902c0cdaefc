\* Answers with up to two calls of every kind.
CONSTANTS
  Kinds <- AllOfThem
  MaxCalls = 2
  Parallelism = 2
  MaxUnread = 2
  MaxRuns = 3
  MaxBlobs = 5
  MaxTries = 2
  CleanTails = TRUE
  CleanContinue = TRUE
SPECIFICATION Spec
CHECK_DEADLOCK FALSE
INVARIANTS PlannedStepIsAdmitted KernelAppendsAdmitted EffectAtMostOnce NothingUnrecorded
PROPERTIES EffectsInDeclaredOrder NoRetryAfterSemantic ImplementsConversation
