CONSTANTS
  Sessions <- MCSessions
  Recorded <- MCRecorded
  Efforts <- MCEfforts
  DefaultEffort = "high"
  MaxMessages = 2
  MaxCommands = 3
  MaxResumes = 1
  MaxContinues = 1
  Calm = {TRUE, FALSE}
  None = None
  Typed = {"/", "a", " ", "#"}
  MaxText = 5
  MaxKeys = 5
  s1 = s1
  s2 = s2
SPECIFICATION InputSpec
CHECK_DEADLOCK FALSE
INVARIANTS EditorIsSound WrapIsTheLine  UnitsAreWhole LoopIsOrderly
PROPERTY KeysDoNoHarm
