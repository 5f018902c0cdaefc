CONSTANTS
  Paths <- MCPaths
  Under <- MCUnder
  Protected <- MCProtected
  Contents <- MCContents
  Start <- MCStart
  Others = 1
  MAX_VERIFICATION_RETRIES = 1
  MAX_TRUNCATION_CONTINUATIONS = 1
  MAX_AUTO_RESUMES = 1
  None = None
  Kinds = {"edit", "read"}
  MaxCalls = 1
  Abis = {"high", "max"}
  FirstAbi = "high"
  MaxLineages = 3
  MaxRuns = 2
  MaxRoles = 3
  MaxSteps = 2
  MaxCrashes = 1
  MaxNotes = 2
  Usages <- SomeUsages
  PlainKinds = {"edit"}
  SearchKinds = {"search"}
  RisingBook <- LateBook
  FixedBook <- OldBook
  LedgerBounds <- MCLedgerBounds
  SearchBounds <- MCSearchBounds
  BudgetBounds <- MCBudgetBounds
  Candidates = {"c"}
  Nobody = "nobody"
  Loaders = {"l"}
  Bytes = {1, 2}
  Bad = 0
  MaxBytes = 5
  MaxDamage = 1
  IoBuffer = 3
  RangeLimit = 2
SPECIFICATION MCSpec
CHECK_DEADLOCK FALSE
INVARIANTS VerdictIsEarned LedgerIsTrue SwitchIsWhole AnswerIsWhatWasSaid LoadsAreWhole
