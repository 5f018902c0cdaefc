CONSTANTS
  Candidates = {c1, c2, c3}
  Nobody = Nobody
  Loaders = {}
  Bytes = {a}
  Bad = Bad
  MaxBytes = 1
  MaxDamage = 1
  IoBuffer = 2
  RangeLimit = 1
  Off = Off
  d1 = d1
  Descendants <- MCProcesses
  Stuck <- MCProcesses
  CommandLimit = 3
  Coalesce = 2
  MaxChunk = 2
  MaxChunks = 3
  ExitKinds <- MCExitKinds
  Streams <- MCStreams
  Payloads <- MCPayloads
  Base = 4
  LengthBytes = 2
  OutputLimit = 5
  MaxCalls = 4
  Contents <- MCContents
  SizeOf <- MCSizeOf
  Modes <- MCModes
  NewMode = "rw"
  MaxTouches = 2
  Letters <- MCLetters
  MaxLength = 6
  Needles <- MCNeedles
  Replacement <- MCReplacement
  Slices <- MCSlices
  TextLimit = 4
SPECIFICATION ToolsSpec
CHECK_DEADLOCK FALSE
SYMMETRY CandidateSymmetry
INVARIANTS StoredIsWhole OutcomeIsTrue FramesAreExact NoChangeIsLost TextIsExact
PROPERTY ImplementsContentMap
