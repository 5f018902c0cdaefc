CONSTANTS
  RetryAfters <- SomeRetryAfters
  MaxDeltas = 3
  RandomSteps = 2
  None = None
  s1 = s1
  s2 = s2
SPECIFICATION EndsSpec
CHECK_DEADLOCK FALSE
INVARIANTS SendIsRecorded AppendsAreChained
PROPERTY WhatBeginsEnds
