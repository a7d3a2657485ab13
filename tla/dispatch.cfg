SPECIFICATION FairSpec
CONSTANTS
  c1 = c1
  c2 = c2
  broken = broken
  Channel = {c1, c2, broken}
  Broken = {broken}
  Retries = 2
  Timeout = 2
CHECK_DEADLOCK FALSE
INVARIANT TypeOK
INVARIANT NeverBlocked
INVARIANT ResultsFinal
INVARIANT AttemptsCounted
PROPERTY Returns
