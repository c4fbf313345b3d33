CONSTANTS
  Caller = {c1, c2, c3}
  FailureThreshold = 2
  ResetTimeout = 1
  MaxRetries = 2
SPECIFICATION FairSpec
INVARIANT BreakerMatchesCount
PROPERTY CallEnds
PROPERTY Recovers
