SPECIFICATION BreakerSpec
CONSTANTS
  Callers = {c1, c2}
  FailureThreshold = 2
  SuccessThreshold = 2
  Timeout = 1
  MaxRetries = 1
INVARIANTS BreakerInv
PROPERTIES OpenUntilTimeout FollowsOperation
