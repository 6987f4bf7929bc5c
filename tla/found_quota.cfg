SPECIFICATION Spec
CONSTANTS
  Runs = {"w1", "w2"}
  Timeout = 2
  MaxRetryAfter = 2
  Delays = {2}
  BackoffCap = 1
  Budget = 0
  Costs = {1}
  MaxTurns = 1
  MaxRateLimits = 1
PROPERTY BlockedRequestsWait
CHECK_DEADLOCK FALSE
