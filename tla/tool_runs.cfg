SPECIFICATION FairSpec
CONSTANTS
  Runs = {"w1", "w2"}
  Timeout = 2
  MaxRetryAfter = 2
  Delays = {1, 3}
  BackoffCap = 2
  Budget = 1
  Costs = {1, 2}
  MaxTurns = 2
  MaxRateLimits = 2
INVARIANTS
  TimeoutIsActive
  OverspendsOnce
PROPERTIES
  BlockIsNotShortened
  EveryRunEnds
CHECK_DEADLOCK FALSE
