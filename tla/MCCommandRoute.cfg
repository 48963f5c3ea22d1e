CONSTANTS
  Requests = {"scheduler_admin", "runtime_alerts", "market_research"}
  Window = 3
  MaxIterations = 1
  MaxRetries = 0
  MaxTurns = 1
  MaxCalls = 1
  MaxMessages = 1
SPECIFICATION Spec
INVARIANTS CommandReachesHandler
CHECK_DEADLOCK FALSE
