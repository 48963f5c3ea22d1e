\* Two processes that may be restarted with a new key, and the dispatcher.
CONSTANTS
  Workers = {w1, w2}
  Decisions = {1, 2}
  Alert <- MCAlert
  Model <- TwoModels
  Reserve = 2
  Costs = {1}
  MonthlyLimit = 3
  Lease = 1
  RequestTime = 1
  MaxAttempts = 2
  RetryDelay = 1
  MonthLength = 1
  Horizon = 1
  MaxTime = 2
SPECIFICATION FairSpec
INVARIANTS BooksAreSound RejectedOnce
PROPERTIES DecidedStays EventuallySettled
