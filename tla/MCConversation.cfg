CONSTANTS
  Requests = {"market_research", "runtime_inspection", "memory_admin", "general_search"}
  Window = 3
  MaxIterations = 2
  MaxRetries = 1
  MaxTurns = 4
  MaxCalls = 2
  MaxMessages = 3
SPECIFICATION FairSpec
INVARIANTS RepliesAreRecorded RejectedIsMarked RunIsHonest
PROPERTIES AnswerEnds
CHECK_DEADLOCK FALSE
