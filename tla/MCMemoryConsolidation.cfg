CONSTANTS
  Workers = {s1, s2}
  JobIds = {1, 2}
  MemoryIds = {1}
  Batch = 1
  MaxRetries = 2
  Candidates = 1
  JobLimit = 2
  MaxEvents = 2
  MaxResets = 1
  MaxAccidents = 1
SPECIFICATION FairSpec
INVARIANTS MemoryIsFaithful
PROPERTIES CompletedStays JobsAreResolved
