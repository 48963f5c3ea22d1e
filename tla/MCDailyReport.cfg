CONSTANTS
  Schedulers = {s1, s2}
  Chunks = 3
  MaxAttempts = 3
  MaxFaults = 2
SPECIFICATION FairSpec
INVARIANTS ChatShowsOneReport RepeatsAreBounded
PROPERTIES PromiseSpec ReportIsResolved
