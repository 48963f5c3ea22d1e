\* One row and two dispatchers: leases that run out before and after the
\* deadline, three attempts, two chunks.
CONSTANTS
  Workers = {w1, w2}
  Deliveries = {1}
  NChunks = 2
  Deadline <- MCDeadline
  Lease = 2
  MaxAttempts = 3
  Limit = 2
  RetryDelays = {1}
  MaxTime = 5
SPECIFICATION FairSpec
INVARIANTS ChatInOrder RetryIsCertain DeliveredIsComplete OneSender
PROPERTIES SettledStays OutboxSpec EventuallySettled
