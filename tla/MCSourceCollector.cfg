CONSTANTS
  c1 = c1
  c2 = c2
  s1 = s1
  Collectors = {c1, c2}
  Refreshes = {s1}
  Bots = {s1}
  Interval = 2
  Lease = 3
  MaxLag = 1
  MaxUnauthorized = 2
SPECIFICATION FairSpec
INVARIANTS RowIsSound LeaseIsKept
PROPERTIES KeepsPolling
