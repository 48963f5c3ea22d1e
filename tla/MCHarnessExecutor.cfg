CONSTANTS
  N = 4
  Plans <- MCPlans
  MaxCalls = 4
  MaxDepth = 2
  MaxAttempts = 2
  Slots = 2
  GroupSlots = 1
SPECIFICATION FairSpec
INVARIANTS WritesAreSound StatusIsHonest RunIsContained
PROPERTIES BatchEnds
