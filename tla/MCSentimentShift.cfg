CONSTANTS
  Schedulers = {s1, s2}
  N = 3
  StoryOf <- MCEvent
  Source <- MCEvent
  Ratings <- MCRatings
  Delays <- MCDelays
  MinStories = 1
  MinSources = 1
  Threshold = 1
  Batches = 2
  Window = 3
  Lateness = 1
  Staleness = 1
  SeriesCooldown = 2
  MaxRevised = 1
  MaxChecks = 3
  SeriesEnd = 6
  MaxIntake = 0
SYMMETRY MCSymmetry
SPECIFICATION SeriesSpec
INVARIANTS ShiftIsConfirmed AlertsAreSpaced
CHECK_DEADLOCK FALSE
