\* Two dispatchers and three alerts, two of them revisions of one event, one an
\* hour; the clock counts thirds of an hour.
CONSTANTS
  Workers = {w1, w2}
  Alerts = {1, 2, 3}
  Event <- MCEvent
  Revision <- MCRevision
  Judgments <- MCJudgments
  Critical = {3}
  Hour = 3
  MaxAge = 2
  Cooldown = 4
  MaxPerHour = 1
  QuietTimes = {3}
  Lease = 1
  MaxAttempts = 2
  RetryDelay = 1
  Lag = 1
  MaxTime = 4
SYMMETRY MCSymmetry
SPECIFICATION Spec
INVARIANTS HourlyCap CooldownKept
CHECK_DEADLOCK FALSE
