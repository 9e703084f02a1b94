CONSTANTS
  a = a
  b = b
  Timers = {a, b}
  Repeats <- Counts
  Periods = {1, 2}
  Uses <- EndlessAndOnce
  MaxLate = 1
  NULL = NULL
SPECIFICATION FairSpec
CONSTRAINT LeavesOwn
INVARIANTS
  TreeRight
  NoUseAfterRelease
PROPERTIES
  FiniteStaysFinite
  ScheduledFires
  DelCarriedOut
CHECK_DEADLOCK FALSE
