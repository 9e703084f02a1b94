CONSTANTS
  a = a
  b = b
  Timers = {a, b}
  Repeats <- Counts
  Periods = {1}
  Uses <- EndlessOrOnce
  MaxLate = 1
  NULL = NULL
SPECIFICATION Spec
INVARIANTS
  RunningIsScheduled
CHECK_DEADLOCK FALSE
