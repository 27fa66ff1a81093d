\* Two timers with the same interval.
SPECIFICATION Spec
CONSTANTS
  t1 = t1
  t2 = t2
  t3 = t3
  Timer <- TwoTimers
  Interval <- EqualIntervals
  MinDelay = 1
  MaxLate = 2
INVARIANTS
  NotTogether
CHECK_DEADLOCK FALSE
