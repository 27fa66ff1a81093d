\* One short interval and two equal ones.
SPECIFICATION FairSpec
CONSTANTS
  t1 = t1
  t2 = t2
  t3 = t3
  Timer <- ThreeTimers
  Interval <- MixedIntervals
  MinDelay = 2
  MaxLate = 4
INVARIANTS
  TypeOK
  ArmedInTime
PROPERTIES
  RunsWhenDue
  FiresAgain
  DeadEntriesGo
\* What aborts ends the behaviour.
CHECK_DEADLOCK FALSE
