\* Three threads, two tasks.
SPECIFICATION Spec
CONSTANTS
  Task = {t1, t2}
  PoolSize = 3
INVARIANT
  ThreadsGone
PROPERTIES
  JoinEnds
  AwakeDrain
  JoinNeverHangs
\* Destroyed, or destroyed at the wrong moment.
CHECK_DEADLOCK FALSE
