\* Two shares and two downloads, codes that come back.
SPECIFICATION Spec
CONSTANTS
  s1 = s1
  s2 = s2
  g1 = g1
  g2 = g2
  Null = Null
  Sends <- TwoSends
  Gets <- TwoGets
  Channel <- Channels
  Code = {1, 2}
  Asked = {1}
  Fd = {4, 5, 6, 7}
  MaxStreams = 1
SYMMETRY Symmetry
INVARIANTS
  TypeOK
  PollerIndexed
  PolledAreLive
  FindsItself
  ReclaimedBeforePoll
  WakesForFunctors
PROPERTIES
  DanglesOnlyReplaced
  FunctorsInOrder
  LifecycleSpec
\* A fault ends the behaviour.
CHECK_DEADLOCK FALSE
