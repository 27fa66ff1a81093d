\* One share that streams while it is closed.
SPECIFICATION Spec
CONSTANTS
  s1 = s1
  s2 = s2
  g1 = g1
  g2 = g2
  Null = Null
  Sends <- OneSend
  Gets <- NoGets
  Channel <- Channels
  Code = {1}
  Asked = {}
  Fd = {4, 5}
  MaxStreams = 1
INVARIANTS
  NoCallOnDeleted
CHECK_DEADLOCK FALSE
