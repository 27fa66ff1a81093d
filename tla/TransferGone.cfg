\* The receiver may quit, or its last FINISH or a HELLO_REPLY be lost.
SPECIFICATION TimedSpec
CONSTANTS
  Sender = s
  Server = v
  Receiver = {r1}
  LossyTypes = {"HELLO_REPLY", "FINISH"}
  LossyPieces = {}
  DupTypes = {}
  MaxFaults = 1
  kPiecesPerWindow = 1
  kWindowNum = 1
  kTimeout = 1
  MayQuit = {r1}
  Timed = TRUE
  NumPieces = 2
  LastBytes = 1
  kBytesPerPiece = 2
  TwoTo32 = 16
  kMaxLossPiecesNum = 3
INVARIANTS
  HoldTimerFollowsSession
PROPERTIES
  GonePeerDropped
  OrphanGivesUp
CHECK_DEADLOCK FALSE
