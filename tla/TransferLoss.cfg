\* One receiver and a window of two pieces; one piece, acknowledgement or request
\* is lost; the last piece is a full one.
SPECIFICATION StreamSpec
CONSTANTS
  Sender = s
  Server = v
  Receiver = {r1}
  LossyTypes = {"PACK_ACK", "RETRAN"}
  LossyPieces = {0, 1}
  DupTypes = {}
  MaxFaults = 1
  kPiecesPerWindow = 1
  kWindowNum = 2
  kTimeout = 1
  MayQuit = {}
  Timed = FALSE
  NumPieces = 2
  LastBytes = 2
  kBytesPerPiece = 2
  TwoTo32 = 16
  kMaxLossPiecesNum = 3
INVARIANTS
  TypeOK
  NoLostWakeup
PROPERTIES
  TransferCompletes
CHECK_DEADLOCK FALSE
