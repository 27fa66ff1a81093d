\* Piece 1, the last and short, is lost once: nothing asks for it again.
SPECIFICATION StreamSpec
CONSTANTS
  Sender = s
  Server = v
  Receiver = {r1}
  LossyTypes = {}
  LossyPieces = {1}
  DupTypes = {}
  MaxFaults = 1
  kPiecesPerWindow = 1
  kWindowNum = 2
  kTimeout = 1
  MayQuit = {}
  Timed = FALSE
  NumPieces = 2
  LastBytes = 1
  kBytesPerPiece = 2
  TwoTo32 = 16
  kMaxLossPiecesNum = 3
PROPERTIES
  TransferCompletes
CHECK_DEADLOCK FALSE
