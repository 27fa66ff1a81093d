\* No fault at all: DOWNLOAD_START may overtake FILE_REQ.
SPECIFICATION FairSpec
CONSTANTS
  Sender = s
  Server = v
  Receiver = {r1}
  LossyTypes = {}
  LossyPieces = {}
  DupTypes = {}
  MaxFaults = 0
  kPiecesPerWindow = 1
  kWindowNum = 2
  kTimeout = 1
  MayQuit = {}
  Timed = FALSE
  NumPieces = 1
  LastBytes = 1
  kBytesPerPiece = 2
  TwoTo32 = 16
  kMaxLossPiecesNum = 3
PROPERTIES
  DownloadServed
CHECK_DEADLOCK FALSE
