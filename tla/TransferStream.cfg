\* Two receivers, one after the other or at once; the longest file with a short
\* last piece for a 3-bit uint32_t and pieces of 3 bytes; a window of one piece;
\* one datagram is lost or arrives twice, at any point of the stream.
SPECIFICATION Spec
CONSTANTS
  Sender = s
  Server = v
  Receiver = {r1, r2}
  LossyTypes = {"PACK_ACK", "RETRAN", "FINISH"}
  LossyPieces = {0, 1}
  DupTypes = {"DATA_STREAM", "DOWNLOAD_START", "RETRAN", "FINISH"}
  MaxFaults = 1
  kPiecesPerWindow = 1
  kWindowNum = 1
  kTimeout = 1
  MayQuit = {}
  Timed = FALSE
  NumPieces = 2
  LastBytes = 2
  kBytesPerPiece = 3
  TwoTo32 = 8
  kMaxLossPiecesNum = 2
SYMMETRY Symmetry
INVARIANTS
  StreamAligned
  FinishMeansComplete
PROPERTIES
  StoreSpec
CHECK_DEADLOCK FALSE
