\* The longest file with a short last piece that a 4-bit "uint32_t" lets the
\* constructor open: 7 pieces in any order, any of them lost or repeated.
CONSTANTS
  NumPieces = 7
  LastBytes = 1
  kBytesPerPiece = 2
  kMaxLossPiecesNum = 3
  TwoTo32 = 16
SPECIFICATION Spec
INVARIANTS TypeOK DiskMatches FinishedComplete OpenIncomplete
PROPERTIES StoreSpec
\* A finished file takes no more pieces.
CHECK_DEADLOCK FALSE
