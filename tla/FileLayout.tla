----------------------------- MODULE FileLayout -----------------------------
(***************************************************************************)
(* The file of a transfer, cut into pieces by the sender (SendFileManager) *)
(* and put together by the receiver (GetFileManager).                      *)
(*                                                                         *)
(* A file of NumPieces pieces has slots 0..NumPieces-1 of kBytesPerPiece   *)
(* bytes, the last one LastBytes long.  A payload is named by the slot the *)
(* sender read it from; slot NumPieces is the end of the file and gives an *)
(* empty payload.  Stream positions are slot numbers.                      *)
(***************************************************************************)
EXTENDS Integers

CONSTANTS
  NumPieces,           \* pieces of the file
  LastBytes,           \* bytes in the last of them
  kBytesPerPiece,
  TwoTo32              \* uint32_t arithmetic is modulo this

ASSUME LayoutAssumption ==
  /\ NumPieces \in Nat \ {0}
  /\ kBytesPerPiece \in Nat \ {0}
  /\ LastBytes \in 1..kBytesPerPiece
  /\ TwoTo32 \in Nat /\ kBytesPerPiece < TwoTo32

Slot == 0..NumPieces-1

FileBytes == (NumPieces - 1) * kBytesPerPiece + LastBytes

Size(data) ==
  IF data < NumPieces - 1 THEN kBytesPerPiece
  ELSE IF data = NumPieces - 1 THEN LastBytes ELSE 0

(* Where seekg and seekp(piece * bytesPerPiece_) lead, the product being   *)
(* one of two uint32_t.                                                    *)
SlotOf(piece) == ((piece * kBytesPerPiece) % TwoTo32) \div kBytesPerPiece
=============================================================================
