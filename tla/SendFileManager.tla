-------------------------- MODULE SendFileManager --------------------------
(***************************************************************************)
(* The file being sent (client/SendFileManager.cpp): an ifstream and the   *)
(* number of the next piece, as a record and operators on it.              *)
(***************************************************************************)
EXTENDS FileLayout

Source ==
  [cur : 0..NumPieces,   \* curPiece_
   pos : 0..NumPieces,   \* the get position, in slots; NumPieces is the end
   good : BOOLEAN]       \* ifileStream_.good()

NewSource == [cur |-> 0, pos |-> 0, good |-> TRUE]

(* initStatu *)
InitStatu(s) == NewSource

(* A read at the end of the file, or one cut short by it, sets eofbit and  *)
(* failbit; a last piece of full size does not.                            *)
ReadsInFull(slot) == Size(slot) = kBytesPerPiece

(* getNextPiece of a good stream: its payload is the slot at the get       *)
(* position.  An empty read does not count as a piece.                     *)
NextPiece(s) ==
  [cur |-> IF s.pos < NumPieces THEN s.cur + 1 ELSE s.cur,
   pos |-> IF s.pos < NumPieces THEN s.pos + 1 ELSE s.pos,
   good |-> ReadsInFull(s.pos)]

Payload(s) == s.pos

(* getPieceOf clears the stream, reads one piece elsewhere and seeks back; *)
(* seekg does nothing on a stream whose failbit is set.                    *)
SeekPiece(s, num) == [s EXCEPT !.good = TRUE, !.pos = SlotOf(num)]

SeekBack(s, cur) ==
  [cur |-> cur, pos |-> IF s.good THEN SlotOf(cur) ELSE s.pos, good |-> s.good]

(* A slip to compare with: the stream stays where the piece was read. *)
PieceOfSlip(s, num) == [NextPiece(SeekPiece(s, num)) EXCEPT !.cur = s.cur]

PieceOf(s, num) == SeekBack(NextPiece(SeekPiece(s, num)), s.cur)
=============================================================================
