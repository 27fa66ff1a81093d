--------------------------- MODULE GetFileManager ---------------------------
(***************************************************************************)
(* The file being received (client/GetFileManager.cpp) as a record, and    *)
(* writeToFile as an operator on it, so that a specification may have one  *)
(* such file (GetFile) or one per receiver (GetConn).                      *)
(***************************************************************************)
EXTENDS FileLayout, FiniteSets

CONSTANT kMaxLossPiecesNum   \* how far ahead of curPiece_ a piece may be

ASSUME FileAssumption == kMaxLossPiecesNum \in Nat \ {0}

(* What a slot on disk may hold besides a payload: zeros written to fill a *)
(* gap, or nothing yet.                                                    *)
Zeros == NumPieces
Hole == NumPieces + 1

Sink ==
  [isOpen : BOOLEAN,            \* fileStream_ is open
   curPiece : 0..NumPieces+1,
   lossPieces : SUBSET Slot,
   writtenBytes : Nat,
   pos : Nat,                   \* the put position of fileStream_, in slots
   disk : [Slot -> 0..Hole],    \* what every slot of the file holds
   diskBytes : Nat]             \* the length of the file on disk

(* The constructor opens the file unless it is too large.  The product in  *)
(* its test is one of two uint32_t and wraps.                              *)
FitsUint32 == FileBytes <= ((TwoTo32 - 1) * kBytesPerPiece) % TwoTo32

NewSink ==
  [isOpen |-> FitsUint32, curPiece |-> 0, lossPieces |-> {}, writtenBytes |-> 0,
   pos |-> 0, disk |-> [i \in Slot |-> Hole], diskBytes |-> 0]
-----------------------------------------------------------------------------
(* fileStream_.seekp(piece * bytesPerPiece_, std::ios::beg) *)
SeekTo(s, piece) == [s EXCEPT !.pos = SlotOf(piece)]

Longer(n, m) == IF n < m THEN m ELSE n

(* fileStream_.write of n zero-filled pieces. *)
FillZeros(s, n) ==
  [s EXCEPT !.disk = [i \in Slot |-> IF i \in s.pos..s.pos+n-1 THEN Zeros ELSE s.disk[i]],
            !.diskBytes = Longer(@, (s.pos + n) * kBytesPerPiece),
            !.pos = @ + n]

(* fileStream_.write of a payload at the put position, and its bytes added *)
(* to writtenBytes_.  After a short payload the position is inside a slot; *)
(* only empty payloads are ever written from there.                        *)
Write(s, data) ==
  IF Size(data) = 0 THEN s
  ELSE [s EXCEPT !.disk = [i \in Slot |-> IF i = s.pos THEN data ELSE s.disk[i]],
                 !.diskBytes = Longer(@, s.pos * kBytesPerPiece + Size(data)),
                 !.pos = @ + 1,
                 !.writtenBytes = @ + Size(data)]

(* piece = curPiece_ *)
WriteNext(s, data) == [Write(s, data) EXCEPT !.curPiece = @ + 1]

(* A slip to compare with: the piece that has come is noted as lost, too. *)
WriteAfterGapSlip(s, data, piece) ==
  [Write(FillZeros(s, piece - s.curPiece), data) EXCEPT
     !.curPiece = piece + 1,
     !.lossPieces = @ \cup (s.curPiece..piece)]

(* piece > curPiece_: the pieces in between are noted as lost. *)
WriteAfterGap(s, data, piece) ==
  [Write(FillZeros(s, piece - s.curPiece), data) EXCEPT
     !.curPiece = piece + 1,
     !.lossPieces = @ \cup (s.curPiece..piece-1)]

(* Two slips: the put position is not restored; a piece that is not lost   *)
(* is written again.                                                       *)
FillAwaySlip(s, data, piece) ==
  IF piece \notin s.lossPieces THEN s
  ELSE [Write(SeekTo(s, piece), data) EXCEPT !.lossPieces = @ \ {piece}]

FillAgainSlip(s, data, piece) ==
  [SeekTo(Write(SeekTo(s, piece), data), s.curPiece) EXCEPT !.lossPieces = @ \ {piece}]

(* piece < curPiece_: only a piece noted as lost is written, in its place. *)
Fill(s, data, piece) ==
  IF piece \notin s.lossPieces THEN s
  ELSE [SeekTo(Write(SeekTo(s, piece), data), s.curPiece) EXCEPT !.lossPieces = @ \ {piece}]

LossHeavy(s, piece) == piece > s.curPiece + kMaxLossPiecesNum

Place(s, data, piece) ==
  IF piece > s.curPiece THEN WriteAfterGap(s, data, piece)
  ELSE IF piece < s.curPiece THEN Fill(s, data, piece)
  ELSE WriteNext(s, data)

(* Two slips: the file is closed one byte late; when all pieces were seen. *)
FinishLateSlip(s) == [s EXCEPT !.isOpen = (s.writtenBytes <= FileBytes)]

FinishSeenSlip(s) == [s EXCEPT !.isOpen = (s.curPiece < NumPieces)]

(* writtenBytes_ == fileBytes_: the file is closed. *)
Finish(s) == [s EXCEPT !.isOpen = (s.writtenBytes # FileBytes)]

WriteToFile(s, data, piece) ==
  IF ~s.isOpen \/ LossHeavy(s, piece) THEN s
  ELSE Finish(Place(s, data, piece))

(* WRITE_FINISH is returned by the call that closes the file. *)
WriteFinishes(s, data, piece) == s.isOpen /\ ~WriteToFile(s, data, piece).isOpen
=============================================================================
