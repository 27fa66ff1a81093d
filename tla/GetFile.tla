------------------------------ MODULE GetFile ------------------------------
(***************************************************************************)
(* One received file whose pieces come in any order, any number of times,  *)
(* or not at all, as DATA_STREAM messages may: GetFileManager::writeToFile *)
(* under every schedule of its calls.                                      *)
(***************************************************************************)
EXTENDS GetFileManager

VARIABLE sink

(* A file too large is never opened, and the connection is closed. *)
Init == FitsUint32 /\ sink = NewSink

(* A DATA_STREAM message with the piece the sender read for that number;   *)
(* number NumPieces is the empty read at the end of the file.              *)
Receive(piece) == sink' = WriteToFile(sink, piece, piece)

Next == \E piece \in 0..NumPieces : Receive(piece)

Spec == Init /\ [][Next]_sink
-----------------------------------------------------------------------------
TypeOK == sink \in Sink

Seen == {i \in Slot : i < sink.curPiece}
Arrived == Seen \ sink.lossPieces

(* The disk agrees with the bookkeeping: a slot holds its own piece        *)
(* exactly when that piece is past and not lost, zeros when it is lost,    *)
(* and the next append goes to slot curPiece_.  A seekp that wraps or is   *)
(* not undone would put a piece into another one's slot.                   *)
DiskMatches ==
  /\ sink.lossPieces \subseteq Seen
  /\ \A i \in Slot :
       sink.disk[i] = IF i \in Arrived THEN i
                      ELSE IF i \in sink.lossPieces THEN Zeros ELSE Hole
  /\ sink.isOpen /\ sink.curPiece < NumPieces => sink.pos = sink.curPiece

(* The file is closed as finished by counting bytes; that is right: all    *)
(* pieces are in their slots and none is lost.  This is the assertion      *)
(* lossPieces_.size() == 0 that writeToFile has commented out.             *)
FinishedComplete ==
  ~sink.isOpen => sink.lossPieces = {} /\ \A i \in Slot : sink.disk[i] = i

(* As long as the file is open some piece of it is still missing, and no   *)
(* more bytes are counted than the file has (RECV_ERROR does not occur).   *)
OpenIncomplete ==
  /\ sink.writtenBytes <= FileBytes
  /\ sink.isOpen => Arrived # Slot

(* The receiver keeps what PieceStore promises. *)
Store == INSTANCE PieceStore WITH
  Piece <- Slot,
  have <- {i \in Slot : sink.disk[i] = i},
  finished <- ~sink.isOpen

StoreSpec == Store!Spec
=============================================================================
