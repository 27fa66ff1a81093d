--------------------------- MODULE GetFile_proofs ---------------------------
(***************************************************************************)
(* Theorems about a received file, for every number of pieces and size.    *)
(***************************************************************************)
EXTENDS GetFile, GetFileManager_proofs

(* The inductive invariant: the constructor has accepted the file, and it  *)
(* is kept as writeToFile keeps it.                                        *)
IInv == FitsUint32 /\ Kept(sink)

LEMMA Inductive == Spec => []IInv
<1>1. Init => IInv
  BY NewSinkKept DEF Init, IInv
<1>2. IInv /\ [Next]_sink => IInv'
  <2> SUFFICES ASSUME IInv, [Next]_sink PROVE IInv'
    OBVIOUS
  <2>1. CASE Next
    <3>1. PICK p \in 0..NumPieces : sink' = WriteToFile(sink, p, p)
      BY <2>1 DEF Next, Receive
    <3>2. Kept(sink')
      BY <3>1, WriteToFileKept DEF IInv
    <3> QED BY <3>2 DEF IInv, Kept, LossSeen, InPlace, Counted, PosNext, ArrivedIn, SeenIn
  <2>2. CASE UNCHANGED sink
    BY <2>2 DEF IInv, Kept, LossSeen, InPlace, Counted, PosNext, ArrivedIn, SeenIn
  <2> QED BY <2>1, <2>2
<1> QED BY <1>1, <1>2, PTL DEF Spec

LEMMA ArrivedSink == Arrived = ArrivedIn(sink) /\ Seen = SeenIn(sink)
  BY DEF Arrived, ArrivedIn, Seen, SeenIn

(* A received file keeps its type: positions, counts and piece numbers.    *)
THEOREM TypeCorrect == Spec => []TypeOK
<1>1. IInv => TypeOK
  BY DEF IInv, Kept, TypeOK
<1> QED BY <1>1, Inductive, PTL

(* Every piece that is past and not lost is in its own slot, every lost    *)
(* one has zeros in its slot, and the next append lands in its slot.       *)
THEOREM DiskAlwaysMatches == Spec => []DiskMatches
<1>1. IInv => DiskMatches
  BY ArrivedSink DEF IInv, Kept, DiskMatches, LossSeen, InPlace, PosNext
<1> QED BY <1>1, Inductive, PTL

(* A file closed as finished is complete: the assertion writeToFile has    *)
(* commented out holds, and every slot holds its own piece.                *)
THEOREM FinishIsSound == Spec => []FinishedComplete
<1>1. IInv => FinishedComplete
  <2> SUFFICES ASSUME IInv, ~sink.isOpen PROVE sink.lossPieces = {} /\ \A i \in Slot : sink.disk[i] = i
    BY DEF FinishedComplete
  <2>1. ArrivedIn(sink) = Slot /\ InPlace(sink) /\ sink \in Sink
    BY DEF IInv, Kept
  <2>2. sink.lossPieces \subseteq Slot /\ sink.lossPieces \cap ArrivedIn(sink) = {}
    BY <2>1 DEF ArrivedIn, Sink
  <2> QED BY <2>1, <2>2 DEF InPlace
<1> QED BY <1>1, Inductive, PTL

(* No more bytes are counted than the file has, and an open file lacks a   *)
(* piece: RECV_ERROR is never returned and the last piece is not missed.   *)
THEOREM OpenIsIncomplete == Spec => []OpenIncomplete
<1>1. IInv => OpenIncomplete
  <2>1. ArrivedIn(sink) \in SUBSET Slot
    BY DEF ArrivedIn, SeenIn
  <2> QED BY <2>1, ArrivedSink, BytesTell DEF IInv, Kept, Counted, OpenIncomplete
<1> QED BY <1>1, Inductive, PTL

-----------------------------------------------------------------------------
(* The receiver implements PieceStore: every piece is stored once, in its  *)
(* place, and the piece that completes the file is the one that closes it. *)
THEOREM ReceiverImplementsStore == Spec => StoreSpec
<1>1. Init => Store!Init
  <2> SUFFICES ASSUME Init PROVE Store!Init
    OBVIOUS
  <2>1. Kept(sink)
    BY NewSinkKept DEF Init
  <2>2. Have(sink) = {}
    BY LayoutAssumption, FileAssumption DEF Init, NewSink, Have, Hole, Slot
  <2>3. sink.isOpen
    BY DEF Init, NewSink
  <2> QED BY <2>2, <2>3 DEF Store!Init, Have
<1>2. IInv /\ IInv' /\ [Next]_sink => [Store!Next]_(Store!vars)
  <2> SUFFICES ASSUME IInv, IInv', Next PROVE Store!Next \/ UNCHANGED Store!vars
    BY DEF Store!vars
  <2>1. PICK p \in 0..NumPieces : sink' = WriteToFile(sink, p, p)
    BY DEF Next, Receive
  <2>2. Kept(sink) /\ Kept(sink') /\ FitsUint32
    BY DEF IInv, Kept, LossSeen, InPlace, Counted, PosNext, ArrivedIn, SeenIn
  <2>3. \/ /\ sink.isOpen /\ p \in Slot \ Have(sink) /\ Have(sink') = Have(sink) \cup {p}
           /\ sink'.isOpen <=> Have(sink') # Slot
        \/ Have(sink') = Have(sink) /\ (sink'.isOpen <=> sink.isOpen)
    BY <2>1, <2>2, StoresOrKeeps
  <2>4. CASE /\ sink.isOpen /\ p \in Slot \ Have(sink) /\ Have(sink') = Have(sink) \cup {p}
             /\ sink'.isOpen <=> Have(sink') # Slot
    <3>1. Store!Store(p)
      BY <2>4 DEF Store!Store, Have
    <3> QED BY <2>4, <3>1 DEF Store!Next
  <2>5. CASE Have(sink') = Have(sink) /\ (sink'.isOpen <=> sink.isOpen)
    <3>1. (~sink'.isOpen) = (~sink.isOpen)
      BY <2>5
    <3>2. UNCHANGED {i \in Slot : sink.disk[i] = i}
      BY <2>5 DEF Have
    <3> QED BY <3>1, <3>2 DEF Store!vars
  <2> QED BY <2>3, <2>4, <2>5
<1> QED BY <1>1, <1>2, Inductive, PTL DEF Spec, StoreSpec, Store!Spec
=============================================================================
