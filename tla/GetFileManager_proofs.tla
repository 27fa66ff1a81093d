------------------------ MODULE GetFileManager_proofs ------------------------
(***************************************************************************)
(* What writeToFile does to the file it is given, for every number of      *)
(* pieces and size: the lemmas that GetFile_proofs and Transfer_proofs     *)
(* rest on.                                                                *)
(***************************************************************************)
EXTENDS GetFileManager, FiniteSetTheorems, TLAPS

(* A file the constructor accepts is so small that piece * bytesPerPiece_  *)
(* does not wrap, not even for the number after the last piece.            *)
LEMMA FitsMeansNoWrap ==
  ASSUME FitsUint32, NEW p \in 0..NumPieces
  PROVE  p * kBytesPerPiece \in Nat /\ p * kBytesPerPiece < TwoTo32
<1> DEFINE B == kBytesPerPiece
           T == TwoTo32
           N == NumPieces
<1>1. B \in Nat \ {0} /\ T \in Nat /\ B < T /\ N \in Nat \ {0} /\ LastBytes \in 1..B
  BY LayoutAssumption, FileAssumption
<1>2. ((T - 1) * B) % T = T - B
  <2>1. (T - 1) * B = T * (B - 1) + (T - B)
    BY <1>1
  <2>2. T - B \in 0..T-1
    BY <1>1
  <2> QED BY <2>1, <2>2, <1>1
<1>3. (N - 1) * B + LastBytes <= T - B
  BY <1>2 DEF FitsUint32, FileBytes
<1>4. N * B = (N - 1) * B + B
  BY <1>1
<1>5. p * B <= N * B /\ p * B \in Nat
  BY <1>1
<1> HIDE DEF N, B, T
<1>6. (N - 1) * B \in Int
  BY <1>1
<1> QED BY <1>1, <1>3, <1>4, <1>5, <1>6 DEF N, B, T

LEMMA SeekLands ==
  ASSUME FitsUint32, NEW p \in 0..NumPieces
  PROVE  ((p * kBytesPerPiece) % TwoTo32) \div kBytesPerPiece = p
<1>1. p * kBytesPerPiece \in Nat /\ p * kBytesPerPiece < TwoTo32
  BY FitsMeansNoWrap
<1>2. (p * kBytesPerPiece) % TwoTo32 = p * kBytesPerPiece
  BY <1>1, LayoutAssumption, FileAssumption
<1>3. (p * kBytesPerPiece) \div kBytesPerPiece = p
  BY LayoutAssumption, FileAssumption
<1> QED BY <1>2, <1>3

-----------------------------------------------------------------------------
(* The bytes of a set of pieces. *)
Last == NumPieces - 1
Bytes(S) ==
  Cardinality(S \ {Last}) * kBytesPerPiece + (IF Last \in S THEN LastBytes ELSE 0)

LEMMA SlotFinite ==
  \A S \in SUBSET Slot : /\ IsFiniteSet(S) /\ Cardinality(S) \in Nat
                         /\ IsFiniteSet(S \ {Last}) /\ Cardinality(S \ {Last}) \in Nat
<1> TAKE S \in SUBSET Slot
<1>1. IsFiniteSet(Slot)
  BY LayoutAssumption, FileAssumption, FS_Interval DEF Slot
<1>2. IsFiniteSet(S) /\ IsFiniteSet(S \ {Last})
  BY <1>1, FS_Subset
<1> QED BY <1>2, FS_CardinalityType

LEMMA BytesAdd ==
  ASSUME NEW S \in SUBSET Slot, NEW p \in Slot, p \notin S
  PROVE  Bytes(S \cup {p}) = Bytes(S) + Size(p)
<1>1. IsFiniteSet(S \ {Last}) /\ Cardinality(S \ {Last}) \in Nat
  BY SlotFinite
<1>2. CASE p = Last
  <2>1. (S \cup {p}) \ {Last} = S \ {Last}
    BY <1>2
  <2>2. Size(p) = LastBytes
    BY <1>2, LayoutAssumption, FileAssumption DEF Size, Last
  <2> DEFINE m == Cardinality(S \ {Last}) * kBytesPerPiece
  <2>3. Bytes(S) = m + 0 /\ Bytes(S \cup {p}) = m + LastBytes
    BY <1>2, <2>1 DEF Bytes
  <2>4. m \in Nat
    BY <1>1, LayoutAssumption, FileAssumption
  <2> HIDE DEF m
  <2> QED BY <2>2, <2>3, <2>4, LayoutAssumption, FileAssumption
<1>3. CASE p # Last
  <2>1. (S \cup {p}) \ {Last} = (S \ {Last}) \cup {p} /\ p \notin S \ {Last}
    BY <1>3
  <2>2. Cardinality((S \cup {p}) \ {Last}) = Cardinality(S \ {Last}) + 1
    BY <1>1, <2>1, FS_AddElement
  <2>3. Size(p) = kBytesPerPiece
    BY <1>3, LayoutAssumption, FileAssumption DEF Size, Last, Slot
  <2>4. (Cardinality(S \ {Last}) + 1) * kBytesPerPiece
          = Cardinality(S \ {Last}) * kBytesPerPiece + kBytesPerPiece
    BY <1>1, LayoutAssumption, FileAssumption
  <2>5. Last \in S \cup {p} <=> Last \in S
    BY <1>3
  <2>6. Cardinality(S \ {Last}) * kBytesPerPiece \in Nat
    BY <1>1, LayoutAssumption, FileAssumption
  <2> DEFINE extra == IF Last \in S THEN LastBytes ELSE 0
  <2>7. Bytes(S) = Cardinality(S \ {Last}) * kBytesPerPiece + extra
    BY DEF Bytes
  <2>8. Bytes(S \cup {p}) = (Cardinality(S \ {Last}) + 1) * kBytesPerPiece + extra
    BY <2>2, <2>5 DEF Bytes
  <2>9. extra \in Nat
    BY LayoutAssumption, FileAssumption
  <2> HIDE DEF extra
  <2> QED BY <2>3, <2>4, <2>6, <2>7, <2>8, <2>9, LayoutAssumption, FileAssumption
<1> QED BY <1>2, <1>3

(* Counting bytes is enough to know that every piece has come. *)
LEMMA BytesTell ==
  ASSUME NEW S \in SUBSET Slot
  PROVE  /\ Bytes(S) \in Nat
         /\ Bytes(S) <= FileBytes
         /\ Bytes(S) = FileBytes <=> S = Slot
<1> DEFINE full == Slot \ {Last}
           part == S \ {Last}
           c == Cardinality(part)
           B == kBytesPerPiece
<1>1. /\ IsFiniteSet(full) /\ IsFiniteSet(part) /\ c \in Nat
      /\ Cardinality(full) = NumPieces - 1
  <2>1. full = 0..NumPieces-2
    BY LayoutAssumption, FileAssumption DEF Slot, Last
  <2>2. IsFiniteSet(0..NumPieces-2) /\ Cardinality(0..NumPieces-2) = NumPieces - 1
    BY LayoutAssumption, FileAssumption, FS_Interval
  <2> QED BY <2>1, <2>2, SlotFinite
<1>2. part \subseteq full
  OBVIOUS
<1>3. c <= NumPieces - 1 /\ (c = NumPieces - 1 <=> part = full)
  <2> HIDE DEF full, part
  <2> QED BY <1>1, <1>2, FS_Subset
<1>4. Last \in Slot
  BY LayoutAssumption, FileAssumption DEF Last, Slot
<1>5. S = Slot <=> part = full /\ Last \in S
  BY <1>4
<1>6. B \in Nat \ {0} /\ LastBytes \in 1..B /\ NumPieces \in Nat \ {0}
  BY LayoutAssumption, FileAssumption
<1> HIDE DEF full, part, c, B
<1>7. /\ c * B \in Nat /\ (NumPieces - 1) * B \in Nat
      /\ c * B <= (NumPieces - 1) * B
      /\ c < NumPieces - 1 => c * B + B <= (NumPieces - 1) * B
  <2>1. c + 1 <= NumPieces - 1 => (c + 1) * B <= (NumPieces - 1) * B
    BY <1>1, <1>6
  <2>2. (c + 1) * B = c * B + B
    BY <1>1, <1>6
  <2>3. c * B <= (NumPieces - 1) * B
    BY <1>1, <1>3, <1>6
  <2>4. c * B \in Nat /\ (NumPieces - 1) * B \in Nat
    BY <1>1, <1>6
  <2> QED BY <1>1, <1>6, <2>1, <2>2, <2>3, <2>4
<1>8. FileBytes = (NumPieces - 1) * B + LastBytes
  BY DEF FileBytes, B
<1>9. Bytes(S) = c * B + (IF Last \in S THEN LastBytes ELSE 0)
  BY DEF Bytes, c, part, B
<1>10. Bytes(S) \in Nat /\ Bytes(S) <= FileBytes
  BY <1>6, <1>7, <1>8, <1>9
<1>11. CASE S = Slot
  BY <1>3, <1>5, <1>8, <1>9, <1>10, <1>11
<1>12. CASE S # Slot
  <2>1. Last \notin S \/ c < NumPieces - 1
    BY <1>1, <1>3, <1>5, <1>6, <1>12
  <2>2. Bytes(S) # FileBytes
    BY <2>1, <1>1, <1>6, <1>7, <1>8, <1>9
  <2> QED BY <1>10, <1>12, <2>2
<1> QED BY <1>11, <1>12

-----------------------------------------------------------------------------
(* What writeToFile does to an open file, one lemma for each branch.       *)
(* The invariant of any sink, without the part Finish establishes. *)
SeenIn(s) == {i \in Slot : i < s.curPiece}
ArrivedIn(s) == SeenIn(s) \ s.lossPieces

LossSeen(s) == s.lossPieces \subseteq SeenIn(s)
InPlace(s) ==
  \A i \in Slot : s.disk[i] = IF i \in ArrivedIn(s) THEN i
                             ELSE IF i \in s.lossPieces THEN Zeros ELSE Hole
PosNext(s) == s.curPiece < NumPieces => s.pos = s.curPiece
Counted(s) == s.writtenBytes = Bytes(ArrivedIn(s))

Good(s) == s \in Sink /\ s.isOpen /\ LossSeen(s) /\ InPlace(s) /\ PosNext(s) /\ Counted(s)

LEMMA SizeType == \A d \in 0..NumPieces : Size(d) \in Nat /\ (Size(d) = 0 <=> d = NumPieces)
  BY LayoutAssumption, FileAssumption DEF Size

(* piece = curPiece_ *)
LEMMA WriteNextGood ==
  ASSUME NEW s, Good(s), NEW p \in 0..NumPieces, p = s.curPiece
  PROVE  Good(WriteNext(s, p))
<1> DEFINE t == WriteNext(s, p)
<1>1. s \in Sink /\ LossSeen(s) /\ InPlace(s) /\ PosNext(s) /\ Counted(s)
  BY DEF Good
<1>2. s.isOpen
  BY DEF Good
<1>3. CASE p = NumPieces
  <2>1. t = [s EXCEPT !.curPiece = @ + 1]
    BY <1>3, SizeType DEF WriteNext, Write
  <2>2. /\ t.curPiece = NumPieces + 1 /\ t.lossPieces = s.lossPieces
        /\ t.disk = s.disk /\ t.writtenBytes = s.writtenBytes
    BY <1>1, <1>3, <2>1 DEF Sink
  <2>3. t.isOpen
    BY <1>1, <1>2, <2>1 DEF Sink
  <2>4. t \in Sink
    <3>1. s.curPiece + 1 \in 0..NumPieces+1
      BY <1>3, LayoutAssumption, FileAssumption
    <3> HIDE DEF t
    <3> QED BY <1>1, <2>1, <3>1 DEF Sink
  <2> HIDE DEF t
  <2>5. SeenIn(t) = SeenIn(s)
    BY <1>3, <2>2, LayoutAssumption, FileAssumption DEF SeenIn, Slot
  <2>6. ArrivedIn(t) = ArrivedIn(s)
    BY <2>2, <2>5 DEF ArrivedIn
  <2>7. LossSeen(t) /\ InPlace(t) /\ Counted(t)
    BY <1>1, <2>2, <2>5, <2>6 DEF LossSeen, InPlace, Counted
  <2>8. PosNext(t)
    BY <2>2, LayoutAssumption, FileAssumption DEF PosNext
  <2> QED BY <2>3, <2>4, <2>7, <2>8 DEF Good, t
<1>4. CASE p # NumPieces
  <2>1. p \in Slot /\ Size(p) # 0 /\ Size(p) \in Nat /\ p \in Nat
    BY <1>4, SizeType, LayoutAssumption, FileAssumption DEF Slot
  <2>2. s.pos = p
    BY <1>1, <2>1, LayoutAssumption, FileAssumption DEF PosNext, Slot
  <2>3. /\ t.disk = [i \in Slot |-> IF i = p THEN p ELSE s.disk[i]]
        /\ t.pos = p + 1 /\ t.curPiece = p + 1 /\ t.lossPieces = s.lossPieces
        /\ t.writtenBytes = s.writtenBytes + Size(p)
    BY <1>1, <2>1, <2>2 DEF WriteNext, Write, Sink
  <2>4. t.isOpen
    BY <1>1, <1>2, <2>1 DEF WriteNext, Write, Sink
  <2>5. t \in Sink
    <3> DEFINE disk == [i \in Slot |-> IF i = p THEN p ELSE s.disk[i]]
               len == Longer(s.diskBytes, p * kBytesPerPiece + Size(p))
    <3>1. disk \in [Slot -> 0..Hole]
      BY <1>1, <2>1, LayoutAssumption, FileAssumption DEF Sink, Hole, Slot
    <3>2. p * kBytesPerPiece + Size(p) \in Nat
      BY <2>1, LayoutAssumption, FileAssumption
    <3>3. len \in Nat
      BY <1>1, <3>2 DEF Longer, Sink
    <3>4. s.writtenBytes + Size(p) \in Nat /\ p + 1 \in 0..NumPieces+1
      BY <1>1, <2>1, LayoutAssumption, FileAssumption DEF Sink
    <3>5. t = [s EXCEPT !.disk = disk, !.diskBytes = len, !.pos = p + 1,
                        !.writtenBytes = s.writtenBytes + Size(p), !.curPiece = p + 1]
      BY <1>1, <2>1, <2>2 DEF WriteNext, Write, Sink
    <3> DEFINE bytes == s.writtenBytes + Size(p)
               next == p + 1
    <3>6. bytes \in Nat /\ next \in 0..NumPieces+1 /\ next \in Nat
      BY <2>1, <3>4
    <3>7. t = [s EXCEPT !.disk = disk, !.diskBytes = len, !.pos = next,
                        !.writtenBytes = bytes, !.curPiece = next]
      BY <3>5
    <3> HIDE DEF disk, len, bytes, next, t
    <3> QED BY <1>1, <3>1, <3>3, <3>6, <3>7 DEF Sink
  <2> HIDE DEF t
  <2>6. SeenIn(t) = SeenIn(s) \cup {p} /\ p \notin SeenIn(s)
    BY <2>1, <2>3, LayoutAssumption, FileAssumption DEF SeenIn, Slot
  <2>7. ArrivedIn(t) = ArrivedIn(s) \cup {p} /\ p \notin ArrivedIn(s) /\ p \notin s.lossPieces
    BY <1>1, <2>3, <2>6 DEF ArrivedIn, LossSeen
  <2>8. LossSeen(t)
    BY <1>1, <2>3, <2>6 DEF LossSeen
  <2>9. InPlace(t)
    BY <1>1, <2>1, <2>3, <2>7 DEF InPlace
  <2>10. Counted(t)
    BY <1>1, <2>1, <2>3, <2>7, BytesAdd DEF Counted, ArrivedIn, SeenIn
  <2>11. PosNext(t)
    BY <2>3 DEF PosNext
  <2> QED BY <2>4, <2>5, <2>8, <2>9, <2>10, <2>11 DEF Good, t
<1> QED BY <1>3, <1>4

(* piece > curPiece_ *)
LEMMA WriteAfterGapGood ==
  ASSUME NEW s, Good(s), NEW p \in 0..NumPieces, p > s.curPiece
  PROVE  Good(WriteAfterGap(s, p, p))
<1> DEFINE cur == s.curPiece
           u == FillZeros(s, p - cur)
           t == WriteAfterGap(s, p, p)
           gap == cur..p-1
<1>1. s \in Sink /\ LossSeen(s) /\ InPlace(s) /\ PosNext(s) /\ Counted(s)
  BY DEF Good
<1>2. s.isOpen
  BY DEF Good
<1>3. cur \in Nat /\ cur < p /\ p <= NumPieces /\ p \in Nat /\ s.pos = cur
  BY <1>1, LayoutAssumption, FileAssumption DEF Sink, PosNext
<1>4. /\ u.disk = [i \in Slot |-> IF i \in gap THEN Zeros ELSE s.disk[i]]
      /\ u.pos = p /\ u.curPiece = cur /\ u.lossPieces = s.lossPieces
      /\ u.writtenBytes = s.writtenBytes
  <2>1. cur + (p - cur) = p
    BY <1>3
  <2> QED BY <1>1, <1>3, <2>1 DEF FillZeros, Sink
<1>5. u.isOpen
  BY <1>1, <1>2 DEF FillZeros, Sink
<1>6. u \in Sink
  <2> DEFINE disk == [i \in Slot |-> IF i \in gap THEN Zeros ELSE s.disk[i]]
             len == Longer(s.diskBytes, p * kBytesPerPiece)
  <2>1. disk \in [Slot -> 0..Hole]
    BY <1>1, LayoutAssumption, FileAssumption DEF Sink, Hole, Zeros
  <2>2. p * kBytesPerPiece \in Nat
    BY <1>3, LayoutAssumption, FileAssumption
  <2>3. len \in Nat
    BY <1>1, <2>2 DEF Longer, Sink
  <2>4. s.pos + (p - cur) = p /\ s.pos..s.pos+(p-cur)-1 = gap
    BY <1>3
  <2>5. u = [s EXCEPT !.disk = disk, !.diskBytes = len, !.pos = p]
    BY <2>4 DEF FillZeros
  <2> HIDE DEF disk, len, u
  <2> QED BY <1>1, <1>3, <2>1, <2>3, <2>5 DEF Sink
<1> HIDE DEF u
<1> DEFINE w == Write(u, p)
<1>7. t = [w EXCEPT !.curPiece = p + 1, !.lossPieces = w.lossPieces \cup gap]
  BY <1>6 DEF WriteAfterGap, u, Write, Sink
<1>8. /\ w.disk = [i \in Slot |-> IF i = p THEN p ELSE u.disk[i]]
      /\ w.lossPieces = s.lossPieces
      /\ w.writtenBytes = s.writtenBytes + Size(p)
      /\ p < NumPieces => w.pos = p + 1
  <2>1. CASE p = NumPieces
    <3>1. Size(p) = 0 /\ p \notin Slot
      BY <2>1, SizeType, LayoutAssumption, FileAssumption DEF Slot
    <3>2. u.disk = [i \in Slot |-> u.disk[i]]
      BY <1>6 DEF Sink
    <3>3. s.writtenBytes + 0 = s.writtenBytes
      BY <1>1 DEF Sink
    <3>4. w = u
      BY <3>1 DEF Write
    <3> HIDE DEF w
    <3> QED BY <1>4, <2>1, <3>1, <3>2, <3>3, <3>4, LayoutAssumption, FileAssumption
  <2>2. CASE p # NumPieces
    <3>1. Size(p) # 0
      BY <2>2, SizeType
    <3> QED BY <1>4, <1>6, <3>1 DEF Write, Sink
  <2> QED BY <2>1, <2>2
<1>9. w \in Sink
  <2>1. CASE Size(p) = 0
    BY <1>6, <2>1 DEF Write
  <2>2. CASE Size(p) # 0
    <3> DEFINE disk == [i \in Slot |-> IF i = p THEN p ELSE u.disk[i]]
               len == Longer(u.diskBytes, p * kBytesPerPiece + Size(p))
    <3>1. disk \in [Slot -> 0..Hole]
      BY <1>3, <1>6, LayoutAssumption, FileAssumption DEF Sink, Hole, Slot
    <3>2. p * kBytesPerPiece + Size(p) \in Nat /\ Size(p) \in Nat
      BY <1>3, SizeType, LayoutAssumption, FileAssumption
    <3>3. len \in Nat
      BY <1>6, <3>2 DEF Longer, Sink
    <3>4. u.writtenBytes + Size(p) \in Nat /\ p + 1 \in Nat
      BY <1>3, <1>6, <3>2 DEF Sink
    <3>5. w = [u EXCEPT !.disk = disk, !.diskBytes = len, !.pos = p + 1,
                        !.writtenBytes = u.writtenBytes + Size(p)]
      BY <1>4, <1>6, <2>2 DEF Write, Sink
    <3> HIDE DEF disk, len, w
    <3> QED BY <1>6, <3>1, <3>3, <3>4, <3>5 DEF Sink
  <2> QED BY <2>1, <2>2
<1>10. w.isOpen
  BY <1>5, <1>6 DEF Write, Sink
<1> HIDE DEF w, t
<1>11. gap \subseteq Slot
  BY <1>3, LayoutAssumption, FileAssumption DEF Slot
<1>12. /\ t.curPiece = p + 1 /\ t.lossPieces = s.lossPieces \cup gap
       /\ t.disk = w.disk /\ t.writtenBytes = w.writtenBytes /\ t.pos = w.pos
  BY <1>7, <1>8, <1>9 DEF Sink
<1>13. t.isOpen
  BY <1>7, <1>9, <1>10 DEF Sink
<1>14. t \in Sink
  <2>1. s.lossPieces \cup gap \in SUBSET Slot /\ p + 1 \in 0..NumPieces+1
    BY <1>1, <1>3, <1>11, LayoutAssumption, FileAssumption DEF Sink
  <2> QED BY <1>7, <1>8, <1>9, <2>1 DEF Sink
<1>15. /\ SeenIn(t) = SeenIn(s) \cup gap \cup ({p} \cap Slot)
       /\ gap \cap SeenIn(s) = {} /\ p \notin gap /\ p \notin SeenIn(s)
  BY <1>3, <1>11, <1>12, LayoutAssumption, FileAssumption DEF SeenIn, Slot
<1>16. /\ ArrivedIn(t) = ArrivedIn(s) \cup ({p} \cap Slot)
       /\ p \notin ArrivedIn(s)
  BY <1>1, <1>12, <1>15 DEF ArrivedIn, LossSeen
<1>17. LossSeen(t)
  BY <1>1, <1>12, <1>15 DEF LossSeen
<1>18. InPlace(t)
  <2> SUFFICES ASSUME NEW i \in Slot
               PROVE  t.disk[i] = IF i \in ArrivedIn(t) THEN i
                                  ELSE IF i \in t.lossPieces THEN Zeros ELSE Hole
    BY DEF InPlace
  <2>1. t.disk[i] = IF i = p THEN p ELSE IF i \in gap THEN Zeros ELSE s.disk[i]
    BY <1>4, <1>8, <1>12
  <2>2. i \in gap => i \notin ArrivedIn(t)
    BY <1>15, <1>16 DEF ArrivedIn
  <2> QED BY <1>1, <1>12, <1>16, <2>1, <2>2 DEF InPlace
<1>19. Counted(t)
  <2>1. ArrivedIn(s) \in SUBSET Slot
    BY DEF ArrivedIn, SeenIn
  <2>2. CASE p \in Slot
    <3>1. Bytes(ArrivedIn(t)) = Bytes(ArrivedIn(s)) + Size(p)
      BY <1>16, <2>1, <2>2, BytesAdd
    <3> QED BY <1>1, <1>8, <1>12, <3>1 DEF Counted
  <2>3. CASE p \notin Slot
    <3>1. ArrivedIn(t) = ArrivedIn(s)
      BY <1>16, <2>3
    <3>2. Size(p) = 0
      BY <1>3, <2>3, SizeType, LayoutAssumption, FileAssumption DEF Slot
    <3>3. s.writtenBytes + 0 = s.writtenBytes
      BY <1>1 DEF Sink
    <3> QED BY <1>1, <1>8, <1>12, <3>1, <3>2, <3>3 DEF Counted
  <2> QED BY <2>2, <2>3
<1>20. PosNext(t)
  BY <1>3, <1>8, <1>12, LayoutAssumption, FileAssumption DEF PosNext
<1> QED BY <1>13, <1>14, <1>17, <1>18, <1>19, <1>20 DEF Good, t

(* piece < curPiece_: the seekp there and the one back both land. *)
LEMMA FillGood ==
  ASSUME FitsUint32, NEW s, Good(s), NEW p \in 0..NumPieces, p < s.curPiece
  PROVE  Good(Fill(s, p, p))
<1>1. s \in Sink /\ LossSeen(s) /\ InPlace(s) /\ PosNext(s) /\ Counted(s)
  BY DEF Good
<1>2. s.isOpen
  BY DEF Good
<1>3. CASE p \notin s.lossPieces
  BY <1>3 DEF Fill
<1>4. CASE p \in s.lossPieces
  <2> DEFINE cur == s.curPiece
             back == ((cur * kBytesPerPiece) % TwoTo32) \div kBytesPerPiece
             disk == [i \in Slot |-> IF i = p THEN p ELSE s.disk[i]]
             len == Longer(s.diskBytes, p * kBytesPerPiece + Size(p))
             bytes == s.writtenBytes + Size(p)
             loss == s.lossPieces \ {p}
             t == Fill(s, p, p)
  <2>1. p \in Slot /\ p \in Nat /\ p < NumPieces /\ Size(p) # 0 /\ Size(p) \in Nat /\ cur \in Nat
    BY <1>1, <1>4, SizeType, LayoutAssumption, FileAssumption DEF Sink, Slot
  <2>2. SeekTo(s, p) = [s EXCEPT !.pos = p]
    BY SeekLands DEF SeekTo, SlotOf
  <2>3. Write(SeekTo(s, p), p) = [s EXCEPT !.disk = disk, !.diskBytes = len, !.pos = p + 1,
                                          !.writtenBytes = bytes]
    <3> DEFINE v == [s EXCEPT !.pos = p]
    <3>1. v.pos = p /\ v.disk = s.disk /\ v.diskBytes = s.diskBytes /\ v.writtenBytes = s.writtenBytes
      BY <1>1 DEF Sink
    <3>2. Write(v, p) = [v EXCEPT !.disk = disk, !.diskBytes = len, !.pos = p + 1,
                                  !.writtenBytes = bytes]
      BY <2>1, <3>1 DEF Write
    <3> QED BY <1>1, <2>2, <3>2 DEF Sink
  <2>4. t = [s EXCEPT !.disk = disk, !.diskBytes = len, !.pos = back,
                      !.writtenBytes = bytes, !.lossPieces = loss]
    BY <1>1, <1>4, <2>3 DEF Fill, SeekTo, SlotOf, Sink
  <2>5. back \in Nat
    <3>1. cur * kBytesPerPiece \in Nat /\ TwoTo32 \in Nat \ {0} /\ kBytesPerPiece \in Nat \ {0}
      BY <2>1, LayoutAssumption, FileAssumption
    <3> HIDE DEF cur
    <3>2. (cur * kBytesPerPiece) % TwoTo32 \in Nat
      BY <3>1
    <3> QED BY <3>1, <3>2
  <2>6. cur < NumPieces => back = cur
    BY <2>1, SeekLands, LayoutAssumption, FileAssumption
  <2>7. disk \in [Slot -> 0..Hole]
    BY <1>1, <2>1, LayoutAssumption, FileAssumption DEF Sink, Hole, Slot
  <2>8. p * kBytesPerPiece + Size(p) \in Nat
    BY <2>1, LayoutAssumption, FileAssumption
  <2>9. len \in Nat /\ bytes \in Nat
    BY <1>1, <2>1, <2>8 DEF Longer, Sink
  <2>10. loss \in SUBSET Slot
    BY <1>1 DEF Sink
  <2> HIDE DEF t, back
  <2>11. /\ t.curPiece = cur /\ t.lossPieces = loss /\ t.disk = disk
         /\ t.writtenBytes = bytes /\ t.pos = back
    BY <1>1, <2>4 DEF Sink
  <2>12. t.isOpen
    BY <1>1, <1>2, <2>4 DEF Sink
  <2>13. t \in Sink
    <3> HIDE DEF disk, len, bytes, loss
    <3> QED BY <1>1, <2>4, <2>5, <2>7, <2>9, <2>10 DEF Sink
  <2>14. SeenIn(t) = SeenIn(s)
    BY <2>11 DEF SeenIn
  <2>15. ArrivedIn(t) = ArrivedIn(s) \cup {p} /\ p \notin ArrivedIn(s)
    BY <1>1, <1>4, <2>11, <2>14 DEF ArrivedIn, LossSeen
  <2>16. LossSeen(t)
    BY <1>1, <2>11, <2>14 DEF LossSeen
  <2>17. InPlace(t)
    BY <1>1, <2>1, <2>11, <2>15 DEF InPlace
  <2>18. Counted(t)
    <3>1. ArrivedIn(s) \in SUBSET Slot
      BY DEF ArrivedIn, SeenIn
    <3> QED BY <1>1, <2>1, <2>11, <2>15, <3>1, BytesAdd DEF Counted
  <2>19. PosNext(t)
    BY <2>6, <2>11 DEF PosNext
  <2> QED BY <2>12, <2>13, <2>16, <2>17, <2>18, <2>19 DEF Good, t
<1> QED BY <1>3, <1>4

-----------------------------------------------------------------------------
(* The inductive invariant: what the runs check, and that writtenBytes_ is *)
(* the size of the pieces that arrived.  The last part is what makes       *)
(* counting bytes a test for completeness (BytesTell).                     *)
Kept(s) ==
  /\ s \in Sink /\ LossSeen(s) /\ InPlace(s) /\ Counted(s)
  /\ s.isOpen => PosNext(s)
  /\ s.isOpen <=> ArrivedIn(s) # Slot

LEMMA FinishKept ==
  ASSUME NEW s, Good(s)
  PROVE  /\ Kept(Finish(s))
         /\ Finish(s).disk = s.disk /\ Finish(s).curPiece = s.curPiece
         /\ Finish(s).lossPieces = s.lossPieces
<1> DEFINE t == Finish(s)
<1>1. s \in Sink /\ LossSeen(s) /\ InPlace(s) /\ PosNext(s) /\ Counted(s)
  BY DEF Good
<1>2. t = [s EXCEPT !.isOpen = (s.writtenBytes # FileBytes)]
  BY DEF Finish
<1> HIDE DEF t
<1>3. t \in Sink
  BY <1>1, <1>2 DEF Sink
<1>4. /\ t.disk = s.disk /\ t.curPiece = s.curPiece /\ t.lossPieces = s.lossPieces
      /\ t.pos = s.pos /\ t.writtenBytes = s.writtenBytes
  BY <1>1, <1>2 DEF Sink
<1>5. t.isOpen <=> s.writtenBytes # FileBytes
  BY <1>1, <1>2 DEF Sink
<1>6. SeenIn(t) = SeenIn(s) /\ ArrivedIn(t) = ArrivedIn(s)
  BY <1>4 DEF SeenIn, ArrivedIn
<1>7. ArrivedIn(s) \in SUBSET Slot
  BY DEF ArrivedIn, SeenIn
<1>8. t.isOpen <=> ArrivedIn(t) # Slot
  BY <1>1, <1>5, <1>6, <1>7, BytesTell DEF Counted
<1>9. LossSeen(t) /\ InPlace(t) /\ Counted(t) /\ PosNext(t)
  BY <1>1, <1>4, <1>6 DEF LossSeen, InPlace, Counted, PosNext
<1> QED BY <1>3, <1>4, <1>8, <1>9 DEF Kept, t

LEMMA PlaceGood ==
  ASSUME FitsUint32, NEW s, Good(s), NEW p \in 0..NumPieces
  PROVE  Good(Place(s, p, p))
<1>1. s.curPiece \in Nat
  BY LayoutAssumption, FileAssumption DEF Good, Sink
<1>2. CASE p > s.curPiece
  BY <1>2, WriteAfterGapGood DEF Place
<1>3. CASE p < s.curPiece
  BY <1>1, <1>3, FillGood DEF Place
<1>4. CASE p = s.curPiece
  BY <1>1, <1>4, WriteNextGood DEF Place
<1> QED BY <1>1, <1>2, <1>3, <1>4

LEMMA WriteToFileKept ==
  ASSUME FitsUint32, NEW s, Kept(s), NEW p \in 0..NumPieces
  PROVE  Kept(WriteToFile(s, p, p))
<1>1. CASE ~s.isOpen \/ LossHeavy(s, p)
  BY <1>1 DEF WriteToFile
<1>2. CASE s.isOpen /\ ~LossHeavy(s, p)
  <2>1. Good(s)
    BY <1>2 DEF Kept, Good
  <2> QED BY <1>2, <2>1, PlaceGood, FinishKept DEF WriteToFile
<1> QED BY <1>1, <1>2

LEMMA NewSinkKept == FitsUint32 => Kept(NewSink)
<1> SUFFICES ASSUME FitsUint32 PROVE Kept(NewSink)
  OBVIOUS
<1>1. NewSink \in Sink
  BY LayoutAssumption, FileAssumption DEF NewSink, Sink, Hole
<1>2. SeenIn(NewSink) = {} /\ ArrivedIn(NewSink) = {}
  BY LayoutAssumption, FileAssumption DEF SeenIn, ArrivedIn, NewSink, Slot
<1>3. LossSeen(NewSink) /\ InPlace(NewSink) /\ PosNext(NewSink)
  BY <1>2 DEF LossSeen, InPlace, PosNext, NewSink
<1>4. Bytes({}) = 0
  <2>1. {} \ {Last} = {}
    OBVIOUS
  <2> QED BY <2>1, FS_EmptySet, LayoutAssumption, FileAssumption DEF Bytes
<1>5. Counted(NewSink)
  BY <1>2, <1>4 DEF Counted, NewSink
<1>6. Slot # {}
  BY LayoutAssumption, FileAssumption DEF Slot
<1>7. NewSink.isOpen
  BY DEF NewSink
<1> QED BY <1>1, <1>2, <1>3, <1>5, <1>6, <1>7 DEF Kept

-----------------------------------------------------------------------------
(* The pieces a file has are those in their own slots. *)
Have(s) == {i \in Slot : s.disk[i] = i}

LEMMA HaveArrived ==
  ASSUME NEW s, Kept(s)
  PROVE  Have(s) = ArrivedIn(s)
<1>1. \A i \in Slot : i # Zeros /\ i # Hole
  BY LayoutAssumption, FileAssumption DEF Slot, Zeros, Hole
<1>2. ArrivedIn(s) \subseteq Slot /\ InPlace(s)
  BY DEF Kept, ArrivedIn, SeenIn
<1> QED BY <1>1, <1>2 DEF Have, InPlace

(* How Place moves curPiece_ and lossPieces_. *)
LEMMA PlaceFields ==
  ASSUME NEW s \in Sink, NEW p \in 0..NumPieces
  PROVE  /\ p >= s.curPiece => /\ Place(s, p, p).curPiece = p + 1
                               /\ Place(s, p, p).lossPieces = s.lossPieces \cup (s.curPiece..p-1)
         /\ p < s.curPiece => /\ Place(s, p, p).curPiece = s.curPiece
                              /\ Place(s, p, p).lossPieces = s.lossPieces \ {p}
<1>1. s.curPiece \in Nat /\ p \in Nat
  BY LayoutAssumption, FileAssumption DEF Sink
<1>2. ASSUME NEW u \in Sink
      PROVE  /\ Write(u, p).curPiece = u.curPiece /\ Write(u, p).lossPieces = u.lossPieces
             /\ DOMAIN Write(u, p) = DOMAIN u
  BY DEF Write, Sink
<1>3. CASE p = s.curPiece
  <2>1. /\ Place(s, p, p).curPiece = p + 1
        /\ Place(s, p, p).lossPieces = s.lossPieces
    BY <1>1, <1>2, <1>3 DEF Place, WriteNext, Sink
  <2>2. s.curPiece..p-1 = {}
    BY <1>1, <1>3
  <2> QED BY <1>1, <1>3, <2>1, <2>2
<1>4. CASE p > s.curPiece
  <2> DEFINE u == FillZeros(s, p - s.curPiece)
  <2>1. /\ u.curPiece = s.curPiece /\ u.lossPieces = s.lossPieces
        /\ DOMAIN u = DOMAIN s
    BY DEF FillZeros, Sink
  <2>2. /\ Write(u, p).lossPieces = s.lossPieces
        /\ DOMAIN Write(u, p) = DOMAIN s
    BY <2>1 DEF Write, Sink
  <2>3. DOMAIN s = {"isOpen", "curPiece", "lossPieces", "writtenBytes", "pos", "disk", "diskBytes"}
    BY DEF Sink
  <2> DEFINE w == Write(u, p)
  <2>4. Place(s, p, p) = [w EXCEPT !.curPiece = p + 1,
                                   !.lossPieces = w.lossPieces \cup (s.curPiece..p-1)]
    BY <1>4 DEF Place, WriteAfterGap
  <2> HIDE DEF w, u
  <2> QED BY <1>1, <1>4, <2>2, <2>3, <2>4 DEF w
<1>5. CASE p < s.curPiece
  <2>1. CASE p \notin s.lossPieces
    <3>1. Place(s, p, p) = s
      BY <1>1, <1>5, <2>1 DEF Place, Fill
    <3> QED BY <1>1, <1>5, <2>1, <3>1
  <2>2. CASE p \in s.lossPieces
    <3> DEFINE u == SeekTo(s, p)
               w == Write(u, p)
               x == SeekTo(w, s.curPiece)
    <3>1. u.curPiece = s.curPiece /\ u.lossPieces = s.lossPieces /\ DOMAIN u = DOMAIN s
      BY DEF SeekTo, SlotOf, Sink
    <3>2. w.curPiece = s.curPiece /\ w.lossPieces = s.lossPieces /\ DOMAIN w = DOMAIN s
      BY <3>1 DEF Write, Sink
    <3>3. x.curPiece = s.curPiece /\ x.lossPieces = s.lossPieces /\ DOMAIN x = DOMAIN s
      BY <3>2 DEF SeekTo, SlotOf, Sink
    <3>4. Place(s, p, p) = [x EXCEPT !.lossPieces = x.lossPieces \ {p}]
      BY <1>1, <1>5, <2>2 DEF Place, Fill
    <3> HIDE DEF x
    <3> QED BY <1>1, <1>5, <3>3, <3>4 DEF Sink
  <2> QED BY <2>1, <2>2
<1> QED BY <1>1, <1>3, <1>4, <1>5

(* One call of writeToFile stores the piece it is given, unless the file   *)
(* is closed or the piece too far ahead.                                   *)
LEMMA WriteStores ==
  ASSUME FitsUint32, NEW s, Kept(s), s.isOpen, NEW p \in 0..NumPieces, ~LossHeavy(s, p)
  PROVE  ArrivedIn(WriteToFile(s, p, p)) = ArrivedIn(s) \cup ({p} \cap Slot)
<1> DEFINE t == Place(s, p, p)
<1>1. s \in Sink /\ LossSeen(s) /\ s.curPiece \in Nat /\ p \in Nat
  BY LayoutAssumption, FileAssumption DEF Kept, Sink
<1>2. Good(t)
  BY PlaceGood DEF Kept, Good
<1>3. WriteToFile(s, p, p) = Finish(t)
  BY DEF WriteToFile
<1>4. ArrivedIn(Finish(t)) = ArrivedIn(t)
  <2> HIDE DEF t
  <2> QED BY <1>2, FinishKept DEF ArrivedIn, SeenIn
<1>5. CASE p >= s.curPiece
  <2>1. t.curPiece = p + 1 /\ t.lossPieces = s.lossPieces \cup (s.curPiece..p-1)
    BY <1>1, <1>5, PlaceFields
  <2> HIDE DEF t
  <2>2. SeenIn(t) \ (s.curPiece..p-1) = SeenIn(s) \cup ({p} \cap Slot)
    BY <1>1, <1>5, <2>1, LayoutAssumption, FileAssumption DEF SeenIn, Slot
  <2>3. p \notin s.lossPieces
    BY <1>1, <1>5 DEF LossSeen, SeenIn
  <2>4. ArrivedIn(t) = ArrivedIn(s) \cup ({p} \cap Slot)
    BY <2>1, <2>2, <2>3 DEF ArrivedIn
  <2> QED BY <1>3, <1>4, <2>4
<1>6. CASE p < s.curPiece
  <2>1. t.curPiece = s.curPiece /\ t.lossPieces = s.lossPieces \ {p}
    BY <1>1, <1>6, PlaceFields
  <2> HIDE DEF t
  <2>2. SeenIn(t) = SeenIn(s) /\ (p \in Slot => p \in SeenIn(s))
    BY <1>6, <2>1 DEF SeenIn
  <2>3. s.lossPieces \subseteq Slot
    BY <1>1 DEF Sink
  <2>4. ArrivedIn(t) = ArrivedIn(s) \cup ({p} \cap Slot)
    BY <2>1, <2>2, <2>3 DEF ArrivedIn, SeenIn
  <2> QED BY <1>3, <1>4, <2>4
<1> QED BY <1>1, <1>5, <1>6

(* One call of writeToFile stores a piece that was missing, and closes the *)
(* file if no other is; or it changes neither.                             *)
LEMMA StoresOrKeeps ==
  ASSUME FitsUint32, NEW s, Kept(s), NEW p \in 0..NumPieces
  PROVE  LET t == WriteToFile(s, p, p) IN
           \/ /\ s.isOpen /\ p \in Slot \ Have(s) /\ Have(t) = Have(s) \cup {p}
              /\ t.isOpen <=> Have(t) # Slot
           \/ Have(t) = Have(s) /\ (t.isOpen <=> s.isOpen)
<1> DEFINE t == WriteToFile(s, p, p)
<1>1. CASE ~s.isOpen \/ LossHeavy(s, p)
  BY <1>1 DEF WriteToFile
<1>2. CASE s.isOpen /\ ~LossHeavy(s, p)
  <2>1. Kept(t) /\ Have(t) = ArrivedIn(t) /\ Have(s) = ArrivedIn(s)
    BY WriteToFileKept, HaveArrived
  <2>2. Have(t) = Have(s) \cup ({p} \cap Slot)
    BY <1>2, <2>1, WriteStores
  <2>3. (t.isOpen <=> Have(t) # Slot) /\ Have(s) # Slot
    BY <1>2, <2>1 DEF Kept
  <2> HIDE DEF t
  <2>4. CASE p \in Slot \ Have(s)
    BY <1>2, <2>2, <2>3, <2>4 DEF t
  <2>5. CASE p \notin Slot \ Have(s)
    <3>1. Have(t) = Have(s)
      BY <2>2, <2>5
    <3> QED BY <1>2, <2>3, <3>1 DEF t
  <2> QED BY <2>4, <2>5
<1> QED BY <1>1, <1>2
=============================================================================
