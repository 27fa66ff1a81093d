-------------------------- MODULE Transfer_proofs --------------------------
(***************************************************************************)
(* What is proved about a share for any number of receivers, any file, any *)
(* window, any timeout and any losses and duplications.                    *)
(***************************************************************************)
EXTENDS Transfer, GetFileManager_proofs, SequenceTheorems, TLAPS

(***************************************************************************)
(* The hold timer.  HoldTimerFollowsSession is inductive by itself: only   *)
(* FILE_REQ starts a session, in WAIT_RECVER, where no timer is left, and  *)
(* every way out of one goes through EndSession or deleteConn.             *)
(***************************************************************************)
LEMMA SenderKeepsTimer ==
  ASSUME HoldTimerFollowsSession, SendStep \/ \E m \in net : SendRead(m)
  PROVE  HoldTimerFollowsSession'
<1> USE DEF HoldTimerFollowsSession, sessionVars
<1>1. EndSession => HoldTimerFollowsSession'
  BY DEF EndSession
<1>2. DeleteConn => HoldTimerFollowsSession'
  BY DEF DeleteConn
<1>3. ASSUME NEW m \in net, SendRead(m) PROVE HoldTimerFollowsSession'
  <2>1. CASE RecvHello(m)
    BY <2>1 DEF RecvHello, ReadOnly
  <2>2. CASE RecvHelloReply(m)
    BY <2>2 DEF RecvHelloReply
  <2>3. CASE RecvShareCode(m)
    BY <2>3 DEF RecvShareCode
  <2>4. CASE RecvFileReq(m)
    BY <2>4 DEF RecvFileReq
  <2>5. CASE RecvDownloadStart(m)
    BY <2>5 DEF RecvDownloadStart
  <2>6. CASE RecvPackAck(m) \/ RecvRetran(m)
    BY <2>6 DEF RecvPackAck, RecvRetran
  <2>7. CASE RecvFinish(m)
    BY <1>1, <2>7 DEF RecvFinish
  <2>8. CASE RecvError(m)
    BY <2>8 DEF RecvError
  <2> QED BY <1>3, <2>1, <2>2, <2>3, <2>4, <2>5, <2>6, <2>7, <2>8 DEF SendRead
<1>4. CASE ShareFile
  BY <1>4 DEF ShareFile
<1>5. CASE RunFunctor
  BY <1>2, <1>5 DEF RunFunctor, RunCall
<1>6. ASSUME NEW a \in due, HoldConn(a) PROVE HoldTimerFollowsSession'
  BY <1>1, <1>6 DEF HoldConn
<1> QED BY <1>3, <1>4, <1>5, <1>6 DEF SendStep

(* The sharer greets the receiver of the current session and no other.     *)
THEOREM TimerFollowsSession == Spec => []HoldTimerFollowsSession
<1>1. Init => HoldTimerFollowsSession
  BY DEF Init, SendInit, HoldTimerFollowsSession
<1>2. HoldTimerFollowsSession /\ [Next]_vars => HoldTimerFollowsSession'
  <2> SUFFICES ASSUME HoldTimerFollowsSession, [Next]_vars
               PROVE  HoldTimerFollowsSession'
    OBVIOUS
  <2>1. CASE UNCHANGED sendVars
    BY <2>1 DEF sendVars, sessionVars, HoldTimerFollowsSession
  <2>2. CASE SenderSteps \/ \E m \in net : SenderReads(m)
    BY <2>2, SenderKeepsTimer DEF SenderSteps, SenderReads
  <2>3. CASE Tick
    BY <2>3 DEF Tick, SendTick, HoldTimerFollowsSession
  <2> QED
    BY <2>1, <2>2, <2>3
       DEF Next, vars, ReceiverReads, ReceiverSteps, ServerRead, Vanish, Loses
<1> QED BY <1>1, <1>2, PTL DEF Spec

-----------------------------------------------------------------------------
(***************************************************************************)
(* The wakeup.  What is queued is a sequence, and a call that is queued    *)
(* stays so until it is the first to run.                                  *)
(***************************************************************************)
IsQueue(q) == q \in Seq(Range(q))

LEMMA AppendQueue ==
  ASSUME NEW q, IsQueue(q), NEW x
  PROVE  /\ IsQueue(Append(q, x))
         /\ Range(Append(q, x)) = Range(q) \cup {x}
<1> DEFINE S == Range(q) \cup {x}
           a == Append(q, x)
<1>1. q \in Seq(S) /\ x \in S
  BY DEF IsQueue
<1>2. /\ a \in Seq(S) /\ Len(a) = Len(q) + 1
      /\ \A i \in 1..Len(q) : a[i] = q[i]
      /\ a[Len(q) + 1] = x
  BY <1>1, AppendProperties
<1>3. DOMAIN a = 1..Len(q)+1 /\ DOMAIN q = 1..Len(q) /\ Len(q) \in Nat
  BY <1>1, <1>2
<1>4. Range(a) = S
  BY <1>2, <1>3 DEF Range
<1> QED BY <1>2, <1>4 DEF IsQueue

LEMMA TailQueue ==
  ASSUME NEW q, IsQueue(q), q # <<>>
  PROVE  /\ IsQueue(Tail(q))
         /\ \A y \in Range(q) : y # Head(q) => y \in Range(Tail(q))
<1> DEFINE S == Range(q)
           t == Tail(q)
<1>1. q \in Seq(S) /\ Len(q) \in Nat \ {0} /\ DOMAIN q = 1..Len(q)
  BY EmptySeq DEF IsQueue
<1>2. /\ t \in Seq(S) /\ Len(t) = Len(q) - 1 /\ DOMAIN t = 1..Len(t)
      /\ \A i \in 1..Len(t) : t[i] = q[i+1]
      /\ Head(q) = q[1]
  BY <1>1, HeadTailProperties
<1>3. IsQueue(t)
  BY <1>2, SeqOfRange DEF IsQueue
<1>4. ASSUME NEW y \in S, y # Head(q) PROVE y \in Range(t)
  <2>1. PICK i \in 1..Len(q) : q[i] = y
    BY <1>1 DEF Range
  <2>2. i - 1 \in 1..Len(t) /\ t[i-1] = y
    BY <1>1, <1>2, <1>4, <2>1
  <2> QED BY <1>2, <2>2 DEF Range
<1> QED BY <1>3, <1>4

(* Whoever runs sendFileStream leaves the sender awake ...                 *)
Awake == isWindowFull \/ StreamCall \in Range(functors)

LEMMA StreamWakes ==
  ASSUME NEW q, IsQueue(q), NEW w, NEW full, SendFileStream(w, full, q)
  PROVE  IsQueue(functors)' /\ Awake'
<1>1. CASE StreamStops(w)
  BY <1>1 DEF SendFileStream, Awake
<1>2. CASE ~StreamStops(w)
  <2>1. functors' = Append(q, StreamCall)
    BY <1>2 DEF SendFileStream
  <2> QED BY <2>1, AppendQueue DEF Awake
<1> QED BY <1>1, <1>2

(* ... and sendLossPieces does not put it to sleep.                        *)
LEMMA LossKeepsAwake ==
  ASSUME NEW q, IsQueue(q), NEW pieces, SendLossPieces(pieces, q)
  PROVE  /\ IsQueue(functors)'
         /\ isWindowFull \/ StreamCall \in Range(q) => Awake'
         /\ src'.cur = src.cur
<1>1. CASE LossStops(pieces)
  BY <1>1 DEF SendLossPieces, Awake
<1>2. CASE ~LossStops(pieces)
  <2> DEFINE call == LossCall(SubSeq(pieces, 1, Len(pieces) - 1))
  <2>1. functors' = Append(q, call) /\ isWindowFull' = isWindowFull
    BY <1>2 DEF SendLossPieces
  <2>2. src'.cur = src.cur
    BY <1>2 DEF SendLossPieces, PieceOf, SeekBack
  <2>3. IsQueue(functors)' /\ Range(functors)' = Range(q) \cup {call}
    BY <2>1, AppendQueue
  <2> QED BY <2>1, <2>2, <2>3 DEF Awake
<1> QED BY <1>1, <1>2

(* The inductive invariant: a sender that has read a piece is awake, in    *)
(* whatever state of the session, because calls queued in one session run  *)
(* in the next.                                                            *)
Wakeup ==
  /\ IsQueue(functors)
  /\ state # "CLOSED" /\ src.cur > 0 => Awake

LEMMA SenderKeepsAwake ==
  ASSUME Wakeup, SendStep \/ \E m \in net : SendRead(m)
  PROVE  Wakeup'
<1> USE DEF Wakeup
<1>1. ASSUME EndSession, UNCHANGED functors \/ CloseSelf PROVE Wakeup'
  <2>1. IsQueue(functors)'
    BY <1>1, AppendQueue DEF CloseSelf
  <2> QED BY <1>1, <2>1 DEF EndSession, InitStatu, NewSource
<1>2. ASSUME DeleteConn PROVE Wakeup'
  BY <1>2, EmptySeq DEF DeleteConn, IsQueue
<1>3. ASSUME UNCHANGED <<src, isWindowFull>>, UNCHANGED functors \/ CloseSelf,
             state = "CLOSED" => state' = "CLOSED"
      PROVE  Wakeup'
  <2>1. IsQueue(functors)' /\ Range(functors) \subseteq Range(functors)'
    <3>1. functors' = functors \/ functors' = Append(functors, DeleteCall)
      BY <1>3 DEF CloseSelf
    <3>2. /\ IsQueue(Append(functors, DeleteCall))
          /\ Range(Append(functors, DeleteCall)) = Range(functors) \cup {DeleteCall}
      BY AppendQueue
    <3> QED BY <3>1, <3>2
  <2> QED BY <1>3, <2>1 DEF Awake
<1>4. ASSUME NEW m \in net, SendRead(m) PROVE Wakeup'
  <2> USE DEF sessionVars, streamVars, Reads
  <2>1. CASE RecvHello(m) \/ RecvHelloReply(m) \/ RecvShareCode(m) \/ RecvFileReq(m)
    BY <1>3, <2>1 DEF RecvHello, RecvHelloReply, RecvShareCode, RecvFileReq, ReadOnly
  <2>2. CASE RecvDownloadStart(m)
    <3>1. CASE state \in {"CONN_RECVER", "SEND_FILE"}
      BY <2>2, <3>1, StreamWakes DEF RecvDownloadStart
    <3>2. CASE state \notin {"CONN_RECVER", "SEND_FILE"}
      BY <1>3, <2>2, <3>2 DEF RecvDownloadStart
    <3> QED BY <3>1, <3>2
  <2>3. CASE RecvPackAck(m)
    <3>1. CASE state = "SEND_FILE" /\ isWindowFull
      BY <2>3, <3>1, StreamWakes DEF RecvPackAck
    <3>2. CASE ~(state = "SEND_FILE" /\ isWindowFull)
      BY <1>3, <2>3, <3>2 DEF RecvPackAck
    <3> QED BY <3>1, <3>2
  <2>4. CASE RecvRetran(m)
    <3>1. CASE state = "SEND_FILE"
      <4>1. SendLossPieces(Requested(m.pieces), functors)
        BY <2>4, <3>1 DEF RecvRetran
      <4> QED BY <3>1, <4>1, LossKeepsAwake DEF Awake
    <3>2. CASE state # "SEND_FILE"
      BY <1>3, <2>4, <3>2 DEF RecvRetran
    <3> QED BY <3>1, <3>2
  <2>5. CASE RecvFinish(m)
    BY <1>1, <1>3, <2>5 DEF RecvFinish
  <2>6. CASE RecvError(m)
    BY <1>3, <2>6 DEF RecvError
  <2> QED BY <1>4, <2>1, <2>2, <2>3, <2>4, <2>5, <2>6 DEF SendRead
<1>5. CASE ShareFile
  BY <1>3, <1>5 DEF ShareFile, streamVars
<1>6. CASE RunFunctor
  <2> DEFINE f == Head(functors)
             rest == Tail(functors)
  <2>1. functors # <<>> /\ IsQueue(rest)
    BY <1>6, TailQueue DEF RunFunctor
  <2>2. CASE f = StreamCall
    <3>1. SendFileStream(sendWindow, isWindowFull, rest)
      BY <1>6, <2>2 DEF RunFunctor, RunCall, StreamCall, DeleteCall
    <3> QED BY <2>1, <3>1, StreamWakes
  <2>3. CASE f = DeleteCall
    BY <1>2, <1>6, <2>3 DEF RunFunctor
  <2>4. CASE f # StreamCall /\ f # DeleteCall
    <3>1. SendLossPieces(f.pieces, rest) /\ state' = state
      BY <1>6, <2>4 DEF RunFunctor, RunCall, sessionVars
    <3>2. StreamCall \in Range(functors) => StreamCall \in Range(rest)
      BY <2>1, <2>4, TailQueue
    <3> QED BY <2>1, <3>1, <3>2, LossKeepsAwake DEF Awake
  <2> QED BY <2>2, <2>3, <2>4
<1>7. ASSUME NEW a \in due, HoldConn(a) PROVE Wakeup'
  BY <1>1, <1>3, <1>7 DEF HoldConn, sessionVars, streamVars
<1> QED BY <1>4, <1>5, <1>6, <1>7 DEF SendStep

(* The sender is never deaf: no order of acknowledgements, retransmission  *)
(* requests, restarts and session ends leaves a stream that has begun with *)
(* neither a call queued nor a wakeup by the next PACK_ACK.                *)
THEOREM WakeupNeverLost == Spec => []NoLostWakeup
<1>1. Init => Wakeup
  BY EmptySeq DEF Init, SendInit, NewSource, Wakeup, IsQueue
<1>2. Wakeup /\ [Next]_vars => Wakeup'
  <2> SUFFICES ASSUME Wakeup, [Next]_vars PROVE Wakeup'
    OBVIOUS
  <2>1. CASE UNCHANGED sendVars
    BY <2>1 DEF sendVars, sessionVars, streamVars, loopVars, Wakeup, Awake
  <2>2. CASE SenderSteps \/ \E m \in net : SenderReads(m)
    BY <2>2, SenderKeepsAwake DEF SenderSteps, SenderReads
  <2>3. CASE Tick
    BY <2>3 DEF Tick, SendTick, streamVars, loopVars, Wakeup, Awake
  <2> QED
    BY <2>1, <2>2, <2>3
       DEF Next, vars, ReceiverReads, ReceiverSteps, ServerRead, Vanish, Loses
<1>3. Wakeup => NoLostWakeup
  BY DEF Wakeup, Awake, NoLostWakeup, Range
<1> QED BY <1>1, <1>2, <1>3, PTL DEF Spec

-----------------------------------------------------------------------------
(***************************************************************************)
(* What the pieces travel as.  The sender's stream, as long as it is good, *)
(* stands at the piece that is next; reads elsewhere come back to it or    *)
(* leave it not good.                                                      *)
(***************************************************************************)
SourceOK(s) == s \in Source /\ (s.good => s.pos = s.cur)

LEMMA NextPieceOK ==
  ASSUME NEW s, SourceOK(s), s.good
  PROVE  SourceOK(NextPiece(s))
<1>1. /\ s.cur \in 0..NumPieces /\ s.pos = s.cur /\ NumPieces \in Nat \ {0}
      /\ kBytesPerPiece \in Nat \ {0}
  BY LayoutAssumption DEF SourceOK, Source
<1>2. CASE s.pos < NumPieces
  BY <1>1, <1>2 DEF NextPiece, SourceOK, Source, ReadsInFull
<1>3. CASE s.pos = NumPieces
  <2>1. Size(s.pos) = 0
    BY <1>1, <1>3 DEF Size
  <2>2. ReadsInFull(s.pos) = FALSE /\ ~(s.pos < NumPieces)
    BY <1>1, <1>3, <2>1 DEF ReadsInFull
  <2>3. NextPiece(s) = [cur |-> s.cur, pos |-> s.pos, good |-> FALSE]
    BY <2>2 DEF NextPiece
  <2> QED BY <1>1, <2>3 DEF SourceOK, Source
<1> QED BY <1>1, <1>2, <1>3

LEMMA PieceOfOK ==
  ASSUME FitsUint32, NEW s, SourceOK(s), NEW num \in 0..NumPieces
  PROVE  SourceOK(PieceOf(s, num)) /\ Payload(SeekPiece(s, num)) = num
<1> DEFINE u == SeekPiece(s, num)
           v == NextPiece(u)
<1>1. /\ s.cur \in 0..NumPieces /\ NumPieces \in Nat \ {0}
      /\ DOMAIN s = {"cur", "pos", "good"}
  BY LayoutAssumption DEF SourceOK, Source
<1>2. SlotOf(num) = num /\ SlotOf(s.cur) = s.cur
  BY <1>1, SeekLands DEF SlotOf
<1>3. u.pos = num
  BY <1>1, <1>2 DEF SeekPiece
<1>4. v.pos \in 0..NumPieces /\ v.good \in BOOLEAN
  BY <1>1, <1>3 DEF NextPiece, ReadsInFull
<1>5. PieceOf(s, num) = [cur |-> s.cur, pos |-> IF v.good THEN s.cur ELSE v.pos, good |-> v.good]
  BY <1>2 DEF PieceOf, SeekBack
<1> HIDE DEF u, v
<1>6. SourceOK(PieceOf(s, num))
  BY <1>1, <1>4, <1>5 DEF SourceOK, Source
<1> QED BY <1>3, <1>6 DEF Payload, u

(* The pieces of a request can be put in order: the place of a piece is    *)
(* one more than the number of those below it.                             *)
LEMMA OrderExists ==
  ASSUME NEW S \in SUBSET Slot
  PROVE  \E s \in [1..Cardinality(S) -> S] : \A i, j \in DOMAIN s : i < j => s[i] < s[j]
<1> DEFINE n == Cardinality(S)
           Below(x) == {y \in S : y < x}
           rank == [x \in S |-> Cardinality(Below(x)) + 1]
           s == [i \in 1..n |-> CHOOSE x \in S : rank[x] = i]
<1>1. IsFiniteSet(S) /\ n \in Nat /\ S \subseteq Int
  <2>1. S \subseteq Int
    BY LayoutAssumption DEF Slot
  <2> QED BY <2>1, SlotFinite
<1>2. ASSUME NEW x \in S
      PROVE  IsFiniteSet(Below(x)) /\ Cardinality(Below(x)) \in Nat /\ Cardinality(Below(x)) < n
  <2>1. Below(x) \in SUBSET S /\ x \notin Below(x)
    BY <1>1
  <2>2. IsFiniteSet(Below(x)) /\ Cardinality(Below(x)) <= n /\ Cardinality(Below(x)) # n
    <3> HIDE DEF Below
    <3> QED BY <1>1, <2>1, FS_Subset
  <2>3. Cardinality(Below(x)) \in Nat
    BY <2>2, FS_CardinalityType
  <2> HIDE DEF Below, n
  <2> QED BY <1>1, <2>2, <2>3
<1>3. ASSUME NEW x \in S, NEW y \in S, x < y
      PROVE  Cardinality(Below(x)) < Cardinality(Below(y))
  <2>1. Below(x) \in SUBSET Below(y) /\ x \in Below(y) /\ x \notin Below(x)
    <3>1. x \in Int /\ y \in Int
      BY <1>1
    <3>2. \A z \in S : z < x => z < y
      BY <1>1, <1>3, <3>1
    <3>3. Below(x) \in SUBSET Below(y)
      BY <3>2
    <3> QED BY <1>3, <3>1, <3>3
  <2>2. IsFiniteSet(Below(y)) /\ Cardinality(Below(x)) \in Nat /\ Cardinality(Below(y)) \in Nat
    BY <1>2
  <2> HIDE DEF Below
  <2>3. Cardinality(Below(x)) <= Cardinality(Below(y)) /\ Cardinality(Below(x)) # Cardinality(Below(y))
    BY <2>1, <2>2, FS_Subset
  <2> QED BY <2>2, <2>3
<1> HIDE DEF Below
<1>4. ASSUME NEW x \in S PROVE rank[x] \in 1..n
  BY <1>1, <1>2
<1>5. ASSUME NEW x \in S, NEW y \in S, x < y PROVE rank[x] < rank[y]
  BY <1>2, <1>3, <1>5
<1>6. DOMAIN rank = S
  OBVIOUS
<1>7. rank \in [S -> 1..n]
  BY <1>4
<1> HIDE DEF rank
<1>8. rank \in Injection(S, 1..n)
  <2>1. ASSUME NEW x \in S, NEW y \in S, rank[x] = rank[y] PROVE x = y
    BY <1>1, <1>4, <1>5, <2>1
  <2> QED BY <1>6, <1>7, <2>1 DEF Injection, IsInjective
<1>9. IsFiniteSet(1..n) /\ Cardinality(1..n) = n
  BY <1>1, FS_Interval
<1>10. rank \in Surjection(S, 1..n)
  <2> HIDE DEF n
  <2>1. Cardinality(S) = Cardinality(1..n)
    BY <1>9 DEF n
  <2> QED BY <1>8, <1>9, <2>1, FS_Injection
<1>11. ASSUME NEW i \in 1..n PROVE s[i] \in S /\ rank[s[i]] = i
  <2>1. \E x \in S : rank[x] = i
    BY <1>10 DEF Surjection
  <2> QED BY <2>1
<1>12. s \in [1..n -> S] /\ DOMAIN s = 1..n
  BY <1>11
<1> HIDE DEF s
<1>13. ASSUME NEW i \in 1..n, NEW j \in 1..n, i < j PROVE s[i] < s[j]
  <2>1. s[i] \in Int /\ s[j] \in Int
    BY <1>1, <1>11
  <2>2. rank[s[i]] = i /\ rank[s[j]] = j /\ s[i] \in S /\ s[j] \in S /\ i \in Int /\ j \in Int
    BY <1>1, <1>11
  <2>3. s[i] # s[j]
    BY <1>13, <2>2
  <2>4. ~(s[j] < s[i])
    BY <1>5, <1>13, <2>2
  <2> QED BY <2>1, <2>3, <2>4
<1> QED BY <1>12, <1>13

(* What a request for lost pieces is taken for is a sequence of pieces.    *)
LEMMA RequestedType ==
  ASSUME NEW S \in SUBSET Slot
  PROVE  Requested(S) \in Seq(0..NumPieces)
<1> DEFINE n == Cardinality(S)
           zeros == [i \in 1..n |-> 0]
<1>1. n \in Nat
  BY SlotFinite
<1>2. InOrder(S) \in [1..n -> S]
  BY OrderExists DEF InOrder
<1>3. S \subseteq 0..NumPieces /\ 0 \in 0..NumPieces
  BY LayoutAssumption DEF Slot
<1> HIDE DEF n
<1>4. ASSUME NEW f \in [1..n -> 0..NumPieces] PROVE f \in Seq(0..NumPieces)
  BY <1>1, SeqDef
<1>5. zeros \in [1..n -> 0..NumPieces] /\ InOrder(S) \in [1..n -> 0..NumPieces]
  BY <1>2, <1>3
<1>6. zeros \o InOrder(S) \in Seq(0..NumPieces)
  BY <1>4, <1>5, ConcatProperties
<1> QED BY <1>6 DEF Requested, n

-----------------------------------------------------------------------------
(***************************************************************************)
(* The invariant of the whole share.  A datagram of a stream is under way, *)
(* and a call queued, only for a file that its receiver has opened, and    *)
(* then products of piece numbers do not wrap (SeekLands); every datagram  *)
(* is sound, so that what is stored is the piece it is said to be.         *)
(***************************************************************************)
Streaming == {"DOWNLOAD_START", "PACK_ACK", "RETRAN", "DATA_STREAM"}

Sound(m) ==
  /\ m.type \in Streaming => FitsUint32
  /\ m.type = "DATA_STREAM" => m.piece \in 0..NumPieces /\ m.data = m.piece
  /\ m.type = "PACK_ACK" => m.nums \in Nat
  /\ m.type = "RETRAN" => m.pieces \in SUBSET Slot
  /\ m.type = "FILE_REQ" => m.addr \in Receiver
  /\ m.type = "GET_FILE" => m.from \in Receiver

NetSound == \A m \in net : Sound(m)

SinkOK(r) == IF FitsUint32 THEN Kept(sink[r]) ELSE sink[r] = NewSink /\ ~Receiving(r)

ReceiverInv == GetTypeOK /\ \A r \in Receiver : SinkOK(r)

LEMMA PostSound ==
  ASSUME NetSound, NEW ms, \A x \in ms : Sound(x), Post(ms)
  PROVE  NetSound'
BY DEF NetSound, Post

LEMMA AnswerSound ==
  ASSUME NetSound, NEW m, NEW ms, \A x \in ms : Sound(x), Answer(m, ms)
  PROVE  NetSound'
BY DEF NetSound, Answer

LEMMA PlainSound ==
  ASSUME NEW type, NEW from, NEW to,
         type \notin Streaming \cup {"FILE_REQ", "GET_FILE"}
  PROVE  Sound(Plain(type, from, to))
BY DEF Plain, Sound, Streaming

(* The sender: its session, its stream and its loop.                       *)
Call == {StreamCall, DeleteCall} \cup [call : {"sendLossPieces"}, pieces : Seq(0..NumPieces)]

SessionInv ==
  /\ state \in {"IDLE", "WAIT_CODE", "WAIT_RECVER", "CONN_RECVER", "SEND_FILE", "CLOSED"}
  /\ recveraddr \in Receiver \cup {NoOne}
  /\ repeattimers \subseteq Receiver
  /\ due \subseteq Receiver \cup {Server}
  /\ serverHello \in Ages /\ peerHello \in Ages

StreamInv ==
  /\ SourceOK(src) /\ sendWindow \in 0..WindowSize /\ isWindowFull \in BOOLEAN
  /\ functors \in Seq(Call)

OnlyDeletions == functors \in Seq({DeleteCall})

LoopInv ==
  /\ heard \in BOOLEAN /\ batch \in 0..Len(functors)
  /\ FitsUint32 \/ OnlyDeletions

SenderInv == SessionInv /\ StreamInv /\ LoopInv

LEMMA WindowType == WindowSize \in Nat
BY ConnAssumption DEF WindowSize

LEMMA AppendDeletion ==
  ASSUME functors \in Seq(Call), CloseSelf
  PROVE  /\ functors' \in Seq(Call) /\ Len(functors') = Len(functors) + 1
         /\ OnlyDeletions => OnlyDeletions'
BY AppendProperties DEF CloseSelf, Call, OnlyDeletions

LEMMA AppendCall ==
  ASSUME NEW q \in Seq(Call), NEW c \in Call
  PROVE  Append(q, c) \in Seq(Call) /\ Len(Append(q, c)) = Len(q) + 1
BY AppendProperties

LEMMA StreamTyped ==
  ASSUME FitsUint32, SourceOK(src), NEW q \in Seq(Call), NEW w \in 0..WindowSize,
         NEW full \in BOOLEAN, SendFileStream(w, full, q)
  PROVE  /\ StreamInv' /\ Len(functors') \in {Len(q), Len(q) + 1}
         /\ \A x \in StreamOut(w) : Sound(x)
<1>1. CASE StreamStops(w)
  BY <1>1 DEF SendFileStream, StreamOut, StreamInv
<1>2. CASE ~StreamStops(w)
  <2>1. src.good /\ w < WindowSize
    BY <1>2, WindowType DEF StreamStops
  <2>2. functors' = Append(q, StreamCall) /\ src' = NextPiece(src)
        /\ sendWindow' = w + 1 /\ isWindowFull' = full
    BY <1>2 DEF SendFileStream
  <2>3. functors' \in Seq(Call) /\ Len(functors') = Len(q) + 1
    BY <2>2, AppendCall DEF Call
  <2>4. SourceOK(src')
    BY <2>1, <2>2, NextPieceOK
  <2>5. w + 1 \in 0..WindowSize
    BY <2>1, WindowType
  <2>6. StreamInv'
    BY <2>2, <2>3, <2>4, <2>5 DEF StreamInv
  <2>7. src.cur \in 0..NumPieces /\ src.pos = src.cur
    BY <2>1 DEF SourceOK, Source
  <2>8. Sound(DataStream(recveraddr, src.cur, Payload(src)))
    BY <2>7 DEF Sound, Streaming, DataStream, Payload
  <2> QED BY <1>2, <2>3, <2>6, <2>8 DEF StreamOut
<1> QED BY <1>1, <1>2

LEMMA LossTyped ==
  ASSUME FitsUint32, StreamInv, NEW q \in Seq(Call), NEW pieces \in Seq(0..NumPieces),
         SendLossPieces(pieces, q)
  PROVE  /\ StreamInv' /\ Len(functors') \in {Len(q), Len(q) + 1}
         /\ \A x \in LossOut(pieces) : Sound(x)
<1>1. CASE LossStops(pieces)
  BY <1>1 DEF SendLossPieces, LossOut, StreamInv
<1>2. CASE ~LossStops(pieces)
  <2> DEFINE rest == SubSeq(pieces, 1, Len(pieces) - 1)
             p == LastPiece(pieces)
  <2>1. pieces # <<>> /\ sendWindow < WindowSize /\ Len(pieces) \in Nat \ {0}
    BY <1>2, WindowType, EmptySeq DEF LossStops, StreamInv
  <2> DEFINE T == 0..NumPieces
  <2> HIDE DEF T
  <2>2. pieces \in Seq(T)
    BY DEF T
  <2>3. \A i \in 1..Len(pieces) : pieces[i] \in T
    BY <2>2, ElementOfSeq
  <2>4. p \in 0..NumPieces
    BY <2>1, <2>3 DEF LastPiece, T
  <2>5. rest \in Seq(0..NumPieces)
    <3>1. \A i \in 1..Len(pieces)-1 : pieces[i] \in T
      BY <2>1, <2>3
    <3>2. SubSeq(pieces, 1, Len(pieces) - 1) \in Seq(T)
      BY <2>1, <3>1, SubSeqProperties
    <3> QED BY <3>2 DEF T
  <2>6. LossCall(rest) \in Call
    BY <2>5 DEF Call, LossCall
  <2> HIDE DEF rest, p
  <2>7. functors' = Append(q, LossCall(rest)) /\ src' = PieceOf(src, p)
        /\ sendWindow' = sendWindow + 1 /\ isWindowFull' = isWindowFull
    BY <1>2 DEF SendLossPieces, rest, p
  <2>8. functors' \in Seq(Call) /\ Len(functors') = Len(q) + 1
    BY <2>6, <2>7, AppendCall
  <2>9. SourceOK(src') /\ Payload(SeekPiece(src, p)) = p
    BY <2>4, <2>7, PieceOfOK DEF StreamInv
  <2>10. sendWindow' \in 0..WindowSize
    BY <2>1, <2>7, WindowType DEF StreamInv
  <2>11. StreamInv'
    BY <2>7, <2>8, <2>9, <2>10 DEF StreamInv
  <2>12. Sound(DataStream(recveraddr, p, p))
    BY <2>4 DEF Sound, Streaming, DataStream
  <2>13. LossOut(pieces) = {DataStream(recveraddr, p, p)}
    BY <1>2, <2>9 DEF LossOut, p
  <2> QED BY <2>8, <2>11, <2>12, <2>13
<1> QED BY <1>1, <1>2

LEMMA AgesType == 0 \in Ages /\ Never \in Ages /\ \A age \in Ages : Older(age) \in Ages
BY ConnAssumption DEF Ages, Never, Older

LEMMA EndSessionKeeps ==
  ASSUME SessionInv, StreamInv, EndSession, serverHello' \in Ages, peerHello' \in Ages,
         due' \subseteq due, functors' \in Seq(Call)
  PROVE  SessionInv' /\ StreamInv'
<1>1. SourceOK(NewSource)
  BY LayoutAssumption DEF SourceOK, Source, NewSource
<1>2. 0 \in 0..WindowSize
  BY WindowType
<1> QED BY <1>1, <1>2 DEF SessionInv, StreamInv, EndSession, InitStatu

LEMMA DeleteConnKeeps ==
  ASSUME SenderInv, DeleteConn
  PROVE  SenderInv'
<1>1. <<>> \in Seq(Call) /\ <<>> \in Seq({DeleteCall}) /\ Len(<<>>) = 0
  BY EmptySeq
<1>2. SessionInv'
  BY DEF DeleteConn, SenderInv, SessionInv, helloVars
<1>3. functors' = <<>> /\ batch' = 0 /\ heard' = FALSE /\ UNCHANGED streamVars
  BY DEF DeleteConn
<1>4. StreamInv'
  BY <1>1, <1>3 DEF SenderInv, StreamInv, streamVars
<1>5. LoopInv'
  <2>1. batch' \in 0..Len(functors')
    BY <1>1, <1>3
  <2> QED BY <1>1, <1>3, <2>1 DEF LoopInv, OnlyDeletions
<1> QED BY <1>2, <1>4, <1>5 DEF SenderInv

(* A handler or a timer may queue the deletion; the loop is the same.      *)
LEMMA CloseKeepsLoop ==
  ASSUME LoopInv, functors \in Seq(Call), UNCHANGED functors \/ CloseSelf,
         UNCHANGED <<batch, heard>>
  PROVE  functors' \in Seq(Call) /\ LoopInv'
<1>1. CASE UNCHANGED functors
  BY <1>1 DEF LoopInv, OnlyDeletions
<1>2. CASE CloseSelf
  <2>1. functors' \in Seq(Call) /\ Len(functors') = Len(functors) + 1 /\ Len(functors) \in Nat
    BY <1>2, AppendDeletion
  <2> QED BY <1>2, <2>1, AppendDeletion DEF LoopInv
<1> QED BY <1>1, <1>2

LEMMA ReadKeepsLoop ==
  ASSUME LoopInv, StreamInv', NEW m, NEW type, Reads(m, type), EndRead,
         functors' = functors \/ FitsUint32 \/ CloseSelf
  PROVE  LoopInv'
<1>1. Len(functors') \in Nat
  BY DEF StreamInv
<1>2. CASE functors' = functors \/ FitsUint32
  BY <1>1, <1>2 DEF LoopInv, OnlyDeletions, Reads, EndRead
<1>3. CASE CloseSelf
  <2>1. OnlyDeletions => OnlyDeletions'
    BY <1>3, AppendProperties DEF CloseSelf, OnlyDeletions
  <2> QED BY <1>1, <2>1 DEF LoopInv, Reads, EndRead
<1> QED BY <1>2, <1>3

(* One message read by the sender.                                         *)
LEMMA SenderReadKeeps ==
  ASSUME SenderInv, NetSound, NEW m \in net, SendRead(m)
  PROVE  SenderInv' /\ NetSound'
<1> USE DEF SenderInv
<1>1. ASSUME NEW type, Reads(m, type), EndRead, SessionInv', UNCHANGED streamVars,
             UNCHANGED functors
      PROVE  SenderInv'
  <2>1. StreamInv'
    BY <1>1 DEF StreamInv, streamVars
  <2> QED BY <1>1, <2>1, ReadKeepsLoop
<1>2. Sound(m)
  BY DEF NetSound
<1>3. CASE RecvHello(m)
  <2>1. NetSound'
    BY <1>3, AnswerSound, PlainSound DEF RecvHello, Streaming
  <2>2. SessionInv'
    BY <1>3 DEF RecvHello, ReadOnly, SessionInv, sessionVars, helloVars
  <2> QED BY <1>1, <1>3, <2>1, <2>2 DEF RecvHello, ReadOnly
<1>4. CASE RecvHelloReply(m)
  <2>1. NetSound'
    BY <1>4, AnswerSound DEF RecvHelloReply
  <2>2. SessionInv'
    BY <1>4, AgesType DEF RecvHelloReply, SessionInv
  <2> QED BY <1>1, <1>4, <2>1, <2>2 DEF RecvHelloReply
<1>5. CASE RecvShareCode(m)
  <2>1. NetSound'
    BY <1>5, AnswerSound DEF RecvShareCode
  <2>2. SessionInv'
    BY <1>5 DEF RecvShareCode, SessionInv, helloVars
  <2> QED BY <1>1, <1>5, <2>1, <2>2 DEF RecvShareCode
<1>6. CASE RecvFileReq(m)
  <2>1. m.addr \in Receiver
    BY <1>2, <1>6 DEF RecvFileReq, Reads, Sound
  <2>2. NetSound'
    <3>1. CASE state = "WAIT_RECVER"
      BY <1>6, <3>1, AnswerSound, PlainSound DEF RecvFileReq, Streaming
    <3>2. CASE state # "WAIT_RECVER"
      BY <1>6, <3>2, AnswerSound DEF RecvFileReq
    <3> QED BY <3>1, <3>2
  <2>3. SessionInv'
    BY <1>6, <2>1 DEF RecvFileReq, SessionInv, sessionVars, helloVars
  <2> QED BY <1>1, <1>6, <2>2, <2>3 DEF RecvFileReq
<1>7. CASE RecvDownloadStart(m)
  <2>1. FitsUint32
    BY <1>2, <1>7 DEF RecvDownloadStart, Reads, Sound, Streaming
  <2>2. SessionInv'
    BY <1>7 DEF RecvDownloadStart, SessionInv, helloVars
  <2>3. CASE state \in {"CONN_RECVER", "SEND_FILE"}
    <3>1. /\ Answer(m, StreamOut(sendWindow))
          /\ SendFileStream(sendWindow, isWindowFull, functors)
      BY <1>7, <2>3 DEF RecvDownloadStart
    <3>2. StreamInv' /\ \A x \in StreamOut(sendWindow) : Sound(x)
      BY <2>1, <3>1, StreamTyped DEF StreamInv
    <3>3. NetSound'
      BY <3>1, <3>2, AnswerSound
    <3>4. LoopInv'
      BY <1>7, <2>1, <3>2, ReadKeepsLoop DEF RecvDownloadStart
    <3> QED BY <2>2, <3>2, <3>3, <3>4
  <2>4. CASE state \notin {"CONN_RECVER", "SEND_FILE"}
    <3>1. NetSound'
      BY <1>7, <2>4, AnswerSound DEF RecvDownloadStart
    <3> QED BY <1>1, <1>7, <2>2, <2>4, <3>1 DEF RecvDownloadStart
  <2> QED BY <2>3, <2>4
<1>8. CASE RecvPackAck(m)
  <2>1. FitsUint32 /\ m.nums \in Nat
    BY <1>2, <1>8 DEF RecvPackAck, Reads, Sound, Streaming
  <2>2. SessionInv'
    BY <1>8 DEF RecvPackAck, SessionInv, sessionVars, helloVars
  <2>3. Acked(m.nums) \in 0..WindowSize
    BY <2>1, WindowType DEF Acked, StreamInv
  <2>4. CASE state = "SEND_FILE" /\ isWindowFull
    <3>1. /\ Answer(m, StreamOut(Acked(m.nums)))
          /\ SendFileStream(Acked(m.nums), FALSE, functors)
      BY <1>8, <2>4 DEF RecvPackAck
    <3>2. StreamInv' /\ \A x \in StreamOut(Acked(m.nums)) : Sound(x)
      BY <2>1, <2>3, <3>1, StreamTyped DEF StreamInv
    <3>3. NetSound'
      BY <3>1, <3>2, AnswerSound
    <3>4. LoopInv'
      BY <1>8, <2>1, <3>2, ReadKeepsLoop DEF RecvPackAck
    <3> QED BY <2>2, <3>2, <3>3, <3>4
  <2>5. CASE ~(state = "SEND_FILE" /\ isWindowFull)
    <3>1. NetSound'
      BY <1>8, <2>5, AnswerSound DEF RecvPackAck
    <3>2. StreamInv'
      BY <1>8, <2>3, <2>5 DEF RecvPackAck, StreamInv
    <3>3. LoopInv'
      BY <1>8, <2>1, <3>2, ReadKeepsLoop DEF RecvPackAck
    <3> QED BY <2>2, <3>1, <3>2, <3>3
  <2> QED BY <2>4, <2>5
<1>9. CASE RecvRetran(m)
  <2>1. FitsUint32 /\ m.pieces \in SUBSET Slot
    BY <1>2, <1>9 DEF RecvRetran, Reads, Sound, Streaming
  <2>2. SessionInv'
    BY <1>9 DEF RecvRetran, SessionInv, sessionVars, helloVars
  <2>3. CASE state = "SEND_FILE"
    <3> DEFINE pieces == Requested(m.pieces)
    <3>1. pieces \in Seq(0..NumPieces)
      BY <2>1, RequestedType
    <3>2. Answer(m, LossOut(pieces)) /\ SendLossPieces(pieces, functors)
      BY <1>9, <2>3 DEF RecvRetran
    <3> HIDE DEF pieces
    <3>3. StreamInv' /\ \A x \in LossOut(pieces) : Sound(x)
      BY <2>1, <3>1, <3>2, LossTyped DEF StreamInv
    <3>4. NetSound'
      BY <3>2, <3>3, AnswerSound
    <3>5. LoopInv'
      BY <1>9, <2>1, <3>3, ReadKeepsLoop DEF RecvRetran
    <3> QED BY <2>2, <3>3, <3>4, <3>5
  <2>4. CASE state # "SEND_FILE"
    <3>1. NetSound'
      BY <1>9, <2>4, AnswerSound DEF RecvRetran
    <3> QED BY <1>1, <1>9, <2>2, <2>4, <3>1 DEF RecvRetran
  <2> QED BY <2>3, <2>4
<1>10. CASE RecvFinish(m)
  <2>1. NetSound'
    BY <1>10, AnswerSound DEF RecvFinish
  <2>2. SessionInv' /\ StreamInv'
    <3>1. CASE state = "SEND_FILE"
      <4>1. EndSession /\ due' \subseteq due /\ serverHello' \in Ages /\ peerHello' \in Ages
        BY <1>10, <3>1, AgesType DEF RecvFinish, SessionInv
      <4>2. functors' \in Seq(Call)
        BY <1>10 DEF RecvFinish, StreamInv
      <4> QED BY <4>1, <4>2, EndSessionKeeps
    <3>2. CASE state # "SEND_FILE"
      BY <1>10, <3>2 DEF RecvFinish, SessionInv, StreamInv, sessionVars, streamVars
    <3> QED BY <3>1, <3>2
  <2>3. LoopInv'
    BY <1>10, <2>2, ReadKeepsLoop DEF RecvFinish
  <2> QED BY <2>1, <2>2, <2>3
<1>11. CASE RecvError(m)
  <2>1. NetSound'
    BY <1>11, AnswerSound DEF RecvError
  <2>2. /\ Reads(m, "ERROR_FORMAT") \/ Reads(m, "ERROR_LIMIT")
        /\ CloseSelf /\ EndRead /\ UNCHANGED <<sessionVars, due, helloVars, streamVars>>
    BY <1>11 DEF RecvError
  <2>3. SessionInv'
    BY <2>2 DEF SessionInv, sessionVars, helloVars
  <2>4. StreamInv'
    BY <2>2, AppendDeletion DEF StreamInv, streamVars
  <2> QED BY <2>1, <2>2, <2>3, <2>4, ReadKeepsLoop
<1> QED BY <1>3, <1>4, <1>5, <1>6, <1>7, <1>8, <1>9, <1>10, <1>11 DEF SendRead

(* A command, a functor or a timer of the sender.                          *)
LEMMA SenderStepKeeps ==
  ASSUME SenderInv, NetSound, SendStep
  PROVE  SenderInv' /\ NetSound'
<1> USE DEF SenderInv
<1>1. CASE ShareFile
  <2>1. NetSound'
    <3>1. Post({Plain("SHARE_FILE", Sender, Server)}) \/ UNCHANGED net
      BY <1>1 DEF ShareFile, wireVars
    <3> QED BY <3>1, PostSound, PlainSound DEF Streaming, NetSound
  <2>2. /\ state' \in {state, "WAIT_CODE"}
        /\ UNCHANGED functors \/ CloseSelf
        /\ UNCHANGED <<recveraddr, repeattimers, due, helloVars, streamVars, batch, heard>>
    BY <1>1 DEF ShareFile
  <2>3. SessionInv'
    BY <2>2 DEF SessionInv, helloVars
  <2>4. functors' \in Seq(Call) /\ LoopInv'
    BY <2>2, CloseKeepsLoop DEF StreamInv
  <2> QED BY <2>1, <2>2, <2>3, <2>4 DEF StreamInv, streamVars
<1>2. CASE RunFunctor /\ Head(functors) = DeleteCall
  <2>1. DeleteConn /\ Post({})
    BY <1>2 DEF RunFunctor
  <2> QED BY <2>1, DeleteConnKeeps, PostSound
<1>3. CASE RunFunctor /\ Head(functors) # DeleteCall
  <2> DEFINE f == Head(functors)
             rest == Tail(functors)
  <2>1. functors # <<>> /\ RunCall(f, rest)
    BY <1>3 DEF RunFunctor
  <2>2. f \in Call /\ rest \in Seq(Call) /\ Len(rest) = Len(functors) - 1
    BY <2>1, HeadTailProperties DEF StreamInv
  <2>3. Len(functors) \in Nat \ {0}
    BY <2>1, EmptySeq DEF StreamInv
  <2>4. FitsUint32
    <3>1. ~OnlyDeletions
      BY <1>3, <2>1, HeadTailProperties DEF OnlyDeletions
    <3> QED BY <3>1 DEF LoopInv
  <2>5. SessionInv'
    BY <2>1 DEF RunCall, SessionInv, sessionVars, helloVars
  <2>6. StreamInv' /\ NetSound' /\ Len(functors') \in {Len(rest), Len(rest) + 1}
    <3>1. CASE f = StreamCall
      <4>1. Post(StreamOut(sendWindow)) /\ SendFileStream(sendWindow, isWindowFull, rest)
        BY <2>1, <3>1 DEF RunCall
      <4> HIDE DEF rest
      <4>2. /\ StreamInv' /\ Len(functors') \in {Len(rest), Len(rest) + 1}
            /\ \A x \in StreamOut(sendWindow) : Sound(x)
        BY <2>2, <2>4, <4>1, StreamTyped DEF StreamInv
      <4> QED BY <4>1, <4>2, PostSound
    <3>2. CASE f # StreamCall
      <4>1. Post(LossOut(f.pieces)) /\ SendLossPieces(f.pieces, rest)
        BY <2>1, <3>2 DEF RunCall
      <4>2. f.pieces \in Seq(0..NumPieces)
        BY <1>3, <2>2, <3>2 DEF Call
      <4> HIDE DEF rest, f
      <4>3. /\ StreamInv' /\ Len(functors') \in {Len(rest), Len(rest) + 1}
            /\ \A x \in LossOut(f.pieces) : Sound(x)
        BY <2>2, <2>4, <4>1, <4>2, LossTyped
      <4> QED BY <4>1, <4>3, PostSound
    <3> QED BY <3>1, <3>2
  <2>7. LoopInv'
    <3>1. /\ batch' = (IF batch = 0 THEN Len(functors) ELSE batch) - 1
          /\ heard' = FALSE
      BY <2>1 DEF RunCall
    <3> HIDE DEF rest
    <3>2. batch' \in 0..Len(functors')
      BY <2>2, <2>3, <2>6, <3>1 DEF LoopInv
    <3> QED BY <2>4, <3>1, <3>2 DEF LoopInv
  <2> QED BY <2>5, <2>6, <2>7
<1>4. ASSUME NEW a \in due, HoldConn(a)
      PROVE  SenderInv' /\ NetSound'
  <2>1. NetSound'
    BY <1>4, PostSound, PlainSound DEF HoldConn, Streaming
  <2>2. UNCHANGED functors \/ CloseSelf
    BY <1>4 DEF HoldConn
  <2>3. functors' \in Seq(Call) /\ LoopInv'
    BY <1>4, <2>2, CloseKeepsLoop DEF HoldConn, StreamInv
  <2>4. CASE PeerDead
    <3>1. EndSession /\ due' \subseteq due /\ serverHello' \in Ages /\ peerHello' \in Ages
      BY <1>4, <2>4 DEF HoldConn, SessionInv, helloVars
    <3> QED BY <2>1, <2>3, <3>1, EndSessionKeeps
  <2>5. CASE ~PeerDead
    <3>1. due' \subseteq due /\ UNCHANGED <<sessionVars, helloVars, streamVars>>
      BY <1>4, <2>5 DEF HoldConn
    <3>2. SessionInv'
      BY <3>1 DEF SessionInv, sessionVars, helloVars
    <3> QED BY <2>1, <2>3, <3>1, <3>2 DEF StreamInv, streamVars
  <2> QED BY <2>4, <2>5
<1> QED BY <1>1, <1>2, <1>3, <1>4 DEF SendStep

-----------------------------------------------------------------------------
(* The receivers: what they are in and what may change around their files. *)
GetStates == {"IDLE", "WAIT_SENDER", "CONN_SENDER", "RECV_FILE", "CLOSED"}
GetTimers == Receiver \X {"holdConn", "sendRetranReq"}

LEMMA FileUntouched ==
  ASSUME ReceiverInv, NEW r \in Receiver, NEW s \in GetStates, s = "RECV_FILE" => FitsUint32,
         Goto(r, s) \/ UNCHANGED gstate, UNCHANGED <<sink, recvWindow>>,
         gdue' \subseteq GetTimers, recent' \in [Receiver -> BOOLEAN],
         senderHello' \in [Receiver -> Ages]
  PROVE  ReceiverInv'
<1>1. gstate' \in [Receiver -> GetStates]
  BY DEF ReceiverInv, GetTypeOK, Goto, GetStates
<1>2. GetTypeOK'
  BY <1>1 DEF ReceiverInv, GetTypeOK, GetStates, GetTimers
<1>3. ASSUME NEW x \in Receiver PROVE SinkOK(x)'
  <2>1. SinkOK(x) /\ sink'[x] = sink[x]
    BY DEF ReceiverInv
  <2>2. CASE FitsUint32
    BY <2>1, <2>2 DEF SinkOK
  <2>3. CASE ~FitsUint32
    <3>1. gstate[x] # "RECV_FILE" /\ sink[x] = NewSink
      BY <2>1, <2>3 DEF SinkOK, Receiving
    <3>2. gstate'[x] # "RECV_FILE"
      BY <2>3, <3>1 DEF Goto, ReceiverInv, GetTypeOK
    <3> QED BY <2>1, <2>3, <3>1, <3>2 DEF SinkOK, Receiving
  <2> QED BY <2>2, <2>3
<1> QED BY <1>2, <1>3 DEF ReceiverInv

LEMMA CloseGetKeeps ==
  ASSUME ReceiverInv, NEW r \in Receiver, CloseGet(r), UNCHANGED <<sink, recvWindow>>,
         recent' \in [Receiver -> BOOLEAN], senderHello' \in [Receiver -> Ages]
  PROVE  ReceiverInv'
<1>1. gdue' \subseteq GetTimers /\ Goto(r, "CLOSED") /\ "CLOSED" \in GetStates
  BY DEF CloseGet, ReceiverInv, GetTypeOK, GetTimers, GetStates
<1> QED BY <1>1, FileUntouched

LEMMA ReceiverTypes ==
  ASSUME ReceiverInv
  PROVE  /\ gdue \subseteq GetTimers /\ recent \in [Receiver -> BOOLEAN]
         /\ senderHello \in [Receiver -> Ages]
         /\ \A r \in Receiver : Receiving(r) => FitsUint32
BY DEF ReceiverInv, GetTypeOK, GetTimers, SinkOK

(* A piece that comes to a file that is open.                              *)
LEMMA PieceKeeps ==
  ASSUME ReceiverInv, NEW r \in Receiver, NEW m, Sound(m), m.type = "DATA_STREAM",
         Receiving(r),
         recent' = [recent EXCEPT ![r] = TRUE],
         recvWindow' = [recvWindow EXCEPT ![r] = IF AckDue(r) THEN 0 ELSE @ + 1],
         sink' = [sink EXCEPT ![r] = WriteToFile(@, m.data, m.piece)],
         CloseGet(r) \/ UNCHANGED <<gstate, gdue>>,
         UNCHANGED senderHello
  PROVE  ReceiverInv' /\ \A x \in Acks(r) : Sound(x)
<1>1. FitsUint32 /\ m.piece \in 0..NumPieces /\ m.data = m.piece
  BY DEF Sound, Streaming
<1>2. /\ recvWindow \in [Receiver -> 0..kPiecesPerWindow-1] /\ sink \in [Receiver -> Sink]
      /\ gstate \in [Receiver -> GetStates] /\ gdue \subseteq GetTimers
      /\ recent \in [Receiver -> BOOLEAN] /\ senderHello \in [Receiver -> Ages]
  BY DEF ReceiverInv, GetTypeOK, GetStates, GetTimers
<1>3. recvWindow[r] \in 0..kPiecesPerWindow-1 /\ kPiecesPerWindow \in Nat \ {0}
  BY <1>2, ConnAssumption
<1>4. Kept(sink[r]) /\ Kept(WriteToFile(sink[r], m.data, m.piece))
  BY <1>1, WriteToFileKept DEF ReceiverInv, SinkOK
<1>5. ASSUME NEW x \in Receiver PROVE Kept(sink'[x])
  BY <1>1, <1>2, <1>4 DEF ReceiverInv, SinkOK
<1>6. sink' \in [Receiver -> Sink]
  BY <1>2, <1>4 DEF Kept
<1>7. (IF AckDue(r) THEN 0 ELSE recvWindow[r] + 1) \in 0..kPiecesPerWindow-1
  BY <1>3 DEF AckDue
<1>8. recvWindow' \in [Receiver -> 0..kPiecesPerWindow-1]
  BY <1>2, <1>7
<1>9. gstate' \in [Receiver -> GetStates] /\ gdue' \subseteq GetTimers
  BY <1>2 DEF CloseGet, Goto, GetStates
<1>10. recent' \in [Receiver -> BOOLEAN] /\ senderHello' \in [Receiver -> Ages]
  BY <1>2
<1>11. ReceiverInv'
  BY <1>1, <1>5, <1>6, <1>8, <1>9, <1>10
     DEF ReceiverInv, GetTypeOK, SinkOK, GetStates, GetTimers
<1>12. \A x \in Acks(r) : Sound(x)
  <2>1. recvWindow[r] + 1 \in Nat
    BY <1>3
  <2>2. Sound(PackAck(r, recvWindow[r] + 1))
    BY <1>1, <2>1 DEF Sound, Streaming, PackAck
  <2> QED BY <2>2 DEF Acks
<1> QED BY <1>11, <1>12

LEMMA ReceiverReadKeeps ==
  ASSUME ReceiverInv, NetSound, NEW m \in net, GetRead(m)
  PROVE  ReceiverInv' /\ NetSound'
<1> PICK r \in Receiver : \/ GetHello(r, m) \/ GetHelloReply(r, m) \/ GetFileData(r, m)
                          \/ GetDataStream(r, m) \/ GetError(r, m)
  BY DEF GetRead
<1>1. Sound(m)
  BY DEF NetSound
<1>2. CASE GetHello(r, m)
  <2>1. NetSound'
    BY <1>2, AnswerSound, PlainSound DEF GetHello, Streaming
  <2>2. UNCHANGED getVars
    BY <1>2 DEF GetHello
  <2> QED BY <2>1, <2>2 DEF getVars, ReceiverInv, GetTypeOK, SinkOK, Receiving
<1>3. CASE GetHelloReply(r, m)
  <2>1. senderHello' \in [Receiver -> Ages] /\ UNCHANGED <<sink, recvWindow, recent>>
    BY <1>3, ReceiverTypes, AgesType DEF GetHelloReply
  <2>2. CASE /\ NewSink.isOpen /\ Answer(m, {Plain("DOWNLOAD_START", r, Sender)})
             /\ Goto(r, "RECV_FILE") /\ UNCHANGED gdue
    <3>1. FitsUint32
      BY <2>2 DEF NewSink
    <3>2. Sound(Plain("DOWNLOAD_START", r, Sender))
      BY <3>1 DEF Sound, Plain
    <3>3. NetSound'
      BY <2>2, <3>2, AnswerSound
    <3>4. "RECV_FILE" \in GetStates
      BY DEF GetStates
    <3> QED BY <2>1, <2>2, <3>1, <3>3, <3>4, ReceiverTypes, FileUntouched
  <2>3. CASE NotOpened(r, m)
    BY <2>1, <2>3, ReceiverTypes, AnswerSound, CloseGetKeeps DEF NotOpened
  <2>4. CASE Answer(m, {}) /\ UNCHANGED <<gstate, gdue>>
    <3>1. "CLOSED" \in GetStates
      BY DEF GetStates
    <3> QED BY <2>1, <2>4, <3>1, ReceiverTypes, AnswerSound, FileUntouched
  <2> QED BY <1>3, <2>2, <2>3, <2>4 DEF GetHelloReply
<1>4. CASE GetFileData(r, m)
  <2>1. NetSound'
    <3>1. CASE gstate[r] = "WAIT_SENDER"
      BY <1>4, <3>1, AnswerSound, PlainSound DEF GetFileData, Streaming
    <3>2. CASE gstate[r] # "WAIT_SENDER"
      BY <1>4, <3>2, AnswerSound DEF GetFileData
    <3> QED BY <3>1, <3>2
  <2>2. Goto(r, "CONN_SENDER") \/ UNCHANGED gstate
    BY <1>4 DEF GetFileData
  <2>3. UNCHANGED <<sink, recvWindow, recent, senderHello, gdue>>
    BY <1>4 DEF GetFileData
  <2>4. "CONN_SENDER" \in GetStates
    BY DEF GetStates
  <2> QED BY <2>1, <2>2, <2>3, <2>4, ReceiverTypes, FileUntouched
<1>5. CASE GetDataStream(r, m)
  <2>1. m.type = "DATA_STREAM"
    BY <1>5 DEF GetDataStream, Gets
  <2>2. CASE Receiving(r)
    <3>1. ReceiverInv' /\ \A x \in Acks(r) : Sound(x)
      BY <1>1, <1>5, <2>1, <2>2, PieceKeeps DEF GetDataStream
    <3>2. Answer(m, Acks(r) \cup {Plain("FINISH", r, Sender)}) \/ Answer(m, Acks(r))
      BY <1>5, <2>2 DEF GetDataStream
    <3>3. Sound(Plain("FINISH", r, Sender))
      BY PlainSound DEF Streaming
    <3>4. NetSound'
      BY <3>1, <3>2, <3>3, AnswerSound
    <3> QED BY <3>1, <3>4
  <2>3. CASE ~Receiving(r)
    <3>1. Answer(m, {}) /\ UNCHANGED getVars
      BY <1>5, <2>3 DEF GetDataStream, getVars
    <3> QED
      BY <3>1, AnswerSound DEF getVars, ReceiverInv, GetTypeOK, SinkOK, Receiving
  <2> QED BY <2>2, <2>3
<1>6. CASE GetError(r, m)
  <2>1. Answer(m, {}) /\ CloseGet(r) /\ UNCHANGED <<sink, recvWindow, recent, senderHello>>
    BY <1>6 DEF GetError
  <2> QED BY <2>1, ReceiverTypes, AnswerSound, CloseGetKeeps
<1> QED BY <1>2, <1>3, <1>4, <1>5, <1>6

LEMMA ReceiverStepKeeps ==
  ASSUME ReceiverInv, NetSound, NEW r \in Receiver, GetStep(r)
  PROVE  ReceiverInv' /\ NetSound'
<1>1. CASE GetFile(r)
  <2>1. Sound(Plain("GET_FILE", r, Server))
    BY DEF Sound, Plain, Streaming
  <2>2. NetSound'
    BY <1>1, <2>1, PostSound DEF GetFile
  <2>3. "WAIT_SENDER" \in GetStates
    BY DEF GetStates
  <2>4. /\ Goto(r, "WAIT_SENDER")
        /\ UNCHANGED <<sink, recvWindow, recent, senderHello, gdue>>
    BY <1>1 DEF GetFile
  <2> QED BY <2>2, <2>3, <2>4, ReceiverTypes, FileUntouched
<1>2. CASE SendRetranReq(r)
  <2>1. Receiving(r) /\ FitsUint32
    BY <1>2, ReceiverTypes DEF SendRetranReq
  <2>2. PICK quiet \in BOOLEAN : Post(QuietAck(r, quiet) \cup LossReport(r))
    BY <1>2 DEF SendRetranReq
  <2>3. \A x \in QuietAck(r, quiet) : Sound(x)
    <3>1. Sound(PackAck(r, WindowSize))
      BY <2>1, WindowType DEF Sound, PackAck
    <3> QED BY <3>1 DEF QuietAck
  <2>4. \A x \in LossReport(r) : Sound(x)
    <3>1. sink[r].lossPieces \in SUBSET Slot
      BY DEF ReceiverInv, GetTypeOK, Sink
    <3>2. Sound(Retran(r, sink[r].lossPieces))
      BY <2>1, <3>1 DEF Sound, Retran
    <3> QED BY <3>2 DEF LossReport
  <2>5. NetSound'
    BY <2>2, <2>3, <2>4, PostSound
  <2>6. /\ recent' \in [Receiver -> BOOLEAN] /\ gdue' \subseteq GetTimers
        /\ UNCHANGED <<gstate, sink, recvWindow, senderHello>>
    BY <1>2, ReceiverTypes DEF SendRetranReq
  <2>7. "CLOSED" \in GetStates
    BY DEF GetStates
  <2> QED BY <2>5, <2>6, <2>7, ReceiverTypes, FileUntouched
<1>3. CASE GetHoldConn(r)
  <2>1. NetSound'
    BY <1>3, PostSound, PlainSound DEF GetHoldConn, Streaming
  <2>2. UNCHANGED <<sink, recvWindow, recent, senderHello>>
    BY <1>3 DEF GetHoldConn
  <2>3. CASE CloseGet(r)
    BY <2>1, <2>2, <2>3, ReceiverTypes, CloseGetKeeps
  <2>4. CASE gdue' = gdue \ {<<r, "holdConn">>} /\ UNCHANGED gstate
    <3>1. gdue' \subseteq GetTimers /\ "CLOSED" \in GetStates
      BY <2>4, ReceiverTypes DEF GetStates
    <3> QED BY <2>1, <2>2, <2>4, <3>1, ReceiverTypes, FileUntouched
  <2> QED BY <1>3, <2>3, <2>4 DEF GetHoldConn
<1>4. CASE Quit(r)
  <2>1. CloseGet(r) /\ UNCHANGED <<wireVars, sink, recvWindow, recent, senderHello>>
    BY <1>4 DEF Quit
  <2> QED BY <2>1, ReceiverTypes, CloseGetKeeps DEF NetSound, wireVars
<1> QED BY <1>1, <1>2, <1>3, <1>4 DEF GetStep

-----------------------------------------------------------------------------
(* The three parts of the invariant, each kept by the steps of the others. *)
ShareInv == SenderInv /\ ReceiverInv /\ NetSound /\ shared \in BOOLEAN

LEMMA SenderUntouched ==
  ASSUME SenderInv, UNCHANGED sendVars
  PROVE  SenderInv'
BY DEF SenderInv, SessionInv, StreamInv, LoopInv, OnlyDeletions,
       sendVars, sessionVars, helloVars, streamVars, loopVars

LEMMA ReceiversUntouched ==
  ASSUME ReceiverInv, UNCHANGED getVars
  PROVE  ReceiverInv'
BY DEF ReceiverInv, GetTypeOK, SinkOK, Receiving, getVars

LEMMA ShareInitially == Init => ShareInv
<1> SUFFICES ASSUME Init PROVE ShareInv
  OBVIOUS
<1>1. SessionInv
  BY AgesType DEF Init, SendInit, SessionInv
<1>2. SourceOK(NewSource)
  BY LayoutAssumption DEF SourceOK, Source, NewSource
<1>3. /\ <<>> \in Seq(Call) /\ <<>> \in Seq({DeleteCall}) /\ Len(<<>>) = 0
      /\ 0 \in 0..WindowSize
  BY EmptySeq, WindowType
<1>4. StreamInv /\ LoopInv
  <2>1. StreamInv
    BY <1>2, <1>3 DEF Init, SendInit, StreamInv
  <2>2. functors = <<>> /\ batch = 0 /\ heard = FALSE
    BY DEF Init, SendInit
  <2>3. batch \in 0..Len(functors)
    BY <1>3, <2>2
  <2> QED BY <1>3, <2>1, <2>2, <2>3 DEF LoopInv, OnlyDeletions
<1>5. GetTypeOK
  <2>1. NewSink \in Sink
    BY LayoutAssumption DEF NewSink, Sink, Hole, FitsUint32
  <2>2. 0 \in 0..kPiecesPerWindow-1
    BY ConnAssumption
  <2> QED BY <2>1, <2>2, AgesType DEF Init, GetInit, GetTypeOK
<1>6. \A r \in Receiver : SinkOK(r)
  BY NewSinkKept DEF Init, GetInit, SinkOK, Receiving
<1>7. NetSound /\ shared \in BOOLEAN
  BY DEF Init, WireInit, NetSound
<1> QED BY <1>1, <1>4, <1>5, <1>6, <1>7 DEF ShareInv, SenderInv, ReceiverInv

LEMMA ShareInductive == ShareInv /\ [Next]_vars => ShareInv'
<1> SUFFICES ASSUME ShareInv, [Next]_vars PROVE ShareInv'
  OBVIOUS
<1> USE DEF ShareInv
<1>1. CASE UNCHANGED vars
  BY <1>1, SenderUntouched, ReceiversUntouched DEF vars, wireVars, NetSound
<1>2. ASSUME NEW m \in net, SenderReads(m) PROVE ShareInv'
  BY <1>2, SenderReadKeeps, ReceiversUntouched DEF SenderReads
<1>3. ASSUME NEW m \in net, ReceiverReads(m) PROVE ShareInv'
  BY <1>3, ReceiverReadKeeps, SenderUntouched DEF ReceiverReads
<1>4. ASSUME NEW m \in net, ServerRead(m) PROVE ShareInv'
  <2>1. SenderInv' /\ ReceiverInv'
    BY <1>4, SenderUntouched, ReceiversUntouched DEF ServerRead
  <2>2. NetSound' /\ shared' \in BOOLEAN
    <3>1. \A type \in {"HELLO_REPLY", "SHARE_CODE", "ERROR_LIMIT", "FILE_DATA", "ERROR_404"} :
            Sound(Plain(type, Server, m.from))
      BY PlainSound DEF Streaming
    <3>2. m.type = "GET_FILE" => Sound(FileReq(m.from))
      BY DEF NetSound, Sound, FileReq, Streaming
    <3>3. \/ Answer(m, {Plain("HELLO_REPLY", Server, m.from)})
          \/ Answer(m, {Plain("SHARE_CODE", Server, m.from)})
          \/ Answer(m, {Plain("ERROR_LIMIT", Server, m.from)})
          \/ m.type = "GET_FILE" /\ Answer(m, {Plain("FILE_DATA", Server, m.from), FileReq(m.from)})
          \/ Answer(m, {Plain("ERROR_404", Server, m.from)})
      BY <1>4 DEF ServerRead
    <3>4. NetSound'
      BY <3>1, <3>2, <3>3, AnswerSound
    <3>5. shared' \in BOOLEAN
      BY <1>4 DEF ServerRead
    <3> QED BY <3>4, <3>5
  <2> QED BY <2>1, <2>2
<1>5. ASSUME NEW m \in net, Vanish(m) PROVE ShareInv'
  BY <1>5, SenderUntouched, ReceiversUntouched DEF Vanish, NetSound
<1>6. ASSUME NEW m \in net, Loses(m) PROVE ShareInv'
  BY <1>6, SenderUntouched, ReceiversUntouched DEF Loses, Lose, NetSound
<1>7. CASE SenderSteps
  BY <1>7, SenderStepKeeps, ReceiversUntouched DEF SenderSteps
<1>8. ASSUME NEW r \in Receiver, ReceiverSteps(r) PROVE ShareInv'
  BY <1>8, ReceiverStepKeeps, SenderUntouched DEF ReceiverSteps
<1>9. CASE Tick
  <2>1. NetSound' /\ shared' \in BOOLEAN
    BY <1>9 DEF Tick, wireVars, NetSound
  <2>2. SenderInv'
    BY <1>9, AgesType
       DEF Tick, SendTick, Timers, SenderInv, SessionInv, StreamInv, LoopInv,
           OnlyDeletions, streamVars, loopVars
  <2>3. ReceiverInv'
    <3>1. gdue' \subseteq GetTimers /\ senderHello' \in [Receiver -> Ages]
          /\ UNCHANGED <<gstate, sink, recvWindow, recent>>
      BY <1>9, AgesType, ReceiverTypes DEF Tick, GetTick, GetTimers
    <3> QED BY <3>1 DEF ReceiverInv, GetTypeOK, SinkOK, Receiving, GetTimers
  <2> QED BY <2>1, <2>2, <2>3
<1> QED BY <1>1, <1>2, <1>3, <1>4, <1>5, <1>6, <1>7, <1>8, <1>9 DEF Next

(* Every part of the transfer keeps its type; that of the window says that *)
(* no order of streams, retransmissions and acknowledgements overfills it. *)
THEOREM TransferTypes == Spec => []TypeOK
<1>1. ShareInv => TypeOK
  <2>1. SenderInv => SendTypeOK
    BY DEF SenderInv, SessionInv, StreamInv, LoopInv, SendTypeOK, SourceOK, Call
  <2> QED BY <2>1 DEF ShareInv, ReceiverInv, TypeOK
<1> QED BY <1>1, ShareInitially, ShareInductive, PTL DEF Spec

(* A piece travels under the number of the slot it was read from: the      *)
(* product in seekg does not wrap, and the stream is back in its place     *)
(* whenever the next piece is read from it.                                *)
THEOREM PiecesAligned == Spec => []StreamAligned
<1>1. ShareInv => StreamAligned
  BY DEF ShareInv, NetSound, Sound, StreamAligned
<1> QED BY <1>1, ShareInitially, ShareInductive, PTL DEF Spec

-----------------------------------------------------------------------------
(* In one step a file changes by one piece that comes to it, or not at all. *)
LEMMA FileSteps ==
  ASSUME ShareInv, [Next]_vars, NEW r \in Receiver
  PROVE  \/ sink'[r] = sink[r]
         \/ FitsUint32 /\ \E p \in 0..NumPieces : sink'[r] = WriteToFile(sink[r], p, p)
<1>1. CASE UNCHANGED sink
  BY <1>1
<1>2. ASSUME NEW m \in net, NEW x \in Receiver, GetDataStream(x, m), Receiving(x)
      PROVE  \/ sink'[r] = sink[r]
             \/ FitsUint32 /\ \E p \in 0..NumPieces : sink'[r] = WriteToFile(sink[r], p, p)
  <2>1. m.type = "DATA_STREAM" /\ Sound(m)
    BY <1>2 DEF GetDataStream, Gets, ShareInv, NetSound
  <2>2. FitsUint32 /\ m.piece \in 0..NumPieces /\ m.data = m.piece
    BY <2>1 DEF Sound, Streaming
  <2>3. sink' = [sink EXCEPT ![x] = WriteToFile(@, m.data, m.piece)]
    BY <1>2 DEF GetDataStream
  <2>4. sink \in [Receiver -> Sink]
    BY DEF ShareInv, ReceiverInv, GetTypeOK
  <2>5. sink'[r] = IF r = x THEN WriteToFile(sink[r], m.piece, m.piece) ELSE sink[r]
    BY <2>2, <2>3, <2>4
  <2> QED BY <2>2, <2>5
<1>3. ASSUME NEW m \in net, NEW x \in Receiver, GetDataStream(x, m), ~Receiving(x)
      PROVE  UNCHANGED sink
  BY <1>3 DEF GetDataStream
<1>4. ASSUME NEW m \in net, ReceiverReads(m)
      PROVE  UNCHANGED sink \/ \E x \in Receiver : GetDataStream(x, m)
  BY <1>4 DEF ReceiverReads, GetRead, GetHello, GetHelloReply, GetFileData, GetError, getVars
<1>5. ASSUME NEW x \in Receiver, ReceiverSteps(x) PROVE UNCHANGED sink
  BY <1>5 DEF ReceiverSteps, GetStep, GetFile, SendRetranReq, GetHoldConn, Quit
<1>6. CASE UNCHANGED getVars
  BY <1>1, <1>6 DEF getVars
<1>7. CASE Tick
  BY <1>1, <1>7 DEF Tick, GetTick
<1> QED
  BY <1>1, <1>2, <1>3, <1>4, <1>5, <1>6, <1>7
     DEF Next, vars, SenderReads, SenderSteps, ServerRead, Vanish, Loses

(* End to end: whatever is lost, repeated or overtaken between the two     *)
(* connections, every receiver of a file that may be opened implements     *)
(* PieceStore.                                                             *)
THEOREM TransferImplementsStore == FitsUint32 /\ Spec => StoreSpec
<1>1. FitsUint32 /\ Init => \A r \in Receiver : Store(r)!Init
  <2> SUFFICES ASSUME FitsUint32, Init, NEW r \in Receiver PROVE Store(r)!Init
    OBVIOUS
  <2>1. sink[r] = NewSink
    BY DEF Init, GetInit
  <2>2. sink[r].isOpen /\ {i \in Slot : sink[r].disk[i] = i} = {}
    BY <2>1, LayoutAssumption DEF NewSink, Hole, Slot
  <2> QED BY <2>2 DEF Store!Init
<1>2. ShareInv /\ [Next]_vars
        => [\A r \in Receiver : Store(r)!Next \/ UNCHANGED Store(r)!vars]_vars
  <2> SUFFICES ASSUME ShareInv, [Next]_vars, NEW r \in Receiver
               PROVE  Store(r)!Next \/ UNCHANGED Store(r)!vars
    OBVIOUS
  <2> DEFINE s == sink[r]
             t == sink'[r]
  <2>1. CASE t = s
    BY <2>1 DEF Store!vars
  <2>2. CASE FitsUint32 /\ \E p \in 0..NumPieces : t = WriteToFile(s, p, p)
    <3>1. PICK p \in 0..NumPieces : t = WriteToFile(s, p, p)
      BY <2>2
    <3>2. Kept(s)
      BY <2>2 DEF ShareInv, ReceiverInv, SinkOK
    <3>3. \/ /\ s.isOpen /\ p \in Slot \ Have(s) /\ Have(t) = Have(s) \cup {p}
             /\ t.isOpen <=> Have(t) # Slot
          \/ Have(t) = Have(s) /\ (t.isOpen <=> s.isOpen)
      BY <2>2, <3>1, <3>2, StoresOrKeeps
    <3>4. CASE /\ s.isOpen /\ p \in Slot \ Have(s) /\ Have(t) = Have(s) \cup {p}
               /\ t.isOpen <=> Have(t) # Slot
      <4>1. Store(r)!Store(p)
        BY <3>4 DEF Store!Store, Have
      <4> QED BY <3>4, <4>1 DEF Store!Next
    <3>5. CASE Have(t) = Have(s) /\ (t.isOpen <=> s.isOpen)
      <4>1. (~t.isOpen) = (~s.isOpen)
        BY <3>5
      <4>2. UNCHANGED {i \in Slot : sink[r].disk[i] = i}
        BY <3>5 DEF Have
      <4> QED BY <4>1, <4>2 DEF Store!vars
    <3> QED BY <3>3, <3>4, <3>5
  <2> QED BY <2>1, <2>2, FileSteps
<1> QED BY <1>1, <1>2, ShareInitially, ShareInductive, PTL DEF Spec, StoreSpec

-----------------------------------------------------------------------------
(***************************************************************************)
(* Who says FINISH.  A receiver does so with the piece that completes its  *)
(* file, as it closes; a closed connection stays closed and its file as it *)
(* is.  So a FINISH is true whenever it is read.                           *)
(***************************************************************************)
Completed(r) == gstate[r] = "CLOSED" /\ FitsUint32 /\ ~sink[r].isOpen

FinishTrue(x) == x.type = "FINISH" => x.from \in Receiver /\ Completed(x.from)

FinishesTrue == \A m \in net : FinishTrue(m)

StaysClosed ==
  \A r \in Receiver : gstate[r] = "CLOSED" => gstate'[r] = "CLOSED" /\ sink'[r] = sink[r]

NewTrue == \A x \in net' : x \in net \/ FinishTrue(x)'

LEMMA AnswersTrue ==
  ASSUME NEW m, NEW ms, Answer(m, ms), \A x \in ms : FinishTrue(x)'
  PROVE  NewTrue
BY DEF Answer, NewTrue

LEMMA PostsTrue ==
  ASSUME NEW ms, Post(ms), \A x \in ms : FinishTrue(x)'
  PROVE  NewTrue
BY DEF Post, NewTrue

LEMMA PlainTrue ==
  ASSUME NEW type, type # "FINISH", NEW from, NEW to
  PROVE  FinishTrue(Plain(type, from, to))'
BY DEF Plain, FinishTrue

LEMMA StreamTrue ==
  ASSUME NEW w, NEW pieces
  PROVE  (\A x \in StreamOut(w) : FinishTrue(x)') /\ (\A x \in LossOut(pieces) : FinishTrue(x)')
BY DEF StreamOut, LossOut, DataStream, FinishTrue

LEMMA AcksTrue ==
  ASSUME NEW r, NEW quiet
  PROVE  \A x \in Acks(r) \cup QuietAck(r, quiet) \cup LossReport(r) : FinishTrue(x)'
BY DEF Acks, QuietAck, LossReport, PackAck, Retran, FinishTrue

LEMMA SenderReadTrue ==
  ASSUME NEW m \in net, SendRead(m)
  PROVE  NewTrue
<1>1. ASSUME Answer(m, {}) PROVE NewTrue
  BY <1>1, AnswersTrue
<1>2. CASE RecvHello(m)
  BY <1>2, AnswersTrue, PlainTrue DEF RecvHello
<1>3. CASE RecvHelloReply(m) \/ RecvShareCode(m) \/ RecvFinish(m) \/ RecvError(m)
  BY <1>1, <1>3 DEF RecvHelloReply, RecvShareCode, RecvFinish, RecvError
<1>4. CASE RecvFileReq(m)
  BY <1>1, <1>4, AnswersTrue, PlainTrue DEF RecvFileReq
<1>5. CASE RecvDownloadStart(m) \/ RecvPackAck(m) \/ RecvRetran(m)
  <2>1. \/ Answer(m, {}) \/ Answer(m, StreamOut(sendWindow)) \/ Answer(m, StreamOut(Acked(m.nums)))
        \/ Answer(m, LossOut(Requested(m.pieces)))
    BY <1>5 DEF RecvDownloadStart, RecvPackAck, RecvRetran
  <2> QED BY <1>1, <2>1, AnswersTrue, StreamTrue
<1> QED BY <1>2, <1>3, <1>4, <1>5 DEF SendRead

LEMMA SenderStepTrue ==
  ASSUME SendStep
  PROVE  NewTrue
<1>1. \/ UNCHANGED net \/ Post({}) \/ Post(StreamOut(sendWindow))
      \/ Post(LossOut(Head(functors).pieces))
      \/ Post({Plain("SHARE_FILE", Sender, Server)})
      \/ \E a \in due : Post({Plain("HELLO", Sender, a)})
  BY DEF SendStep, ShareFile, RunFunctor, RunCall, HoldConn, wireVars
<1> QED BY <1>1, PostsTrue, StreamTrue, PlainTrue DEF NewTrue

(* The receivers: what they leave closed, and what they say.               *)
LEMMA GotoStaysClosed ==
  ASSUME ReceiverInv, NEW r \in Receiver, NEW s, Goto(r, s) \/ UNCHANGED gstate,
         gstate[r] # "CLOSED" \/ s = "CLOSED", UNCHANGED sink
  PROVE  StaysClosed
BY DEF ReceiverInv, GetTypeOK, Goto, StaysClosed

LEMMA PieceTrue ==
  ASSUME ReceiverInv, NEW m \in net, NEW r \in Receiver, GetDataStream(r, m)
  PROVE  NewTrue /\ StaysClosed
<1>1. gstate[r] # "CLOSED"
  BY DEF GetDataStream, Gets
<1>2. CASE ~Receiving(r)
  BY <1>2, AnswersTrue DEF GetDataStream, StaysClosed
<1>3. CASE Receiving(r)
  <2>1. sink' = [sink EXCEPT ![r] = WriteToFile(@, m.data, m.piece)]
    BY <1>3 DEF GetDataStream
  <2>2. sink \in [Receiver -> Sink] /\ gstate \in [Receiver -> GetStates] /\ FitsUint32
    BY <1>3, ReceiverTypes DEF ReceiverInv, GetTypeOK, GetStates
  <2>3. CASE ~WriteFinishes(sink[r], m.data, m.piece)
    <3>1. Answer(m, Acks(r)) /\ UNCHANGED gstate
      BY <1>3, <2>3 DEF GetDataStream
    <3> QED BY <1>1, <2>1, <2>2, <3>1, AnswersTrue, AcksTrue DEF StaysClosed
  <2>4. CASE WriteFinishes(sink[r], m.data, m.piece)
    <3>1. Answer(m, Acks(r) \cup {Plain("FINISH", r, Sender)}) /\ Goto(r, "CLOSED")
      BY <1>3, <2>4 DEF GetDataStream, CloseGet
    <3>2. ~sink'[r].isOpen /\ gstate'[r] = "CLOSED"
      BY <2>1, <2>2, <2>4, <3>1 DEF WriteFinishes, Goto
    <3>3. FinishTrue(Plain("FINISH", r, Sender))'
      BY <2>2, <3>2 DEF FinishTrue, Completed, Plain
    <3>4. NewTrue
      BY <3>1, <3>3, AnswersTrue, AcksTrue
    <3>5. StaysClosed
      BY <1>1, <2>1, <2>2, <3>1 DEF StaysClosed, Goto
    <3> QED BY <3>4, <3>5
  <2> QED BY <2>3, <2>4
<1> QED BY <1>2, <1>3

LEMMA ReceiverReadTrue ==
  ASSUME ReceiverInv, NEW m \in net, GetRead(m)
  PROVE  NewTrue /\ StaysClosed
<1> PICK r \in Receiver : \/ GetHello(r, m) \/ GetHelloReply(r, m) \/ GetFileData(r, m)
                          \/ GetDataStream(r, m) \/ GetError(r, m)
  BY DEF GetRead
<1>1. CASE GetHello(r, m)
  BY <1>1, AnswersTrue, PlainTrue DEF GetHello, getVars, StaysClosed
<1>2. CASE GetHelloReply(r, m)
  <2>1. gstate[r] # "CLOSED" /\ UNCHANGED sink
    BY <1>2 DEF GetHelloReply, Gets
  <2>2. \/ Answer(m, {Plain("DOWNLOAD_START", r, Sender)}) /\ Goto(r, "RECV_FILE")
        \/ Answer(m, {}) /\ Goto(r, "CLOSED")
        \/ Answer(m, {}) /\ UNCHANGED gstate
    BY <1>2 DEF GetHelloReply, NotOpened, CloseGet
  <2> QED BY <2>1, <2>2, AnswersTrue, PlainTrue, GotoStaysClosed
<1>3. CASE GetFileData(r, m)
  <2>1. gstate[r] # "CLOSED" /\ UNCHANGED sink
    BY <1>3 DEF GetFileData, Gets
  <2>2. \/ Answer(m, {Plain("HELLO", r, Sender)}) /\ Goto(r, "CONN_SENDER")
        \/ Answer(m, {}) /\ UNCHANGED gstate
    BY <1>3 DEF GetFileData
  <2> QED BY <2>1, <2>2, AnswersTrue, PlainTrue, GotoStaysClosed
<1>4. CASE GetDataStream(r, m)
  BY <1>4, PieceTrue
<1>5. CASE GetError(r, m)
  BY <1>5, AnswersTrue, GotoStaysClosed DEF GetError, CloseGet
<1> QED BY <1>1, <1>2, <1>3, <1>4, <1>5

LEMMA ReceiverStepTrue ==
  ASSUME ReceiverInv, NEW r \in Receiver, GetStep(r)
  PROVE  NewTrue /\ StaysClosed
<1>1. CASE GetFile(r)
  <2>1. gstate[r] # "CLOSED" /\ Goto(r, "WAIT_SENDER") /\ UNCHANGED sink
    BY <1>1 DEF GetFile
  <2> QED BY <1>1, <2>1, PostsTrue, PlainTrue, GotoStaysClosed DEF GetFile
<1>2. CASE SendRetranReq(r)
  <2>1. PICK quiet \in BOOLEAN : Post(QuietAck(r, quiet) \cup LossReport(r))
    BY <1>2 DEF SendRetranReq
  <2> QED BY <1>2, <2>1, PostsTrue, AcksTrue DEF SendRetranReq, StaysClosed
<1>3. CASE GetHoldConn(r)
  <2>1. UNCHANGED sink /\ (Goto(r, "CLOSED") \/ UNCHANGED gstate)
    BY <1>3 DEF GetHoldConn, CloseGet
  <2> QED BY <1>3, <2>1, PostsTrue, PlainTrue, GotoStaysClosed DEF GetHoldConn
<1>4. CASE Quit(r)
  BY <1>4, GotoStaysClosed DEF Quit, CloseGet, wireVars, NewTrue
<1> QED BY <1>1, <1>2, <1>3, <1>4 DEF GetStep

LEMMA ServerTrue ==
  ASSUME NEW m \in net, ServerRead(m)
  PROVE  NewTrue
<1>1. \A type \in {"HELLO_REPLY", "SHARE_CODE", "ERROR_LIMIT", "FILE_DATA", "ERROR_404"} :
        FinishTrue(Plain(type, Server, m.from))'
  BY PlainTrue
<1>2. FinishTrue(FileReq(m.from))'
  BY DEF FileReq, FinishTrue
<1> QED BY <1>1, <1>2, AnswersTrue DEF ServerRead

LEMMA FinishesStayTrue ==
  ShareInv /\ FinishesTrue /\ [Next]_vars => FinishesTrue'
<1> SUFFICES ASSUME ShareInv, FinishesTrue, [Next]_vars PROVE FinishesTrue'
  OBVIOUS
<1>1. ReceiverInv
  BY DEF ShareInv
<1>2. ASSUME NewTrue, StaysClosed PROVE FinishesTrue'
  BY <1>2 DEF FinishesTrue, FinishTrue, NewTrue, StaysClosed, Completed
<1>3. ASSUME UNCHANGED <<gstate, sink>> PROVE StaysClosed
  BY <1>3 DEF StaysClosed
<1>4. CASE UNCHANGED vars
  BY <1>2, <1>3, <1>4 DEF vars, wireVars, getVars, NewTrue
<1>5. ASSUME NEW m \in net, SenderReads(m) PROVE FinishesTrue'
  BY <1>2, <1>3, <1>5, SenderReadTrue DEF SenderReads, getVars
<1>6. ASSUME NEW m \in net, ReceiverReads(m) PROVE FinishesTrue'
  BY <1>1, <1>2, <1>6, ReceiverReadTrue DEF ReceiverReads
<1>7. ASSUME NEW m \in net, ServerRead(m) PROVE FinishesTrue'
  BY <1>2, <1>3, <1>7, ServerTrue DEF ServerRead, getVars
<1>8. ASSUME NEW m \in net, Vanish(m) \/ Loses(m) PROVE FinishesTrue'
  BY <1>2, <1>3, <1>8 DEF Vanish, Loses, Lose, NewTrue, getVars
<1>9. CASE SenderSteps
  BY <1>2, <1>3, <1>9, SenderStepTrue DEF SenderSteps, getVars
<1>10. ASSUME NEW r \in Receiver, ReceiverSteps(r) PROVE FinishesTrue'
  BY <1>1, <1>2, <1>10, ReceiverStepTrue DEF ReceiverSteps
<1>11. CASE Tick
  BY <1>2, <1>3, <1>11 DEF Tick, GetTick, wireVars, NewTrue
<1> QED BY <1>4, <1>5, <1>6, <1>7, <1>8, <1>9, <1>10, <1>11 DEF Next

(* A FINISH, repeated or late, is of a receiver that has closed with every *)
(* piece in its place.  It does not say whose session it ends.             *)
THEOREM FinishIsComplete == Spec => []FinishMeansComplete
<1>1. Init => FinishesTrue
  BY DEF Init, WireInit, FinishesTrue
<1>2. ShareInv /\ FinishesTrue /\ [Next]_vars => FinishesTrue'
  BY FinishesStayTrue
<1>3. ShareInv /\ FinishesTrue => FinishMeansComplete
  <2> SUFFICES ASSUME ShareInv, FinishesTrue, NEW m \in net, m.type = "FINISH"
               PROVE  gstate[m.from] = "CLOSED" /\ \A i \in Slot : sink[m.from].disk[i] = i
    BY DEF FinishMeansComplete
  <2>1. m.from \in Receiver /\ Completed(m.from)
    BY DEF FinishesTrue, FinishTrue
  <2>2. Kept(sink[m.from])
    BY <2>1 DEF Completed, ShareInv, ReceiverInv, SinkOK
  <2>3. Have(sink[m.from]) = Slot
    BY <2>1, <2>2, HaveArrived DEF Completed, Kept
  <2> QED BY <2>1, <2>3 DEF Completed, Have
<1> QED BY <1>1, <1>2, <1>3, ShareInitially, ShareInductive, PTL DEF Spec

-----------------------------------------------------------------------------
(***************************************************************************)
(* Silence.  No stream runs and none will be asked for: nothing is queued  *)
(* (but the deletion of the connection), no piece, RETRAN or DOWNLOAD_START is under way, no receiver knows of a *)
(* lost piece or is still to start, and PACK_ACK, which every receiver may *)
(* repeat, finds a stream at its end or one that is not waiting for it.    *)
(***************************************************************************)
Quiet(x) == x.type \notin {"DATA_STREAM", "RETRAN", "DOWNLOAD_START"}

ReceiversSilent ==
  \A r \in Receiver :
    gstate[r] \in {"RECV_FILE", "CLOSED"} /\ (Receiving(r) => sink[r].lossPieces = {})

StreamDeaf == ~src.good \/ ~isWindowFull

Silence == OnlyDeletions /\ (\A m \in net : Quiet(m)) /\ ReceiversSilent /\ StreamDeaf

NewQuiet == \A x \in net' : x \in net \/ Quiet(x)

LEMMA AnswersQuiet ==
  ASSUME NEW m, NEW ms, Answer(m, ms), \A x \in ms : Quiet(x)
  PROVE  NewQuiet
BY DEF Answer, NewQuiet

LEMMA PostsQuiet ==
  ASSUME NEW ms, Post(ms), \A x \in ms : Quiet(x)
  PROVE  NewQuiet
BY DEF Post, NewQuiet

LEMMA PlainQuiet ==
  ASSUME NEW type, type \notin {"DATA_STREAM", "RETRAN", "DOWNLOAD_START"}, NEW from, NEW to
  PROVE  Quiet(Plain(type, from, to))
BY DEF Plain, Quiet

LEMMA SilenceKeeps ==
  ASSUME Silence, NewQuiet, OnlyDeletions', ReceiversSilent', StreamDeaf'
  PROVE  Silence'
BY DEF Silence, NewQuiet, Quiet

LEMMA EndsDeaf == ASSUME EndSession PROVE StreamDeaf'
BY DEF EndSession, StreamDeaf

LEMMA DeletionsStay ==
  ASSUME OnlyDeletions, CloseSelf \/ UNCHANGED functors
  PROVE  OnlyDeletions'
BY AppendProperties DEF CloseSelf, OnlyDeletions

LEMMA SenderReadStaysSilent ==
  ASSUME Silence, NEW m \in net, SendRead(m)
  PROVE  OnlyDeletions' /\ NewQuiet /\ StreamDeaf'
<1> USE DEF Reads
<1>1. OnlyDeletions /\ StreamDeaf /\ Quiet(m)
  BY DEF Silence
<1> USE DEF OnlyDeletions
<1>2. ASSUME Answer(m, {}) PROVE NewQuiet
  BY <1>2, AnswersQuiet
<1>3. CASE RecvHello(m)
  <2>1. NewQuiet
    BY <1>3, AnswersQuiet, PlainQuiet DEF RecvHello
  <2> QED BY <1>1, <1>3, <2>1 DEF RecvHello, ReadOnly, streamVars, StreamDeaf
<1>4. CASE RecvHelloReply(m) \/ RecvShareCode(m)
  BY <1>1, <1>2, <1>4 DEF RecvHelloReply, RecvShareCode, streamVars, StreamDeaf
<1>5. CASE RecvFileReq(m)
  <2>1. NewQuiet
    BY <1>2, <1>5, AnswersQuiet, PlainQuiet DEF RecvFileReq
  <2> QED BY <1>1, <1>5, <2>1 DEF RecvFileReq, streamVars, StreamDeaf
<1>6. CASE RecvDownloadStart(m) \/ RecvRetran(m)
  BY <1>1, <1>6 DEF RecvDownloadStart, RecvRetran, Quiet
<1>7. CASE RecvPackAck(m)
  <2>1. CASE state = "SEND_FILE" /\ isWindowFull
    <3>1. StreamStops(Acked(m.nums))
      BY <1>1, <2>1 DEF StreamDeaf, StreamStops
    <3>2. Answer(m, {}) /\ functors' = functors /\ UNCHANGED src
      BY <1>7, <2>1, <3>1 DEF RecvPackAck, SendFileStream, StreamOut
    <3> QED BY <1>1, <1>2, <2>1, <3>2 DEF StreamDeaf
  <2>2. CASE ~(state = "SEND_FILE" /\ isWindowFull)
    BY <1>1, <1>2, <1>7, <2>2 DEF RecvPackAck, StreamDeaf
  <2> QED BY <2>1, <2>2
<1>8. CASE RecvFinish(m)
  BY <1>1, <1>2, <1>8, EndsDeaf DEF RecvFinish, streamVars, StreamDeaf
<1>9. CASE RecvError(m)
  <2>1. OnlyDeletions'
    BY <1>1, <1>9, DeletionsStay DEF RecvError
  <2> QED BY <1>1, <1>2, <1>9, <2>1 DEF RecvError, streamVars, StreamDeaf
<1> QED BY <1>3, <1>4, <1>5, <1>6, <1>7, <1>8, <1>9 DEF SendRead

LEMMA SenderStepStaysSilent ==
  ASSUME Silence, SendStep
  PROVE  OnlyDeletions' /\ NewQuiet /\ StreamDeaf'
<1>1. OnlyDeletions /\ StreamDeaf
  BY DEF Silence
<1>2. CASE ShareFile
  <2>1. OnlyDeletions' /\ StreamDeaf'
    BY <1>1, <1>2, DeletionsStay DEF ShareFile, streamVars, StreamDeaf
  <2>2. Post({Plain("SHARE_FILE", Sender, Server)}) \/ UNCHANGED net
    BY <1>2 DEF ShareFile, wireVars
  <2> QED BY <2>1, <2>2, PostsQuiet, PlainQuiet DEF NewQuiet
<1>3. ASSUME NEW a \in due, HoldConn(a) PROVE OnlyDeletions' /\ NewQuiet /\ StreamDeaf'
  <2>1. NewQuiet
    BY <1>3, PostsQuiet, PlainQuiet DEF HoldConn
  <2>2. OnlyDeletions'
    BY <1>1, <1>3, DeletionsStay DEF HoldConn
  <2>3. EndSession \/ UNCHANGED streamVars
    BY <1>3 DEF HoldConn
  <2> QED BY <1>1, <2>1, <2>2, <2>3, EndsDeaf DEF streamVars, StreamDeaf
<1>4. CASE RunFunctor
  <2>1. Head(functors) = DeleteCall
    BY <1>1, <1>4, HeadTailProperties DEF OnlyDeletions, RunFunctor
  <2>2. DeleteConn /\ Post({})
    BY <1>4, <2>1 DEF RunFunctor
  <2> QED BY <1>1, <2>2, EmptySeq, PostsQuiet DEF DeleteConn, OnlyDeletions, streamVars, StreamDeaf
<1> QED BY <1>2, <1>3, <1>4 DEF SendStep

LEMMA ReceiverReadStaysSilent ==
  ASSUME Silence, NEW m \in net, GetRead(m), ReceiverInv
  PROVE  NewQuiet /\ ReceiversSilent' /\ UNCHANGED sink
<1> PICK r \in Receiver : \/ GetHello(r, m) \/ GetHelloReply(r, m) \/ GetFileData(r, m)
                          \/ GetDataStream(r, m) \/ GetError(r, m)
  BY DEF GetRead
<1>1. /\ ReceiversSilent /\ gstate[r] = "RECV_FILE" /\ Quiet(m)
      /\ gstate \in [Receiver -> GetStates]
  BY DEF Silence, ReceiversSilent, ReceiverInv, GetTypeOK, GetStates,
         GetHello, GetHelloReply, GetFileData, GetDataStream, GetError, Gets
<1>2. ASSUME UNCHANGED sink, CloseGet(r) \/ UNCHANGED gstate PROVE ReceiversSilent'
  BY <1>1, <1>2 DEF ReceiversSilent, Receiving, CloseGet, Goto
<1>3. CASE GetHello(r, m)
  BY <1>2, <1>3, AnswersQuiet, PlainQuiet DEF GetHello, getVars
<1>4. CASE GetHelloReply(r, m)
  <2>1. Answer(m, {}) /\ UNCHANGED sink /\ (CloseGet(r) \/ UNCHANGED gstate)
    BY <1>1, <1>4 DEF GetHelloReply, NotOpened
  <2> QED BY <1>2, <2>1, AnswersQuiet
<1>5. CASE GetFileData(r, m)
  <2>1. Answer(m, {}) /\ UNCHANGED <<sink, gstate>>
    BY <1>1, <1>5 DEF GetFileData
  <2> QED BY <1>2, <2>1, AnswersQuiet
<1>6. ~GetDataStream(r, m)
  BY <1>1 DEF GetDataStream, Gets, Quiet
<1>7. CASE GetError(r, m)
  BY <1>2, <1>7, AnswersQuiet DEF GetError
<1> QED BY <1>3, <1>4, <1>5, <1>6, <1>7

LEMMA ReceiverStepStaysSilent ==
  ASSUME Silence, NEW r \in Receiver, GetStep(r), ReceiverInv
  PROVE  NewQuiet /\ ReceiversSilent' /\ UNCHANGED sink
<1>1. ReceiversSilent /\ gstate \in [Receiver -> GetStates]
  BY DEF Silence, ReceiverInv, GetTypeOK, GetStates
<1>2. ASSUME UNCHANGED sink, CloseGet(r) \/ UNCHANGED gstate PROVE ReceiversSilent'
  BY <1>1, <1>2 DEF ReceiversSilent, Receiving, CloseGet, Goto
<1>3. ~GetFile(r)
  BY <1>1 DEF ReceiversSilent, GetFile
<1>4. CASE SendRetranReq(r)
  <2>1. LossReport(r) = {} /\ UNCHANGED <<gstate, sink>>
    BY <1>1, <1>4 DEF SendRetranReq, ReceiversSilent, LossReport
  <2>2. PICK quiet \in BOOLEAN : Post(QuietAck(r, quiet) \cup LossReport(r))
    BY <1>4 DEF SendRetranReq
  <2>3. \A x \in QuietAck(r, quiet) : Quiet(x)
    BY DEF QuietAck, PackAck, Quiet
  <2> QED BY <1>2, <2>1, <2>2, <2>3, PostsQuiet
<1>5. CASE GetHoldConn(r)
  BY <1>2, <1>5, PostsQuiet, PlainQuiet DEF GetHoldConn
<1>6. CASE Quit(r)
  BY <1>2, <1>6 DEF Quit, wireVars, NewQuiet
<1> QED BY <1>3, <1>4, <1>5, <1>6 DEF GetStep

(* Silence is final: acknowledgements, heartbeats, timeouts, losses and    *)
(* whatever arrives late break it no more, and no file gets another piece. *)
(* So a receiver that is RECV_FILE in it never has its file: the state in  *)
(* which a lost tail, and a sender started early, leave the two of them.   *)
THEOREM SilenceIsFinal == Spec => [][Silence => Silence' /\ UNCHANGED sink]_vars
<1>1. ShareInv /\ [Next]_vars => [Silence => Silence' /\ UNCHANGED sink]_vars
  <2> SUFFICES ASSUME ShareInv, Silence, [Next]_vars PROVE Silence' /\ UNCHANGED sink
    BY DEF vars, getVars
  <2>1. ReceiverInv /\ OnlyDeletions /\ ReceiversSilent /\ StreamDeaf
    BY DEF ShareInv, Silence
  <2>2. ASSUME UNCHANGED getVars PROVE ReceiversSilent' /\ UNCHANGED sink
    BY <2>1, <2>2 DEF getVars, ReceiversSilent, Receiving
  <2>3. ASSUME UNCHANGED sendVars PROVE OnlyDeletions' /\ StreamDeaf'
    BY <2>1, <2>3 DEF OnlyDeletions, sendVars, streamVars, loopVars, StreamDeaf
  <2>4. CASE UNCHANGED vars
    BY <2>2, <2>3, <2>4, SilenceKeeps DEF vars, wireVars, NewQuiet
  <2>5. ASSUME NEW m \in net, SenderReads(m) PROVE Silence' /\ UNCHANGED sink
    BY <2>2, <2>5, SenderReadStaysSilent, SilenceKeeps DEF SenderReads
  <2>6. ASSUME NEW m \in net, ReceiverReads(m) PROVE Silence' /\ UNCHANGED sink
    BY <2>1, <2>3, <2>6, ReceiverReadStaysSilent, SilenceKeeps DEF ReceiverReads
  <2>7. ASSUME NEW m \in net, ServerRead(m) PROVE Silence' /\ UNCHANGED sink
    <3>1. Quiet(FileReq(m.from))
      BY DEF FileReq, Quiet
    <3>2. NewQuiet
      BY <2>7, <3>1, AnswersQuiet, PlainQuiet DEF ServerRead
    <3> QED BY <2>2, <2>3, <2>7, <3>2, SilenceKeeps DEF ServerRead
  <2>8. ASSUME NEW m \in net, Vanish(m) \/ Loses(m) PROVE Silence' /\ UNCHANGED sink
    <3>1. NewQuiet /\ UNCHANGED <<sendVars, getVars>>
      BY <2>8 DEF Vanish, Loses, Lose, NewQuiet
    <3> QED BY <2>2, <2>3, <3>1, SilenceKeeps
  <2>9. CASE SenderSteps
    BY <2>2, <2>9, SenderStepStaysSilent, SilenceKeeps DEF SenderSteps
  <2>10. ASSUME NEW r \in Receiver, ReceiverSteps(r) PROVE Silence' /\ UNCHANGED sink
    BY <2>1, <2>3, <2>10, ReceiverStepStaysSilent, SilenceKeeps DEF ReceiverSteps
  <2>11. CASE Tick
    <3>1. /\ NewQuiet /\ OnlyDeletions' /\ UNCHANGED <<sink, gstate>> /\ StreamDeaf'
      BY <2>1, <2>11
         DEF Tick, SendTick, GetTick, wireVars, streamVars, loopVars, NewQuiet, StreamDeaf,
             OnlyDeletions
    <3>2. ReceiversSilent'
      BY <2>1, <3>1 DEF ReceiversSilent, Receiving
    <3> QED BY <3>1, <3>2, SilenceKeeps
  <2> QED BY <2>4, <2>5, <2>6, <2>7, <2>8, <2>9, <2>10, <2>11 DEF Next
<1> QED BY <1>1, ShareInitially, ShareInductive, PTL DEF Spec
-----------------------------------------------------------------------------
(***************************************************************************)
(* Timeouts.  A connection has no time of its server or peer before it has *)
(* begun to greet: nobody replies to it, as it has not said HELLO.  From   *)
(* then on a time that is over comes with a heartbeat that is due or the   *)
(* deletion it has led to.                                                 *)
(***************************************************************************)
SenderBegun == state \notin {"IDLE", "WAIT_CODE"}
ReceiverBegun(r) == gstate[r] \notin {"IDLE", "WAIT_SENDER"}
Begun(a) == (a = Sender => SenderBegun) /\ (a \in Receiver => ReceiverBegun(a))

GreetsBegun(x) ==
  (x.type = "HELLO" => Begun(x.from)) /\ (x.type = "HELLO_REPLY" => Begun(x.to))

Greeted == \A m \in net : GreetsBegun(m)

Sharing == state \in {"WAIT_RECVER", "CONN_RECVER", "SEND_FILE"}

Dying == DeleteCall \in Range(functors)

SenderTimes ==
  /\ ~SenderBegun => serverHello = Never /\ due = {}
  /\ Sharing /\ ServerGone => Server \in due \/ Dying

TimesOf(r) ==
  /\ ~ReceiverBegun(r) => senderHello[r] = Never /\ <<r, "holdConn">> \notin gdue
  /\ Held(r) /\ SenderDead(r) => <<r, "holdConn">> \in gdue

ReceiverTimes == \A r \in Receiver : TimesOf(r)

Heartbeats == Greeted /\ SenderTimes /\ ReceiverTimes

LEMMA TimesApart ==
  /\ ~(Never > kTimeout) /\ ~(0 > kTimeout) /\ Older(Never) = Never
  /\ Sender \notin Receiver
BY ConnAssumption, WireAssumption DEF Never, Older

(* Nobody who has begun is ever new again. *)
StillBegun ==
  (SenderBegun => SenderBegun') /\ \A r \in Receiver : ReceiverBegun(r) => ReceiverBegun(r)'

NewGreets == \A x \in net' : x \in net \/ GreetsBegun(x) \/ GreetsBegun(x)'

LEMMA GreetedKeeps ==
  ASSUME Greeted, StillBegun, NewGreets
  PROVE  Greeted'
<1>1. ASSUME NEW x, GreetsBegun(x) PROVE GreetsBegun(x)'
  BY <1>1 DEF GreetsBegun, Begun, StillBegun
<1>2. ASSUME NEW x \in net' PROVE GreetsBegun(x)'
  BY <1>1, <1>2 DEF Greeted, NewGreets
<1> QED BY <1>2 DEF Greeted

LEMMA AnswersGreet ==
  ASSUME NEW m, NEW ms, Answer(m, ms), \A x \in ms : GreetsBegun(x) \/ GreetsBegun(x)'
  PROVE  NewGreets
BY DEF Answer, NewGreets

LEMMA PostsGreet ==
  ASSUME NEW ms, Post(ms), \A x \in ms : GreetsBegun(x) \/ GreetsBegun(x)'
  PROVE  NewGreets
BY DEF Post, NewGreets

LEMMA PlainGreets ==
  ASSUME NEW type, NEW from, NEW to,
         type = "HELLO" => Begun(from), type = "HELLO_REPLY" => Begun(to)
  PROVE  GreetsBegun(Plain(type, from, to))
BY DEF Plain, GreetsBegun

LEMMA OthersGreet ==
  ASSUME NEW w, NEW pieces
  PROVE  (\A x \in StreamOut(w) : GreetsBegun(x)) /\ (\A x \in LossOut(pieces) : GreetsBegun(x))
BY DEF StreamOut, LossOut, DataStream, GreetsBegun

(* The sharer. *)
LEMMA SenderReadGreets ==
  ASSUME Greeted, NEW m \in net, SendRead(m)
  PROVE  NewGreets
<1> USE DEF Reads
<1>1. GreetsBegun(m)
  BY DEF Greeted
<1>2. ASSUME Answer(m, {}) PROVE NewGreets
  BY <1>2, AnswersGreet
<1>3. CASE RecvHello(m)
  <2>1. Begun(m.from) /\ Answer(m, {Plain("HELLO_REPLY", Sender, m.from)})
    BY <1>1, <1>3 DEF RecvHello, GreetsBegun
  <2> QED BY <2>1, AnswersGreet, PlainGreets
<1>4. CASE RecvHelloReply(m) \/ RecvShareCode(m) \/ RecvFinish(m) \/ RecvError(m)
  BY <1>2, <1>4 DEF RecvHelloReply, RecvShareCode, RecvFinish, RecvError
<1>5. CASE RecvFileReq(m)
  <2>1. CASE state = "WAIT_RECVER"
    <3>1. Begun(Sender) /\ Answer(m, {Plain("HELLO", Sender, m.addr)})
      BY <1>5, <2>1, TimesApart DEF RecvFileReq, Begun, SenderBegun
    <3> QED BY <3>1, AnswersGreet, PlainGreets
  <2> QED BY <1>2, <1>5, <2>1 DEF RecvFileReq
<1>6. CASE RecvDownloadStart(m) \/ RecvPackAck(m) \/ RecvRetran(m)
  <2>1. \/ Answer(m, {}) \/ Answer(m, StreamOut(sendWindow)) \/ Answer(m, StreamOut(Acked(m.nums)))
        \/ Answer(m, LossOut(Requested(m.pieces)))
    BY <1>6 DEF RecvDownloadStart, RecvPackAck, RecvRetran
  <2> QED BY <1>2, <2>1, AnswersGreet, OthersGreet
<1> QED BY <1>3, <1>4, <1>5, <1>6 DEF SendRead

LEMMA SenderStepGreets ==
  ASSUME SenderTimes, SendStep
  PROVE  NewGreets
<1>1. CASE ShareFile
  <2>1. Post({Plain("SHARE_FILE", Sender, Server)}) \/ UNCHANGED net
    BY <1>1 DEF ShareFile, wireVars
  <2> QED BY <2>1, PostsGreet, PlainGreets DEF NewGreets
<1>2. CASE RunFunctor
  <2>1. Post({}) \/ Post(StreamOut(sendWindow)) \/ Post(LossOut(Head(functors).pieces))
    BY <1>2 DEF RunFunctor, RunCall
  <2> QED BY <2>1, PostsGreet, OthersGreet
<1>3. ASSUME NEW a \in due, HoldConn(a) PROVE NewGreets
  <2>1. Begun(Sender) /\ Post({Plain("HELLO", Sender, a)})
    BY <1>3, TimesApart DEF HoldConn, SenderTimes, Begun
  <2> QED BY <2>1, PostsGreet, PlainGreets
<1> QED BY <1>1, <1>2, <1>3 DEF SendStep

(* What is queued stays queued until it runs. *)
LEMMA CallsStay ==
  ASSUME NEW q, IsQueue(q), NEW w, NEW full, NEW pieces,
         \/ SendFileStream(w, full, q) \/ SendLossPieces(pieces, q)
         \/ functors' = q \/ functors' = Append(q, DeleteCall)
  PROVE  Range(q) \subseteq Range(functors)'
<1>1. functors' = q \/ \E x : functors' = Append(q, x)
  BY DEF SendFileStream, SendLossPieces
<1>2. ASSUME NEW x, functors' = Append(q, x) PROVE Range(q) \subseteq Range(functors)'
  <2>1. Range(Append(q, x)) = Range(q) \cup {x}
    BY AppendQueue
  <2> QED BY <1>2, <2>1
<1> QED BY <1>1, <1>2

LEMMA ReadCallsStay ==
  ASSUME IsQueue(functors), NEW m, SendRead(m)
  PROVE  Dying => Dying'
<1>1. \/ functors' = functors \/ functors' = Append(functors, DeleteCall)
      \/ \E w, full : SendFileStream(w, full, functors)
      \/ \E pieces : SendLossPieces(pieces, functors)
  BY DEF SendRead, RecvHello, ReadOnly, RecvHelloReply, RecvShareCode, RecvFileReq,
         RecvDownloadStart, RecvPackAck, RecvRetran, RecvFinish, RecvError, CloseSelf
<1> QED BY <1>1, CallsStay DEF Dying

LEMMA SenderReadTimes ==
  ASSUME Greeted, SenderTimes, IsQueue(functors), NEW m \in net, SendRead(m)
  PROVE  SenderTimes' /\ (SenderBegun => SenderBegun')
<1> USE TimesApart DEF Reads, sessionVars, helloVars, SenderTimes, SenderBegun, Sharing, ServerGone
<1>0. Dying => Dying'
  BY ReadCallsStay
<1>1. CASE RecvHello(m)
  BY <1>0, <1>1 DEF RecvHello, ReadOnly
<1>2. CASE RecvHelloReply(m)
  <2>1. SenderBegun
    BY <1>2 DEF RecvHelloReply, Greeted, GreetsBegun, Begun
  <2> QED BY <1>0, <1>2, <2>1 DEF RecvHelloReply
<1>3. CASE RecvShareCode(m)
  BY <1>0, <1>3 DEF RecvShareCode
<1>4. CASE RecvFileReq(m)
  BY <1>0, <1>4 DEF RecvFileReq
<1>5. CASE RecvDownloadStart(m)
  BY <1>0, <1>5 DEF RecvDownloadStart
<1>6. CASE RecvPackAck(m) \/ RecvRetran(m)
  BY <1>0, <1>6 DEF RecvPackAck, RecvRetran
<1>7. CASE RecvFinish(m)
  BY <1>0, <1>7 DEF RecvFinish, EndSession
<1>8. CASE RecvError(m)
  BY <1>0, <1>8 DEF RecvError
<1> QED BY <1>1, <1>2, <1>3, <1>4, <1>5, <1>6, <1>7, <1>8 DEF SendRead

LEMMA SenderStepTimes ==
  ASSUME SenderTimes, IsQueue(functors), SendStep
  PROVE  SenderTimes' /\ (SenderBegun => SenderBegun')
<1> USE TimesApart DEF sessionVars, helloVars, SenderTimes, SenderBegun, Sharing, ServerGone
<1>1. CASE ShareFile
  BY <1>1 DEF ShareFile
<1>2. CASE RunFunctor
  <2>1. CASE Head(functors) = DeleteCall
    BY <1>2, <2>1 DEF RunFunctor, DeleteConn
  <2>2. CASE Head(functors) # DeleteCall
    <3>1. functors # <<>> /\ RunCall(Head(functors), Tail(functors))
      BY <1>2, <2>2 DEF RunFunctor
    <3>2. Dying => DeleteCall \in Range(Tail(functors))
      BY <2>2, <3>1, TailQueue DEF Dying
    <3>3. /\ UNCHANGED <<sessionVars, due, helloVars>>
          /\ \/ SendFileStream(sendWindow, isWindowFull, Tail(functors))
             \/ SendLossPieces(Head(functors).pieces, Tail(functors))
      BY <3>1 DEF RunCall
    <3>4. IsQueue(Tail(functors))
      BY <3>1, TailQueue
    <3>5. Dying => Dying'
      BY <3>2, <3>3, <3>4, CallsStay DEF Dying
    <3> QED BY <3>3, <3>5
  <2> QED BY <2>1, <2>2
<1>3. ASSUME NEW a \in due, HoldConn(a) PROVE SenderTimes' /\ (SenderBegun => SenderBegun')
  <2>1. Dying => Dying'
    BY <1>3, CallsStay DEF HoldConn, CloseSelf, Dying
  <2>2. ServerGone => Dying'
    <3>1. ServerGone => functors' = Append(functors, DeleteCall)
      BY <1>3 DEF HoldConn, CloseSelf
    <3>2. DeleteCall \in Range(Append(functors, DeleteCall))
      BY AppendQueue
    <3> QED BY <3>1, <3>2 DEF Dying
  <2>3. state' = state \/ (state = "SEND_FILE" /\ state' = "WAIT_RECVER")
    BY <1>3 DEF HoldConn, EndSession, PeerDead
  <2>4. UNCHANGED helloVars /\ due # {}
    BY <1>3 DEF HoldConn
  <2> QED BY <2>1, <2>2, <2>3, <2>4
<1> QED BY <1>1, <1>2, <1>3 DEF SendStep

(* The receivers. *)
GoesOn == \A r \in Receiver : ReceiverBegun(r) => ReceiverBegun(r)'

LEMMA ReceiverReadTimes ==
  ASSUME Greeted, ReceiverTimes, ReceiverInv, NEW m \in net, GetRead(m)
  PROVE  NewGreets /\ ReceiverTimes' /\ GoesOn
<1> PICK r \in Receiver : \/ GetHello(r, m) \/ GetHelloReply(r, m) \/ GetFileData(r, m)
                          \/ GetDataStream(r, m) \/ GetError(r, m)
  BY DEF GetRead
<1>1. /\ GreetsBegun(m) /\ TimesOf(r) /\ gstate[r] \notin {"IDLE", "CLOSED"} /\ m.to = r
      /\ gstate \in [Receiver -> GetStates] /\ senderHello \in [Receiver -> Ages]
  BY DEF Greeted, ReceiverTimes, ReceiverInv, GetTypeOK, GetStates,
         GetHello, GetHelloReply, GetFileData, GetDataStream, GetError, Gets
<1>2. ASSUME CloseGet(r) \/ UNCHANGED <<gstate, gdue>>, UNCHANGED senderHello
      PROVE  ReceiverTimes' /\ GoesOn
  BY <1>1, <1>2 DEF CloseGet, Goto, ReceiverTimes, TimesOf, GoesOn, ReceiverBegun, Held, SenderDead
<1>3. CASE GetHello(r, m)
  <2>1. Begun(m.from) /\ Answer(m, {Plain("HELLO_REPLY", r, m.from)}) /\ UNCHANGED getVars
    BY <1>1, <1>3 DEF GetHello, Gets, GreetsBegun
  <2> QED BY <1>2, <2>1, AnswersGreet, PlainGreets DEF getVars
<1>4. CASE GetHelloReply(r, m)
  <2>1. ReceiverBegun(r)
    BY <1>1, <1>4 DEF GetHelloReply, Gets, GreetsBegun, Begun
  <2>2. /\ Answer(m, {Plain("DOWNLOAD_START", r, Sender)}) \/ Answer(m, {})
        /\ (Goto(r, "RECV_FILE") /\ UNCHANGED gdue) \/ CloseGet(r) \/ UNCHANGED <<gstate, gdue>>
        /\ senderHello' = [senderHello EXCEPT ![r] = 0]
    BY <1>4 DEF GetHelloReply, NotOpened
  <2>3. NewGreets
    BY <2>2, AnswersGreet, PlainGreets
  <2>4. GoesOn
    BY <1>1, <2>2 DEF CloseGet, Goto, GoesOn, ReceiverBegun
  <2>5. senderHello'[r] = 0 /\ \A x \in Receiver \ {r} : senderHello'[x] = senderHello[x]
    BY <1>1, <2>2
  <2>6. \A x \in Receiver \ {r} : gstate'[x] = gstate[x]
    BY <1>1, <2>2 DEF CloseGet, Goto
  <2>7. \A x \in Receiver \ {r} : <<x, "holdConn">> \in gdue' <=> <<x, "holdConn">> \in gdue
    BY <2>2 DEF CloseGet
  <2>8. TimesOf(r)'
    BY <2>1, <2>4, <2>5, TimesApart DEF TimesOf, SenderDead, GoesOn
  <2>9. ASSUME NEW x \in Receiver \ {r} PROVE TimesOf(x)'
    BY <2>5, <2>6, <2>7 DEF ReceiverTimes, TimesOf, SenderDead, Held, ReceiverBegun
  <2> QED BY <2>3, <2>4, <2>8, <2>9 DEF ReceiverTimes
<1>5. CASE GetFileData(r, m)
  <2>1. CASE gstate[r] # "WAIT_SENDER"
    BY <1>2, <1>5, <2>1, AnswersGreet DEF GetFileData
  <2>2. CASE gstate[r] = "WAIT_SENDER"
    <3>1. /\ Answer(m, {Plain("HELLO", r, Sender)}) /\ Goto(r, "CONN_SENDER")
          /\ UNCHANGED <<senderHello, gdue>>
      BY <1>5, <2>2 DEF GetFileData
    <3>2. gstate'[r] = "CONN_SENDER" /\ \A x \in Receiver \ {r} : gstate'[x] = gstate[x]
      BY <1>1, <3>1 DEF Goto
    <3>3. GoesOn /\ Begun(r)'
      BY <3>2, TimesApart DEF GoesOn, ReceiverBegun, Begun
    <3>4. GreetsBegun(Plain("HELLO", r, Sender))'
      BY <3>3 DEF GreetsBegun, Plain
    <3>5. NewGreets
      BY <3>1, <3>4, AnswersGreet
    <3>6. TimesOf(r)'
      BY <1>1, <2>2, <3>1, <3>2, TimesApart DEF TimesOf, SenderDead, ReceiverBegun
    <3>7. ASSUME NEW x \in Receiver \ {r} PROVE TimesOf(x)'
      BY <3>1, <3>2 DEF ReceiverTimes, TimesOf, SenderDead, Held, ReceiverBegun
    <3> QED BY <3>3, <3>5, <3>6, <3>7 DEF ReceiverTimes
  <2> QED BY <2>1, <2>2
<1>6. CASE GetDataStream(r, m)
  <2>1. /\ \/ Answer(m, {}) \/ Answer(m, Acks(r))
           \/ Answer(m, Acks(r) \cup {Plain("FINISH", r, Sender)})
        /\ CloseGet(r) \/ UNCHANGED <<gstate, gdue>>
        /\ UNCHANGED senderHello
    BY <1>6 DEF GetDataStream
  <2>2. \A x \in Acks(r) : GreetsBegun(x)
    BY DEF Acks, PackAck, GreetsBegun
  <2> QED BY <1>2, <2>1, <2>2, AnswersGreet, PlainGreets
<1>7. CASE GetError(r, m)
  BY <1>2, <1>7, AnswersGreet DEF GetError
<1> QED BY <1>3, <1>4, <1>5, <1>6, <1>7

LEMMA ReceiverStepTimes ==
  ASSUME ReceiverTimes, ReceiverInv, NEW r \in Receiver, GetStep(r)
  PROVE  NewGreets /\ ReceiverTimes' /\ GoesOn
<1>1. TimesOf(r) /\ gstate \in [Receiver -> GetStates]
  BY DEF ReceiverTimes, ReceiverInv, GetTypeOK, GetStates
<1>2. ASSUME CloseGet(r), UNCHANGED senderHello PROVE ReceiverTimes' /\ GoesOn
  BY <1>1, <1>2 DEF CloseGet, Goto, ReceiverTimes, TimesOf, GoesOn, ReceiverBegun, Held, SenderDead
<1>3. CASE GetFile(r)
  <2>1. /\ Post({Plain("GET_FILE", r, Server)}) /\ gstate[r] = "IDLE"
        /\ Goto(r, "WAIT_SENDER") /\ UNCHANGED <<senderHello, gdue>>
    BY <1>3 DEF GetFile
  <2>2. ReceiverTimes' /\ GoesOn
    BY <1>1, <2>1 DEF Goto, ReceiverTimes, TimesOf, GoesOn, ReceiverBegun, Held, SenderDead
  <2> QED BY <2>1, <2>2, PostsGreet, PlainGreets
<1>4. CASE SendRetranReq(r)
  <2>1. PICK quiet \in BOOLEAN : Post(QuietAck(r, quiet) \cup LossReport(r))
    BY <1>4 DEF SendRetranReq
  <2>2. \A x \in QuietAck(r, quiet) \cup LossReport(r) : GreetsBegun(x)
    BY DEF QuietAck, LossReport, PackAck, Retran, GreetsBegun
  <2>3. gdue' = gdue \ {<<r, "sendRetranReq">>} /\ UNCHANGED <<gstate, senderHello>>
    BY <1>4 DEF SendRetranReq
  <2>4. ReceiverTimes' /\ GoesOn
    BY <2>3 DEF ReceiverTimes, TimesOf, GoesOn, ReceiverBegun, Held, SenderDead
  <2> QED BY <2>1, <2>2, <2>4, PostsGreet
<1>5. CASE GetHoldConn(r)
  <2>1. Begun(r) /\ Post({Plain("HELLO", r, Sender)}) /\ UNCHANGED senderHello
    BY <1>1, <1>5, TimesApart DEF GetHoldConn, TimesOf, Begun
  <2>2. NewGreets
    BY <2>1, PostsGreet, PlainGreets
  <2>3. CASE ~SenderDead(r)
    <3>1. gdue' = gdue \ {<<r, "holdConn">>} /\ UNCHANGED <<gstate, senderHello>>
      BY <1>5, <2>3 DEF GetHoldConn
    <3>2. ReceiverTimes' /\ GoesOn
      BY <2>3, <3>1 DEF ReceiverTimes, TimesOf, GoesOn, ReceiverBegun, Held, SenderDead
    <3> QED BY <2>2, <3>2
  <2> QED BY <1>2, <1>5, <2>1, <2>2, <2>3 DEF GetHoldConn
<1>6. CASE Quit(r)
  BY <1>2, <1>6 DEF Quit, wireVars, NewGreets
<1> QED BY <1>3, <1>4, <1>5, <1>6 DEF GetStep

LEMMA HeartbeatsInductive == ShareInv /\ Heartbeats /\ [Next]_vars => Heartbeats'
<1> SUFFICES ASSUME ShareInv, Heartbeats, [Next]_vars PROVE Heartbeats'
  OBVIOUS
<1>1. Greeted /\ SenderTimes /\ ReceiverTimes /\ ReceiverInv /\ IsQueue(functors)
  <2>1. IsQueue(functors)
    BY SeqOfRange DEF ShareInv, SenderInv, StreamInv, IsQueue
  <2> QED BY <2>1 DEF Heartbeats, ShareInv
<1>2. ASSUME UNCHANGED sendVars PROVE SenderTimes' /\ (SenderBegun => SenderBegun')
  BY <1>1, <1>2
     DEF sendVars, sessionVars, helloVars, loopVars, SenderTimes, SenderBegun, Sharing, ServerGone,
         Dying
<1>3. ASSUME UNCHANGED getVars PROVE ReceiverTimes' /\ GoesOn
  BY <1>1, <1>3
     DEF getVars, ReceiverTimes, TimesOf, GoesOn, ReceiverBegun, Held, SenderDead
<1>4. ASSUME SenderTimes', SenderBegun => SenderBegun', ReceiverTimes', GoesOn, NewGreets
      PROVE  Heartbeats'
  BY <1>1, <1>4, GreetedKeeps DEF Heartbeats, StillBegun, GoesOn
<1>5. CASE UNCHANGED vars
  BY <1>2, <1>3, <1>4, <1>5 DEF vars, wireVars, NewGreets
<1>6. ASSUME NEW m \in net, SenderReads(m) PROVE Heartbeats'
  BY <1>1, <1>3, <1>4, <1>6, SenderReadGreets, SenderReadTimes DEF SenderReads
<1>7. ASSUME NEW m \in net, ReceiverReads(m) PROVE Heartbeats'
  BY <1>1, <1>2, <1>4, <1>7, ReceiverReadTimes DEF ReceiverReads
<1>8. ASSUME NEW m \in net, ServerRead(m) PROVE Heartbeats'
  <2>1. GreetsBegun(m)
    BY <1>1 DEF Greeted
  <2>2. m.type = "HELLO" => GreetsBegun(Plain("HELLO_REPLY", Server, m.from))
    BY <2>1, PlainGreets DEF GreetsBegun
  <2>3. \A type \in {"SHARE_CODE", "ERROR_LIMIT", "FILE_DATA", "ERROR_404"} :
          GreetsBegun(Plain(type, Server, m.from))
    BY PlainGreets
  <2>4. GreetsBegun(FileReq(m.from))
    BY DEF GreetsBegun, FileReq
  <2>5. \/ m.type = "HELLO" /\ Answer(m, {Plain("HELLO_REPLY", Server, m.from)})
        \/ Answer(m, {Plain("SHARE_CODE", Server, m.from)})
        \/ Answer(m, {Plain("ERROR_LIMIT", Server, m.from)})
        \/ Answer(m, {Plain("FILE_DATA", Server, m.from), FileReq(m.from)})
        \/ Answer(m, {Plain("ERROR_404", Server, m.from)})
    BY <1>8 DEF ServerRead
  <2>6. NewGreets
    BY <2>2, <2>3, <2>4, <2>5, AnswersGreet
  <2> QED BY <1>2, <1>3, <1>4, <1>8, <2>6 DEF ServerRead
<1>9. ASSUME NEW m \in net, Vanish(m) \/ Loses(m) PROVE Heartbeats'
  BY <1>2, <1>3, <1>4, <1>9 DEF Vanish, Loses, Lose, NewGreets
<1>10. CASE SenderSteps
  BY <1>1, <1>3, <1>4, <1>10, SenderStepGreets, SenderStepTimes DEF SenderSteps
<1>11. ASSUME NEW r \in Receiver, ReceiverSteps(r) PROVE Heartbeats'
  BY <1>1, <1>2, <1>4, <1>11, ReceiverStepTimes DEF ReceiverSteps
<1>12. CASE Tick
  <2>1. NewGreets
    BY <1>12 DEF Tick, wireVars, NewGreets
  <2>2. SenderTimes' /\ (SenderBegun => SenderBegun')
    BY <1>1, <1>12, TimesApart
       DEF Tick, SendTick, Timers, SenderTimes, SenderBegun, Sharing
  <2>3. /\ GoesOn /\ UNCHANGED gstate
        /\ senderHello' = [r \in Receiver |-> Older(senderHello[r])]
        /\ gdue' = {<<r, "holdConn">> : r \in {x \in Receiver : Held(x)}} \cup
                     {<<r, "sendRetranReq">> : r \in {x \in Receiver : Receiving(x)}}
    BY <1>12 DEF Tick, GetTick, GoesOn, ReceiverBegun
  <2>4. ASSUME NEW r \in Receiver PROVE TimesOf(r)'
    <3>1. <<r, "holdConn">> \in gdue' <=> Held(r)
      BY <2>3
    <3> QED BY <1>1, <2>3, <3>1, TimesApart DEF ReceiverTimes, TimesOf, ReceiverBegun, Held
  <2> QED BY <1>4, <2>1, <2>2, <2>3, <2>4 DEF ReceiverTimes
<1> QED
  BY <1>5, <1>6, <1>7, <1>8, <1>9, <1>10, <1>11, <1>12 DEF Next

(* No heartbeat period passes over a timeout: a share whose server, and a  *)
(* download whose sharer, has been silent for longer than kTimeout has     *)
(* closed by itself before the next one.  It is the safety of              *)
(* OrphanGivesUp, whatever arrives late and however many connect.  Of the  *)
(* sharer's peer it does not hold: its time is that of the peer before.    *)
THEOREM TimeoutsNoticed ==
  Spec => [][Tick => /\ Sharing => ~ServerGone
                     /\ \A r \in Receiver : Held(r) => ~SenderDead(r)]_vars
<1>1. Init => Heartbeats
  BY DEF Init, WireInit, SendInit, GetInit, Heartbeats, Greeted, SenderTimes, SenderBegun, Sharing,
         ReceiverTimes, TimesOf, ReceiverBegun, Held
<1>2. Heartbeats
        => [Tick => /\ Sharing => ~ServerGone
                    /\ \A r \in Receiver : Held(r) => ~SenderDead(r)]_vars
  <2>1. functors = <<>> => ~Dying
    BY DEF Dying, Range
  <2> QED BY <2>1 DEF Heartbeats, SenderTimes, ReceiverTimes, TimesOf, Tick, SendTick, GetTick
<1> QED BY <1>1, <1>2, HeartbeatsInductive, ShareInitially, ShareInductive, PTL DEF Spec
=============================================================================
