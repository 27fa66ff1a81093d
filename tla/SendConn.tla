------------------------------ MODULE SendConn ------------------------------
(***************************************************************************)
(* The sharer's connection (client/SendConnManager.cpp) on its event loop. *)
(*                                                                         *)
(* One iteration of EventLoop::loop handles at most one datagram of this   *)
(* socket and the expired timers, then the functors that are queued by     *)
(* then; functors queue functors for the next iteration.  heard says that  *)
(* the iteration has had its datagram, batch how many of its functors are  *)
(* still to run.                                                           *)
(***************************************************************************)
EXTENDS ConnManager, SendFileManager, Sequences, FiniteSets

VARIABLES
  state,            \* state_; "CLOSED" when the connection is deleted
  recveraddr,       \* the receiver introduced last
  repeattimers,     \* the addresses holdConn runs for because of repeattimers_
  due,              \* the addresses whose holdConn timer has expired
  serverHello,      \* age of lastServerHelloTime_
  peerHello,        \* age of lastPeerHelloTime_
  src,              \* sendManager_
  sendWindow, isWindowFull,
  functors,         \* the calls queued with queueInLoop
  batch, heard

sessionVars == <<state, recveraddr, repeattimers>>
helloVars == <<serverHello, peerHello>>
streamVars == <<src, sendWindow, isWindowFull>>
loopVars == <<functors, batch, heard>>
sendVars == <<sessionVars, due, helloVars, streamVars, loopVars>>

NoOne == Server   \* recveraddr before anyone is introduced

(* The calls that are queued: sendFileStream(), sendLossPieces(p) and the  *)
(* client's deleteConn() that closeSelf leads to.                          *)
StreamCall == [call |-> "sendFileStream"]
DeleteCall == [call |-> "deleteConn"]
LossCall(p) == [call |-> "sendLossPieces", pieces |-> p]

SendTypeOK ==
  /\ state \in {"IDLE", "WAIT_CODE", "WAIT_RECVER", "CONN_RECVER", "SEND_FILE", "CLOSED"}
  /\ recveraddr \in Receiver \cup {NoOne}
  /\ repeattimers \subseteq Receiver
  /\ due \subseteq Receiver \cup {Server}
  /\ serverHello \in Ages /\ peerHello \in Ages 
  /\ src \in Source
  /\ sendWindow \in 0..WindowSize
  /\ isWindowFull \in BOOLEAN /\ heard \in BOOLEAN
  /\ functors \in Seq({StreamCall, DeleteCall} \cup
                       [call : {"sendLossPieces"}, pieces : Seq(0..NumPieces)])
  /\ batch \in 0..Len(functors)

SendInit ==
  /\ state = "IDLE" /\ recveraddr = NoOne /\ repeattimers = {} /\ due = {}
  /\ serverHello = Never /\ peerHello = Never
  /\ src = NewSource /\ sendWindow = 0 /\ isWindowFull = FALSE
  /\ functors = <<>> /\ batch = 0 /\ heard = FALSE
-----------------------------------------------------------------------------
(* sendFileStream, with w pieces in the window and full for isWindowFull_; *)
(* queue holds the functors that stay queued.  StreamOut is what it sends. *)
StreamStops(w) == ~src.good \/ w >= WindowSize

(* A slip to compare with: only a full window is noted, not the end of the *)
(* file or a stream that is not good.                                      *)
SendFileStreamSlip(w, full, queue) ==
  IF StreamStops(w)
  THEN /\ isWindowFull' = (full \/ w >= WindowSize) /\ sendWindow' = w
       /\ functors' = queue /\ UNCHANGED src
  ELSE /\ isWindowFull' = full /\ sendWindow' = w + 1
       /\ functors' = Append(queue, StreamCall) /\ src' = NextPiece(src)

SendFileStream(w, full, queue) ==
  IF StreamStops(w)
  THEN /\ isWindowFull' = TRUE /\ sendWindow' = w
       /\ functors' = queue /\ UNCHANGED src
  ELSE /\ isWindowFull' = full /\ sendWindow' = w + 1
       /\ functors' = Append(queue, StreamCall) /\ src' = NextPiece(src)

StreamOut(w) ==
  IF StreamStops(w) THEN {} ELSE {DataStream(recveraddr, src.cur, Payload(src))}

(* A slip: retransmissions do not heed the window. *)
LossStopsSlip(pieces) == pieces = <<>>

(* sendLossPieces: takes the last of the pieces. *)
LossStops(pieces) == pieces = <<>> \/ sendWindow >= WindowSize

LastPiece(pieces) == pieces[Len(pieces)]

SendLossPieces(pieces, queue) ==
  IF LossStops(pieces)
  THEN /\ isWindowFull' = TRUE /\ functors' = queue
       /\ UNCHANGED <<src, sendWindow>>
  ELSE /\ functors' = Append(queue, LossCall(SubSeq(pieces, 1, Len(pieces) - 1)))
       /\ src' = PieceOf(src, LastPiece(pieces))
       /\ sendWindow' = sendWindow + 1 /\ UNCHANGED isWindowFull

LossOut(pieces) ==
  IF LossStops(pieces) THEN {}
  ELSE {DataStream(recveraddr, LastPiece(pieces), Payload(SeekPiece(src, LastPiece(pieces))))}

(* A slip: closeAllTimer is forgotten. *)
EndSessionSlip ==
  /\ state' = "WAIT_RECVER"
  /\ sendWindow' = 0 /\ isWindowFull' = FALSE /\ src' = InitStatu(src)
  /\ UNCHANGED <<repeattimers, recveraddr>>

(* What FINISH and a dead peer have in common; closeAllTimer takes the     *)
(* peer's timer off those that are due.                                    *)
EndSession ==
  /\ state' = "WAIT_RECVER"
  /\ sendWindow' = 0 /\ isWindowFull' = FALSE /\ src' = InitStatu(src)
  /\ repeattimers' = {}
  /\ UNCHANGED recveraddr

(* closeSelf: until deleteConn runs the connection goes on as it is. *)
CloseSelf == functors' = Append(functors, DeleteCall)

(* deleteConn.  A call queued behind it runs on an object that is gone and *)
(* is taken to do nothing.                                                 *)
DeleteConn ==
  /\ state' = "CLOSED" /\ repeattimers' = {} /\ due' = {}
  /\ functors' = <<>> /\ batch' = 0 /\ heard' = FALSE
  /\ UNCHANGED <<recveraddr, helloVars, streamVars>>
-----------------------------------------------------------------------------
(* The SHARE command of the user: a file that is not there closes the      *)
(* connection at once.                                                     *)
ShareFile ==
  /\ state = "IDLE" /\ functors = <<>>
  /\ \/ /\ Post({Plain("SHARE_FILE", Sender, Server)})
        /\ state' = "WAIT_CODE" /\ UNCHANGED functors
     \/ UNCHANGED wireVars /\ CloseSelf /\ UNCHANGED state
  /\ UNCHANGED <<recveraddr, repeattimers, due, helloVars, streamVars, batch, heard>>

(* The next datagram of this iteration; state_ decides what it does. *)
Reads(m, type) ==
  /\ m \in net /\ m.to = Sender /\ m.type = type
  /\ state \notin {"IDLE", "CLOSED"}
  /\ batch = 0 /\ ~heard
  /\ UNCHANGED batch

(* The iteration ends at once when no functor is queued. *)
EndRead == heard' = (functors' # <<>>)

ReadOnly == UNCHANGED <<sessionVars, due, helloVars, streamVars, functors>> /\ EndRead

RecvHello(m) ==
  /\ Reads(m, "HELLO")
  /\ Answer(m, {Plain("HELLO_REPLY", Sender, m.from)})
  /\ ReadOnly

(* A reply of the client we were introduced to connects; one of it or of   *)
(* the server is also a sign of life, in every state.                      *)
RecvHelloReply(m) ==
  /\ Reads(m, "HELLO_REPLY")
  /\ Answer(m, {})
  /\ state' = IF state = "CONN_RECVER" /\ m.from = recveraddr THEN "SEND_FILE" ELSE state
  /\ serverHello' = IF m.from = Server THEN 0 ELSE serverHello
  /\ peerHello' = IF m.from # Server /\ m.from = recveraddr THEN 0 ELSE peerHello
  /\ UNCHANGED <<recveraddr, repeattimers, due, streamVars, functors>>
  /\ EndRead

RecvShareCode(m) ==
  /\ Reads(m, "SHARE_CODE")
  /\ Answer(m, {})
  /\ state' = IF state = "WAIT_CODE" THEN "WAIT_RECVER" ELSE state
  /\ UNCHANGED <<recveraddr, repeattimers, due, helloVars, streamVars, functors>>
  /\ EndRead

RecvFileReq(m) ==
  /\ Reads(m, "FILE_REQ")
  /\ IF state = "WAIT_RECVER"
     THEN /\ Answer(m, {Plain("HELLO", Sender, m.addr)})
          /\ state' = "CONN_RECVER" /\ recveraddr' = m.addr
          /\ repeattimers' = repeattimers \cup {m.addr}
     ELSE Answer(m, {}) /\ UNCHANGED sessionVars
  /\ UNCHANGED <<due, helloVars, streamVars, functors>>
  /\ EndRead

RecvDownloadStart(m) ==
  /\ Reads(m, "DOWNLOAD_START")
  /\ IF state \in {"CONN_RECVER", "SEND_FILE"}
     THEN /\ Answer(m, StreamOut(sendWindow))
          /\ state' = "SEND_FILE"
          /\ SendFileStream(sendWindow, isWindowFull, functors)
     ELSE Answer(m, {}) /\ UNCHANGED <<state, streamVars, functors>>
  /\ UNCHANGED <<recveraddr, repeattimers, due, helloVars>>
  /\ EndRead

(* The window gives way by the pieces acknowledged; a full one resumes. *)
Acked(nums) == IF nums <= sendWindow THEN sendWindow - nums ELSE 0

RecvPackAck(m) ==
  /\ Reads(m, "PACK_ACK")
  /\ IF state = "SEND_FILE" /\ isWindowFull
     THEN /\ Answer(m, StreamOut(Acked(m.nums)))
          /\ SendFileStream(Acked(m.nums), FALSE, functors)
     ELSE /\ Answer(m, {})
          /\ sendWindow' = IF state = "SEND_FILE" THEN Acked(m.nums) ELSE sendWindow
          /\ UNCHANGED <<src, isWindowFull, functors>>
  /\ UNCHANGED <<sessionVars, due, helloVars>>
  /\ EndRead

(* The vector is resized to the number of pieces and the pieces appended:  *)
(* as many zeros come first.                                               *)
InOrder(pieces) ==
  CHOOSE s \in [1..Cardinality(pieces) -> pieces] : \A i, j \in DOMAIN s : i < j => s[i] < s[j]

Requested(pieces) == [i \in 1..Cardinality(pieces) |-> 0] \o InOrder(pieces)

RecvRetran(m) ==
  /\ Reads(m, "RETRAN")
  /\ IF state = "SEND_FILE"
     THEN /\ Answer(m, LossOut(Requested(m.pieces)))
          /\ SendLossPieces(Requested(m.pieces), functors)
     ELSE Answer(m, {}) /\ UNCHANGED <<streamVars, functors>>
  /\ UNCHANGED <<sessionVars, due, helloVars>>
  /\ EndRead

RecvFinish(m) ==
  /\ Reads(m, "FINISH")
  /\ Answer(m, {})
  /\ IF state = "SEND_FILE"
     THEN EndSession /\ peerHello' = Never /\ due' = due \cap {Server}
     ELSE UNCHANGED <<sessionVars, due, streamVars, peerHello>>
  /\ UNCHANGED <<serverHello, functors>>
  /\ EndRead

RecvError(m) ==
  /\ Reads(m, "ERROR_FORMAT") \/ Reads(m, "ERROR_LIMIT")
  /\ Answer(m, {})
  /\ CloseSelf
  /\ UNCHANGED <<sessionVars, due, helloVars, streamVars>>
  /\ EndRead
-----------------------------------------------------------------------------
(* A slip: the peer is watched until it is connected only. *)
PeerDeadSlip == state = "CONN_RECVER" /\ peerHello > kTimeout

(* holdConn of a timer, with checkPeerAlive: the peer is given up first,   *)
(* with its timers, then the share.                                        *)
PeerDead == state = "SEND_FILE" /\ peerHello > kTimeout

ServerGone == serverHello > kTimeout

HoldConn(a) ==
  /\ a \in due /\ batch = 0
  /\ Post({Plain("HELLO", Sender, a)})
  /\ IF PeerDead
     THEN EndSession /\ due' = (due \ {a}) \cap {Server}
     ELSE due' = due \ {a} /\ UNCHANGED <<sessionVars, streamVars>>
  /\ IF ServerGone THEN CloseSelf ELSE UNCHANGED functors
  /\ UNCHANGED <<helloVars, batch, heard>>

(* A call on the connection, with those that stay queued. *)
RunCall(f, queue) ==
  /\ batch' = (IF batch = 0 THEN Len(functors) ELSE batch) - 1
  /\ heard' = FALSE
  /\ IF f = StreamCall
     THEN Post(StreamOut(sendWindow)) /\ SendFileStream(sendWindow, isWindowFull, queue)
     ELSE Post(LossOut(f.pieces)) /\ SendLossPieces(f.pieces, queue)
  /\ UNCHANGED <<sessionVars, due, helloVars>>

(* doPendingFunctors, one functor. *)
RunFunctor ==
  /\ functors # <<>>
  /\ IF Head(functors) = DeleteCall
     THEN DeleteConn /\ Post({})
     ELSE RunCall(Head(functors), Tail(functors))

(* The holdConn timers: the heartbeat to the server from SHARE_CODE on and *)
(* the one to the peer.                                                    *)
Timers ==
  IF state \in {"WAIT_RECVER", "CONN_RECVER", "SEND_FILE"} THEN {Server} \cup repeattimers ELSE {}

SendTick ==
  /\ due = {} /\ functors = <<>>
  /\ due' = Timers
  /\ serverHello' = Older(serverHello) /\ peerHello' = Older(peerHello)
  /\ UNCHANGED <<state, recveraddr, repeattimers, streamVars, loopVars>>

SendRead(m) ==
  \/ RecvHello(m) \/ RecvHelloReply(m) \/ RecvShareCode(m) \/ RecvFileReq(m)
  \/ RecvDownloadStart(m) \/ RecvPackAck(m) \/ RecvRetran(m) \/ RecvFinish(m)
  \/ RecvError(m)

SendStep == ShareFile \/ RunFunctor \/ \E a \in due : HoldConn(a)
=============================================================================
