------------------------------ MODULE GetConn ------------------------------
(***************************************************************************)
(* The receivers' connections (client/GetConnManager.cpp), one per member  *)
(* of Receiver, each in a process of its own.  No functor is queued here   *)
(* but the deletion of the connection, so every handler and timer is one   *)
(* action.  The variables of SendConn and GetConn meet in Transfer.        *)
(***************************************************************************)
EXTENDS ConnManager, GetFileManager

CONSTANT MayQuit   \* receivers whose process may end at any time

VARIABLES
  gstate,        \* state_; "CLOSED" when the connection is deleted
  sink,          \* getManager_
  recvWindow,
  recent,        \* a DATA_STREAM came since sendRetranReq ran last
  senderHello,   \* age of lastPeerHelloTime_
  gdue           \* the timers that have expired, as pairs

getVars == <<gstate, sink, recvWindow, recent, senderHello, gdue>>

GetTypeOK ==
  /\ gstate \in [Receiver -> {"IDLE", "WAIT_SENDER", "CONN_SENDER", "RECV_FILE", "CLOSED"}]
  /\ sink \in [Receiver -> Sink]
  /\ recvWindow \in [Receiver -> 0..kPiecesPerWindow-1]
  /\ recent \in [Receiver -> BOOLEAN]
  /\ senderHello \in [Receiver -> Ages]
  /\ gdue \subseteq Receiver \X {"holdConn", "sendRetranReq"}

GetInit ==
  /\ gstate = [r \in Receiver |-> "IDLE"]
  /\ sink = [r \in Receiver |-> NewSink]
  /\ recvWindow = [r \in Receiver |-> 0]
  /\ recent = [r \in Receiver |-> FALSE]
  /\ senderHello = [r \in Receiver |-> Never]
  /\ gdue = {}

Goto(r, s) == gstate' = [gstate EXCEPT ![r] = s]

(* closeSelf; the timers go with the connection. *)
CloseGet(r) == Goto(r, "CLOSED") /\ gdue' = {t \in gdue : t[1] # r}

Receiving(r) == gstate[r] = "RECV_FILE"
Held(r) == gstate[r] \in {"CONN_SENDER", "RECV_FILE"}   \* has a holdConn timer
-----------------------------------------------------------------------------
(* The GET command of the user. *)
GetFile(r) ==
  /\ gstate[r] = "IDLE"
  /\ Post({Plain("GET_FILE", r, Server)})
  /\ Goto(r, "WAIT_SENDER")
  /\ UNCHANGED <<sink, recvWindow, recent, senderHello, gdue>>

Gets(r, m, type) ==
  m \in net /\ m.to = r /\ m.type = type /\ gstate[r] \notin {"IDLE", "CLOSED"}

GetHello(r, m) ==
  /\ Gets(r, m, "HELLO")
  /\ Answer(m, {Plain("HELLO_REPLY", r, m.from)})
  /\ UNCHANGED getVars

(* A slip to compare with: the sender is told. *)
NotOpenedSlip(r, m) == Answer(m, {Plain("FINISH", r, Sender)}) /\ CloseGet(r)

NotOpened(r, m) == Answer(m, {}) /\ CloseGet(r)

(* The first reply of the sender opens the file and starts the download.   *)
(* A file that is too large is not opened, any other may fail to be        *)
(* created; either ends the connection.                                    *)
GetHelloReply(r, m) ==
  /\ Gets(r, m, "HELLO_REPLY")
  /\ senderHello' = [senderHello EXCEPT ![r] = 0]
  /\ \/ /\ gstate[r] = "CONN_SENDER" /\ NewSink.isOpen
        /\ Answer(m, {Plain("DOWNLOAD_START", r, Sender)})
        /\ Goto(r, "RECV_FILE")
        /\ UNCHANGED gdue
     \/ /\ gstate[r] = "CONN_SENDER"
        /\ NotOpened(r, m)
     \/ /\ gstate[r] # "CONN_SENDER"
        /\ Answer(m, {}) /\ UNCHANGED <<gstate, gdue>>
  /\ UNCHANGED <<sink, recvWindow, recent>>

GetFileData(r, m) ==
  /\ Gets(r, m, "FILE_DATA")
  /\ IF gstate[r] = "WAIT_SENDER"
     THEN Answer(m, {Plain("HELLO", r, Sender)}) /\ Goto(r, "CONN_SENDER")
     ELSE Answer(m, {}) /\ UNCHANGED gstate
  /\ UNCHANGED <<sink, recvWindow, recent, senderHello, gdue>>

(* Every kPiecesPerWindow pieces, wanted or not, are acknowledged; the     *)
(* piece that completes the file ends the connection with FINISH.          *)
AckDue(r) == recvWindow[r] + 1 >= kPiecesPerWindow

Acks(r) == IF AckDue(r) THEN {PackAck(r, recvWindow[r] + 1)} ELSE {}

GetDataStream(r, m) ==
  /\ Gets(r, m, "DATA_STREAM")
  /\ IF Receiving(r)
     THEN /\ recent' = [recent EXCEPT ![r] = TRUE]
          /\ recvWindow' = [recvWindow EXCEPT ![r] = IF AckDue(r) THEN 0 ELSE @ + 1]
          /\ sink' = [sink EXCEPT ![r] = WriteToFile(@, m.data, m.piece)]
          /\ IF WriteFinishes(sink[r], m.data, m.piece)
             THEN Answer(m, Acks(r) \cup {Plain("FINISH", r, Sender)}) /\ CloseGet(r)
             ELSE Answer(m, Acks(r)) /\ UNCHANGED <<gstate, gdue>>
     ELSE Answer(m, {}) /\ UNCHANGED <<gstate, sink, recvWindow, recent, gdue>>
  /\ UNCHANGED senderHello

GetError(r, m) ==
  /\ Gets(r, m, "ERROR_404")
  /\ Answer(m, {})
  /\ CloseGet(r)
  /\ UNCHANGED <<sink, recvWindow, recent, senderHello>>
-----------------------------------------------------------------------------
(***************************************************************************)
(* The timer of one second, counted as one per tick in a Timed run and as  *)
(* firing at any time in the others.  It finds the stream quiet for 100 ms *)
(* if no data came since it ran last, and perhaps if some did.             *)
(***************************************************************************)
(* A slip: a quiet stream is not acknowledged again. *)
QuietAckSlip(r, quiet) == {}

QuietAck(r, quiet) == IF quiet THEN {PackAck(r, WindowSize)} ELSE {}

LossReport(r) ==
  IF sink[r].lossPieces = {} THEN {} ELSE {Retran(r, sink[r].lossPieces)}

SendRetranReq(r) ==
  /\ Receiving(r)
  /\ Timed => <<r, "sendRetranReq">> \in gdue
  /\ \E quiet \in IF recent[r] THEN BOOLEAN ELSE {TRUE} :
       Post(QuietAck(r, quiet) \cup LossReport(r))
  /\ recent' = [recent EXCEPT ![r] = FALSE]
  /\ gdue' = gdue \ {<<r, "sendRetranReq">>}
  /\ UNCHANGED <<gstate, sink, recvWindow, senderHello>>

(* A slip: the sender is watched until it is connected only. *)
SenderDeadSlip(r) == senderHello[r] > kTimeout /\ gstate[r] = "CONN_SENDER"

(* holdConn, with checkPeerAlive. *)
SenderDead(r) == senderHello[r] > kTimeout

GetHoldConn(r) ==
  /\ <<r, "holdConn">> \in gdue
  /\ Post({Plain("HELLO", r, Sender)})
  /\ IF SenderDead(r)
     THEN CloseGet(r)
     ELSE gdue' = gdue \ {<<r, "holdConn">>} /\ UNCHANGED gstate
  /\ UNCHANGED <<sink, recvWindow, recent, senderHello>>

(* The process of a receiver ends, or its host is gone. *)
Quit(r) ==
  /\ r \in MayQuit /\ gstate[r] \notin {"IDLE", "CLOSED"}
  /\ CloseGet(r)
  /\ UNCHANGED <<wireVars, sink, recvWindow, recent, senderHello>>

GetTick ==
  /\ gdue = {}
  /\ gdue' = {<<r, "holdConn">> : r \in {x \in Receiver : Held(x)}} \cup
              {<<r, "sendRetranReq">> : r \in {x \in Receiver : Receiving(x)}}
  /\ senderHello' = [r \in Receiver |-> Older(senderHello[r])]
  /\ UNCHANGED <<gstate, sink, recvWindow, recent>>

GetRead(m) ==
  \E r \in Receiver :
    \/ GetHello(r, m) \/ GetHelloReply(r, m) \/ GetFileData(r, m)
    \/ GetDataStream(r, m) \/ GetError(r, m)

GetStep(r) == GetFile(r) \/ SendRetranReq(r) \/ GetHoldConn(r) \/ Quit(r)
=============================================================================
