------------------------------ MODULE Transfer ------------------------------
(***************************************************************************)
(* One share, from SHARE to the last FINISH: the sharer's connection, the  *)
(* connections of the receivers and the server between them, over UDP.     *)
(* Of the server only its answers about this share are modelled here; its  *)
(* tables are DiretransServer's.                                           *)
(***************************************************************************)
EXTENDS SendConn, GetConn

VARIABLE shared  \* the server knows the share

vars == <<wireVars, sendVars, getVars, shared>>

TypeOK == SendTypeOK /\ GetTypeOK /\ shared \in BOOLEAN

Init == WireInit /\ SendInit /\ GetInit /\ shared = FALSE
-----------------------------------------------------------------------------
(* The server: a second share of the sharer's address is refused, the      *)
(* first may be, and a code that is mistyped or has expired is not found.  *)
ServerRead(m) ==
  /\ m \in net /\ m.to = Server
  /\ \/ /\ m.type = "HELLO"
        /\ Answer(m, {Plain("HELLO_REPLY", Server, m.from)}) /\ UNCHANGED shared
     \/ /\ m.type = "SHARE_FILE"
        /\ \/ ~shared /\ shared' = TRUE /\ Answer(m, {Plain("SHARE_CODE", Server, m.from)})
           \/ UNCHANGED shared /\ Answer(m, {Plain("ERROR_LIMIT", Server, m.from)})
     \/ /\ m.type = "GET_FILE"
        /\ \/ shared /\ Answer(m, {Plain("FILE_DATA", Server, m.from), FileReq(m.from)})
           \/ Answer(m, {Plain("ERROR_404", Server, m.from)})
        /\ UNCHANGED shared
  /\ UNCHANGED <<sendVars, getVars>>

(* A datagram to a socket that is closed. *)
Vanish(m) ==
  /\ m \in net
  /\ \/ m.to = Sender /\ state = "CLOSED"
     \/ m.to \in Receiver /\ gstate[m.to] = "CLOSED"
  /\ net' = net \ {m}
  /\ UNCHANGED <<faults, sendVars, getVars, shared>>

(* A datagram is delivered or lost within a tick. *)
Tick == Timed /\ net = {} /\ SendTick /\ GetTick /\ UNCHANGED <<wireVars, shared>>

SenderReads(m) == SendRead(m) /\ UNCHANGED <<getVars, shared>>
SenderSteps == SendStep /\ UNCHANGED <<getVars, shared>>
ReceiverReads(m) == GetRead(m) /\ UNCHANGED <<sendVars, shared>>
ReceiverSteps(r) == GetStep(r) /\ UNCHANGED <<sendVars, shared>>
Loses(m) == Lose(m) /\ UNCHANGED <<sendVars, getVars, shared>>

Next ==
  \/ \E m \in net : SenderReads(m) \/ ReceiverReads(m) \/ ServerRead(m) \/ Vanish(m) \/ Loses(m)
  \/ SenderSteps
  \/ \E r \in Receiver : ReceiverSteps(r)
  \/ Tick

Spec == Init /\ [][Next]_vars

(***************************************************************************)
(* Fairness.  A queued functor runs, the timer of a second fires, and a    *)
(* datagram of a kind that is under way again and again is read at last,   *)
(* whatever else arrives.  Nothing obliges the user to give a command, a   *)
(* datagram to be lost or a process to quit.                               *)
(***************************************************************************)
Functors == RunFunctor /\ UNCHANGED <<getVars, shared>>
RetranTimer(r) == SendRetranReq(r) /\ UNCHANGED <<sendVars, shared>>

SenderReadsA(type) == \E m \in net : m.type = type /\ SenderReads(m)
PieceArrives(p) ==
  \E m \in net : m.type = "DATA_STREAM" /\ m.piece = p /\ ReceiverReads(m)
OthersArrive ==
  \E m \in net : m.type # "DATA_STREAM" /\ (ReceiverReads(m) \/ ServerRead(m))

StreamFairness ==
  /\ WF_vars(Functors)
  /\ \A r \in Receiver : WF_vars(RetranTimer(r))
  /\ \A type \in {"PACK_ACK", "RETRAN"} : SF_vars(SenderReadsA(type))
  /\ \A p \in 0..NumPieces : WF_vars(PieceArrives(p))

SessionFairness ==
  /\ \A type \in {"HELLO", "HELLO_REPLY", "SHARE_CODE", "FILE_REQ", "DOWNLOAD_START", "FINISH"} :
       SF_vars(SenderReadsA(type))
  /\ WF_vars(OthersArrive)

(* In a Timed run the heartbeats run and time passes. *)
HoldTimers ==
  \/ \E a \in due : HoldConn(a) /\ UNCHANGED <<getVars, shared>>
  \/ \E r \in Receiver : GetHoldConn(r) /\ UNCHANGED <<sendVars, shared>>

TimeFairness == WF_vars(HoldTimers) /\ WF_vars(\E m \in net : Vanish(m)) /\ WF_vars(Tick)

StreamSpec == Spec /\ StreamFairness
FairSpec == StreamSpec /\ SessionFairness
TimedSpec == FairSpec /\ TimeFairness
-----------------------------------------------------------------------------
(* Once pieces have been sent, either a sendFileStream is queued or        *)
(* isWindowFull_ is set, so that the next PACK_ACK starts one: RETRANs,    *)
(* windows and sessions never leave the sender deaf to acknowledgements.   *)
NoLostWakeup ==
  state # "CLOSED" /\ src.cur > 0 =>
    isWindowFull \/ \E i \in DOMAIN functors : functors[i] = StreamCall

(* A piece travels under the number of the slot it was read from, however  *)
(* reads for retransmission, which move the stream and may hit its end,    *)
(* come between the others.                                                *)
StreamAligned == \A m \in net : m.type = "DATA_STREAM" => m.data = m.piece

(* End to end, every receiver keeps what PieceStore promises: whatever is  *)
(* lost, repeated or overtaken, every piece is stored in its place once,   *)
(* and FINISH is for a file that is complete.                              *)
Store(r) == INSTANCE PieceStore WITH
  Piece <- Slot,
  have <- {i \in Slot : sink[r].disk[i] = i},
  finished <- ~sink[r].isOpen

StoreSpec ==
  /\ \A r \in Receiver : Store(r)!Init
  /\ [][\A r \in Receiver : Store(r)!Next \/ UNCHANGED Store(r)!vars]_vars

(* FINISH, "transfer finished" (Header.h), is said by receivers that have  *)
(* closed with every piece in its place, and by no others, however often   *)
(* it is repeated and however late it comes: a receiver that gives up,     *)
(* fails or quits ends no session.  (Whose session it ends the sender does *)
(* not ask: FINISH is accepted from any address and names no session.)     *)
FinishMeansComplete ==
  \A m \in net :
    m.type = "FINISH" =>
      gstate[m.from] = "CLOSED" /\ \A i \in Slot : sink[m.from].disk[i] = i

(* repeattimers_ holds the timer of the current session and no other, so   *)
(* no receiver of an earlier one is greeted for ever.                      *)
HoldTimerFollowsSession ==
  state # "CLOSED" =>
    repeattimers = IF state \in {"CONN_RECVER", "SEND_FILE"} THEN {recveraddr} ELSE {}

Served(r) == state = "SEND_FILE" /\ recveraddr = r /\ src.cur > 0 /\ Receiving(r)
Finished(r) == gstate[r] = "CLOSED" /\ ~sink[r].isOpen

(* A receiver that is being served gets the whole file, although some of   *)
(* the pieces, acknowledgements and requests are lost.                     *)
TransferCompletes == \A r \in Receiver : Served(r) ~> Finished(r)

(* The receiver has sent DOWNLOAD_START, "start the download" (Header.h),  *)
(* and waits; it is then served to the end.                                *)
DownloadServed == \A r \in Receiver : Receiving(r) ~> Finished(r)

(* A receiver that has replied once and is gone does not keep the share    *)
(* from the next one: its session ends even when its FINISH is lost.       *)
GonePeerDropped ==
  \A r \in Receiver :
    (state = "SEND_FILE" /\ recveraddr = r /\ gstate[r] = "CLOSED" /\ peerHello # Never)
      ~> state # "SEND_FILE"

(* A receiver does not wait for ever for the rest of a file whose sharer   *)
(* has gone.                                                               *)
OrphanGivesUp ==
  \A r \in Receiver : (state = "CLOSED" /\ Receiving(r)) ~> gstate[r] = "CLOSED"
=============================================================================
