-------------------------------- MODULE Wire --------------------------------
(***************************************************************************)
(* The UDP datagrams under way between the sharer, the server and the      *)
(* receivers: a set, so they overtake each other, and of identical ones    *)
(* only one is kept.  At most MaxFaults times one of the types in          *)
(* LossyTypes, or a data piece in LossyPieces, is lost, or one of the      *)
(* types in DupTypes arrives once more.                                    *)
(***************************************************************************)
EXTENDS Naturals

CONSTANTS
  Sender, Server, Receiver,   \* two addresses and a set of addresses
  LossyTypes, LossyPieces, DupTypes, MaxFaults

VARIABLES
  net,      \* the datagrams under way
  faults    \* how many were lost or duplicated

wireVars == <<net, faults>>

ASSUME WireAssumption ==
  /\ Sender # Server /\ Sender \notin Receiver /\ Server \notin Receiver
  /\ MaxFaults \in Nat

WireInit == net = {} /\ faults = 0

(* A message without a body, and those with one. *)
Plain(type, from, to) == [type |-> type, from |-> from, to |-> to]
FileReq(r) == [type |-> "FILE_REQ", from |-> Server, to |-> Sender, addr |-> r]
DataStream(to, piece, data) ==
  [type |-> "DATA_STREAM", from |-> Sender, to |-> to, piece |-> piece, data |-> data]
PackAck(r, nums) == [type |-> "PACK_ACK", from |-> r, to |-> Sender, nums |-> nums]
Retran(r, pieces) == [type |-> "RETRAN", from |-> r, to |-> Sender, pieces |-> pieces]

(* Datagrams sent without one having been read: by a timer or a functor. *)
Post(ms) == net' = net \cup ms /\ UNCHANGED faults

(* Datagram m is read and answered with ms. *)
Answer(m, ms) ==
  \/ net' = (net \ {m}) \cup ms /\ UNCHANGED faults
  \/ /\ m.type \in DupTypes /\ faults < MaxFaults
     /\ net' = net \cup ms /\ faults' = faults + 1

MayBeLost(m) ==
  IF m.type = "DATA_STREAM" THEN m.piece \in LossyPieces ELSE m.type \in LossyTypes

Lose(m) ==
  /\ m \in net /\ MayBeLost(m) /\ faults < MaxFaults
  /\ net' = net \ {m} /\ faults' = faults + 1
=============================================================================
