--------------------------- MODULE ShareRegistry ---------------------------
(***************************************************************************)
(* What the rendezvous server promises its clients, whatever tables it     *)
(* keeps: an address shares at most one file, under a code nobody else     *)
(* has; a host shares at most Quota files; whoever asks for a code gets    *)
(* the file and the address behind it, and the sharer is told who asked;   *)
(* shares of silent clients are withdrawn.                                 *)
(*                                                                         *)
(* DiretransServer implements this module (see RegistrySpec there).        *)
(***************************************************************************)
EXTENDS Naturals, FiniteSets, Functions

CONSTANTS Addr, Code, File, Quota, HostOf(_)

VARIABLES
  shares,   \* the share of each sharing address: its code and its file
  replies   \* the datagrams that answer the latest request

vars == <<shares, replies>>

Sharers == DOMAIN shares

TakenCodes == {shares[a].code : a \in Sharers}

SharersOn(host) == {a \in Sharers : HostOf(a) = host}

Init ==
  /\ shares = [a \in {} |-> {}]
  /\ replies = {}

(* A keep-alive is answered and changes nothing. *)
Greet(a) ==
  /\ replies' = {[type |-> "HELLO_REPLY", to |-> a]}
  /\ UNCHANGED shares

(* A share is granted under a fresh code while the host has quota left. *)
Grant(a, f, c) ==
  /\ a \notin Sharers
  /\ Cardinality(SharersOn(HostOf(a))) < Quota
  /\ c \notin TakenCodes
  /\ shares' = [b \in Sharers \cup {a} |->
                  IF b = a THEN [code |-> c, file |-> f] ELSE shares[b]]
  /\ replies' = {[type |-> "SHARE_CODE", to |-> a, code |-> c]}

(* A share is refused exactly when the address shares already or its host  *)
(* has used up its quota.                                                  *)
Refuse(a) ==
  /\ \/ a \in Sharers
     \/ Cardinality(SharersOn(HostOf(a))) >= Quota
  /\ replies' = {[type |-> "ERROR_LIMIT", to |-> a]}
  /\ UNCHANGED shares

Reject(a) ==
  /\ replies' = {[type |-> "ERROR_FORMAT", to |-> a]}
  /\ UNCHANGED shares

(* The getter learns file and sharer, and the sharer learns the getter. *)
Introduce(g, s) ==
  /\ s \in Sharers
  /\ replies' = {[type |-> "FILE_DATA", to |-> g, file |-> shares[s].file, addr |-> s],
                 [type |-> "FILE_REQ", to |-> s, addr |-> g]}
  /\ UNCHANGED shares

(* Nobody shares under the code asked for. *)
Miss(g, c) ==
  /\ c \notin TakenCodes
  /\ replies' = {[type |-> "ERROR_404", to |-> g]}
  /\ UNCHANGED shares

(* Any set of shares may be withdrawn; which ones is left open here. *)
Withdraw(gone) ==
  /\ shares' = Restrict(shares, Sharers \ gone)
  /\ replies' = {}

Next ==
  \/ \E a \in Addr : Greet(a) \/ Refuse(a) \/ Reject(a)
  \/ \E a \in Addr, f \in File, c \in Code : Grant(a, f, c)
  \/ \E g \in Addr, s \in Addr : Introduce(g, s)
  \/ \E g \in Addr, c \in Code : Miss(g, c)
  \/ \E gone \in SUBSET Addr : Withdraw(gone)

Spec == Init /\ [][Next]_vars
=============================================================================
