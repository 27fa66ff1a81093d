--------------------------- MODULE ConnLifecycle ---------------------------
(***************************************************************************)
(* The life of the connections of a client, whatever maps own them and     *)
(* whatever queue their deletion waits in: a connection is opened once,    *)
(* closed while it is open, and deleted after it was closed or, open, when *)
(* another one takes its place.                                            *)
(*                                                                         *)
(* DiretransClient implements this module (see LifecycleSpec there).       *)
(***************************************************************************)
CONSTANT Conn

VARIABLES
  open,      \* owned under a code or descriptor, where it can be closed
  closing,   \* closed, its deletion is under way
  gone       \* deleted

vars == <<open, closing, gone>>

New(c) == c \notin open \cup closing \cup gone

Init == open = {} /\ closing = {} /\ gone = {}

Open(c) == New(c) /\ open' = open \cup {c} /\ UNCHANGED <<closing, gone>>

(* A connection that cannot start is closed in the same step. *)
OpenInVain(c) == New(c) /\ closing' = closing \cup {c} /\ UNCHANGED <<open, gone>>

Close(S) ==
  S \subseteq open /\ open' = open \ S /\ closing' = closing \cup S /\ UNCHANGED gone

Delete(c) ==
  c \in closing /\ closing' = closing \ {c} /\ gone' = gone \cup {c} /\ UNCHANGED open

(* A new connection takes the place of an open one. *)
Replace(c, d) ==
  /\ New(c) /\ d \in open
  /\ open' = (open \ {d}) \cup {c} /\ gone' = gone \cup {d} /\ UNCHANGED closing

Next ==
  \/ \E c \in Conn : Open(c) \/ OpenInVain(c) \/ Delete(c)
  \/ \E S \in SUBSET Conn : Close(S)
  \/ \E c, d \in Conn : Replace(c, d)

Spec == Init /\ [][Next]_vars
=============================================================================
