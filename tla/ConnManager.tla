---------------------------- MODULE ConnManager ----------------------------
(***************************************************************************)
(* What the two kinds of connections share (client/ConnManager.h).  Time   *)
(* advances in ticks of one heartbeat period (10 s); a time the code keeps *)
(* is its age in ticks, Never when it is not valid().  A run that is not   *)
(* Timed stays within the first heartbeat period.                          *)
(***************************************************************************)
EXTENDS Wire, Integers

CONSTANTS
  kPiecesPerWindow, kWindowNum,
  kTimeout,                      \* kTimeoutSec in ticks
  Timed

ASSUME ConnAssumption ==
  /\ kPiecesPerWindow \in Nat \ {0} /\ kWindowNum \in Nat \ {0}
  /\ kTimeout \in Nat
  /\ Timed \in BOOLEAN

WindowSize == kPiecesPerWindow * kWindowNum

(* Ages beyond the timeout are all alike. *)
Never == -1
Ages == Never..kTimeout+1
Older(age) == IF age \in {Never, kTimeout + 1} THEN age ELSE age + 1
=============================================================================
