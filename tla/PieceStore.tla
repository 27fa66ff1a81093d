----------------------------- MODULE PieceStore -----------------------------
(***************************************************************************)
(* What a receiver of a file promises: pieces arrive in any order and any  *)
(* number of times, each is stored once, and the file is declared finished *)
(* by the very piece that completes it.                                    *)
(***************************************************************************)
CONSTANT Piece

VARIABLES
  have,      \* the pieces that are in their place
  finished   \* the file has been declared finished

vars == <<have, finished>>

Init == have = {} /\ finished = FALSE

Store(p) ==
  /\ ~finished
  /\ p \notin have
  /\ have' = have \cup {p}
  /\ finished' = (have' = Piece)

Next == \E p \in Piece : Store(p)

Spec == Init /\ [][Next]_vars
=============================================================================
