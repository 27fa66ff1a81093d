------------------------- MODULE MCDiretransClient -------------------------
(***************************************************************************)
(* Model values and symmetry for model-checking DiretransClient.           *)
(***************************************************************************)
EXTENDS DiretransClient, TLC

CONSTANTS s1, s2, g1, g2

OneSend == {s1}
TwoSends == {s1, s2}
NoGets == {}
TwoGets == {g1, g2}
Channels == Sends \cup Gets \cup {"timerfd", "wakeup", "commands"}

(* Objects of a kind are only compared for equality. *)
Symmetry == Permutations(Sends) \cup Permutations(Gets)
=============================================================================
