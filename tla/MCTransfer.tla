----------------------------- MODULE MCTransfer -----------------------------
(***************************************************************************)
(* Transfer with receivers that are alike.  Only for safety properties.    *)
(***************************************************************************)
EXTENDS Transfer, TLC

Symmetry == Permutations(Receiver)
=============================================================================
