----------------------------- MODULE MCAutoSell -----------------------------
(* Small instances of AutoSell for TLC. *)
EXTENDS AutoSell, TLC

Symmetry == Permutations(Tokens)
=============================================================================
