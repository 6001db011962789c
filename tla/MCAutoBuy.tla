----------------------------- MODULE MCAutoBuy -----------------------------
(* Small instances of AutoBuy for TLC. *)
EXTENDS AutoBuy, TLC

CONSTANTS a, b, c, t1, t2

\* Orders a and b sell the same ERC-721 token, c units of an ERC-1155 token.
MCToken == [order \in Orders |-> IF order = c THEN t2 ELSE t1]

Symmetry == Permutations(Procs)
=============================================================================
