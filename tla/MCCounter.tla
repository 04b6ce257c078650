------------------------------ MODULE MCCounter ------------------------------
(* Model-checking instance of Counter. *)
EXTENDS Counter, TLC

CONSTANTS r1, r2, w1, w2

Symmetric == Permutations(Reqs) \union Permutations(Workers)
=============================================================================
