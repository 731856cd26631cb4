------------------------------ MODULE MCArena ------------------------------
(* The arena on a small instance.                                          *)
EXTENDS ArenaDemand, TLC

(* Nothing orders handles or values.                                       *)
Symmetry == Permutations(Handle) \cup Permutations(Value)
=============================================================================
