----------------------------- MODULE MCHostKeys -----------------------------
(* HostKeys on a small instance: which sets are symmetric.                 *)
EXTENDS HostKeys, TLC

Symmetry == Permutations(Conns) \union Permutations(Keys)
=============================================================================
