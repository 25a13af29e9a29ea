--------------------------- MODULE MCTargetPoller ---------------------------
(* TargetPoller on small instances: which sets of threads are symmetric.   *)
EXTENDS TargetPoller, TLC

Symmetry == Permutations(Controllers) \union Permutations(Commands)
=============================================================================
