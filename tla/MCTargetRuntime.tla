-------------------------- MODULE MCTargetRuntime --------------------------
(* TargetRuntime on a small instance: which series there are.  A counter   *)
(* of an entity and a text about it come from one collector, a gauge of    *)
(* the host from another.                                                  *)
EXTENDS TargetRuntime, TLC

CONSTANTS s1, s2, e1, bytes, usage, label

MCEntityOf == bytes :> e1 @@ usage :> Host @@ label :> e1
MCSourceOf == bytes :> s1 @@ usage :> s2 @@ label :> s1
=============================================================================
