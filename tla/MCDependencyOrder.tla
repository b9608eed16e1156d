------------------------- MODULE MCDependencyOrder -------------------------
(* Instances of DependencyOrder for TLC. *)
EXTENDS DependencyOrder

CONSTANTS p1, p2, p3, q
=============================================================================
