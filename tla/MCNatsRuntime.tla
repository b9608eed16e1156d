--------------------------- MODULE MCNatsRuntime ---------------------------
(* Instances of NatsRuntime for TLC. *)
EXTENDS NatsRuntime

CONSTANTS c1, c2, c3, s1, s2, r1

(* The first two commands share a subject. *)
OneApart == [c \in Commands |-> IF c = c3 THEN s2 ELSE s1]
=============================================================================
