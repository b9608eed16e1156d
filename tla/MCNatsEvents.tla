---------------------------- MODULE MCNatsEvents ----------------------------
(* Instances of NatsEvents for TLC. *)
EXTENDS NatsEvents

CONSTANTS e1, e2, r1, r2
=============================================================================
