--------------------------- MODULE MCRedisEvents ---------------------------
(* Instances of RedisEvents for TLC. *)
EXTENDS RedisEvents

CONSTANTS e1, e2, r1, r2

(* Two replicas compete for one event that must not get lost. *)
Retrying ==
    [events |-> {e1}, invalid |-> {}, replicas |-> {r1, r2}, concurrency |-> 1,
     maxDeliveries |-> 2, deadLetters |-> TRUE, retention |-> 0]

(* The Stream is trimmed under a replica that handles two events at a time. *)
Trimming ==
    [events |-> {e1, e2}, invalid |-> {e2}, replicas |-> {r1}, concurrency |-> 2,
     maxDeliveries |-> 2, deadLetters |-> FALSE, retention |-> 1]

TwoServices == {Retrying, Trimming}
=============================================================================
