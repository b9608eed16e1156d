-------------------------- MODULE CommandContract --------------------------
(***************************************************************************)
(* What the Redis command transport promises for each command, without its *)
(* Streams, groups, loops or tasks: a command that was taken in stays in   *)
(* the queue until it has been decided (its handler returned, or it was    *)
(* refused), never comes back once removed, and its handler is invoked at  *)
(* most once plus one time for every disruption suffered so far.           *)
(***************************************************************************)
EXTENDS Integers

CONSTANT Commands

VARIABLES
    where,     \* "outside", "queued" or "removed", for each command
    decided,   \* commands whose handler returned or that were refused
    runs,      \* how often each command's handler has been invoked
    troubles   \* disruptions so far

vars == <<where, decided, runs, troubles>>

Init ==
    /\ where = [c \in Commands |-> "outside"]
    /\ decided = {}
    /\ runs = [c \in Commands |-> 0]
    /\ troubles = 0

TakeIn(c) ==
    /\ where[c] = "outside"
    /\ where' = [where EXCEPT ![c] = "queued"]
    /\ UNCHANGED <<decided, runs, troubles>>

(* A disrupted replica may still run a command that another one removed. *)
Run(c) ==
    /\ where[c] # "outside"
    /\ runs[c] <= troubles
    /\ runs' = [runs EXCEPT ![c] = @ + 1]
    /\ UNCHANGED <<where, decided, troubles>>

Decide(c) ==
    /\ where[c] # "outside"
    /\ decided' = decided \cup {c}
    /\ UNCHANGED <<where, runs, troubles>>

Remove(c) ==
    /\ where[c] = "queued"
    /\ c \in decided
    /\ where' = [where EXCEPT ![c] = "removed"]
    /\ UNCHANGED <<decided, runs, troubles>>

Trouble ==
    /\ troubles' = troubles + 1
    /\ UNCHANGED <<decided, runs>>
    /\ \/ UNCHANGED where
       \/ \E c \in decided : where[c] = "queued" /\ where' = [where EXCEPT ![c] = "removed"]

Next ==
    \/ \E c \in Commands : TakeIn(c) \/ Run(c) \/ Decide(c) \/ Remove(c)
    \/ Trouble

Spec == Init /\ [][Next]_vars
=============================================================================
