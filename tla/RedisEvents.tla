---------------------------- MODULE RedisEvents ----------------------------
(***************************************************************************)
(* Events over the shared Redis Stream as one service sees them: emit with *)
(* its optional approximate trimming, the service's consumer group, and the*)
(* replicas, each running event_loop with a bounded set of spawned         *)
(* process_event_entry tasks, retries by idle time, and the dead-letter    *)
(* Stream (crates/caelix-microservices/src/redis_transport.rs).            *)
(*                                                                         *)
(* A service's group never reads or changes another's, and XACK removes    *)
(* nothing from the Stream, so one group stands for all.  Redis is taken   *)
(* at its 7.0 behaviour for pending entries whose Stream entry was trimmed:*)
(* XAUTOCLAIM and XCLAIM drop them.                                        *)
(***************************************************************************)
EXTENDS Integers, FiniteSets

CONSTANTS
    Events,          \* events clients may emit, one Stream entry each
    Replicas,        \* processes that may run the service
    Services,        \* the services considered
    MaxDisruptions   \* bound of the model: disruptions the environment inflicts

(* A service: the events emitted to it and those of them it acknowledges unseen,
   malformed or without handler, the processes that run it,
   max_handler_concurrency, max_event_deliveries, whether it has a
   dead_letter_stream, and approximate_max_event_entries, 0 for none. *)
Service == [events: SUBSET Events, invalid: SUBSET Events, replicas: SUBSET Replicas,
            concurrency: Nat \ {0}, maxDeliveries: Nat \ {0}, deadLetters: BOOLEAN,
            retention: Nat]

ASSUME ServicesAssumption == Services \subseteq Service
ASSUME BoundAssumption == MaxDisruptions \in Nat
ASSUME ReplicasAssumption == IsFiniteSet(Replicas)

VARIABLES
    service,      \* the service and its configuration, never changed
    pos,          \* position of each event in the Stream, 0 before it is emitted
    tail,         \* position of the last entry
    trimmed,      \* entries up to this position were trimmed
    seen,         \* entries delivered to some consumer of the group
    pending,      \* the group's pending list
    stale,        \* pending entries idle for event_retry_delay
    deliveries,   \* times_delivered of each entry
    status,       \* is the replica's run() active, cancelled or over
    loop,         \* the next broker call of the replica's event_loop
    room,         \* the `capacity` the loop computed for that call
    tasks,        \* the in_flight JoinSet of every replica
    disruptions,  \* crashes, broker errors, panics, stalls, failed loops
    buried,       \* copies of each event in the dead-letter Stream
    discarded,    \* history: events acknowledged without an invocation
    invocations,  \* history: how often the handler was invoked
    failures,     \* history: how often it returned a server error
    handled,      \* history: events it accepted, or refused with a client error
    exhausted     \* history: events whose last permitted attempt failed

streamVars == <<pos, tail, trimmed>>
groupVars == <<seen, pending, stale, deliveries>>
loopVars == <<status, loop, room>>
historyVars == <<discarded, invocations, failures, handled, exhausted>>
stateVars == <<streamVars, groupVars, loopVars, tasks, disruptions, buried,
               historyVars>>
vars == <<service, stateVars>>

Phases == {"claimed", "running", "bury", "ack", "failed"}
Task == [rep: Replicas, evt: Events, turn: Nat, attempt: Nat, phase: Phases]

Concurrency == service.concurrency
MaxDeliveries == service.maxDeliveries

TypeOK ==
    /\ service \in Service
    /\ pos \in [Events -> Nat]
    /\ tail \in Nat
    /\ trimmed \in 0..tail
    /\ seen \subseteq Events
    /\ pending \subseteq seen
    /\ stale \subseteq pending
    /\ deliveries \in [Events -> Nat]
    /\ status \in [Replicas -> {"down", "up", "stopping"}]
    /\ loop \in [Replicas -> {"top", "fetch", "read"}]
    /\ room \in [Replicas -> 0..Concurrency]
    /\ tasks \subseteq Task
    /\ IsFiniteSet(tasks)
    /\ disruptions \in Nat
    /\ buried \in [Events -> Nat]
    /\ discarded \subseteq service.invalid
    /\ invocations \in [Events -> Nat]
    /\ failures \in [Events -> Nat]
    /\ handled \subseteq Events
    /\ exhausted \subseteq Events

Init ==
    /\ service \in Services
    /\ pos = [e \in Events |-> 0]
    /\ tail = 0
    /\ trimmed = 0
    /\ seen = {} /\ pending = {} /\ stale = {}
    /\ deliveries = [e \in Events |-> 0]
    /\ status = [r \in Replicas |-> "down"]
    /\ loop = [r \in Replicas |-> "top"]
    /\ room = [r \in Replicas |-> 0]
    /\ tasks = {}
    /\ disruptions = 0
    /\ buried = [e \in Events |-> 0]
    /\ discarded = {}
    /\ invocations = [e \in Events |-> 0]
    /\ failures = [e \in Events |-> 0]
    /\ handled = {} /\ exhausted = {}

-----------------------------------------------------------------------------
(* The client and the broker. *)

Emitted(e) == pos[e] # 0
Trimmed(e) == Emitted(e) /\ pos[e] <= trimmed

(* MAXLEN ~ n may drop the oldest entries and keeps at least the last n. *)
MAXLEN ==
    IF service.retention = 0 \/ tail' - trimmed <= service.retention
    THEN trimmed' = trimmed
    ELSE trimmed' \in trimmed..(tail' - service.retention)

(* RedisClient::emit. *)
Emit(e) ==
    /\ e \in service.events
    /\ ~Emitted(e)
    /\ tail' = tail + 1
    /\ pos' = [pos EXCEPT ![e] = tail']
    /\ MAXLEN
    /\ UNCHANGED <<groupVars, loopVars, tasks, disruptions, buried, historyVars>>

Disrupted == disruptions' = disruptions + 1

(* A disruption the environment chooses to inflict. *)
Disrupt ==
    /\ disruptions < MaxDisruptions
    /\ Disrupted

(* S is what a call limited to n entries takes of `available`: the first ones
   of the Stream. *)
Takes(S, available, n) ==
    /\ S \subseteq available
    /\ \A e \in S, f \in available \ S : pos[e] < pos[f]
    /\ IF S = available THEN Cardinality(S) <= n ELSE Cardinality(S) = n

Delivered(S) ==
    deliveries' = [e \in Events |->
        IF e \in S THEN deliveries[e] + 1 ELSE deliveries[e]]

(* XAUTOCLAIM with min-idle event_retry_delay: entries that no longer exist
   are dropped from the pending list and count towards the limit. *)
XAUTOCLAIM(r, S) ==
    \E gone \in SUBSET pending :
        /\ Takes(gone, {e \in pending : Trimmed(e)}, room[r])
        /\ Takes(S, {e \in stale : ~Trimmed(e)}, room[r] - Cardinality(gone))
        /\ pending' = pending \ gone
        /\ stale' = stale \ (gone \cup S)
        /\ Delivered(S)
        /\ UNCHANGED seen

Undelivered == {e \in Events : Emitted(e) /\ ~Trimmed(e) /\ e \notin seen}

(* XREADGROUP with id ">". *)
XREADGROUP(r, S) ==
    /\ Takes(S, Undelivered, room[r])
    /\ seen' = seen \cup S
    /\ pending' = pending \cup S
    /\ Delivered(S)
    /\ UNCHANGED stale

XACK(e) ==
    /\ pending' = pending \ {e}
    /\ stale' = stale \ {e}
    /\ UNCHANGED <<seen, deliveries>>

Live(t) == t.phase # "failed"
Attended(e) == \E t \in tasks : t.evt = e /\ Live(t)

(* A pending entry has been idle for event_retry_delay.  While a task holds it
   this takes a stall: heartbeats or broker calls late by that much. *)
IdleElapses(e) ==
    /\ e \in pending \ stale
    /\ stale' = stale \cup {e}
    /\ IF Attended(e) THEN Disrupt ELSE UNCHANGED disruptions
    /\ UNCHANGED <<streamVars, seen, pending, deliveries, loopVars, tasks,
                   buried, historyVars>>

-----------------------------------------------------------------------------
(* The replica: RedisRuntime::run and event_loop. *)

TasksOf(r) == {t \in tasks : t.rep = r}
Doomed(r) == \E t \in TasksOf(r) : ~Live(t)

StartReplica(r) ==
    /\ r \in service.replicas
    /\ status[r] = "down"
    /\ status' = [status EXCEPT ![r] = "up"]
    /\ UNCHANGED <<streamVars, groupVars, loop, room, tasks, disruptions,
                   buried, historyVars>>

CancelReplica(r) ==
    /\ status[r] = "up"
    /\ status' = [status EXCEPT ![r] = "stopping"]
    /\ UNCHANGED <<streamVars, groupVars, loop, room, tasks, disruptions,
                   buried, historyVars>>

(* Top of the loop: not cancelled, no finished task with an error, and the
   JoinSet is not full. *)
BeginFetch(r) ==
    /\ status[r] = "up"
    /\ loop[r] = "top"
    /\ ~Doomed(r)
    /\ Cardinality(TasksOf(r)) < Concurrency
    /\ room' = [room EXCEPT ![r] = Concurrency - Cardinality(TasksOf(r))]
    /\ loop' = [loop EXCEPT ![r] = "fetch"]
    /\ UNCHANGED <<streamVars, groupVars, status, tasks, disruptions, buried,
                   historyVars>>

NewTask(r, e) ==
    [rep |-> r, evt |-> e, turn |-> deliveries[e] + 1, attempt |-> 0,
     phase |-> "claimed"]

Spawn(r, S) == tasks' = tasks \cup {NewTask(r, e) : e \in S}

(* Mutant: pending entries are never claimed again. *)
Reclaim_Never(r) ==
    /\ loop[r] = "fetch"
    /\ loop' = [loop EXCEPT ![r] = "read"]
    /\ UNCHANGED <<streamVars, groupVars, status, room, tasks, disruptions,
                   buried, historyVars>>

(* reclaim(): recovered entries are spawned; with none, the loop goes on to
   read_group(). *)
Reclaim(r) ==
    /\ loop[r] = "fetch"
    /\ \E S \in SUBSET pending :
        /\ XAUTOCLAIM(r, S)
        /\ Spawn(r, S)
        /\ IF S = {}
           THEN loop' = [loop EXCEPT ![r] = "read"] /\ UNCHANGED room
           ELSE loop' = [loop EXCEPT ![r] = "top"] /\ room' = [room EXCEPT ![r] = 0]
    /\ UNCHANGED <<streamVars, status, disruptions, buried, historyVars>>

ReadGroup(r) ==
    /\ loop[r] = "read"
    /\ \E S \in SUBSET Undelivered :
        /\ XREADGROUP(r, S)
        /\ Spawn(r, S)
    /\ loop' = [loop EXCEPT ![r] = "top"]
    /\ room' = [room EXCEPT ![r] = 0]
    /\ UNCHANGED <<streamVars, status, disruptions, buried, historyVars>>

(* The replica is over and the futures of its tasks are dropped. *)
Abandon(r) ==
    /\ status' = [status EXCEPT ![r] = "down"]
    /\ loop' = [loop EXCEPT ![r] = "top"]
    /\ room' = [room EXCEPT ![r] = 0]
    /\ tasks' = tasks \ TasksOf(r)

(* A broker call of the loop that was never answered: executed or not. *)
CallLost(r) ==
    \/ loop[r] = "fetch" /\ \E S \in SUBSET pending : XAUTOCLAIM(r, S)
    \/ loop[r] = "read" /\ \E S \in SUBSET Undelivered : XREADGROUP(r, S)
    \/ UNCHANGED groupVars

(* reclaim() or read_group() returns an error: event_loop returns it. *)
FetchFails(r) ==
    /\ loop[r] \in {"fetch", "read"}
    /\ Disrupt
    /\ CallLost(r)
    /\ Abandon(r)
    /\ UNCHANGED <<streamVars, buried, historyVars>>

(* The drain or join_next meets a task that ended in an error. *)
LoopFails(r) ==
    /\ loop[r] = "top"
    /\ Doomed(r)
    /\ Disrupted
    /\ Abandon(r)
    /\ UNCHANGED <<streamVars, groupVars, buried, historyVars>>

(* Cancelled and drained. *)
Drained(r) ==
    /\ status[r] = "stopping"
    /\ loop[r] = "top"
    /\ TasksOf(r) = {}
    /\ status' = [status EXCEPT ![r] = "down"]
    /\ UNCHANGED <<streamVars, groupVars, loop, room, tasks, disruptions,
                   buried, historyVars>>

(* shutdown_timeout elapses: unfinished handlers are aborted. *)
ShutdownAborts(r) ==
    /\ status[r] = "stopping"
    /\ Disrupt
    /\ CallLost(r)
    /\ Abandon(r)
    /\ UNCHANGED <<streamVars, buried, historyVars>>

(* The process dies at any point. *)
Crash(r) ==
    /\ status[r] # "down"
    /\ Disrupt
    /\ CallLost(r)
    /\ Abandon(r)
    /\ UNCHANGED <<streamVars, buried, historyVars>>

-----------------------------------------------------------------------------
(* A spawned task: process_event_entry. *)

Becomes(t, phase) == tasks' = (tasks \ {t}) \cup {[t EXCEPT !.phase = phase]}
Ends(t) == tasks' = tasks \ {t}
Again(count, e) == [count EXCEPT ![e] = @ + 1]

(* An entry no handler is to see is acknowledged. *)
Discard(t) ==
    /\ t.phase = "claimed"
    /\ t.evt \in service.invalid
    /\ Becomes(t, "ack")
    /\ discarded' = discarded \cup {t.evt}
    /\ UNCHANGED <<streamVars, groupVars, loopVars, disruptions, buried,
                   invocations, failures, handled, exhausted>>

(* Mutant: attempts counted from zero. *)
PendingAttempt_ZeroBased(e) == IF e \in pending THEN deliveries[e] - 1 ELSE 0

(* XPENDING: the entry's own count, or 1 once it left the pending list. *)
PendingAttempt(e) == IF e \in pending THEN deliveries[e] ELSE 1

Invoke(t) ==
    /\ t.phase = "claimed"
    /\ t.evt \notin service.invalid
    /\ tasks' = (tasks \ {t}) \cup
           {[t EXCEPT !.phase = "running", !.attempt = PendingAttempt(t.evt)]}
    /\ invocations' = Again(invocations, t.evt)
    /\ UNCHANGED <<streamVars, groupVars, loopVars, disruptions, buried,
                   discarded, failures, handled, exhausted>>

(* pending_attempt returns an error. *)
AttemptUnknown(t) ==
    /\ t.phase = "claimed"
    /\ t.evt \notin service.invalid
    /\ Disrupt
    /\ Becomes(t, "failed")
    /\ UNCHANGED <<streamVars, groupVars, loopVars, buried, historyVars>>

(* touch_pending: XCLAIM with IDLE 0, JUSTID and without FORCE; it too drops a
   pending entry that no longer exists. *)
Touch(t) ==
    /\ stale' = stale \ {t.evt}
    /\ pending' = IF Trimmed(t.evt) THEN pending \ {t.evt} ELSE pending
    /\ UNCHANGED <<seen, deliveries>>

(* Every heartbeat interval while the handler runs. *)
Heartbeat(t) ==
    /\ t.phase = "running"
    /\ Touch(t)
    /\ UNCHANGED <<streamVars, loopVars, tasks, disruptions, buried, historyVars>>

HeartbeatFails(t) ==
    /\ t.phase = "running"
    /\ Disrupt
    /\ Touch(t) \/ UNCHANGED groupVars
    /\ Becomes(t, "failed")
    /\ UNCHANGED <<streamVars, loopVars, buried, historyVars>>

(* The handler returns Ok or a client error. *)
HandlerSettles(t) ==
    /\ t.phase = "running"
    /\ handled' = handled \cup {t.evt}
    /\ Becomes(t, "ack")
    /\ UNCHANGED <<streamVars, groupVars, loopVars, disruptions, buried,
                   discarded, invocations, failures, exhausted>>

(* Mutant: the attempt before the last one is already the last. *)
HandlerFails_OffByOne(t) ==
    /\ t.phase = "running"
    /\ failures' = Again(failures, t.evt)
    /\ IF t.attempt + 1 < MaxDeliveries
       THEN Ends(t) /\ UNCHANGED exhausted
       ELSE /\ Becomes(t, IF service.deadLetters THEN "bury" ELSE "ack")
            /\ exhausted' = exhausted \cup {t.evt}
    /\ UNCHANGED <<streamVars, groupVars, loopVars, disruptions, buried,
                   discarded, invocations, handled>>

(* The handler returns a server error: retried by leaving the entry pending,
   or given up at the last attempt. *)
HandlerFails(t) ==
    /\ t.phase = "running"
    /\ failures' = Again(failures, t.evt)
    /\ IF t.attempt < MaxDeliveries
       THEN Ends(t) /\ UNCHANGED exhausted
       ELSE /\ Becomes(t, IF service.deadLetters THEN "bury" ELSE "ack")
            /\ exhausted' = exhausted \cup {t.evt}
    /\ UNCHANGED <<streamVars, groupVars, loopVars, disruptions, buried,
                   discarded, invocations, handled>>

(* A panic reaches the loop as a JoinError. *)
HandlerPanics(t) ==
    /\ t.phase = "running"
    /\ Disrupt
    /\ Becomes(t, "failed")
    /\ UNCHANGED <<streamVars, groupVars, loopVars, buried, historyVars>>

Bury(t) ==
    /\ t.phase = "bury"
    /\ buried' = Again(buried, t.evt)
    /\ Becomes(t, "ack")
    /\ UNCHANGED <<streamVars, groupVars, loopVars, disruptions, historyVars>>

(* Mutant: the event is acknowledged although its dead letter was refused. *)
BuryFails_Acked(t) ==
    /\ t.phase = "bury"
    /\ Disrupt
    /\ Becomes(t, "ack")
    /\ UNCHANGED <<streamVars, groupVars, loopVars, buried, historyVars>>

(* The entry stays pending so that the publication is retried. *)
BuryFails(t) ==
    /\ t.phase = "bury"
    /\ Disrupt
    /\ buried' \in {buried, Again(buried, t.evt)}
    /\ Ends(t)
    /\ UNCHANGED <<streamVars, groupVars, loopVars, historyVars>>

Ack(t) ==
    /\ t.phase = "ack"
    /\ XACK(t.evt)
    /\ Ends(t)
    /\ UNCHANGED <<streamVars, loopVars, disruptions, buried, historyVars>>

AckFails(t) ==
    /\ t.phase = "ack"
    /\ Disrupt
    /\ XACK(t.evt) \/ UNCHANGED groupVars
    /\ Becomes(t, "failed")
    /\ UNCHANGED <<streamVars, loopVars, buried, historyVars>>

-----------------------------------------------------------------------------
ReplicaNext(r) ==
    \/ StartReplica(r) \/ CancelReplica(r) \/ BeginFetch(r) \/ Reclaim(r)
    \/ ReadGroup(r) \/ FetchFails(r) \/ LoopFails(r) \/ Drained(r)
    \/ ShutdownAborts(r) \/ Crash(r)

TaskNext(t) ==
    \/ Discard(t) \/ Invoke(t) \/ AttemptUnknown(t) \/ Heartbeat(t)
    \/ HeartbeatFails(t) \/ HandlerSettles(t) \/ HandlerFails(t)
    \/ HandlerPanics(t) \/ Bury(t) \/ BuryFails(t) \/ Ack(t) \/ AckFails(t)

Next ==
    /\ \/ \E e \in Events : Emit(e) \/ IdleElapses(e)
       \/ \E r \in Replicas : ReplicaNext(r)
       \/ \E t \in tasks : TaskNext(t)
    /\ UNCHANGED service

Spec == Init /\ [][Next]_vars

(* Time passes for unattended entries, a replica that runs polls, spawns and
   notices finished tasks, and a task that runs is scheduled until it ends.
   Nothing is assumed of clients, starts, stops or disruptions, nor of what
   the handler returns. *)
Progress(t) ==
    \/ Discard(t) \/ Invoke(t) \/ HandlerSettles(t) \/ HandlerFails(t)
    \/ Bury(t) \/ Ack(t)

Fairness ==
    /\ \A e \in Events : WF_stateVars(~Attended(e) /\ IdleElapses(e))
    /\ \A r \in Replicas :
        /\ WF_stateVars(BeginFetch(r))
        /\ WF_stateVars(Reclaim(r))
        /\ WF_stateVars(ReadGroup(r))
        /\ WF_stateVars(LoopFails(r))
        /\ \A e \in Events :
            WF_stateVars(\E t \in tasks : t.rep = r /\ t.evt = e /\ Progress(t))

FairSpec == Spec /\ Fairness

-----------------------------------------------------------------------------
(* Properties. *)

(* At least once: an event that the group has been given and that retention
   spared is pending until the handler settled it, it was discarded, or its
   last attempt failed and, if there is a dead-letter Stream, it is there
   (process_event_entry: every ack comes last). *)
AtLeastOnce ==
    \A e \in seen :
        \/ e \in pending \/ Trimmed(e)
        \/ e \in handled \cup discarded
        \/ e \in exhausted /\ (service.deadLetters => buried[e] > 0)

(* The handler of an event is invoked at most max_event_deliveries times, plus
   once for every disruption: the broker's delivery count, the attempt that
   pending_attempt reads back and the retry by idle time agree. *)
BoundedInvocations ==
    \A e \in Events : invocations[e] <= MaxDeliveries + disruptions

(* A dead letter is an event whose deliveries were used up; undisrupted, it is
   one copy of an event that failed every permitted time and never succeeded. *)
HonestDeadLetters ==
    \A e \in Events : buried[e] > 0 =>
        /\ deliveries[e] >= MaxDeliveries
        /\ disruptions = 0 =>
            buried[e] = 1 /\ failures[e] = MaxDeliveries /\ e \notin handled

(* The attempt a handler is told (MessageDelivery::attempt) counts the failed
   attempts before it, although it is read in a separate call after the entry
   was claimed and while heartbeats claim the entry too. *)
AttemptCounts ==
    \A t \in tasks :
        t.phase = "running" /\ disruptions = 0 /\ ~Trimmed(t.evt)
            => t.attempt = failures[t.evt] + 1

(* The JoinSet never holds more than max_handler_concurrency tasks. *)
ConcurrencyBound ==
    \A r \in Replicas : Cardinality(TasksOf(r)) <= Concurrency

(* With one replica that stays up, every event of the Stream is in the end
   delivered and acknowledged, trimmed, or dropped from the pending list. *)
EveryEventLeaves ==
    (\E r \in Replicas : <>[](status[r] = "up"))
        => \A e \in Events : Emitted(e) ~> (e \notin pending /\ e \notin Undelivered)

(* The documentation calls max_event_deliveries the "final delivery attempt":
   no event is delivered more often. *)
DeliveriesCapped ==
    \A e \in Events : deliveries[e] <= MaxDeliveries
=============================================================================
