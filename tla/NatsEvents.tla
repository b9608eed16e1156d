---------------------------- MODULE NatsEvents -----------------------------
(***************************************************************************)
(* Events over NATS JetStream as one handler sees them: emit, the durable  *)
(* pull consumer that start() declares, and the replicas, each running     *)
(* consume_event with a bounded set of spawned process_event tasks         *)
(* (crates/caelix-microservices/src/lib.rs).                               *)
(*                                                                         *)
(* JetStream is external: it keeps at most max_ack_pending deliveries      *)
(* outstanding over all replicas, and makes a delivery again when ack_wait *)
(* has elapsed without an acknowledgement.  An acknowledgement counts      *)
(* whichever delivery it answers.  A replica's client holds deliveries     *)
(* that consume_event has not taken yet.                                   *)
(***************************************************************************)
EXTENDS Integers, FiniteSets

CONSTANTS
    Events,          \* events clients may emit
    Invalid,         \* those terminated unseen: too large or not decodable
    Replicas,        \* processes that run the service
    Concurrency,     \* max_handler_concurrency, also max_ack_pending
    MaxDeliveries,   \* max_event_deliveries
    Batch,           \* deliveries that one pull request asks for
    DeadLetters,     \* is a dead_letter_subject configured?
    MaxStops,        \* bound of the model: orderly stops of replicas
    MaxDisruptions   \* bound of the model: disruptions the environment inflicts

ASSUME EventsAssumption == IsFiniteSet(Events) /\ Invalid \subseteq Events
ASSUME LimitsAssumption ==
    /\ Concurrency \in Nat \ {0}
    /\ MaxDeliveries \in Nat \ {0}
    /\ Batch \in Nat \ {0}
    /\ DeadLetters \in BOOLEAN
ASSUME BoundsAssumption == MaxStops \in Nat /\ MaxDisruptions \in Nat
ASSUME ReplicasAssumption == IsFiniteSet(Replicas)

VARIABLES
    stage,        \* where JetStream has each event
    delivered,    \* how often it was delivered
    status,       \* is the replica's consume_event at work, draining or over
    buffer,       \* per replica, deliveries not yet taken
    tasks,        \* the in_flight JoinSet of every replica
    stops,        \* orderly stops so far
    disruptions,  \* crashes, failed calls, panics, stalls, failed loops
    buried,       \* copies of each event under the dead-letter subject
    discarded,    \* history: events terminated without an invocation
    invocations,  \* history: how often the handler was invoked
    failures,     \* history: how often it returned a server error
    handled,      \* history: events it accepted, or refused with a client error
    exhausted     \* history: events whose last permitted attempt failed

brokerVars == <<stage, delivered>>
replicaVars == <<status, buffer, stops>>
historyVars == <<discarded, invocations, failures, handled, exhausted>>
vars == <<brokerVars, replicaVars, tasks, disruptions, buried, historyVars>>

Stages == {"new", "ready", "outstanding", "delayed", "settled"}
Delivery == [evt: Events, nth: Nat]
Task == [rep: Replicas, evt: Events, nth: Nat,
         phase: {"claimed", "running", "bury", "settle", "nak", "failed"}]

Outstanding == {e \in Events : stage[e] = "outstanding"}
TasksOf(r) == {t \in tasks : t.rep = r}

TypeOK ==
    /\ stage \in [Events -> Stages]
    /\ Cardinality(Outstanding) <= Concurrency
    /\ delivered \in [Events -> Nat]
    /\ status \in [Replicas -> {"down", "up", "draining"}]
    /\ buffer \in [Replicas -> SUBSET Delivery]
    /\ tasks \subseteq Task
    /\ \A r \in Replicas : Cardinality(TasksOf(r)) <= Concurrency
    /\ \A t \in tasks : t.nth \in 1..delivered[t.evt]
    /\ stops \in Nat
    /\ disruptions \in Nat
    /\ buried \in [Events -> Nat]
    /\ discarded \subseteq Invalid
    /\ invocations \in [Events -> Nat]
    /\ failures \in [Events -> Nat]
    /\ handled \subseteq Events
    /\ exhausted \subseteq Events

None == [e \in Events |-> 0]

Init ==
    /\ stage = [e \in Events |-> "new"]
    /\ delivered = None
    /\ status = [r \in Replicas |-> "down"]
    /\ buffer = [r \in Replicas |-> {}]
    /\ tasks = {}
    /\ stops = 0
    /\ disruptions = 0
    /\ buried = None
    /\ discarded = {} /\ handled = {} /\ exhausted = {}
    /\ invocations = None /\ failures = None

Disrupted == disruptions' = disruptions + 1

(* A disruption the environment chooses to inflict. *)
Disrupt ==
    /\ disruptions < MaxDisruptions
    /\ Disrupted

Again(count, e) == [count EXCEPT ![e] = @ + 1]

-----------------------------------------------------------------------------
(* The client and JetStream. *)

Moves(e, s) == stage' = [stage EXCEPT ![e] = s]

(* MicroserviceClient::emit. *)
Emit(e) ==
    /\ stage[e] = "new"
    /\ Moves(e, "ready")
    /\ UNCHANGED <<delivered, replicaVars, tasks, disruptions, buried, historyVars>>

(* A pull request of the replica is answered.  One is open while its message
   stream lives, also while it drains, when nothing takes from the stream. *)
Deliver(r, e) ==
    /\ status[r] # "down"
    /\ stage[e] = "ready"
    /\ Cardinality(buffer[r]) < Batch
    /\ Cardinality(Outstanding) < Concurrency
    /\ Moves(e, "outstanding")
    /\ delivered' = Again(delivered, e)
    /\ buffer' = [buffer EXCEPT ![r] = @ \cup {[evt |-> e, nth |-> delivered'[e]]}]
    /\ UNCHANGED <<status, stops, tasks, disruptions, buried, historyVars>>

Attended(e) ==
    \/ \E t \in tasks : t.evt = e /\ t.phase # "failed"
    \/ \E r \in Replicas : status[r] = "up" /\ \E d \in buffer[r] : d.evt = e

(* ack_wait elapses.  While a task holds the event, or a loop that runs is
   about to take it, this takes a stall: progress is reported twice as often. *)
AckWaitElapses(e) ==
    /\ stage[e] = "outstanding"
    /\ Moves(e, "ready")
    /\ IF Attended(e) THEN Disrupt ELSE UNCHANGED disruptions
    /\ UNCHANGED <<delivered, replicaVars, tasks, buried, historyVars>>

(* event_retry_delay of a negative acknowledgement elapses. *)
RetryDelayElapses(e) ==
    /\ stage[e] = "delayed"
    /\ Moves(e, "ready")
    /\ UNCHANGED <<delivered, replicaVars, tasks, disruptions, buried, historyVars>>

(* Ack and Term end the deliveries of an event. *)
ACK(e) == Moves(e, "settled")

(* Nak asks for another delivery after a delay; one that answers an earlier
   delivery than the last may or may not be taken into account. *)
NAK(t) ==
    IF stage[t.evt] = "outstanding"
    THEN \/ Moves(t.evt, "delayed")
         \/ t.nth < delivered[t.evt] /\ UNCHANGED stage
    ELSE UNCHANGED stage

-----------------------------------------------------------------------------
(* The replica: consume_event, and run as far as it ends it. *)

StartReplica(r) ==
    /\ status[r] = "down"
    /\ status' = [status EXCEPT ![r] = "up"]
    /\ UNCHANGED <<brokerVars, buffer, stops, tasks, disruptions, buried, historyVars>>

Take(r, d) ==
    /\ status[r] = "up"
    /\ d \in buffer[r]
    /\ Cardinality(TasksOf(r)) < Concurrency
    /\ buffer' = [buffer EXCEPT ![r] = @ \ {d}]
    /\ tasks' = tasks \cup
           {[rep |-> r, evt |-> d.evt, nth |-> d.nth, phase |-> "claimed"]}
    /\ UNCHANGED <<brokerVars, status, stops, disruptions, buried, historyVars>>

CancelReplica(r) ==
    /\ status[r] = "up"
    /\ stops < MaxStops
    /\ stops' = stops + 1
    /\ status' = [status EXCEPT ![r] = "draining"]
    /\ UNCHANGED <<brokerVars, buffer, tasks, disruptions, buried, historyVars>>

(* The message stream, its buffer and the JoinSet are dropped. *)
Abandon(r) ==
    /\ status' = [status EXCEPT ![r] = "down"]
    /\ buffer' = [buffer EXCEPT ![r] = {}]
    /\ tasks' = tasks \ TasksOf(r)
    /\ UNCHANGED stops

Drained(r) ==
    /\ status[r] = "draining"
    /\ TasksOf(r) = {}
    /\ Abandon(r)
    /\ UNCHANGED <<brokerVars, disruptions, buried, historyVars>>

(* Mutant: failed tasks are noticed only when the loop is cancelled. *)
LoopFails_Late(r) ==
    /\ status[r] = "draining"
    /\ \E t \in TasksOf(r) : t.phase = "failed"
    /\ Disrupted
    /\ Abandon(r)
    /\ UNCHANGED <<brokerVars, buried, historyVars>>

(* task_result of a failed task ends consume_event and the runtime, at work
   or draining. *)
LoopFails(r) ==
    /\ \E t \in TasksOf(r) : t.phase = "failed"
    /\ Disrupted
    /\ Abandon(r)
    /\ UNCHANGED <<brokerVars, buried, historyVars>>

(* The process dies, shutdown_timeout elapses, or the message stream fails. *)
Crash(r) ==
    /\ status[r] # "down"
    /\ Disrupt
    /\ Abandon(r)
    /\ UNCHANGED <<brokerVars, buried, historyVars>>

-----------------------------------------------------------------------------
(* A spawned task: process_event. *)

Becomes(t, p) == tasks' = (tasks \ {t}) \cup {[t EXCEPT !.phase = p]}
Ends(t) == tasks' = tasks \ {t}

Discard(t) ==
    /\ t.phase = "claimed"
    /\ t.evt \in Invalid
    /\ Becomes(t, "settle")
    /\ discarded' = discarded \cup {t.evt}
    /\ UNCHANGED <<brokerVars, replicaVars, disruptions, buried, invocations,
                   failures, handled, exhausted>>

Invoke(t) ==
    /\ t.phase = "claimed"
    /\ t.evt \notin Invalid
    /\ Becomes(t, "running")
    /\ invocations' = Again(invocations, t.evt)
    /\ UNCHANGED <<brokerVars, replicaVars, disruptions, buried, discarded,
                   failures, handled, exhausted>>

(* The handler returns Ok or a client error. *)
HandlerSettles(t) ==
    /\ t.phase = "running"
    /\ Becomes(t, "settle")
    /\ handled' = handled \cup {t.evt}
    /\ UNCHANGED <<brokerVars, replicaVars, disruptions, buried, discarded,
                   invocations, failures, exhausted>>

(* Mutant: the delivery before the last one is already the last. *)
HandlerFails_OneLess(t) ==
    /\ t.phase = "running"
    /\ failures' = Again(failures, t.evt)
    /\ IF t.nth + 1 < MaxDeliveries
       THEN Becomes(t, "nak") /\ UNCHANGED exhausted
       ELSE /\ Becomes(t, IF DeadLetters THEN "bury" ELSE "settle")
            /\ exhausted' = exhausted \cup {t.evt}
    /\ UNCHANGED <<brokerVars, replicaVars, disruptions, buried, discarded,
                   invocations, handled>>

(* The handler returns a server error: retried, or given up at the last
   permitted delivery. *)
HandlerFails(t) ==
    /\ t.phase = "running"
    /\ failures' = Again(failures, t.evt)
    /\ IF t.nth < MaxDeliveries
       THEN Becomes(t, "nak") /\ UNCHANGED exhausted
       ELSE /\ Becomes(t, IF DeadLetters THEN "bury" ELSE "settle")
            /\ exhausted' = exhausted \cup {t.evt}
    /\ UNCHANGED <<brokerVars, replicaVars, disruptions, buried, discarded,
                   invocations, handled>>

Bury(t) ==
    /\ t.phase = "bury"
    /\ buried' = Again(buried, t.evt)
    /\ Becomes(t, "settle")
    /\ UNCHANGED <<brokerVars, replicaVars, disruptions, historyVars>>

(* Mutant: the event is terminated although its dead letter was refused. *)
BuryFails_Terminated(t) ==
    /\ t.phase = "bury"
    /\ Disrupt
    /\ buried' \in {buried, Again(buried, t.evt)}
    /\ Becomes(t, "settle")
    /\ UNCHANGED <<brokerVars, replicaVars, historyVars>>

(* The dead letter is refused, or its acknowledgement is lost: the event is
   delivered again so that the publication is retried. *)
BuryFails(t) ==
    /\ t.phase = "bury"
    /\ Disrupt
    /\ buried' \in {buried, Again(buried, t.evt)}
    /\ Becomes(t, "nak")
    /\ UNCHANGED <<brokerVars, replicaVars, historyVars>>

(* ack(), Term and Nak are sent without waiting for an answer. *)
Answer(t) ==
    /\ \/ t.phase = "settle" /\ ACK(t.evt)
       \/ t.phase = "nak" /\ NAK(t)
    /\ Ends(t)
    /\ UNCHANGED <<delivered, replicaVars, disruptions, buried, historyVars>>

AnswerLost(t) ==
    /\ t.phase \in {"settle", "nak"}
    /\ Disrupt
    /\ Ends(t)
    /\ UNCHANGED <<brokerVars, replicaVars, buried, historyVars>>

(* A panic, or an acknowledgement or progress report that cannot be sent. *)
TaskFails(t) ==
    /\ t.phase \in {"running", "settle", "nak"}
    /\ Disrupt
    /\ Becomes(t, "failed")
    /\ UNCHANGED <<brokerVars, replicaVars, buried, historyVars>>

-----------------------------------------------------------------------------
ReplicaNext(r) ==
    \/ StartReplica(r) \/ CancelReplica(r) \/ Drained(r) \/ LoopFails(r) \/ Crash(r)
    \/ \E e \in Events : Deliver(r, e)
    \/ \E d \in buffer[r] : Take(r, d)

TaskNext(t) ==
    \/ Discard(t) \/ Invoke(t) \/ HandlerSettles(t) \/ HandlerFails(t)
    \/ Bury(t) \/ BuryFails(t) \/ Answer(t) \/ AnswerLost(t) \/ TaskFails(t)

Next ==
    \/ \E e \in Events : Emit(e) \/ AckWaitElapses(e) \/ RetryDelayElapses(e)
    \/ \E r \in Replicas : ReplicaNext(r)
    \/ \E t \in tasks : TaskNext(t)

Spec == Init /\ [][Next]_vars

(* Time passes, JetStream answers the pull requests of a replica that runs,
   whose loop takes deliveries and meets finished tasks; a task that runs is
   scheduled until it ends.  Nothing is assumed of clients, starts, stops or
   disruptions, nor of what the handler returns. *)
Steps(t) ==
    \/ Discard(t) \/ Invoke(t) \/ HandlerSettles(t) \/ HandlerFails(t)
    \/ Bury(t) \/ Answer(t)

Fairness ==
    /\ \A e \in Events :
        /\ WF_vars(~Attended(e) /\ AckWaitElapses(e))
        /\ WF_vars(RetryDelayElapses(e))
    /\ \A r \in Replicas :
        /\ WF_vars(Drained(r))
        /\ WF_vars(LoopFails(r))
        /\ \A e \in Events :
            /\ WF_vars(Deliver(r, e))
            /\ WF_vars(\E d \in buffer[r] : d.evt = e /\ Take(r, d))
            /\ WF_vars(\E t \in TasksOf(r) : t.evt = e /\ Steps(t))

FairSpec == Spec /\ Fairness

-----------------------------------------------------------------------------
(* Properties. *)

(* At least once: deliveries of an event end only when its handler settled it,
   it was terminated unseen, or its last permitted attempt failed and, if a
   dead-letter subject is configured, it was published there. *)
AtLeastOnce ==
    \A e \in Events : stage[e] = "settled" =>
        \/ e \in handled \cup discarded
        \/ e \in exhausted /\ (DeadLetters => buried[e] > 0)

(* The handler of an event is invoked at most max_event_deliveries times, plus
   once for every disruption. *)
BoundedInvocations ==
    \A e \in Events : invocations[e] <= MaxDeliveries + disruptions

(* A dead letter is an event whose deliveries were used up, though some may
   have gone to a replica about to stop; undisrupted, it is one copy of an event
   whose handler failed whenever it was invoked. *)
HonestDeadLetters ==
    \A e \in Events : buried[e] > 0 =>
        /\ delivered[e] >= MaxDeliveries
        /\ disruptions = 0 =>
            buried[e] = 1 /\ failures[e] = invocations[e] /\ e \notin handled

(* With one replica that stays up every event is settled in the end: deliveries
   that a stopped replica held do not block the others (max_ack_pending). *)
EveryEventSettles ==
    (\E r \in Replicas : <>[](status[r] = "up"))
        => \A e \in Events : stage[e] = "ready" ~> stage[e] = "settled"
=============================================================================
