--------------------------- MODULE RedisCommands ---------------------------
(***************************************************************************)
(* Request/reply commands over Redis Streams: the client's request, the    *)
(* Stream with its consumer group, and the replicas of one service, each   *)
(* running command_loop with a bounded set of spawned process_command_entry*)
(* tasks (crates/caelix-microservices/src/redis_transport.rs).             *)
(*                                                                         *)
(* The model has one command subject, hence one Stream and one group. A    *)
(* Stream entry is identified with the command it carries.  Redis keeps an *)
(* entry either undelivered or pending; a pending entry is stale once it   *)
(* has been idle for command_recovery_delay.  Which consumer owns a pending*)
(* entry is left out: no call of the code depends on it.                   *)
(***************************************************************************)
EXTENDS Integers, FiniteSets

CONSTANTS
    Commands,        \* commands a client may send, one Stream entry each
    Replicas,        \* processes that run the service
    Kind,            \* what the service makes of a command's envelope
    Concurrency,     \* max_handler_concurrency
    MaxDisruptions   \* bound of the model: disruptions the environment inflicts

(* "valid": accepted.  "malformed": missing, oversized or undecodable, or a
   correlation id or reply channel out of range.  "version": another protocol
   version.  "unanswerable": accepted, but its correlation id leaves no room
   for any response envelope within max_response_bytes.                     *)
Kinds == {"valid", "malformed", "version", "unanswerable"}

ASSUME CommandsAssumption == Kind \in [Commands -> Kinds]
ASSUME ConcurrencyAssumption == Concurrency \in Nat \ {0}
ASSUME BoundAssumption == MaxDisruptions \in Nat
ASSUME ReplicasAssumption == IsFiniteSet(Replicas)

VARIABLES
    client,       \* where the request() call of each command is
    inbox,        \* reply channel of each command: "closed" while nobody is
                  \* subscribed, "none", or the first message
    undelivered,  \* entries the group has not delivered to any consumer
    pending,      \* entries in the group's pending list
    stale,        \* pending entries idle for command_recovery_delay
    expired,      \* commands whose deadline has passed
    status,       \* is the replica's run() active, cancelled or over
    loop,         \* the next broker call of the replica's command_loop
    room,         \* the `capacity` the loop computed for that call
    tasks,        \* the in_flight JoinSet of every replica
    disruptions,  \* crashes, broker errors, panics, stalls, failed loops
    added,        \* history: commands appended to the Stream
    claims,       \* history: how often each entry was delivered
    invoked,      \* history: the deliveries whose handler was invoked
    returned,     \* history: commands whose handler has returned
    rejected,     \* history: commands refused without invoking the handler
    answered      \* history: commands for which a response was published

clientVars == <<client, inbox>>
streamVars == <<undelivered, pending, stale>>
loopVars == <<status, loop, room>>
historyVars == <<added, claims, invoked, returned, rejected, answered>>
vars == <<clientVars, streamVars, expired, loopVars, tasks, disruptions,
          historyVars>>

Bodies == {"success", "error", "expired", "protocol"}
Phases == {"claimed", "running", "publish", "complete", "failed"}

Task == [rep: Replicas, cmd: Commands, turn: Nat, phase: Phases,
         body: Bodies \cup {"none"}, failing: BOOLEAN]

TypeOK ==
    /\ client \in [Commands -> {"new", "subscribed", "waiting", "gone"} \cup Bodies]
    /\ inbox \in [Commands -> Bodies \cup {"closed", "none"}]
    /\ undelivered \subseteq Commands
    /\ pending \subseteq Commands
    /\ stale \subseteq pending
    /\ expired \subseteq Commands
    /\ status \in [Replicas -> {"down", "up", "stopping"}]
    /\ loop \in [Replicas -> {"top", "fetch", "read"}]
    /\ room \in [Replicas -> 0..Concurrency]
    /\ tasks \subseteq Task
    /\ IsFiniteSet(tasks)
    /\ disruptions \in Nat
    /\ added \subseteq Commands
    /\ claims \in [Commands -> Nat]
    /\ invoked \in [Commands -> SUBSET Nat]
    /\ returned \subseteq Commands
    /\ rejected \subseteq Commands
    /\ answered \subseteq Commands

Init ==
    /\ client = [c \in Commands |-> "new"]
    /\ inbox = [c \in Commands |-> "closed"]
    /\ undelivered = {} /\ pending = {} /\ stale = {}
    /\ expired = {}
    /\ status = [r \in Replicas |-> "down"]
    /\ loop = [r \in Replicas |-> "top"]
    /\ room = [r \in Replicas |-> 0]
    /\ tasks = {}
    /\ disruptions = 0
    /\ added = {}
    /\ claims = [c \in Commands |-> 0]
    /\ invoked = [c \in Commands |-> {}]
    /\ returned = {} /\ rejected = {} /\ answered = {}

-----------------------------------------------------------------------------
(* The client: RedisClient::request. *)

(* The reply channel is subscribed before the command is appended. *)
Subscribe(c) ==
    /\ client[c] = "new"
    /\ client' = [client EXCEPT ![c] = "subscribed"]
    /\ inbox' = [inbox EXCEPT ![c] = "none"]
    /\ UNCHANGED <<streamVars, expired, loopVars, tasks, disruptions,
                   historyVars>>

XADD(c) ==
    /\ undelivered' = undelivered \cup {c}
    /\ added' = added \cup {c}
    /\ UNCHANGED <<pending, stale>>

(* Mutant: the command is appended before the reply channel is subscribed. *)
Send_Early(c) ==
    /\ client[c] = "new"
    /\ XADD(c)
    /\ client' = [client EXCEPT ![c] = "waiting"]
    /\ UNCHANGED <<inbox, expired, loopVars, tasks, disruptions, claims,
                   invoked, returned, rejected, answered>>

Send(c) ==
    /\ client[c] = "subscribed"
    /\ XADD(c)
    /\ client' = [client EXCEPT ![c] = "waiting"]
    /\ UNCHANGED <<inbox, expired, loopVars, tasks, disruptions, claims,
                   invoked, returned, rejected, answered>>

(* Mutant: a request whose append went unheard is sent again. *)
SendUnheard_Retried(c) ==
    /\ client[c] = "subscribed"
    /\ XADD(c)
    /\ UNCHANGED <<clientVars, expired, loopVars, tasks, disruptions, claims,
                   invoked, returned, rejected, answered>>

(* The append takes effect although the call already timed out or lost its
   connection: the caller is gone and the command is in the Stream. *)
SendUnheard(c) ==
    /\ client[c] = "subscribed"
    /\ XADD(c)
    /\ client' = [client EXCEPT ![c] = "gone"]
    /\ inbox' = [inbox EXCEPT ![c] = "closed"]
    /\ UNCHANGED <<expired, loopVars, tasks, disruptions, claims,
                   invoked, returned, rejected, answered>>

(* rpc_timeout elapses, or the append or the subscription fails. *)
GiveUp(c) ==
    /\ client[c] \in {"subscribed", "waiting"}
    /\ client' = [client EXCEPT ![c] = "gone"]
    /\ inbox' = [inbox EXCEPT ![c] = "closed"]
    /\ UNCHANGED <<streamVars, expired, loopVars, tasks, disruptions,
                   historyVars>>

Receive(c) ==
    /\ client[c] = "waiting"
    /\ inbox[c] \in Bodies
    /\ client' = [client EXCEPT ![c] = inbox[c]]
    /\ inbox' = [inbox EXCEPT ![c] = "closed"]
    /\ UNCHANGED <<streamVars, expired, loopVars, tasks, disruptions,
                   historyVars>>

-----------------------------------------------------------------------------
(* Broker primitives and failures. *)

Disrupted == disruptions' = disruptions + 1

(* A disruption the environment chooses to inflict. *)
Disrupt ==
    /\ disruptions < MaxDisruptions
    /\ Disrupted

(* Pub/Sub delivers to the subscribers of the moment and to nobody later; the
   client reads one message only. *)
PUBLISH(c, body) ==
    inbox' = IF inbox[c] = "none" THEN [inbox EXCEPT ![c] = body] ELSE inbox

(* XACK and XDEL in one transaction. *)
AckDelete(c) ==
    /\ pending' = pending \ {c}
    /\ stale' = stale \ {c}
    /\ undelivered' = undelivered \ {c}

(* A broker call that reads up to `n` of the available entries. *)
Fills(S, available, n) ==
    /\ S \subseteq available
    /\ IsFiniteSet(S)
    /\ IF S = available THEN Cardinality(S) <= n ELSE Cardinality(S) = n

Delivered(S) ==
    claims' = [c \in Commands |-> IF c \in S THEN claims[c] + 1 ELSE claims[c]]

(* Mutant: min-idle zero. *)
XAUTOCLAIM_AnyIdle(r, S) ==
    /\ Fills(S, pending, room[r])
    /\ stale' = stale \ S
    /\ Delivered(S)
    /\ UNCHANGED <<undelivered, pending>>

(* XAUTOCLAIM, min-idle command_recovery_delay. *)
XAUTOCLAIM(r, S) ==
    /\ Fills(S, stale, room[r])
    /\ stale' = stale \ S
    /\ Delivered(S)
    /\ UNCHANGED <<undelivered, pending>>

(* XREADGROUP with id ">". *)
XREADGROUP(r, S) ==
    /\ Fills(S, undelivered, room[r])
    /\ undelivered' = undelivered \ S
    /\ pending' = pending \cup S
    /\ Delivered(S)
    /\ UNCHANGED stale

Live(t) == t.phase # "failed"
Attended(c) == \E t \in tasks : t.cmd = c /\ Live(t)

(* A pending entry has been idle for command_recovery_delay.  While a task
   holds it this takes a stall: heartbeats or broker calls late by that much. *)
IdleElapses(c) ==
    /\ c \in pending \ stale
    /\ stale' = stale \cup {c}
    /\ IF Attended(c) THEN Disrupt ELSE UNCHANGED disruptions
    /\ UNCHANGED <<clientVars, undelivered, pending, expired, loopVars, tasks,
                   historyVars>>

(* The wall clock reaches deadline_unix_millis. *)
DeadlinePasses(c) ==
    /\ c \notin expired
    /\ c \in undelivered \cup pending \/ \E t \in tasks : t.cmd = c
    /\ expired' = expired \cup {c}
    /\ UNCHANGED <<clientVars, streamVars, loopVars, tasks, disruptions,
                   historyVars>>

-----------------------------------------------------------------------------
(* The replica: RedisRuntime::run and command_loop. *)

TasksOf(r) == {t \in tasks : t.rep = r}
Doomed(r) == \E t \in TasksOf(r) : ~Live(t)

(* run(): the group exists from entry 0 on, and the loop is spawned. *)
StartReplica(r) ==
    /\ status[r] = "down"
    /\ status' = [status EXCEPT ![r] = "up"]
    /\ UNCHANGED <<clientVars, streamVars, expired, loop, room, tasks,
                   disruptions, historyVars>>

(* Ctrl-C cancels the loop and its tasks' tokens. *)
CancelReplica(r) ==
    /\ status[r] = "up"
    /\ status' = [status EXCEPT ![r] = "stopping"]
    /\ UNCHANGED <<clientVars, streamVars, expired, loop, room, tasks,
                   disruptions, historyVars>>

(* Top of the loop: not cancelled, no finished task with an error, and the
   JoinSet is not full. *)
BeginFetch(r) ==
    /\ status[r] = "up"
    /\ loop[r] = "top"
    /\ ~Doomed(r)
    /\ Cardinality(TasksOf(r)) < Concurrency
    /\ room' = [room EXCEPT ![r] = Concurrency - Cardinality(TasksOf(r))]
    /\ loop' = [loop EXCEPT ![r] = "fetch"]
    /\ UNCHANGED <<clientVars, streamVars, expired, status, tasks, disruptions,
                   historyVars>>

NewTask(r, c) ==
    [rep |-> r, cmd |-> c, turn |-> claims[c] + 1, phase |-> "claimed",
     body |-> "none", failing |-> FALSE]

Spawn(r, S) == tasks' = tasks \cup {NewTask(r, c) : c \in S}

(* Mutant: pending entries of other consumers are never claimed. *)
Reclaim_Never(r) ==
    /\ loop[r] = "fetch"
    /\ loop' = [loop EXCEPT ![r] = "read"]
    /\ UNCHANGED <<clientVars, streamVars, expired, status, room, tasks,
                   disruptions, historyVars>>

(* reclaim(): recovered entries are spawned; with none, the loop goes on to
   read_group(). *)
Reclaim(r) ==
    /\ loop[r] = "fetch"
    /\ \E S \in SUBSET pending :
        /\ XAUTOCLAIM(r, S)
        /\ Spawn(r, S)
        /\ IF S = {}
           THEN loop' = [loop EXCEPT ![r] = "read"] /\ UNCHANGED room
           ELSE loop' = [loop EXCEPT ![r] = "top"] /\ room' = [room EXCEPT ![r] = 0]
    /\ UNCHANGED <<clientVars, expired, status, disruptions, added, invoked,
                   returned, rejected, answered>>

ReadGroup(r) ==
    /\ loop[r] = "read"
    /\ \E S \in SUBSET undelivered :
        /\ XREADGROUP(r, S)
        /\ Spawn(r, S)
    /\ loop' = [loop EXCEPT ![r] = "top"]
    /\ room' = [room EXCEPT ![r] = 0]
    /\ UNCHANGED <<clientVars, expired, status, disruptions, added, invoked,
                   returned, rejected, answered>>

(* The replica is over and the futures of its tasks are dropped. *)
Abandon(r) ==
    /\ status' = [status EXCEPT ![r] = "down"]
    /\ loop' = [loop EXCEPT ![r] = "top"]
    /\ room' = [room EXCEPT ![r] = 0]
    /\ tasks' = tasks \ TasksOf(r)

(* A broker call of the loop that was never answered: executed or not. *)
CallLost(r) ==
    \/ loop[r] = "fetch" /\ \E S \in SUBSET pending : XAUTOCLAIM(r, S)
    \/ loop[r] = "read" /\ \E S \in SUBSET undelivered : XREADGROUP(r, S)
    \/ UNCHANGED <<streamVars, claims>>

(* reclaim() or read_group() returns an error: command_loop returns it. *)
FetchFails(r) ==
    /\ loop[r] \in {"fetch", "read"}
    /\ Disrupt
    /\ CallLost(r)
    /\ Abandon(r)
    /\ UNCHANGED <<clientVars, expired, added, invoked, returned, rejected,
                   answered>>

(* The drain or join_next meets a task that ended in an error. *)
LoopFails(r) ==
    /\ loop[r] = "top"
    /\ Doomed(r)
    /\ Disrupted
    /\ Abandon(r)
    /\ UNCHANGED <<clientVars, streamVars, expired, historyVars>>

(* Cancelled and drained: wait_for_handler_tasks and shutdown_redis_tasks. *)
Drained(r) ==
    /\ status[r] = "stopping"
    /\ loop[r] = "top"
    /\ TasksOf(r) = {}
    /\ status' = [status EXCEPT ![r] = "down"]
    /\ UNCHANGED <<clientVars, streamVars, expired, loop, room, tasks,
                   disruptions, historyVars>>

(* shutdown_timeout elapses: unfinished handlers are aborted. *)
ShutdownAborts(r) ==
    /\ status[r] = "stopping"
    /\ Disrupt
    /\ CallLost(r)
    /\ Abandon(r)
    /\ UNCHANGED <<clientVars, expired, added, invoked, returned, rejected,
                   answered>>

(* The process dies at any point. *)
Crash(r) ==
    /\ status[r] # "down"
    /\ Disrupt
    /\ CallLost(r)
    /\ Abandon(r)
    /\ UNCHANGED <<clientVars, expired, added, invoked, returned, rejected,
                   answered>>

-----------------------------------------------------------------------------
(* A spawned task: process_command_entry. *)

Becomes(t, u) == tasks' = (tasks \ {t}) \cup {u}
Failed(t) == [t EXCEPT !.phase = "failed", !.body = "none", !.failing = FALSE]
Fails(t) == Becomes(t, Failed(t))

(* encode_limited, with bounded_command_error as the fallback ("error" stands
   for either); if neither fits, nothing is published and the task fails once
   the entry is removed. *)
Answering(t, body) ==
    IF Kind[t.cmd] = "unanswerable"
    THEN [t EXCEPT !.phase = "complete", !.failing = TRUE]
    ELSE [t EXCEPT !.phase = "publish", !.body = body]

(* Decoding, the version check and the deadline check, up to the invocation. *)
Discard(t) ==
    /\ t.phase = "claimed"
    /\ Kind[t.cmd] = "malformed"
    /\ Becomes(t, [t EXCEPT !.phase = "complete"])
    /\ rejected' = rejected \cup {t.cmd}
    /\ UNCHANGED <<clientVars, streamVars, expired, loopVars, disruptions,
                   added, claims, invoked, returned, answered>>

Refuse(t) ==
    /\ t.phase = "claimed"
    /\ \/ /\ Kind[t.cmd] = "version"
          /\ Becomes(t, Answering(t, "protocol"))
       \/ /\ Kind[t.cmd] \in {"valid", "unanswerable"}
          /\ t.cmd \in expired
          /\ Becomes(t, Answering(t, "expired"))
    /\ rejected' = rejected \cup {t.cmd}
    /\ UNCHANGED <<clientVars, streamVars, expired, loopVars, disruptions,
                   added, claims, invoked, returned, answered>>

(* Mutant: the entry is removed before the handler is invoked. *)
Invoke_AckFirst(t) ==
    /\ t.phase = "claimed"
    /\ Kind[t.cmd] \in {"valid", "unanswerable"}
    /\ t.cmd \notin expired
    /\ AckDelete(t.cmd)
    /\ Becomes(t, [t EXCEPT !.phase = "running"])
    /\ invoked' = [invoked EXCEPT ![t.cmd] = @ \cup {t.turn}]
    /\ UNCHANGED <<clientVars, expired, loopVars, disruptions, added, claims,
                   returned, rejected, answered>>

Invoke(t) ==
    /\ t.phase = "claimed"
    /\ Kind[t.cmd] \in {"valid", "unanswerable"}
    /\ t.cmd \notin expired
    /\ Becomes(t, [t EXCEPT !.phase = "running"])
    /\ invoked' = [invoked EXCEPT ![t.cmd] = @ \cup {t.turn}]
    /\ UNCHANGED <<clientVars, streamVars, expired, loopVars, disruptions,
                   added, claims, returned, rejected, answered>>

(* touch_pending: XCLAIM with IDLE 0 and without FORCE. *)
Touch(t) == stale' = stale \ {t.cmd}

Heartbeat(t) ==
    /\ t.phase = "running"
    /\ t.cmd \in stale
    /\ Touch(t)
    /\ UNCHANGED <<clientVars, undelivered, pending, expired, loopVars, tasks,
                   disruptions, historyVars>>

HeartbeatFails(t) ==
    /\ t.phase = "running"
    /\ Disrupt
    /\ Touch(t) \/ UNCHANGED stale
    /\ Fails(t)
    /\ UNCHANGED <<clientVars, undelivered, pending, expired, loopVars,
                   historyVars>>

(* Mutant: the deadline is checked again once the handler has returned. *)
HandlerReturns_Late(t) ==
    /\ t.phase = "running"
    /\ returned' = returned \cup {t.cmd}
    /\ \E body \in {"success", "error"} :
        Becomes(t, Answering(t, IF t.cmd \in expired THEN "expired" ELSE body))
    /\ UNCHANGED <<clientVars, streamVars, expired, loopVars, disruptions,
                   added, claims, invoked, rejected, answered>>

HandlerReturns(t) ==
    /\ t.phase = "running"
    /\ returned' = returned \cup {t.cmd}
    /\ \E body \in {"success", "error"} : Becomes(t, Answering(t, body))
    /\ UNCHANGED <<clientVars, streamVars, expired, loopVars, disruptions,
                   added, claims, invoked, rejected, answered>>

(* A panic reaches the loop as a JoinError. *)
HandlerPanics(t) ==
    /\ t.phase = "running"
    /\ Disrupt
    /\ Fails(t)
    /\ UNCHANGED <<clientVars, streamVars, expired, loopVars, historyVars>>

(* publish_command_response_and_complete, first half. *)
Publish(t) ==
    /\ t.phase = "publish"
    /\ PUBLISH(t.cmd, t.body)
    /\ answered' = answered \cup {t.cmd}
    /\ Becomes(t, [t EXCEPT !.phase = "complete", !.body = "none"])
    /\ UNCHANGED <<client, streamVars, expired, loopVars, disruptions, added,
                   claims, invoked, returned, rejected>>

PublishFails(t) ==
    /\ t.phase = "publish"
    /\ Disrupt
    /\ \/ PUBLISH(t.cmd, t.body) /\ answered' = answered \cup {t.cmd}
       \/ UNCHANGED <<inbox, answered>>
    /\ Becomes(t, [t EXCEPT !.phase = "complete", !.body = "none", !.failing = TRUE])
    /\ UNCHANGED <<client, streamVars, expired, loopVars, added, claims,
                   invoked, returned, rejected>>

(* Second half: the entry is removed whatever became of the publication, and
   a failed publication is then returned to the loop. *)
Complete(t) ==
    /\ t.phase = "complete"
    /\ AckDelete(t.cmd)
    /\ IF t.failing THEN Fails(t) ELSE tasks' = tasks \ {t}
    /\ UNCHANGED <<clientVars, expired, loopVars, disruptions, historyVars>>

CompleteFails(t) ==
    /\ t.phase = "complete"
    /\ Disrupt
    /\ AckDelete(t.cmd) \/ UNCHANGED streamVars
    /\ Fails(t)
    /\ UNCHANGED <<clientVars, expired, loopVars, historyVars>>

-----------------------------------------------------------------------------
ClientNext(c) ==
    Subscribe(c) \/ Send(c) \/ SendUnheard(c) \/ GiveUp(c) \/ Receive(c)

TimeNext(c) == IdleElapses(c) \/ DeadlinePasses(c)

ReplicaNext(r) ==
    \/ StartReplica(r) \/ CancelReplica(r) \/ BeginFetch(r) \/ Reclaim(r)
    \/ ReadGroup(r) \/ FetchFails(r) \/ LoopFails(r) \/ Drained(r)
    \/ ShutdownAborts(r) \/ Crash(r)

TaskNext(t) ==
    \/ Discard(t) \/ Refuse(t) \/ Invoke(t) \/ Heartbeat(t) \/ HeartbeatFails(t)
    \/ HandlerReturns(t) \/ HandlerPanics(t) \/ Publish(t) \/ PublishFails(t)
    \/ Complete(t) \/ CompleteFails(t)

Next ==
    \/ \E c \in Commands : ClientNext(c) \/ TimeNext(c)
    \/ \E r \in Replicas : ReplicaNext(r)
    \/ \E t \in tasks : TaskNext(t)

Spec == Init /\ [][Next]_vars

(* Time passes for abandoned entries, and a replica that runs polls, spawns and
   notices finished tasks; a task that runs is scheduled until it ends.  The
   environment is assumed to answer broker calls and handlers to return.  No
   fairness is assumed of clients, of starts, of stops or of disruptions. *)
Progress(t) ==
    \/ Discard(t) \/ Refuse(t) \/ Invoke(t) \/ HandlerReturns(t)
    \/ Publish(t) \/ Complete(t)

Fairness ==
    /\ \A c \in Commands : WF_vars(~Attended(c) /\ IdleElapses(c))
    /\ \A r \in Replicas :
        /\ WF_vars(BeginFetch(r))
        /\ WF_vars(Reclaim(r))
        /\ WF_vars(ReadGroup(r))
        /\ WF_vars(LoopFails(r))
        /\ \A c \in Commands :
            WF_vars(\E t \in tasks : t.rep = r /\ t.cmd = c /\ Progress(t))

FairSpec == Spec /\ Fairness

-----------------------------------------------------------------------------
(* Properties. *)

Stored(c) == c \in undelivered \cup pending
Decided(c) == c \in returned \cup rejected

(* The handler of a command is invoked at most once, plus one time for every
   disruption: reclaiming by idle time never duplicates the work of a replica
   whose heartbeats and broker calls are on time (reclaim, touch_pending). *)
PaidInvocations ==
    \A c \in Commands : Cardinality(invoked[c]) <= 1 + disruptions

(* A command leaves the Stream only after its handler returned or it was
   refused without being invoked; whatever fails before that, some replica can
   still find it (ack_delete is the last call of every path). *)
NothingLost ==
    \A c \in added : Stored(c) \/ Decided(c)

(* A published response cannot slip past a caller that is still waiting: the
   reply channel is subscribed before the command can be seen by a replica. *)
NoReplyMissed ==
    \A c \in answered : client[c] = "waiting" => inbox[c] \in Bodies

(* What the caller is told is what happened.  A handler's response means that
   the handler returned; and, undisrupted, "request deadline elapsed before
   handler invocation" means that it was never invoked. *)
TruthfulReply ==
    \A c \in Commands :
        /\ client[c] \in {"success", "error"} => c \in returned
        /\ client[c] = "expired" /\ disruptions = 0 => invoked[c] = {}

(* The JoinSet never holds more than max_handler_concurrency tasks, although
   entries are requested, delivered and spawned in batches while tasks end. *)
ConcurrencyBound ==
    \A r \in Replicas : Cardinality(TasksOf(r)) <= Concurrency

(* With one replica that stays up, every command appended to the Stream is in
   the end removed from it, whichever replicas held it and failed. *)
EveryCommandLeaves ==
    (\E r \in Replicas : <>[](status[r] = "up"))
        => \A c \in Commands : (c \in added) ~> ~Stored(c)

(* The comment at redis_transport.rs:697, taken literally: once the handler
   has returned, nothing makes it run again. *)
ReturnedIsFinal ==
    [][\A c \in returned : invoked'[c] = invoked[c]]_vars

(* The transport implements its contract. *)
Contract == INSTANCE CommandContract WITH
    where <- [c \in Commands |-> IF c \notin added THEN "outside"
                                 ELSE IF Stored(c) THEN "queued" ELSE "removed"],
    decided <- returned \cup rejected,
    runs <- [c \in Commands |-> Cardinality(invoked[c])],
    troubles <- disruptions

ImplementsContract == Contract!Spec
=============================================================================
