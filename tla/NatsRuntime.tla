---------------------------- MODULE NatsRuntime ----------------------------
(***************************************************************************)
(* Request/reply commands over core NATS and the runtime that serves them: *)
(* MicroserviceClient::request, MicroserviceRuntime::run with its start and*)
(* shutdown, consume_command with its JoinSet of handler tasks, and        *)
(* process_command (crates/caelix-microservices/src/lib.rs).               *)
(*                                                                         *)
(* The replicas of a service subscribe to each of its subjects in one queue*)
(* group: NATS hands a command to one subscription of the group, whose     *)
(* client buffers it, or tells the caller that there is none.              *)
(***************************************************************************)
EXTENDS Integers, FiniteSets

CONSTANTS
    Commands,        \* commands clients may send, once each
    Subjects,        \* the command handlers of the service
    Subject,         \* the subject of every command
    Invalid,         \* those that dispatch_command rejects: too large, not
                     \* decodable, of another protocol version
    Unanswerable,    \* those whose correlation ID, of any length, may leave no
                     \* room for even an error within max_response_bytes
    Replicas,        \* processes that run the service
    Concurrency,     \* max_handler_concurrency
    MaxDisruptions   \* bound of the model: disruptions the environment inflicts

ASSUME SubjectAssumption == Subject \in [Commands -> Subjects]
ASSUME InvalidAssumption == Invalid \subseteq Commands /\ Unanswerable \subseteq Commands
ASSUME ConcurrencyAssumption == Concurrency \in Nat \ {0}
ASSUME BoundAssumption == MaxDisruptions \in Nat
ASSUME CommandsAssumption == IsFiniteSet(Commands) /\ IsFiniteSet(Replicas)

VARIABLES
    call,         \* what the caller of each command knows
    late,         \* commands whose deadline has elapsed
    buffer,       \* per replica, commands its subscriptions hold
    phase,        \* where run() is
    consumer,     \* where the consume_command of each subject is
    tasks,        \* handler tasks
    disruptions,  \* failed calls, panics, crashes, hanging handlers
    taken,        \* history: commands for which a task was spawned
    invocations,  \* history: how often the handler was invoked
    returned,     \* history: commands whose handler returned
    replied       \* history: commands whose reply was published

runtimeVars == <<phase, consumer>>
historyVars == <<taken, invocations, returned, replied>>
vars == <<call, late, buffer, runtimeVars, tasks, disruptions, historyVars>>

Calls == {"new", "waiting", "result", "refused", "timeout", "unavailable"}
Phases == {"down", "starting", "running", "draining", "stopping"}
(* An aborted task is in no JoinSet and ends at its next await. *)
Task == [rep: Replicas, cmd: Commands, aborted: BOOLEAN,
         phase: {"claimed", "running", "result", "refused", "failed"}]

(* A subscription lives as long as the consume_command that owns it, also
   while that waits for its handlers. *)
Subscribed(r, s) == consumer[r][s] \in {"looping", "draining"}

TasksOf(r) == {t \in tasks : t.rep = r}
InFlight(r, s) == {t \in TasksOf(r) : ~t.aborted /\ Subject[t.cmd] = s}

TypeOK ==
    /\ call \in [Commands -> Calls]
    /\ late \subseteq Commands
    /\ buffer \in [Replicas -> SUBSET Commands]
    /\ \A r \in Replicas : \A c \in buffer[r] : Subscribed(r, Subject[c])
    /\ phase \in [Replicas -> Phases]
    /\ consumer \in [Replicas -> [Subjects -> {"none", "looping", "draining", "over"}]]
    /\ tasks \subseteq Task
    /\ \A r \in Replicas, s \in Subjects :
        Cardinality(InFlight(r, s)) <= Concurrency
    /\ disruptions \in Nat
    /\ taken \subseteq {c \in Commands : call[c] \notin {"new", "unavailable"}}
    /\ invocations \in [Commands -> Nat]
    /\ returned \subseteq taken
    /\ replied \subseteq taken

Idle == [s \in Subjects |-> "none"]

Init ==
    /\ call = [c \in Commands |-> "new"]
    /\ late = {}
    /\ buffer = [r \in Replicas |-> {}]
    /\ phase = [r \in Replicas |-> "down"]
    /\ consumer = [r \in Replicas |-> Idle]
    /\ tasks = {}
    /\ disruptions = 0
    /\ taken = {} /\ returned = {} /\ replied = {}
    /\ invocations = [c \in Commands |-> 0]

Disrupted == disruptions' = disruptions + 1

(* A disruption the environment chooses to inflict. *)
Disrupt ==
    /\ disruptions < MaxDisruptions
    /\ Disrupted

-----------------------------------------------------------------------------
(* The client and the queue group. *)

Request(c) ==
    /\ call[c] = "new"
    /\ \E r \in Replicas :
        /\ Subscribed(r, Subject[c])
        /\ buffer' = [buffer EXCEPT ![r] = @ \cup {c}]
    /\ call' = [call EXCEPT ![c] = "waiting"]
    /\ UNCHANGED <<late, runtimeVars, tasks, disruptions, historyVars>>

NoResponders(c) ==
    /\ call[c] = "new"
    /\ \A r \in Replicas : ~Subscribed(r, Subject[c])
    /\ call' = [call EXCEPT ![c] = "unavailable"]
    /\ UNCHANGED <<late, buffer, runtimeVars, tasks, disruptions, historyVars>>

(* Core NATS keeps nothing: a command may be lost on its way. *)
RequestLost(c) ==
    /\ call[c] = "new"
    /\ Disrupt
    /\ call' = [call EXCEPT ![c] = "waiting"]
    /\ UNCHANGED <<late, buffer, runtimeVars, tasks, historyVars>>

DeadlineElapses(c) ==
    /\ call[c] # "new"
    /\ c \notin late
    /\ late' = late \cup {c}
    /\ UNCHANGED <<call, buffer, runtimeVars, tasks, disruptions, historyVars>>

(* The deadline was set before the caller's own timeout began. *)
TimeOut(c) ==
    /\ call[c] = "waiting"
    /\ c \in late
    /\ call' = [call EXCEPT ![c] = "timeout"]
    /\ UNCHANGED <<late, buffer, runtimeVars, tasks, disruptions, historyVars>>

-----------------------------------------------------------------------------
(* The tasks of consume_command. *)

(* Futures of a dropped JoinSet are cancelled, but nobody waits for that. *)
Aborting(T) == (tasks \ T) \cup {[t EXCEPT !.aborted = TRUE] : t \in T}

(* What the subscriptions to the subjects S hold is dropped with them. *)
Dropping(r, S) ==
    buffer' = [buffer EXCEPT ![r] = {c \in @ : Subject[c] \notin S}]

(* select! chooses among the ready branches at random, so that a command may
   still be taken after the cancellation. *)
Take(r, c) ==
    /\ consumer[r][Subject[c]] = "looping"
    /\ c \in buffer[r]
    /\ Cardinality(InFlight(r, Subject[c])) < Concurrency
    /\ buffer' = [buffer EXCEPT ![r] = @ \ {c}]
    /\ tasks' = tasks \cup
           {[rep |-> r, cmd |-> c, aborted |-> FALSE, phase |-> "claimed"]}
    /\ taken' = taken \cup {c}
    /\ UNCHANGED <<call, late, runtimeVars, disruptions, invocations, returned,
                   replied>>

(* task_result of a failed task: consume_command returns the error and drops
   its other tasks, while it takes commands and while it drains. *)
ConsumerFails(r, s) ==
    /\ Subscribed(r, s)
    /\ \E t \in InFlight(r, s) :
        /\ t.phase = "failed"
        /\ tasks' = Aborting(InFlight(r, s)) \ {[t EXCEPT !.aborted = TRUE]}
    /\ consumer' = [consumer EXCEPT ![r][s] = "over"]
    /\ Dropping(r, {s})
    /\ UNCHANGED <<call, late, phase, disruptions, historyVars>>

(* The subscription ends by itself, as when the connection is closed. *)
SubscriptionEnds(r, s) ==
    /\ consumer[r][s] = "looping"
    /\ Disrupt
    /\ tasks' = Aborting(InFlight(r, s))
    /\ consumer' = [consumer EXCEPT ![r][s] = "over"]
    /\ Dropping(r, {s})
    /\ UNCHANGED <<call, late, phase, historyVars>>

Cancelled(r) == phase[r] \in {"draining", "stopping"}

(* Mutant: the consumer returns without waiting, and its tasks are aborted. *)
BeginDrain_Returns(r, s) ==
    /\ Cancelled(r)
    /\ consumer[r][s] = "looping"
    /\ consumer' = [consumer EXCEPT ![r][s] = "over"]
    /\ tasks' = Aborting(InFlight(r, s))
    /\ Dropping(r, {s})
    /\ UNCHANGED <<call, late, phase, disruptions, historyVars>>

BeginDrain(r, s) ==
    /\ Cancelled(r)
    /\ consumer[r][s] = "looping"
    /\ consumer' = [consumer EXCEPT ![r][s] = "draining"]
    /\ UNCHANGED <<call, late, buffer, phase, tasks, disruptions, historyVars>>

(* Mutant: the consumer returns at once and detaches its tasks. *)
ConsumerReturns_Detached(r, s) ==
    /\ consumer[r][s] = "draining"
    /\ consumer' = [consumer EXCEPT ![r][s] = "over"]
    /\ Dropping(r, {s})
    /\ UNCHANGED <<call, late, phase, tasks, disruptions, historyVars>>

(* wait_for_handler_tasks met no error. *)
ConsumerReturns(r, s) ==
    /\ consumer[r][s] = "draining"
    /\ InFlight(r, s) = {}
    /\ consumer' = [consumer EXCEPT ![r][s] = "over"]
    /\ Dropping(r, {s})
    /\ UNCHANGED <<call, late, phase, tasks, disruptions, historyVars>>

-----------------------------------------------------------------------------
(* MicroserviceRuntime::run. *)

Launch(r) ==
    /\ phase[r] = "down"
    /\ phase' = [phase EXCEPT ![r] = "starting"]
    /\ UNCHANGED <<call, late, buffer, consumer, tasks, disruptions, historyVars>>

(* queue_subscribe, and the consumer spawned for it serves at once. *)
Subscribe(r, s) ==
    /\ phase[r] = "starting"
    /\ consumer[r][s] = "none"
    /\ consumer' = [consumer EXCEPT ![r][s] = "looping"]
    /\ UNCHANGED <<call, late, buffer, phase, tasks, disruptions, historyVars>>

StartSucceeds(r) ==
    /\ phase[r] = "starting"
    /\ \A s \in Subjects : consumer[r][s] # "none"
    /\ phase' = [phase EXCEPT ![r] = "running"]
    /\ UNCHANGED <<call, late, buffer, consumer, tasks, disruptions, historyVars>>

(* Every consumer is aborted, and with it its tasks. *)
AbortAll(r) ==
    /\ tasks' = Aborting(TasksOf(r))
    /\ consumer' = [consumer EXCEPT ![r] = [s \in Subjects |-> "over"]]
    /\ Dropping(r, Subjects)

(* start() returns an error and drops new_tasks; run calls shutdown(). *)
StartFails(r) ==
    /\ phase[r] = "starting"
    /\ Disrupt
    /\ AbortAll(r)
    /\ phase' = [phase EXCEPT ![r] = "stopping"]
    /\ UNCHANGED <<call, late, historyVars>>

(* The loop of run meets the signal. *)
Interrupt(r) ==
    /\ phase[r] = "running"
    /\ phase' = [phase EXCEPT ![r] = "draining"]
    /\ UNCHANGED <<call, late, buffer, consumer, tasks, disruptions, historyVars>>

(* Mutant: run serves on with the other consumers. *)
ConsumerEnded_Ignored(r) ==
    /\ phase[r] = "running"
    /\ \A s \in Subjects : consumer[r][s] = "over"
    /\ phase' = [phase EXCEPT ![r] = "draining"]
    /\ UNCHANGED <<call, late, buffer, consumer, tasks, disruptions, historyVars>>

(* Or a consumer that ended, which cancels the others. *)
ConsumerEnded(r) ==
    /\ phase[r] = "running"
    /\ \E s \in Subjects : consumer[r][s] = "over"
    /\ phase' = [phase EXCEPT ![r] = "draining"]
    /\ UNCHANGED <<call, late, buffer, consumer, tasks, disruptions, historyVars>>

Drained(r) ==
    /\ phase[r] = "draining"
    /\ \A s \in Subjects : consumer[r][s] = "over"
    /\ phase' = [phase EXCEPT ![r] = "stopping"]
    /\ UNCHANGED <<call, late, buffer, consumer, tasks, disruptions, historyVars>>

(* shutdown_timeout elapses while handlers are still at work. *)
DrainTimesOut(r) ==
    /\ phase[r] = "draining"
    /\ \E s \in Subjects : Subscribed(r, s) /\ InFlight(r, s) # {}
    /\ Disrupted
    /\ AbortAll(r)
    /\ phase' = [phase EXCEPT ![r] = "stopping"]
    /\ UNCHANGED <<call, late, historyVars>>

(* The process is gone. *)
Gone(r) ==
    /\ phase' = [phase EXCEPT ![r] = "down"]
    /\ consumer' = [consumer EXCEPT ![r] = Idle]
    /\ tasks' = tasks \ TasksOf(r)
    /\ buffer' = [buffer EXCEPT ![r] = {}]

(* shutdown(): shutdown_module, whose hooks run while the phase is "stopping",
   then the connection is drained and run returns. *)
Return(r) ==
    /\ phase[r] = "stopping"
    /\ Gone(r)
    /\ UNCHANGED <<call, late, disruptions, historyVars>>

Crash(r) ==
    /\ phase[r] # "down"
    /\ Disrupt
    /\ Gone(r)
    /\ UNCHANGED <<call, late, historyVars>>

-----------------------------------------------------------------------------
(* process_command and dispatch_command. *)

Becomes(t, p) == tasks' = (tasks \ {t}) \cup {[t EXCEPT !.phase = p]}
Ends(t) == tasks' = tasks \ {t}

(* No error is sent to a caller whose correlation ID is not known, or when the
   error would exceed max_response_bytes. *)
GiveUp(t) ==
    /\ t.phase = "claimed"
    /\ t.cmd \in Invalid \cup (Unanswerable \cap late)
    /\ Ends(t)
    /\ UNCHANGED <<call, late, buffer, runtimeVars, disruptions, historyVars>>

Refuse(t) ==
    /\ t.phase = "claimed"
    /\ t.cmd \in Invalid \cup late
    /\ Becomes(t, "refused")
    /\ UNCHANGED <<call, late, buffer, runtimeVars, disruptions, historyVars>>

Invoke(t) ==
    /\ t.phase = "claimed"
    /\ t.cmd \notin Invalid \cup late
    /\ Becomes(t, "running")
    /\ invocations' = [invocations EXCEPT ![t.cmd] = @ + 1]
    /\ UNCHANGED <<call, late, buffer, runtimeVars, disruptions, taken, returned,
                   replied>>

(* Mutant: the deadline is looked at once more after the handler. *)
HandlerReturns_Late(t) ==
    /\ t.phase = "running"
    /\ Becomes(t, IF t.cmd \in late THEN "refused" ELSE "result")
    /\ returned' = returned \cup {t.cmd}
    /\ UNCHANGED <<call, late, buffer, runtimeVars, disruptions, taken,
                   invocations, replied>>

HandlerReturns(t) ==
    /\ t.phase = "running"
    /\ Becomes(t, "result")
    /\ returned' = returned \cup {t.cmd}
    /\ UNCHANGED <<call, late, buffer, runtimeVars, disruptions, taken,
                   invocations, replied>>

(* Neither the response nor the error in its place may be sent: process_command
   publishes nothing, and the task ends without an error. *)
ResponseTooLarge(t) ==
    /\ t.phase = "running"
    /\ t.cmd \in Unanswerable
    /\ Ends(t)
    /\ returned' = returned \cup {t.cmd}
    /\ UNCHANGED <<call, late, buffer, runtimeVars, disruptions, taken,
                   invocations, replied>>

HandlerPanics(t) ==
    /\ t.phase = "running"
    /\ Disrupt
    /\ Becomes(t, "failed")
    /\ UNCHANGED <<call, late, buffer, runtimeVars, historyVars>>

Reply(t) ==
    /\ t.phase \in {"result", "refused"}
    /\ call' = [call EXCEPT ![t.cmd] = IF @ = "waiting" THEN t.phase ELSE @]
    /\ replied' = replied \cup {t.cmd}
    /\ Ends(t)
    /\ UNCHANGED <<late, buffer, runtimeVars, disruptions, taken, invocations,
                   returned>>

PublishFails(t) ==
    /\ t.phase \in {"result", "refused"}
    /\ Disrupt
    /\ Becomes(t, "failed")
    /\ UNCHANGED <<call, late, buffer, runtimeVars, historyVars>>

Vanish(t) ==
    /\ t.aborted
    /\ Ends(t)
    /\ UNCHANGED <<call, late, buffer, runtimeVars, disruptions, historyVars>>

-----------------------------------------------------------------------------
ClientNext(c) ==
    \/ Request(c) \/ NoResponders(c) \/ RequestLost(c)
    \/ DeadlineElapses(c) \/ TimeOut(c)

RuntimeNext(r) ==
    \/ Launch(r) \/ StartSucceeds(r) \/ StartFails(r) \/ Interrupt(r)
    \/ ConsumerEnded(r) \/ Drained(r) \/ DrainTimesOut(r) \/ Return(r) \/ Crash(r)

ConsumerNext(r, s) ==
    \/ Subscribe(r, s) \/ ConsumerFails(r, s) \/ SubscriptionEnds(r, s)
    \/ BeginDrain(r, s) \/ ConsumerReturns(r, s)

TaskNext(t) ==
    \/ GiveUp(t) \/ Refuse(t) \/ Invoke(t) \/ HandlerReturns(t)
    \/ ResponseTooLarge(t) \/ HandlerPanics(t) \/ Reply(t) \/ PublishFails(t)
    \/ Vanish(t)

Next ==
    \/ \E c \in Commands : ClientNext(c)
    \/ \E r \in Replicas :
        \/ RuntimeNext(r)
        \/ \E s \in Subjects : ConsumerNext(r, s)
        \/ \E c \in Commands : Take(r, c)
    \/ \E t \in tasks : TaskNext(t)

Spec == Init /\ [][Next]_vars

(* The loops of run and consume_command are scheduled, the shutdown timeout
   elapses, and the shutdown hooks return.  Nothing is assumed of handlers:
   they may hang for ever. *)
Fairness ==
    \A r \in Replicas :
        /\ WF_vars(ConsumerEnded(r))
        /\ WF_vars(Drained(r))
        /\ WF_vars(DrainTimesOut(r))
        /\ WF_vars(Return(r))
        /\ \A s \in Subjects :
            WF_vars(BeginDrain(r, s)) /\ WF_vars(ConsumerReturns(r, s))

FairSpec == Spec /\ Fairness

-----------------------------------------------------------------------------
(* Properties. *)

(* "Shutdown stops intake, waits for tasks, then runs normal provider/module
   hooks": the hooks start once every handler of the process is over, unless a
   task failed, a handler outlived the timeout or the start failed (run,
   consume_command, wait_for_handler_tasks). *)
GracefulShutdown ==
    \A r \in Replicas :
        phase[r] = "stopping" /\ disruptions = 0 => TasksOf(r) = {}

(* Answered, about to be, or past the point where a response that fits would
   have been sent: the handler returned or the deadline had elapsed. *)
Answered(c) ==
    \/ c \in replied
    \/ \E t \in tasks : t.cmd = c
    \/ c \in Unanswerable \cap (returned \cup late)

(* A valid command for which a task was spawned is answered, whenever the
   service is interrupted, as long as nothing else disrupts it.  One to which no
   response may fit is not answered, but nor is it dropped: its handler has
   returned, or its deadline had elapsed (consume_command, process_command). *)
TakenIsAnswered == disruptions = 0 => \A c \in taken \ Invalid : Answered(c)

(* The handler of a command is invoked at most once, whatever fails; a caller
   with a result had its handler return, and a caller told that it was
   too late or invalid never has the handler invoked (dispatch_command). *)
TruthfulReply ==
    \A c \in Commands :
        /\ invocations[c] <= 1
        /\ call[c] = "result" => c \in returned
        /\ call[c] = "refused" => invocations[c] = 0
        /\ call[c] = "unavailable" => c \notin taken

(* Once it is interrupted, or one of its consumers has ended, run() returns,
   even if handlers hang. *)
Returning(r) ==
    \/ phase[r] = "draining"
    \/ phase[r] = "running" /\ \E s \in Subjects : consumer[r][s] = "over"

RunReturns == \A r \in Replicas : Returning(r) ~> phase[r] = "down"
=============================================================================
