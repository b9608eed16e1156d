----------------------------- MODULE AccessLog ------------------------------
(***************************************************************************)
(* The access log: requests hand their entries to a bounded queue, and one *)
(* thread writes them out (crates/caelix-core/src/logging.rs).             *)
(*                                                                         *)
(* The writer locks stdout and stderr as it starts and keeps both locks for *)
(* as long as the process lives.  Whoever logs through Logger writes to the *)
(* same streams, and needs the stream's lock for that line.                *)
(***************************************************************************)
EXTENDS Integers, FiniteSets, SequencesExt

CONSTANTS
    Threads,        \* request workers
    MaxRequests,    \* bound of the model: requests of each
    QueueCapacity,  \* ACCESS_LOG_QUEUE_CAPACITY
    BatchSize,      \* ACCESS_LOG_BATCH_SIZE
    OwnSubscriber,  \* BOOLEAN: values of CAELIX_TRACING_SUBSCRIBER to look at
    ErrorsShown     \* BOOLEAN: whether a level below info is configured

ASSUME LogAssumption ==
    /\ IsFiniteSet(Threads)
    /\ MaxRequests \in Nat /\ QueueCapacity \in Nat \ {0} /\ BatchSize \in Nat \ {0}
    /\ OwnSubscriber \subseteq BOOLEAN /\ ErrorsShown \subseteq BOOLEAN

VARIABLES
    logging,    \* what the process was configured to: own subscriber, only errors
    threads,    \* per worker: where it is, and the entry it has
    queue,
    dropped,    \* what dropped_http_request_logs returns
    pending,    \* pending_drop_report
    writer,     \* the thread: not started, starting, writing, flushing
    buffered,   \* lines in the two BufWriters
    output,     \* lines the streams were given
    reported,   \* drops that report lines spoke of
    due,        \* the report interval has passed
    owner       \* who holds the lock of each stream

logVars ==
    <<logging, threads, queue, dropped, pending, writer, buffered, output, reported, due, owner>>

Entries == [thread : Threads, number : 1..MaxRequests, error : BOOLEAN]
Streams == {"stdout", "stderr"}
At(t, step) == threads[t].step = step
Goes(t, step) == threads' = [threads EXCEPT ![t].step = step]

LogInit ==
    /\ logging \in [own : OwnSubscriber, onlyErrors : ErrorsShown]
    /\ threads = [t \in Threads |-> [step |-> "idle", number |-> 0, error |-> FALSE]]
    /\ queue = <<>>
    /\ dropped = 0 /\ pending = 0 /\ reported = 0
    /\ writer = "none"
    /\ buffered = <<>> /\ output = <<>>
    /\ due = FALSE
    /\ owner = [s \in Streams |-> "nobody"]

EntryOf(t) == [thread |-> t, number |-> threads[t].number, error |-> threads[t].error]

(* A response is there.  A server error has its exception logged first. *)
Respond(t) ==
    /\ At(t, "idle") /\ threads[t].number < MaxRequests
    /\ \E error \in BOOLEAN :
        threads' = [threads EXCEPT ![t] =
            [step |-> IF error THEN "exception" ELSE "response",
             number |-> @.number + 1, error |-> error]]
    /\ UNCHANGED <<logging, queue, dropped, pending, writer, buffered, output, reported, due, owner>>

(* log_http_exception goes to stderr, in one step once the lock is free. *)
LogException(t) ==
    /\ At(t, "exception")
    /\ logging.own => owner["stderr"] = "nobody"
    /\ Goes(t, "response")
    /\ UNCHANGED <<logging, queue, dropped, pending, writer, buffered, output, reported, due, owner>>

(* log_http_request: a level that is not shown ends it; with another tracing
   subscriber the line goes to that; the first to come starts the writer. *)
LogRequest(t) ==
    /\ At(t, "response")
    /\ IF (logging.onlyErrors /\ ~threads[t].error) \/ ~logging.own
       THEN Goes(t, "idle") /\ UNCHANGED writer
       ELSE Goes(t, "checking") /\ writer' = IF writer = "none" THEN "starting" ELSE writer
    /\ UNCHANGED <<logging, queue, dropped, pending, buffered, output, reported, due, owner>>

CheckFull(t) ==
    /\ At(t, "checking")
    /\ Goes(t, IF Len(queue) = QueueCapacity THEN "full" ELSE "sending")
    /\ UNCHANGED <<logging, queue, dropped, pending, writer, buffered, output, reported, due, owner>>

TrySend_Unrecorded(t) ==
    /\ At(t, "sending")
    /\ IF Len(queue) = QueueCapacity THEN Goes(t, "idle") /\ UNCHANGED queue
       ELSE Goes(t, "idle") /\ queue' = Append(queue, EntryOf(t))
    /\ UNCHANGED <<logging, dropped, pending, writer, buffered, output, reported, due, owner>>

TrySend(t) ==
    /\ At(t, "sending")
    /\ IF Len(queue) = QueueCapacity THEN Goes(t, "full") /\ UNCHANGED queue
       ELSE Goes(t, "idle") /\ queue' = Append(queue, EntryOf(t))
    /\ UNCHANGED <<logging, dropped, pending, writer, buffered, output, reported, due, owner>>

(* record_drop is two additions. *)
CountDrop(t) ==
    /\ At(t, "full")
    /\ dropped' = dropped + 1
    /\ Goes(t, "counted")
    /\ UNCHANGED <<logging, queue, pending, writer, buffered, output, reported, due, owner>>

CountPending(t) ==
    /\ At(t, "counted")
    /\ pending' = pending + 1
    /\ Goes(t, "idle")
    /\ UNCHANGED <<logging, queue, dropped, writer, buffered, output, reported, due, owner>>

LockStreams ==
    /\ writer = "starting"
    /\ \A s \in Streams : owner[s] = "nobody"
    /\ owner' = [s \in Streams |-> "writer"]
    /\ writer' = "waiting"
    /\ UNCHANGED <<logging, threads, queue, dropped, pending, buffered, output, reported, due>>

(* A timeout is no reason to skip the report and the flush. *)
AfterTaking_Continue(n) == IF n = 0 THEN "waiting" ELSE "reporting"
AfterTaking(n) == "reporting"

(* One batch: the entry recv_timeout waited for and what try_iter finds behind
   it, or nothing when the wait timed out.  The BufWriters may pass lines on
   early, which no property sees. *)
TakeBatch ==
    /\ writer = "waiting"
    /\ \E n \in 0..BatchSize :
        /\ n = 0 => queue = <<>>
        /\ n < BatchSize => n = Len(queue)
        /\ n <= Len(queue)
        /\ buffered' = buffered \o SubSeq(queue, 1, n)
        /\ queue' = SubSeq(queue, n + 1, Len(queue))
        /\ writer' = AfterTaking(n)
    /\ UNCHANGED <<logging, threads, dropped, pending, output, reported, due, owner>>

Report ==
    /\ writer = "reporting"
    /\ IF due THEN reported' = reported + pending /\ pending' = 0 /\ due' = FALSE
       ELSE UNCHANGED <<reported, pending, due>>
    /\ writer' = "flushing"
    /\ UNCHANGED <<logging, threads, queue, dropped, buffered, output, owner>>

Flush ==
    /\ writer = "flushing"
    /\ output' = output \o buffered
    /\ buffered' = <<>>
    /\ writer' = "waiting"
    /\ UNCHANGED <<logging, threads, queue, dropped, pending, reported, due, owner>>

IntervalPasses ==
    /\ ~due /\ due' = TRUE
    /\ UNCHANGED <<logging, threads, queue, dropped, pending, writer, buffered, output, reported, owner>>

WriterNext == LockStreams \/ TakeBatch \/ Report \/ Flush

ThreadNext(t) ==
    \/ Respond(t) \/ LogException(t) \/ LogRequest(t) \/ CheckFull(t)
    \/ TrySend(t) \/ CountDrop(t) \/ CountPending(t)

LogNext ==
    \/ \E t \in Threads : ThreadNext(t)
    \/ WriterNext \/ IntervalPasses

(* Threads run, and time passes. *)
LogFairness ==
    /\ WF_logVars(WriterNext)
    /\ WF_logVars(IntervalPasses)
    /\ \A t \in Threads : WF_logVars(ThreadNext(t))

(* No entry disappears: of the requests whose log call has returned, each is
   in the queue, in a buffer or in the output exactly once and in its worker's
   order, or is counted as dropped; and each counted drop is spoken of by one
   report or waits for the next, but for the one addition a worker is about to
   make. *)
Lines == output \o buffered \o queue
Unsettled(t) == ~At(t, "idle")
Counted == {t \in Threads : At(t, "counted")}
Returned == {r \in Threads \X (1..MaxRequests) :
    r[2] <= threads[r[1]].number /\ (Unsettled(r[1]) => r[2] < threads[r[1]].number)}
NothingUnaccounted ==
    /\ \A i, j \in DOMAIN Lines :
        i < j /\ Lines[i].thread = Lines[j].thread => Lines[i].number < Lines[j].number
    /\ dropped = reported + pending + Cardinality(Counted)
    /\ logging = [own |-> TRUE, onlyErrors |-> FALSE] =>
        Cardinality(Returned) = Len(Lines) + dropped - Cardinality(Counted)

(* Once the requests are over, what the queue took is in the output and every
   counted drop in a report, without another entry to wake the writer, and
   whatever became of the workers. *)
LogIsWritten == <>[](queue = <<>> /\ buffered = <<>> /\ pending = 0)

(* docs/src/advanced/logging.md:82-83: "when full, new entries are dropped
   instead of blocking requests"; the worker that has a response gets past its
   logging. *)
LoggingReturns == \A t \in Threads : At(t, "exception") ~> At(t, "idle")
=============================================================================
