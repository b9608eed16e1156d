# A TLA+ verification of Caelix

Caelix is a Rust framework for HTTP servers and microservices: modules with
dependency-injected providers, controllers on Actix or Axum, WebSocket gateways,
and request/reply commands and events over NATS or Redis. This directory holds
TLA+ modules translated from its source, the TLC configurations that check
them on small instances, and theorems about them checked by TLAPS. Paths below
are relative to `crates/` of the repository.

Run it from this directory: `tlc -config X.cfg M` for a run of the table below,
and `tlapm M_proofs.tla` for the proofs.

## 1. The system

### Components, their state and operations

| Component | Source | State | Operations |
|---|---|---|---|
| Redis command transport | `caelix-microservices/src/redis_transport.rs` 193-299, 400-716, 861-1000 | command Stream, consumer group with pending list, the `JoinSet` of each replica, reply subscriptions | `request`, `run`, `command_loop`, `process_command_entry`, `reclaim`, `read_group`, `touch_pending`, `ack_delete` |
| Redis event transport | the same, 300-337, 708-859, 888-978 | event Stream, one group per service, delivery counts, dead-letter Stream, `JoinSet` | `emit`, `event_loop`, `process_event_entry`, `pending_attempt`, `ack` |
| NATS transport | `caelix-microservices/src/lib.rs` 293-1126 | subscriptions, JetStream consumers, concurrency semaphores, task handles | `request`, `emit`, `start`, `run`, `shutdown`, `process_command`, `process_event` |
| Subject patterns | `caelix-core/src/module.rs` 1085-1113, `lib.rs` 1160-1200 | none | match, cover, intersect, validate |
| Module graph and provider lifecycle | `caelix-core/src/module.rs`, `container.rs` | container map, pending and applied overrides, initialised providers, bootstrap flag | discovery, `preflight`, `schedule`, `initialize_graph`, `bootstrap_graph`, `rollback_graph`, `shutdown_module` |
| Throttling | `caelix-core/src/throttle.rs` | counters with windows, expiry order, per-key locks | `increment`, `check`, eviction |
| Cache | `caelix-core/src/cache.rs` | entries with deadlines, insertion order | `get`, `set`, `delete`, eviction |
| Event bus | `caelix-core/src/events.rs` | broadcast channels per event type | `emit`, `subscribe`, receive |
| WebSocket connections | `caelix-core/src/websocket.rs`, `caelix-actix/src/websocket.rs`, `caelix-axum/src/websocket.rs` | session flag and close frame, transport lock, outgoing queue | `run_connection`, `send`, `close`, `on_connect`, `on_text`, `on_close` |
| Actix WebSocket frames | `caelix-actix/src/actix_ws/` | session sender, decoded messages, continuation buffer | `text`, `close`, `pong`, encoding, decoding, reassembly |
| Access log | `caelix-core/src/logging.rs` | bounded queue, writer thread and the stream locks it holds, drop counters | `log_http_request`, `log_http_exception`, batch, report |
| Uploads | `caelix-core/src/upload.rs`, `request_payload.rs` of both adapters | buffered body, staged files | buffer, `MultipartForm::parse`, `take_file`, `take_files`, `persist_to`, destructors |
| Application runtime | `caelix-actix/src/application.rs`, `caelix-axum/src/application.rs` | container, server | `new`, `with_openapi`, doctor, `listen`, signal, shutdown |
| Macros: controllers | `caelix-macros/src/controller.rs` | none | attributes to routes and compile errors; the generated wrapper |
| Guards, interceptors, context | `caelix-core/src/{guard,interceptor,context,controller}.rs` | per request only | `can_activate`, `intercept`, `Next::run` |
| Command line tool | `caelix-cli/src/lib.rs` | the project on disk; the running process | `new`, `generate`, `update`, `run --watch` |
| Responses, cookies, exceptions, configuration | `caelix-core/src/{response,cookie,exception,config}.rs` | none | parsing, formatting |
| OpenAPI, Socket.IO facade, facade crate | `caelix-core/src/openapi.rs`, `caelix-socketio`, `caelix` | none of their own | generation, registration |

### How they interact

A root module names providers, imports and handlers. The **module graph** checks
and orders them and the **lifecycle** builds them into one container; the
**application runtime** then serves HTTP and WebSockets and may run the
**transports** next to the server. A microservice runtime (`NatsRuntime`,
`RedisRuntime`) is built over such a container; its loops spawn one task per
message, and the tasks meet only in the broker and in the loop's `JoinSet` or
semaphore. A request of the server runs through the wrapper that the **controller
macro** generated for its route: throttle, guards, body, interceptors, payload,
handler; its response is handed to the **access log**. Clients of the transports reach the same broker from other processes.
Throttle, cache and event bus are providers that concurrent requests share. On
shutdown, the server stops, then the transports drain under a timeout, then the
providers' `on_shutdown` hooks run in reverse order. Only on SIGTERM does Actix's server
wait for its requests first.

### What is hard

* *Replicas against the broker*: delivery by idle time, heartbeats, lost replies
  to calls that took effect, crashes between a handler's return and the
  acknowledgement, trimming, poison messages, deadlines.
* *Tasks inside one replica*: capacity computed before two awaits and used
  after them; one failed task ending the whole loop.
* *Startup and shutdown*: a failure in the middle must undo what was done, in
  order, once; hooks fail; overrides replace providers halfway.
* *Shared stores at their limits*: eviction and expiry in the throttle and the
  cache under concurrent callers.
* *WebSockets*: a bounded outgoing queue, a close from either side, callbacks
  that run while the peer goes away.
* *Requests*: the future of a request may be dropped at every await, by an
  interceptor, a disconnect or a forced drain, and only destructors run then.
* *Access log*: workers, the writer thread and the logger meet in a queue, in two
  counters and in the locks of the process's streams.
* *Command line*: a failed write leaves half of what a command makes; Ctrl-C
  comes between the steps of a restart.

### What makes each component correct

* *Commands*: a command handed to the broker is decided before it leaves it; its
  handler runs once but for disruptions; a waiting caller is told the truth.
* *Events*: at least once; attempts bounded and counted; dead letters honest.
* *NATS*: core commands are never duplicated, and are answered when received if any response
  fits; events are acknowledged only when settled; shutdown drains within its timeout.
* *Module graph*: the order is topological and complete; errors name real defects.
* *Lifecycle*: a provider that initialised shuts down once, after its dependents,
  and one that did not never does; failed startups leave nothing running.
* *Throttle, cache*: no client gets a second quota in one window, whoever
  waits for the lock meanwhile; the bounds on entries hold; nothing expired or
  replaced is returned.
* *Event bus*: every subscriber that keeps up sees every event whose handlers are done.
* *WebSocket*: the callbacks get the peer's messages whole and in order; a call that
  succeeded is a frame on its way; nothing follows a Close frame; every connection ends.
* *Requests*: nothing of a route runs before its throttle, guards, limits and the checks it
  declares for its files let the request pass; staged files have an owner; persisted files stay.
* *Application runtime*: hooks run once before `listen` returns, and failures are told.
* *Access log*: entries are written or counted as dropped, and never in a worker's way.
* *Command line*: reports, of success too, are true of the disk; one application runs;
  changes of what is watched are built.

## 2. Modules

| Module | Models | Proofs |
|---|---|---|
| `CommandContract` | the abstract promise of the Redis command transport | |
| `RedisCommands` | request, Stream, group, replicas and tasks for commands | `RedisCommands_proofs` |
| `RedisEvents` | emit, trimming, group, replicas and tasks for events | `RedisEvents_proofs` |
| `NatsRuntime` | request over core NATS; start, run, drain and shutdown of the runtime; command tasks | `NatsRuntime_proofs` |
| `NatsEvents` | emit, the durable JetStream consumer, replicas and tasks for events | `NatsEvents_proofs` |
| `DependencyOrder` | the depth-first search that orders a module graph | `ModuleGraph_proofs` |
| `ProviderLifecycle` | build_container to shutdown_module for one application | `ModuleGraph_proofs` |
| `WebSocketConnection` | one gateway connection on either adapter, its session and its frames | `WebSocketConnection_proofs` |
| `Clock` | the monotonic clock that the in-memory stores read | |
| `ThrottleStore` | `Throttle::check` and the in-memory throttle store under concurrent requests | `ProvidersAndCommands_proofs` |
| `CacheStore` | the cache facade over its in-memory store | `ProvidersAndCommands_proofs` |
| `EventBus` | register, emit and live streams for one type of event | `ProvidersAndCommands_proofs` |
| `AccessLog` | request workers, the bounded queue, the writer thread, the stream locks | `ProvidersAndCommands_proofs` |
| `ControllerMacro` | what `#[controller]` makes of attributes: routes and compile errors | |
| `RequestPipeline` | the generated wrapper, the payload, uploads and their destructors | |
| `ApplicationRuntime` | `Application::new` to the end of `listen`, around `RequestPipeline` | `ApplicationRuntime_proofs` |
| `ProjectCommands` | `new`, `generate` and `update` on a project that may be half made | `ProvidersAndCommands_proofs` |
| `WatchRun` | `run --watch`: restarts, the Ctrl-C thread, the watcher | `ProvidersAndCommands_proofs` |
| `MC...` | instances of each for TLC | |

Definitions whose comment begins with "Mutant" change one definition the way a
plausible bug would; no specification uses them. Each run's properties were seen
to fail under such a change.

### RedisCommands

One command subject, thus one Stream and one group; an entry is identified with
its command. `undelivered` and `pending` are the group's view of the Stream,
`stale` the pending entries that have been idle for `command_recovery_delay`.
Owner names in the pending list are left out: no call depends on them, as
`touch_pending` and `ack_delete` work whoever owns the entry. `status`, `loop`
and `room` are the control state of `run` and `command_loop`; `tasks` is the
`JoinSet` of all replicas. A task is a record that walks through
`process_command_entry`: `claimed`, `running`, `publish`, `complete`, or `failed`
when its result is an error the loop has yet to meet. `client` and `inbox` are a
call of `request` and its Pub/Sub subscription.

Every await on the broker is a step of its own, so anything may happen between
the claim and the spawn's first instruction, between the response and the
removal, and so on. What the broker does within one call is one step, as it is
in Redis. `CallLost` lets the call of a replica that fails or dies have happened
or not. Failures are counted in `disruptions`: crashes, failed calls, panics,
stalls longer than the recovery delay, aborted shutdowns, and loops ended by a
failed task. The counter is no bound on what the code does: properties use it to
say what each disruption may cost. `LoopFails` is not optional: the code takes it
whenever it meets a failed task, so it counts and is not limited.

A command's `Kind` selects the outcome of decoding and of the response limit;
the text of messages is left out.

### RedisEvents

The Stream has positions so that `MAXLEN ~ n` may trim its head (`MAXLEN`: it
removes any part of the prefix before the last n entries). `deliveries` is Redis's
`times_delivered`, counted by XREADGROUP and XAUTOCLAIM but not by the JUSTID claim
of `touch_pending`. `PendingAttempt` reads it back in a call of its own, as
`pending_attempt` does, or yields 1 when the entry is gone. A server error below the
limit ends the task without an acknowledgement; at the limit the event goes to
the dead-letter Stream, if any, and is acknowledged. A service's group never reads
another's, so one group is modelled. Trimmed pending entries are dropped by
XAUTOCLAIM and XCLAIM as Redis 7.0 does.

### CommandContract

Per command `where` it is, whether it is `decided`, and how often it ran. A command
leaves only once decided, never comes back, and runs at most once plus one time
per trouble. `RedisCommands!Contract` is the refinement mapping.

### NatsRuntime

A service's replicas subscribe to each subject in one queue group. `consumer` is
the state of each `consume_command`, `phase` that of `run`. Commands that NATS
gave to a subscription wait in `buffer` until `select!` takes them; a subscription
lives as long as the `consume_command` that owns it, so also while that waits for
its handlers, and what it still holds is dropped with it. An aborted task (dropped `JoinSet`, `abort_all`)
is no longer waited for, but runs on to its next await: `aborted` tasks
may still answer, or vanish. `stopping` is the time in which `shutdown_module` runs
the provider hooks, which is why `GracefulShutdown` looks at it. Between the
subscription of the first subject and the end of `start`, consumers already
serve, and a start that fails aborts them, as in the code.
Hanging handlers need no action: no fairness is assumed of them. To a command in
`Unanswerable` neither the response nor the bounded error that replaces it need fit
`max_response_bytes` (correlation ids are not bounded here): `ResponseTooLarge` is
then the end of its task: `process_command` publishes nothing and drops the error.

### NatsEvents

One event handler, thus one durable consumer. JetStream is modelled as the code
configures it: explicit acknowledgements, unlimited deliveries, `max_ack_pending`
equal to `max_handler_concurrency` over all replicas, and another delivery when
`ack_wait` elapses. Deliveries wait in the replica's `buffer` and count whether
they are taken or not. Progress reports appear as their effect: while a task
attends an event, `AckWaitElapses` takes a stall. `ack`, Term and Nak are sent without an answer
(`Answer`, `AnswerLost`), and may answer an outdated delivery. The runtime around
`consume_event` is `NatsRuntime`'s; here it is reduced to what stops the loop.

### DependencyOrder

`schedule` recurses; the model keeps its call stack in `stack`, with the
dependencies each call has yet to visit in `todo`, and its three-valued map in
`mark`. Sets stand for lists, so every listing order is covered.

### ProviderLifecycle

A configuration (`config`) is an application: declared types, dependencies, visibility,
overrides and preset values. `pc` follows `build_container`: validate,
construct, revalidate, plan, bootstrap, running, or rollback. `preflight`'s
result is any order with dependencies first, and none if there is a cycle; that `schedule`
modelled in `DependencyOrder` finds just that is the theorem `SearchIsPreflight`. Hooks, factories and
handlers may fail wherever they are called. `pending` and `applied` are the
container's override maps, which decide the dependencies in force at each of the three
preflights. Everything runs in one task, so one hook and its bookkeeping are one
step.

### WebSocketConnection

`phase` is where `run_connection` is: connecting, waiting for a frame, in a
callback, closing, done, or unwound by a panic. Application tasks hold the same
session (`open`, `slot`) and meet the loop's own calls in the transport's `lock`; a
call walks through claiming the close slot, taking the lock, and handing its frame to
the bounded `queue`, each a step, as each is an await. `sent` is what the peer sends,
frame by frame, `read` how far the decoder is, `fragment` the message being
reassembled. The two adapters are one module: they differ in who decodes, in what
bounds a message, in whether a Close of the peer is answered by the code or by the
library, and in what `on_close` is told. A panicking callback unwinds the task, so
`on_close` is not run. There is no heartbeat in the code, and none in the model.

### ThrottleStore, CacheStore, EventBus, AccessLog

These are providers that concurrent requests share, and they share nothing with each
other but the clock: `MCSharedProviders` checks them in one run, whose
`part` selects one for a behaviour.

* `ThrottleStore`: after `ReadClock` a caller waits for the lock with the time it read,
  so increments arrive with times that are past. `buckets` are the live counters,
  `expirations` the heap and `order` the insertion order, which both keep entries of
  buckets that are gone until a compaction; `Increment` is everything `increment` does
  under its lock: purge, window, eviction, compaction. The client's identity comes from the
  peer's address, or from X-Forwarded-For behind a trusted proxy.
* `CacheStore`: the store's lock is taken before the clock is read, so a call is a step.
  Ties between entries of one instant go any way, and a new entry may lose its own tie.
* `EventBus`: emit copies the list of handlers, runs them in order and stops at the first
  error, then looks up the channel; subscribe looks, makes one, and takes the receiver. Each look at
  a lock is a step. A receiver that falls behind by more than the capacity skips.
* `AccessLog`: a worker logs the exception of a server error, then its entry; the first
  entry starts the writer. `owner` says who holds the locks of stdout and stderr, which the
  writer takes when it starts. A full queue drops the entry and counts it in two
  counters, one after the other.

### ControllerMacro, RequestPipeline, ApplicationRuntime

`Expand` gives the route that a declared method becomes, `Rejected` what does not
compile. `RequestPipeline` keeps for each request its `stage` in the wrapper; guards,
interceptors and handlers do as they like: allow, refuse, fail, return without
`next`, drop the future of their `next` as a timeout does, answer something else.
`form`, `writing`, `handles` and `persisting` are what the request's future holds of
files on `disk`; `DropUploads` is what its destructors do wherever it is dropped. The file
of a part that breaks off has no `UploadedFile` yet and stays (`broken`).
`persist_to` is three steps: create the destination exclusively, copy, remove the
source. What a `#[file]` or `#[files]` argument declares, a size, a type found in the bytes or trusted
from the header, a validator, becomes the `Checks` of its route, and the `flaws` of a body say
which checks which of its files would fail.

`ApplicationRuntime` EXTENDS it with the life of the application. Requests arrive while the
server serves and, on open connections, until it has stopped. A signal to Actix leads to
`draining` (SIGTERM: the server returns once no request is busy, or after 30 seconds, `ForceStop`) or
to `forcing` (SIGINT, SIGQUIT: it may return at once). The code runs the hooks when
`server.await` is over and looks at no request, so `Shutdown` has no guard on them, and requests that
are not dropped yet go on beside the hooks and after `listen` has returned. `axum::serve` is
started without graceful shutdown, so there a signal ends the process (`AxumKilled`), without hooks.

### ProjectCommands, WatchRun

A command of the first is checks followed by writes, one at a time, any of which may
fail and leave what was written; between commands the user deletes files or
declares the parts of a feature in its mod.rs. A content is reduced to what the file declares and uses of
others, and to whether it is `whole`: a failing write may leave none, part or all of it. A failing
`create_dir_all` is for the generators a failure of the first file, and for `new` may leave
the directory. `update` fetches, writes Cargo.toml (`UpdateManifest`, or `WriteManifestFails`
and `ManifestUnusable`), has cargo resolve the lock file and installs the tool, and may fail at each.
`lockHeld` remembers that an update failed between the manifest and the lock and none has brought
Cargo.lock up since. `outcome` is the report of the last command; a step at which a command `Ends` reports,
also if it repeats the report before.

`WatchRun` has the two threads of `run --watch`, the mutex around the process slot, and the processes:
`KillOld` and `Spawn` are two steps under one lock, and Ctrl-C, the end of the process,
changes and failures come in between. `watched` is chosen when the watcher is installed, as only
`src` and `Cargo.toml` that exist then are watched; `noticed` is the last change of
one of those. `MCCommandLine` checks both modules in one run.

## 3. Runs

| Run | Distinct states | Bounds | Shows |
|---|---|---|---|
| `commands_recovery` | 183,094 | 1 command, 2 replicas, room 1, 2 disruptions, fair | the handler runs once plus once per disruption; replies are true and not missed; every step implements `CommandContract`; the command is removed in the end |
| `commands_batches` | 5,370,400 | a malformed, a foreign and an unanswerable command, 1 replica, room 2, 1 disruption | every refusal; batches never exceed the room; nothing vanishes undecided |
| `events` | 319,469 | two services: 1 event, 2 replicas, 2 deliveries and dead letters; 2 events (one invalid), room 2, MAXLEN 1; 2 disruptions, fair | at least once, bounded invocations, honest dead letters; every event leaves even if it never succeeds and whatever is trimmed |
| `nats_runtime` | 926,169 | 3 commands (one invalid, one unanswerable) on 2 subjects, 1 replica, room 2, 1 disruption, fair | hooks start after the last handler; taken commands are answered if a response fits; callers are told the truth; `run` returns even if handlers hang |
| `nats_events` | 702,448 | 2 events (one invalid), 2 replicas, 1 outstanding, 2 deliveries, 1 stop, 2 disruptions, fair | at least once, bounded invocations, honest dead letters, every event is settled in the end |
| `order_graphs` | 346,464 | all graphs over 3 types and 1 unregistered type | topological, complete, real cycles only |
| `lifecycle_graphs` | 173,379 | all graphs over 3 types with every override of one; defective applications of 2 types | last in first out; dependents go first |
| `websocket` | 1,318,043 | either adapter, 1 application task with 1 call, 3 frames of the peer, messages of 2 fragments, queue of 2, fair | messages arrive whole and in order; accepted frames arrive and nothing follows a Close; `on_close` is told the truth; connections end |
| `shared_providers` | 540,696 | throttle: 2 requests, 2 routes, stores of 1 and 2; cache: 2 keys, 0 to 2 entries; bus: 2 handlers, 2 emitters, 2 subscribers, capacity 1; log: 2 workers with 2 requests, queue of 1 | one quota per window; indexed buckets; the cache never lies; the bus delivers; entries are written once or counted |
| `application` | 1,307,589 | 2 requests for 13 declared methods (8 do not compile), 4 bodies, body limit 2, 1 destination, either adapter; requests are symmetric | only admitted requests with files that pass the declared checks run; staged files have owners; persisted files stay; `listen` runs the hooks once and tells the truth |
| `command_line` | 468,146 | 1 feature, 2 versions, 5 commands; 3 changes, fair | reports are true, of `new`, generators and updates; features hold together; one application; watched changes are run |
| `log_blocks` | violation | as `shared_providers`, log only | a worker that logs an exception never gets past it (finding) |

Each passing run takes at most about two minutes with two workers.

*Why the bounds are enough.* A duplicate needs two deliveries of one entry, so one
command and two replicas; a second disruption lets the recovery itself be
disrupted. Capacity errors need a batch larger than the remaining room: two
entries and room two. Trimming needs an entry pushed out by a newer one: two
events and retention one. Two permitted deliveries are the least at which a first
failure is retried and a second is final. In `nats_runtime` two commands share a
subject, so that one task's failure aborts another, and the third is alone, so that one
consumer can end or hang while the other works; one that shares a subject is unanswerable, which
leaves the one beside it to answer; no third command meets a full consumer
there, and its limit rests on the theorem `TypeCorrect`. In `nats_events` a single outstanding
delivery is the least at which a replica can block the others; `Batch` bounds what a
pull request asks for, `MaxStops` the orderly stops, without which deliveries to
stopping replicas would count without end. In `events` the two services are the two questions: a single event
that two replicas fail and retry, and an entry trimmed while it is pending. A WebSocket
message of two fragments and three frames make one message followed by another, or by
a Close in its middle; a queue of two is full with the loop's own frame and the application's. One
bucket in a store is the least that must be evicted for another, two the least for an order, and a
third window is where an entry of the first must not be found any more. One
subscriber that lags, one that keeps up and two emits race for a channel of capacity one. One
log entry in the queue makes the second one a drop. Two requests persist to one path; a body
limit of two with bodies of up to three has a body at, below and above it, and two of them have
files that fail one or two of the four checks. Five
commands are `new`, three generators in any order with a deletion between them, and
an update; three changes meet a watcher before, during and after a restart. Three types are the least
for a shared dependency and for a cycle through a third node. `MaxDisruptions`
bounds only the TLC runs; the theorems hold for any number.

*Fairness.* Time passes for entries no task attends; a running replica polls,
handles what the poll returned and meets failed tasks; a running task ends. These
are the loops of the code under an async runtime, with handlers that return and a
broker that answers. Nothing is assumed of clients, starts, stops or
disruptions. Liveness moreover supposes one replica that stays up from some time
on. All fairness is weak. `nats_runtime` assumes less: the loops of `run` and
`consume_command` are scheduled, the shutdown timeout elapses and the provider
hooks return, but handlers need not. In `websocket` the task, each call and the
writer of the queue run on, so callbacks return and a peer that is there takes frames, and
Axum's peer leaves once its Close was answered; nothing else is assumed of the peer. In `shared_providers` the
workers and the writer thread run and the report interval passes; the other parts need no fairness. In
`command_line` both threads of `run --watch` run on; the commands are not assumed to be entered.
`application` is checked for safety: hooks, handlers and clients may hang.

*Deadlock.* `CHECK_DEADLOCK` is off where the system ends: after the search returned, after
a startup failed, in `nats_events` when every event is settled and the bounds
on stops and disruptions are used up, when a connection is over, when the shared
providers' callers have made all their calls, when `listen` has returned, and when the commands are used up
or `run --watch` has exited. Elsewhere a stopped replica may start again, so no state is
stuck.

### Findings

`log_blocks`: the writer thread of the access log locks stdout and stderr when it starts
and never gives them back, while `log_http_exception` and the shutdown messages write to the same
streams. From the first access-log entry on, a worker that has a server error to log
waits for ever. `docs/src/advanced/logging.md:82` promises that logging drops
entries instead of blocking requests.

Four further statements of the repository are refuted by the code; they are defined in the modules
and checked by no run here (add one as an INVARIANT to the configuration named):

| Statement | Module, configuration | The code |
|---|---|---|
| `ReturnedIsFinal` | `RedisCommands`, `RedisCommandsRecovery.cfg` | a command whose handler returned runs again when the replica dies before the script that publishes and completes; the comment of `publish_command_response_and_complete` says otherwise |
| `DeliveriesCapped` | `RedisEvents`, `RedisEvents.cfg` | `max_event_deliveries` does not bound deliveries of an event whose handler panics |
| `GraphErrorsComeFirst` | `ProviderLifecycle`, `ProviderLifecycleGraphs.cfg` | the second validation judges overridden providers by their production dependencies |
| `HooksArePaired` | `ProviderLifecycle`, `ProviderLifecycleGraphs.cfg` | an injectable override is initialised and never shut down |

What else the modelling showed, where the code promises nothing or the properties except it:

* The file of a part that breaks off while it is written is never removed, though
  `docs/src/concepts/extractors.md:75` and `multipart-uploads.md:106` speak of all staged files; a failed
  `persist_to` leaves a partial destination; after a crash nothing removes staged files.
* On Ctrl-C (SIGINT) Actix's server does not wait for its workers, so hooks may run, and `listen` return,
  while requests are still being handled.
* A NATS command is handled and never answered when not even the bounded error response fits
  `max_response_bytes`; its caller learns it by its timeout.
* Under Axum a signal ends the process without `on_shutdown` hooks (`production.md:108` and `axum.md:78`
  speak of graceful shutdown); duplicate routes panic after binding; an error of `with_openapi`
  drops a started application without its hooks.
* Under Axum `on_close` is not told the frame of a local close, and every error is
  reported as a protocol error; on both adapters a panicking callback skips `on_close`.
* Access-log entries of the last 100 ms are lost at exit.
* A cache entry that ties with older ones may be evicted by its own `set`.
* `caelix new` leaves a half-made directory behind, which blocks the next `new`. When an update fails
  after it wrote Cargo.toml, the next finds the manifest up to date, leaves Cargo.lock and reports success (the exception
  `lockHeld` of `ReportsAreTrue`); when its write fails, Cargo.toml may be left empty.
* When the watcher of `run --watch` fails, the command returns and the application runs on. One that
  the main thread starts between the Ctrl-C handler's unlock and its exit outlives the command.

## 4. Proofs

`tlapm` checks every step of the following for all values of the constants. In
each module an inductive invariant (`IInv`, where nothing else is said) is needed because the properties are
not inductive: they speak of histories and results, and say nothing of the
tasks, calls and bookkeeping that lead there.

### RedisCommands_proofs

For all sets of commands, kinds, finite sets of replicas, limits and any number
of disruptions; from the named ASSUMEs of `RedisCommands`.

| Theorem | States |
|---|---|
| `TypeCorrect` | `Spec => []TypeOK` |
| `InvocationsArePaid` | `PaidInvocations` |
| `NothingIsLost` | `NothingLost` |
| `NoReplyIsMissed` | `NoReplyMissed` |
| `RepliesAreTruthful` | `TruthfulReply` |
| `ConcurrencyIsBounded` | `ConcurrencyBound` |
| `TransportKeepsContract` | the transport implements `CommandContract` |

* `StreamInv`: an entry is undelivered, pending or gone, and only appended ones are
  anywhere; tasks hold entries that were delivered, with turns the group counted.
* `ReplyInv`: a reply channel is open exactly while its caller waits, and holds the
  first response published.
* `DecisionInv`: what a task's phase says of its command: past `running`, it is decided.
* `PaidInv`: invocations plus the tasks that may still invoke are paid for by
  disruptions; a live undisturbed task is the only one of its command.
* `RoomInv`: tasks plus the room of a call under way stay within `Concurrency`.
* `HonestInv`: bodies in flight agree with the history.
* `SingleInv`: without disruptions, each command is delivered at most once.

Each part has a preservation lemma with one step per action; the theorems follow by
PTL. The refinement theorem maps each action to a step of the contract or a stutter.

### ModuleGraph_proofs

The search: for any sets of registered and unregistered types, from `NodesAssumption`, theorems
`OrderTypeCorrect`, `OrderIsTopological`, `CyclesAreReal`, `OrderIsComplete`. `SearchInv` ties the three
records of the search together: the marks say what is on the stack and what is in the
result, neither lists a node twice, each node on the stack is a dependency of
the one below it, and what a visited node still lacks is on the stack above it or in its `todo`.

The lifecycle: for any finite set of types and any set of applications, from `TypesAssumption` and
`ConfigsAssumption`: `TypeCorrect`, `LastInIsFirstOut`, `DependentsAreFirst`,
`BootstrapIsOrdered`, `StartedIsComplete`. The parts of `IInv`: `UndoneInv` (what went
down, what is left to take down and what is initialised make up the startup
sequence), `UpsInv` (dependencies come up first), `ServicesInv` (what is in the container
and why), `ConstructInv` and `BootstrapInv` (the rest of the order holds what is still
missing, dependencies first).

Both: `SearchIsPreflight` states of the two specifications side by side that whenever the search
was given the graph in force (`SameGraph`), a search that ends well has found a member of the
lifecycle's `Orders`, and one that reports a cycle leaves `Orders` empty. The latter is a
minimum argument (`LeastNumber`): the provider of a cycle that came first in an order would depend on a later one.

### NatsRuntime_proofs

For any finite sets of commands and replicas, any subjects, any concurrency and any
number of disruptions, from the named ASSUMEs of `NatsRuntime`:

| Theorem | States |
|---|---|
| `TypeCorrect` | `TypeOK` |
| `ShutdownIsGraceful` | `GracefulShutdown` |
| `CommandsAreAnswered` | `TakenIsAnswered` |
| `RepliesAreTruthful` | `TruthfulReply` |

* `LiveInv`: a task that is not aborted has a consumer that is at work or drains, so
  once all consumers are over none is left. This carries `GracefulShutdown`.
* `OnceInv`: a command is in one buffer, then in one task, never again in a buffer.
* `AnswerInv`: what a task's phase and a caller's answer say of the handler: a refused
  command was never invoked and has no task that could invoke it.

Which responses fit is the constant `Unanswerable`, any set of commands: `CommandsAreAnswered` says of all others
that they are answered, and of these that the handler returned or the deadline had elapsed.

### RedisEvents_proofs

For any finite sets of events and replicas, any services and bounds, from the named
ASSUMEs of `RedisEvents`:

| Theorem | States |
|---|---|
| `TypeCorrect` | `TypeOK` |
| `EventsAreSettled` | `AtLeastOnce` |
| `DeadLettersAreHonest` | `HonestDeadLetters` |
| `AttemptsAreCounted` | `AttemptCounts` |
| `InvocationsAreBounded` | `BoundedInvocations` |

* `EntryInv`: where an entry is, in the Stream, trimmed, pending or in tasks, and what
  its delivery count says.
* `SettleInv`, `QuietInv`, `PaidInv`: the arguments of `NatsEvents_proofs` below, for a
  broker that counts deliveries and hands idle entries to whoever asks. The balance
  adds up the tasks that may invoke the handler, those about to be spawned, and the
  redeliveries that are due without a disruption.

### NatsEvents_proofs

For any finite sets of events and replicas, any limits and bounds, from the named
ASSUMEs of `NatsEvents`:

| Theorem | States |
|---|---|
| `TypeCorrect` | `TypeOK` |
| `DeliveriesEndJustified` | `AtLeastOnce` |
| `DeadLettersAreHonest` | `HonestDeadLetters` |
| `InvocationsAreBounded` | `BoundedInvocations` |

* `SettleInv`: a task about to acknowledge has a justification, one about to bury
  was given up, and only events whose deliveries are used up are given up.
* `QuietInv`: while nothing was disrupted, an event is held by one task or one replica,
  and its failures are all its invocations but the one under way. Without it a second
  holder could bury what the first accepts.
* `PaidInv`: a balance per event. Whoever may still invoke the handler, whoever
  of those may also ask for another delivery, a redelivery that needs no disruption,
  and the invocations so far together never exceed one plus the disruptions plus
  the deliveries that permitted a retry.

### ApplicationRuntime_proofs

For any requests, bodies, destinations and limits, and any declared methods with any number of
guards and interceptors, from the named ASSUMEs of `RequestPipeline`:

| Theorem | States |
|---|---|
| `GatesHold` | `OnlyAdmittedRequestsRun` |
| `StagedFilesHaveOwners` | `StagedFilesAreOwned` |
| `PersistedFilesAreKept` | `PersistedFilesStay` |
| `ListenTellsTheTruth` | `ListenIsTruthful` |

A step of a request touches its own files and no other's (`OthersUploads`), so the invariant is
one per request and each action is looked at for its own request only. `StageInv` says where
in the wrapper a request may hold which files, `FilesInv` that it holds each in one place, `DiskInv`
that these and only these are on disk. `StoreInv` adds that a destination
under way belongs to one writer. `PassedInv`, `LimitInv` and `EnteredInv` say what a stage owes
to the gates before it; the last is about sequences: reversing the list of interceptors while
wrapping them enters them in the declared order. `CheckedInv` says that the files in a handler's arguments passed
the route's checks. `RuntimeInv` is `ListenIsTruthful` with the range of `failed`.

### WebSocketConnection_proofs

For either adapter, any finite set of application tasks and any limits and numbers of calls and
frames, from the named ASSUMEs of `WebSocketConnection` (`AppsAssumption` only keeps the names of the
tasks apart from the loop's own):

| Theorem | States |
|---|---|
| `ConnectionTypeCorrect` | `TypeOK` |
| `CallbacksGetMessagesInOrder` | `MessagesInOrder` |
| `AcceptedFramesAreSent` | `AcceptedFramesArrive` |
| `OnCloseTellsTheTruth` | `OnCloseIsTruthful` |

* `LockInv`: the holder of the transport's lock is the call that pushes, and the loop's own call is
  under way in two phases only.
* `CloseInv`: under the lock, `closed` marks the call that closes, so a Close frame is the last of
  queue and wire, and nothing is discarded behind it. This carries `AcceptedFramesArrive`.
* `KnownInv`: what `on_close` may be told is a frame on its way or one whose call sent nothing.
* `AgreeInv`: on Actix, while no close call has failed, the loop and the session speak of the one
  Close frame there is. With two close calls under way neither is on the wire, which is why
  the statement is about a sole one.
* `InputInv`: frames read and not taken, the message in assembly and the delivered messages make up
  what the peer sent, in order; the end of a message lies before the beginning of the next.

### ProvidersAndCommands_proofs

The providers that requests share and the command line, each from the ASSUMEs of its
own module and with any values of its constants. A specification here is a component's `Init` and `Next` by
themselves (`ThrottleSpec`, `CacheSpec`, `BusSpec`, `LogSpec`, `ProjectSpec`, `WatchSpec`); the runs select one of
them per behaviour. `ProjectSpec` leaves other actions' variables to nobody, as nothing is shared.

| Theorem | States | Invariant |
|---|---|---|
| `StoreIsIndexed`, `QuotasHold` | `BucketsAreIndexed`, `QuotaHolds` | `ThrottleInv` |
| `CacheIsTruthful` | `CacheNeverLies` | `CacheInv` |
| `BusIsReliable` | `BusDelivers` | `BusInv` |
| `LogKeepsItsBooks` | `NothingUnaccounted` | `LogInv` |
| `FeaturesCompile`, `CommandsReportTruly` | `FeaturesHoldTogether`, `ReportsAreTrue` | `ProjectInv` |
| `ApplicationIsOne` | `OneApplication` | `WatchInv` |

* `ThrottleInv`: a generation and a key say which bucket it is, and the times that wait for the lock
  are not in the future. From these follows that a store with a bucket has one oldest (`OldestIsOne`), so
  an eviction removes one; that an increment keeps both indexes is shown for each of what it does in turn:
  purge, count, evict, compact (`IncrementKeeps`).
* `CacheInv`: what is stored under a key is what was last written there, with the same expiry. `SetShape` says what a
  `set` leaves, whatever ties it breaks.
* `BusInv`: however the first subscriptions race there is one channel (`OneChannel`); an event that is being sent was
  handled by all its handlers (`EmitInv`); and, for each live stream, the channel from where it attached holds what was done since,
  and all up to its position was got unless it lagged (`StreamInv`). An emitter that looked the channel up before the
  subscription is in `before`, which is what makes it inductive.
* `LogInv`: a thread's lines are of requests it is done with, in order (`LinesInv`); the books balance but for the
  workers between the two counters (`CountInv`). Each request is one more in exactly one of the places, so
  these are facts about cardinalities; hence the finite `Threads`.
* `ProjectInv`: what a command has still to make is not there, but for a `mod.rs` it skips, and all it needs is there or to
  come (`MakingInv`); a feature holds together within what is there and what is to come (`FeaturesInv`), of which
  `FeaturesHoldTogether` is the case of no command; and Cargo.lock is behind Cargo.toml only inside `update` or after
  one failed there and none succeeded since, while what it fetched is no later than the latest (`VersionInv`).
* `WatchInv`: who holds the mutex is where it is held (`LockInv`); between kill and spawn nothing runs, and otherwise what runs
  is in the slot (`SlotInv`); the lock keeps the Ctrl-C thread out of the time between the two.

### Only model-checked

Every safety property that a passing run checks is a theorem. What remains with TLC: liveness (`ChangesAreRun`,
`ConnectionEnds`, `LogIsWritten`, `RunReturns` and those of the transports: `EveryCommandLeaves`, `EveryEventLeaves`,
`EveryEventSettles`), since fairness is out of the prover's reach; the client's address that `ThrottleStore` selects from
X-Forwarded-For, which is a recursion over the list (the proofs take it for some key); and the finding of `log_blocks`.
The other way round, type invariants, `BootstrapOrder`, `RunningIsComplete`, `ConcurrencyBound`, `AttemptCounts` and
`SearchAgrees` are proved and no part of a run.

## 5. Not modelled

Of Redis: the owner of a pending entry; the cursor of XAUTOCLAIM, which always
starts at `0-0` and looks at ten times COUNT entries (`redis_transport.rs:901`); several services on
one command subject, whose groups share a Stream (985); reconnection inside the
`redis` crate. Formatting and field limits appear only as a command's kind.
Of NATS: reconnection inside `async_nats`; the configuration errors of `start` (they fail
it as `StartFails` does); `shutdown` called from elsewhere than `run`, which no public type allows;
commands that NATS sends to a subscription that is draining (`lib.rs:853`) appear only
through what is in its buffer.
Of the lifecycle: a startup future that is dropped (`module.rs:897`), and two modules in one
container (974). Of the HTTP side: values of contexts, cookies and responses, CORS and layers,
the OpenAPI routes, the code of validators (they pass or refuse a file). Of the access log: the text of lines and the
installation of a tracing subscriber. Of the command line: templates, concurrent CLI processes,
`doctor`, and how the watcher follows a watched path that is replaced. Of the
macros: message handlers, gateways and `#[injectable]`, which generate registrations. Components without a module are listed with the reason in `PROJECT.json`.

## 6. Plan

1. `RedisCommands`, `CommandContract`, with proofs. Done.
2. `RedisEvents`, with proofs. Done.
3. `DependencyOrder`, `ProviderLifecycle`, with proofs. Done.
4. `NatsRuntime`, `NatsEvents`, with proofs. Done.
5. `ThrottleStore`, `CacheStore`, `EventBus`, `AccessLog`. With proofs. Done.
6. `WebSocketConnection`, with proofs. Done.
7. `ControllerMacro`, `RequestPipeline`, `ApplicationRuntime`, with proofs. Done.
8. `ProjectCommands`, `WatchRun`, with proofs. Done.
9. Left: `SubjectPatterns` as functions against a reference definition; visibility of
   exports in modules; transports next to the server in one composition.
