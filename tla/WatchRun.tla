------------------------------ MODULE WatchRun ------------------------------
(***************************************************************************)
(* caelix run --watch: the main thread restarts cargo run on changes, and  *)
(* the Ctrl-C handler is another thread that shares the process slot with  *)
(* it under a lock (crates/caelix-cli/src/lib.rs).                         *)
(***************************************************************************)
EXTENDS Integers, FiniteSets

CONSTANT MaxChanges   \* bound of the model: how often the sources change

ASSUME WatchAssumption == MaxChanges \in Nat

VARIABLES
    main,      \* the main thread: starting, killing, spawning, installing, watching, gone
    handler,   \* the Ctrl-C thread: none, locking, killing, exiting
    holder,    \* of the process mutex
    slot,      \* RunningProcess.child: the process it has a handle of, 0 for None
    running,   \* processes alive, numbered in the order they were spawned
    spawned,   \* how many there were
    watched,   \* the paths that the watcher watches
    noticed,   \* history: the last change of a watched path
    source,    \* how often src or Cargo.toml changed
    built,     \* the change that the newest process was built after
    events     \* what the debouncer has for the main thread

watchVars == <<main, handler, holder, slot, running, spawned, watched, noticed, source, built, events>>

Paths == {"src", "Cargo.toml"}

WatchInit ==
    /\ main = "starting" /\ handler = "none" /\ holder = "nobody"
    /\ slot = 0 /\ running = {} /\ spawned = 0
    /\ watched = {} /\ noticed = 0 /\ source = 0 /\ built = 0
    /\ events = FALSE

Alive == main # "gone"

(* The watcher reports what changed in the last 300 ms as one event.  A change
   of a path that it does not watch goes unnoticed. *)
Change(path) ==
    /\ Alive /\ source < MaxChanges
    /\ source' = source + 1
    /\ noticed' = IF path \in watched THEN source' ELSE noticed
    /\ events' = (events \/ path \in watched)
    /\ UNCHANGED <<main, handler, holder, slot, running, spawned, watched, built>>

ProcessEnds ==
    /\ \E p \in running : running' = running \ {p}
    /\ UNCHANGED <<main, handler, holder, slot, spawned, watched, noticed, source, built, events>>

(* recv_timeout returned an event, and the main thread wants the lock. *)
Restart_WhenRunning ==
    /\ main = "watching" /\ events /\ slot # 0
    /\ main' = "starting" /\ events' = FALSE
    /\ UNCHANGED <<handler, holder, slot, running, spawned, watched, noticed, source, built>>

Restart ==
    /\ main = "watching" /\ events
    /\ main' = "starting" /\ events' = FALSE
    /\ UNCHANGED <<handler, holder, slot, running, spawned, watched, noticed, source, built>>

Lock ==
    /\ main = "starting" /\ holder = "nobody"
    /\ main' = "killing" /\ holder' = "main"
    /\ UNCHANGED <<handler, slot, running, spawned, watched, noticed, source, built, events>>

(* kill takes the child out of the slot and waits for its end. *)
KillOld_Kept == UNCHANGED running
KillOld == running' = running \ {slot}

Kill ==
    /\ main = "killing"
    /\ KillOld
    /\ slot' = 0
    /\ main' = "spawning"
    /\ UNCHANGED <<handler, holder, spawned, watched, noticed, source, built, events>>

Spawn ==
    /\ main = "spawning"
    /\ spawned' = spawned + 1
    /\ running' = running \cup {spawned'}
    /\ slot' = spawned'
    /\ built' = source
    /\ main' = IF spawned = 0 THEN "installing" ELSE "watching"
    /\ holder' = "nobody"
    /\ UNCHANGED <<handler, watched, noticed, source, events>>

(* The watcher is set up only now, for those of the paths that exist. *)
Install ==
    /\ main = "installing"
    /\ main' = "watching" /\ watched' \in SUBSET Paths
    /\ UNCHANGED <<handler, holder, slot, running, spawned, noticed, source, built, events>>

(* clear_screen or spawn fails: the command returns the error. *)
SpawnFails ==
    /\ main = "spawning"
    /\ main' = "gone" /\ holder' = "nobody"
    /\ UNCHANGED <<handler, slot, running, spawned, watched, noticed, source, built, events>>

(* The watcher fails.  The handler's closure keeps its Arc, so the process is
   not dropped with the main thread's and nobody kills it. *)
WatcherFails ==
    /\ main \in {"installing", "watching"}
    /\ main' = "gone"
    /\ UNCHANGED <<handler, holder, slot, running, spawned, watched, noticed, source, built, events>>

(* recv_timeout timed out: a process that has ended leaves the slot. *)
Reap ==
    /\ main = "watching" /\ ~events /\ holder = "nobody"
    /\ slot # 0 /\ slot \notin running
    /\ slot' = 0
    /\ UNCHANGED <<main, handler, holder, running, spawned, watched, noticed, source, built, events>>

CtrlC ==
    /\ Alive /\ handler = "none"
    /\ handler' = "locking"
    /\ UNCHANGED <<main, holder, slot, running, spawned, watched, noticed, source, built, events>>

HandlerLocks ==
    /\ Alive /\ handler = "locking" /\ holder = "nobody"
    /\ handler' = "killing" /\ holder' = "handler"
    /\ UNCHANGED <<main, slot, running, spawned, watched, noticed, source, built, events>>

(* The guard goes out of scope before exit is called. *)
HandlerKills ==
    /\ Alive /\ handler = "killing"
    /\ running' = running \ {slot}
    /\ slot' = 0
    /\ handler' = "exiting" /\ holder' = "nobody"
    /\ UNCHANGED <<main, spawned, watched, noticed, source, built, events>>

Exit ==
    /\ Alive /\ handler = "exiting"
    /\ main' = "gone"
    /\ UNCHANGED <<handler, holder, slot, running, spawned, watched, noticed, source, built, events>>

MainRuns == Restart \/ Lock \/ Kill \/ Spawn \/ Install \/ Reap
HandlerNext == HandlerLocks \/ HandlerKills \/ Exit
WatchNext ==
    \/ \E path \in Paths : Change(path)
    \/ ProcessEnds \/ CtrlC
    \/ MainRuns \/ SpawnFails \/ WatcherFails \/ HandlerNext

(* Both threads run on, and nothing has to fail.  A free lock may be lost to
   the other thread, but the handler wants it only once. *)
WatchFairness ==
    /\ WF_watchVars(MainRuns)
    /\ WF_watchVars(HandlerNext)

(* There is never more than one application of this command's, and as long as
   the command lives, the one there is is the one in the slot,
   so that Ctrl-C and the next change can reach it. *)
OneApplication ==
    /\ Cardinality(running) <= 1
    /\ Alive => running \subseteq {slot}

(* A change of what the watcher watches, while the application runs, is being
   restarted or has ended, is built and started in the end, or the command has
   ended. *)
ChangesAreRun ==
    \A n \in 1..MaxChanges : noticed = n ~> (built >= n \/ main = "gone")
=============================================================================
