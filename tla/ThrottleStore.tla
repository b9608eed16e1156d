--------------------------- MODULE ThrottleStore ----------------------------
(***************************************************************************)
(* Throttle::check and the in-memory store behind it, under concurrent     *)
(* requests: the client's identity, the fixed windows, and the store's     *)
(* expiry heap and insertion order with their compaction                   *)
(* (crates/caelix-core/src/throttle.rs).                                   *)
(*                                                                         *)
(* A request reads the clock before it waits for the store's lock, so the  *)
(* time it goes by may be long past when its turn comes.  What it does     *)
(* under the lock is one step.                                             *)
(***************************************************************************)
EXTENDS Clock, FiniteSets, SequencesExt

CONSTANTS
    Requests,        \* concurrent callers of check
    Addresses,       \* of peers
    TrustedProxies,  \* those of them whose X-Forwarded-For is believed
    NoHeader,
    Malformed,
    Routes,
    Traffic,         \* requests that arrive: peer, route and X-Forwarded-For
    Limit,           \* policy.limit of each route
    Window,          \* policy.window of each route
    Capacities,      \* of stores to look at
    MaxGenerations   \* bound of the model: buckets ever made

ASSUME ThrottleAssumption ==
    /\ IsFiniteSet(Addresses) /\ IsFiniteSet(Routes)
    /\ TrustedProxies \subseteq Addresses
    /\ NoHeader # Malformed
    /\ \A q \in Traffic :
        /\ q.peer \in Addresses /\ q.route \in Routes
        /\ q.chain \in {NoHeader, Malformed} \/ q.chain \in Seq(Addresses)
    /\ Limit \in [Routes -> Nat \ {0}]
    /\ Window \in [Routes -> Nat \ {0}]
    /\ Capacities \subseteq Nat \ {0}
    /\ MaxGenerations \in Nat

VARIABLES
    capacity,     \* of the store
    calls,        \* per request, what it knows of its call under way
    buckets,      \* the live buckets
    expirations,  \* the heap: deadline, generation and key
    order,        \* insertion_order, which is sorted by generation
    generation    \* next_generation

throttleVars == <<capacity, calls, buckets, expirations, order, generation>>

Keys == [client : Addresses, route : Routes]
IdleCall == [step |-> "idle"]
Bucket == [key : Keys, count : Nat, expires : Nat, gen : Nat]
Entry(b) == [expires |-> b.expires, gen |-> b.gen, key |-> b.key]
Place(b) == [gen |-> b.gen, key |-> b.key]

BucketsOf(k, live) == {b \in live : b.key = k}

ThrottleTypeOK ==
    /\ \A r \in Requests :
        \/ calls[r] = IdleCall
        \/ calls[r] \in [step : {"clocked"}, key : Keys, now : 0..clock]
        \/ calls[r] \in [step : {"rejected"}, retry_after : Nat]
    /\ capacity \in Capacities
    /\ buckets \subseteq Bucket
    /\ \A k \in Keys : Cardinality(BucketsOf(k, buckets)) <= 1
    /\ generation \in 0..MaxGenerations
    /\ clock \in 0..MaxTime

ThrottleInit ==
    /\ clock = 0
    /\ capacity \in Capacities
    /\ calls = [r \in Requests |-> IdleCall]
    /\ buckets = {}
    /\ expirations = {}
    /\ order = {}
    /\ generation = 0

(* The client is the last address of the chain that is no proxy of ours; a
   peer that is none itself is not asked for a chain, and a chain of proxies
   alone says nothing. *)
Believed(chain) == SelectSeq(chain, LAMBDA a : a \notin TrustedProxies)
Client(peer, chain) ==
    IF peer \notin TrustedProxies \/ chain = NoHeader \/ Believed(chain) = <<>> THEN peer
    ELSE Last(Believed(chain))
Untrackable(peer, chain) == peer \in TrustedProxies /\ chain = Malformed

(* The tracker and the policy have been asked: the request reads the clock.
   A request the tracker cannot place is an error and touches nothing. *)
ReadClock(r) ==
    /\ calls[r].step # "clocked"
    /\ \E q \in Traffic :
        /\ ~Untrackable(q.peer, q.chain)
        /\ calls' = [calls EXCEPT ![r] =
            [step |-> "clocked", now |-> clock,
             key |-> [client |-> Client(q.peer, q.chain), route |-> q.route]]]
    /\ UNCHANGED <<clock, capacity, buckets, expirations, order, generation>>

(* Due entries leave the heap, and with them the buckets they were made for.
   An entry whose bucket was evicted since has nothing to remove, even when
   its key has another bucket by now. *)
Due(now) == {e \in expirations : e.expires <= now}
Expired_AnyGeneration(now) == {b \in buckets : \E e \in Due(now) : b.key = e.key}
Expired(now) ==
    {b \in buckets : \E e \in Due(now) :
        b.key = e.key /\ b.gen = e.gen /\ b.expires <= now}

(* Places that lost their bucket are skipped until one is found. *)
Oldest(places, live) ==
    {b \in live : Place(b) \in places /\ \A c \in live : Place(c) \in places => b.gen <= c.gen}
Passed(places, live) ==
    {p \in places : \A b \in Oldest(places, live) : p.gen <= b.gen}

(* The heap and the order are rebuilt from the live buckets when they have
   grown past twice the capacity. *)
Compact_Overdue(entries, all) == IF Cardinality(entries) > 2 * capacity + 1 THEN all ELSE entries
Compact(entries, all) == IF Cardinality(entries) > 2 * capacity THEN all ELSE entries

(* A count past the limit is as good as any other: the model stops there. *)
CountOne(b) == [b EXCEPT !.count = IF @ > Limit[b.key.route] THEN @ ELSE @ + 1]

(* What the lock is held for, and the verdict on the record it returns. *)
Increment(r) ==
    LET k == calls[r].key
        now == calls[r].now
        live == buckets \ Expired(now)
        known == BucketsOf(k, live) # {}
        full == ~known /\ Cardinality(live) >= capacity
        kept == IF full THEN live \ Oldest(order, live) ELSE live
        fresh == {b \in {[key |-> k, count |-> 0, expires |-> now + Window[k.route],
                          gen |-> generation + 1]} : ~known}
        held == kept \cup fresh
        mine == CHOOSE b \in held : b.key = k
        counted == CountOne(mine)
        entries == (expirations \ Due(now)) \cup {Entry(b) : b \in fresh}
        places == (order \ (IF full THEN Passed(order, live) ELSE {})) \cup {Place(b) : b \in fresh}
    IN
    /\ calls[r].step = "clocked"
    /\ generation + Cardinality(fresh) <= MaxGenerations
    /\ generation' = generation + Cardinality(fresh)
    /\ buckets' = (held \ {mine}) \cup {counted}
    /\ expirations' = Compact(entries, {Entry(b) : b \in held})
    /\ order' = Compact(places, {Place(b) : b \in held})
    /\ calls' = [calls EXCEPT ![r] =
                    IF counted.count <= Limit[k.route] THEN IdleCall
                    ELSE [step |-> "rejected", retry_after |-> counted.expires - now]]
    /\ UNCHANGED <<clock, capacity>>

ThrottleNext ==
    \/ Tick /\ UNCHANGED throttleVars
    \/ \E r \in Requests : ReadClock(r) \/ Increment(r)

(* A client's quota comes back when its window is over and not before,
   whatever order the requests reached the lock in: a bucket that still has
   time by the real clock disappears only as the oldest of a full store, to
   make room for a new one, and one that stays keeps what it counted.  And a
   client that waits as long as Retry-After told it has outlived the window
   that rejected it, however stale the time was that the answer went by. *)
Survivors(b) == {c \in buckets' : c.gen = b.gen}
Evicted(b) ==
    /\ generation' > generation
    /\ Cardinality(buckets') = capacity
    /\ \A c \in buckets' : b.gen < c.gen
QuotaStep ==
    /\ \A b \in buckets :
        IF Survivors(b) = {} THEN b.expires <= clock \/ Evicted(b)
        ELSE \A c \in Survivors(b) : c.count >= b.count /\ c.expires = b.expires
    /\ \A r \in Requests :
        (calls'[r].step = "rejected" /\ calls'[r] # calls[r])
            => \A b \in BucketsOf(calls[r].key, buckets') : clock + calls'[r].retry_after >= b.expires
QuotaHolds == [][QuotaStep]_throttleVars

(* The store never outgrows its capacity, nor its two indexes twice that, and
   each live bucket can be found in both: one the heap forgot would reject its
   client for ever, one the order forgot could not make room. *)
BucketsAreIndexed ==
    /\ Cardinality(buckets) <= capacity
    /\ Cardinality(expirations) <= 2 * capacity
    /\ Cardinality(order) <= 2 * capacity
    /\ \A b \in buckets : Entry(b) \in expirations /\ Place(b) \in order
=============================================================================
