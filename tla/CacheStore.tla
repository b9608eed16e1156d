----------------------------- MODULE CacheStore -----------------------------
(***************************************************************************)
(* The cache facade over the in-memory store: get, set, delete and clear   *)
(* with expiry and eviction (crates/caelix-core/src/cache.rs).  The store  *)
(* holds its lock from before it reads the clock, so a call is one step.   *)
(***************************************************************************)
EXTENDS Clock, FiniteSets

CONSTANTS
    CacheKeys,
    Values,         \* what callers store
    LargeValues,    \* those of them beyond max_value_bytes
    Lifetimes,      \* a set of ttl arguments and default_ttl values
    NoLifetime,     \* ttl is None
    Sizes           \* what max_entries is configured to

ASSUME CacheAssumption ==
    /\ LargeValues \subseteq Values
    /\ Lifetimes \subseteq Nat
    /\ Sizes \subseteq Nat

VARIABLES
    options,    \* max_entries and default_ttl
    entries,    \* the map, from the keys it holds
    answer,     \* what the last get returned
    written     \* history: per key, its last value that was stored, and until when it is good

cacheVars == <<options, entries, answer, written>>

Miss == [hit |-> FALSE]
Never == [value |-> "none", expires |-> 0]

CacheInit ==
    /\ options \in [max : Sizes, ttl : Lifetimes \cup {NoLifetime}]
    /\ entries = <<>>
    /\ answer = Miss
    /\ written = [k \in CacheKeys |-> Never]

Spent_Later(e) == e.expires # NoLifetime /\ clock > e.expires
Spent(e) == e.expires # NoLifetime /\ clock >= e.expires
Keeping(keys) == [k \in keys |-> entries[k]]

(* A get that finds a spent entry removes it. *)
Get(k) ==
    /\ IF k \in DOMAIN entries /\ ~Spent(entries[k])
       THEN answer' = [hit |-> TRUE, key |-> k, value |-> entries[k].value, at |-> clock]
            /\ UNCHANGED entries
       ELSE answer' = Miss /\ entries' = Keeping(DOMAIN entries \ {k})
    /\ UNCHANGED <<clock, options, written>>

Fits(v) == v \notin LargeValues

(* All spent entries go first, then the new one is in and the oldest go until
   the size is right: entries of the same instant in the map's order, the new
   one not spared. *)
Stale == {j \in DOMAIN entries : Spent(entries[j])}
EvictOldest(held, gone) ==
    /\ Cardinality(gone) = IF Cardinality(DOMAIN held) > options.max
                           THEN Cardinality(DOMAIN held) - options.max ELSE 0
    /\ \A j \in gone, i \in DOMAIN held \ gone : held[j].inserted <= held[i].inserted

Set(k, v, ttl) ==
    LET lasts == IF ttl # NoLifetime THEN ttl ELSE options.ttl
        entry == [value |-> v, inserted |-> clock,
                  expires |-> IF lasts = NoLifetime THEN NoLifetime ELSE clock + lasts]
        held == [j \in (DOMAIN entries \ Stale) \cup {k} |-> IF j = k THEN entry ELSE entries[j]]
    IN
    /\ Fits(v)
    /\ \E gone \in SUBSET DOMAIN held :
        /\ EvictOldest(held, gone)
        /\ entries' = [j \in DOMAIN held \ gone |-> held[j]]
    /\ written' = [written EXCEPT ![k] = [value |-> v, expires |-> entry.expires]]
    /\ answer' = Miss
    /\ UNCHANGED <<clock, options>>

Delete(k) ==
    /\ entries' = Keeping(DOMAIN entries \ {k})
    /\ written' = [written EXCEPT ![k] = Never]
    /\ answer' = Miss
    /\ UNCHANGED <<clock, options>>

Clear ==
    /\ entries' = <<>>
    /\ written' = [k \in CacheKeys |-> Never]
    /\ answer' = Miss
    /\ UNCHANGED <<clock, options>>

CacheNext ==
    \/ Tick /\ UNCHANGED cacheVars
    \/ Clear
    \/ \E k \in CacheKeys :
        \/ Get(k) \/ Delete(k)
        \/ \E v \in Values, ttl \in Lifetimes \cup {NoLifetime} : Set(k, v, ttl)

(* A get answers with what was last stored under its key and only while that
   is good, whatever was evicted, refused or deleted between; and a live entry
   only makes room for another key when the store is full of live ones: a set
   that removes more than what is spent leaves max_entries behind. *)
CacheStep ==
    /\ answer'.hit /\ answer' # answer =>
        LET w == written[answer'.key] IN
        answer'.value = w.value /\ (w.expires = NoLifetime \/ clock < w.expires)
    /\ Cardinality(DOMAIN entries') <= options.max
    /\ \A k \in DOMAIN entries \ DOMAIN entries' :
        \/ Spent(entries[k]) \/ written'[k] = Never
        \/ Cardinality(DOMAIN entries') = options.max
CacheNeverLies == [][CacheStep]_cacheVars
=============================================================================
