-------------------- MODULE ProvidersAndCommands_proofs --------------------
(***************************************************************************)
(* Theorems about the providers that concurrent requests share and about   *)
(* the command line, for any keys, limits and numbers of callers.          *)
(***************************************************************************)
EXTENDS ThrottleStore, CacheStore, EventBus, AccessLog, ProjectCommands, WatchRun,
        FiniteSetTheorems, SequenceTheorems, TLAPS

-----------------------------------------------------------------------------
(* run --watch. *)

(* Safety needs no fairness of the two threads. *)
WatchSpec == WatchInit /\ [][WatchNext]_watchVars

(* The mutex has one holder, and who holds it is where it is held.  exit may
   come while the main thread has the lock. *)
LockInv ==
    /\ Alive => (holder = "main" <=> main \in {"killing", "spawning"})
    /\ holder = "handler" <=> handler = "killing"

(* Between kill and spawn nothing runs; otherwise what runs is in the slot.
   After the command only what was in the slot last may run on. *)
SlotInv ==
    /\ main = "spawning" => running = {}
    /\ Alive => running \subseteq {slot}
    /\ \E p : running \subseteq {p}

WatchInv == LockInv /\ SlotInv

LEMMA InitSlot == WatchInit => WatchInv
  BY DEF WatchInit, WatchInv, LockInv, SlotInv, Alive

LEMMA LockStep == WatchInv /\ [WatchNext]_watchVars => LockInv'
<1> SUFFICES ASSUME WatchInv, [WatchNext]_watchVars PROVE LockInv'
  OBVIOUS
<1> USE DEF WatchInv, LockInv, Alive
<1>1. CASE (\E path \in Paths : Change(path)) \/ ProcessEnds \/ CtrlC
  BY <1>1 DEF Change, ProcessEnds, CtrlC
<1>2. CASE MainRuns
  BY <1>2 DEF MainRuns, Restart, Lock, Kill, Spawn, Install, Reap
<1>3. CASE SpawnFails \/ WatcherFails
  BY <1>3 DEF SpawnFails, WatcherFails
<1>4. CASE HandlerNext
  BY <1>4 DEF HandlerNext, HandlerLocks, HandlerKills, Exit
<1>5. CASE UNCHANGED watchVars
  BY <1>5 DEF watchVars
<1> QED
  BY <1>1, <1>2, <1>3, <1>4, <1>5 DEF WatchNext

LEMMA SlotStep == WatchInv /\ [WatchNext]_watchVars => SlotInv'
<1> SUFFICES ASSUME WatchInv, [WatchNext]_watchVars PROVE SlotInv'
  OBVIOUS
<1> USE DEF WatchInv, SlotInv, Alive
<1>1. CASE (\E path \in Paths : Change(path)) \/ CtrlC \/ Restart \/ Install \/ SpawnFails \/ WatcherFails
  BY <1>1 DEF Change, CtrlC, Restart, Install, SpawnFails, WatcherFails
<1>2. CASE ProcessEnds
  BY <1>2 DEF ProcessEnds
<1>3. CASE Lock
  BY <1>3 DEF Lock
<1>4. CASE Kill
  <2>1. running' = {}
    BY <1>4 DEF Kill, KillOld
  <2> QED
    BY <1>4, <2>1 DEF Kill
<1>5. CASE Spawn
  <2>1. running' = {spawned'} /\ slot' = spawned' /\ main' # "spawning"
    BY <1>5 DEF Spawn
  <2> QED
    BY <2>1
<1>6. CASE Reap
  <2>1. running' = {} /\ main' # "spawning"
    BY <1>6 DEF Reap
  <2> QED
    BY <2>1
<1>7. CASE HandlerLocks \/ Exit
  BY <1>7 DEF HandlerLocks, Exit
<1>8. CASE HandlerKills   \* the lock keeps it out of the time between kill and spawn
  <2>1. main # "spawning"
    BY <1>8 DEF HandlerKills, LockInv
  <2>2. running' = {} /\ main' = main
    BY <1>8 DEF HandlerKills
  <2> QED
    BY <2>1, <2>2
<1>9. CASE UNCHANGED watchVars
  BY <1>9 DEF watchVars
<1> QED
  BY <1>1, <1>2, <1>3, <1>4, <1>5, <1>6, <1>7, <1>8, <1>9
     DEF WatchNext, MainRuns, HandlerNext

LEMMA SlotGivesOne == WatchInv => OneApplication
<1> SUFFICES ASSUME WatchInv PROVE Cardinality(running) <= 1
  BY DEF WatchInv, SlotInv, OneApplication
<1>1. PICK p : running \subseteq {p}
  BY DEF WatchInv, SlotInv
<1>2. IsFiniteSet({p}) /\ Cardinality({p}) = 1
  BY FS_Singleton
<1> QED
  BY <1>1, <1>2, FS_Subset

(* However often the sources change, and however Ctrl-C, the processes' ends
   and failures fall between the steps of a restart, run --watch never has two
   applications, nor, while it lives, one that its slot does not name. *)
THEOREM ApplicationIsOne == WatchSpec => []OneApplication
<1>1. WatchInit => WatchInv
  BY InitSlot
<1>2. WatchInv /\ [WatchNext]_watchVars => WatchInv'
  BY LockStep, SlotStep DEF WatchInv
<1>3. WatchInv => OneApplication
  BY SlotGivesOne
<1> QED
  BY <1>1, <1>2, <1>3, PTL DEF WatchSpec

-----------------------------------------------------------------------------
(* The cache. *)

cacheState == <<clock, cacheVars>>
CacheSpec == clock \in Nat /\ CacheInit /\ [][CacheNext]_cacheState

(* What is in the map is what was stored last under its key, as it was
   stored, and there is no more of it than configured. *)
CacheInv ==
    /\ clock \in Nat
    /\ options.max \in Nat /\ (options.ttl \in Nat \/ options.ttl = NoLifetime)
    /\ DOMAIN entries \subseteq CacheKeys /\ IsFiniteSet(DOMAIN entries)
    /\ Cardinality(DOMAIN entries) <= options.max
    /\ DOMAIN written = CacheKeys
    /\ \A k \in DOMAIN entries :
        /\ entries[k].expires \in Nat \/ entries[k].expires = NoLifetime
        /\ entries[k].value = written[k].value /\ entries[k].expires = written[k].expires

LEMMA InitCache == clock \in Nat /\ CacheInit => CacheInv
<1> SUFFICES ASSUME clock \in Nat, CacheInit PROVE CacheInv
  OBVIOUS
<1>1. DOMAIN entries = {} /\ DOMAIN written = CacheKeys /\ options.max \in Sizes
      /\ (options.ttl \in Lifetimes \/ options.ttl = NoLifetime)
  BY DEF CacheInit
<1>2. Cardinality(DOMAIN entries) = 0 /\ IsFiniteSet(DOMAIN entries)
  BY <1>1, FS_EmptySet
<1>3. options.max \in Nat /\ (options.ttl \in Nat \/ options.ttl = NoLifetime)
  BY <1>1, CacheAssumption
<1> QED  BY <1>1, <1>2, <1>3 DEF CacheInv

(* What a set leaves: at most max_entries, and as many when it evicts. *)
LEMMA EvictionMakesRoom ==
    ASSUME options.max \in Nat, NEW held, IsFiniteSet(DOMAIN held),
           NEW gone \in SUBSET DOMAIN held, EvictOldest(held, gone)
    PROVE  /\ IsFiniteSet(DOMAIN held \ gone)
           /\ Cardinality(DOMAIN held \ gone) <= options.max
           /\ gone # {} => Cardinality(DOMAIN held \ gone) = options.max
<1>1. /\ IsFiniteSet(gone) /\ IsFiniteSet(DOMAIN held \ gone)
      /\ Cardinality(DOMAIN held) \in Nat /\ Cardinality(gone) \in Nat
      /\ Cardinality(DOMAIN held \ gone) = Cardinality(DOMAIN held) - Cardinality(DOMAIN held \cap gone)
      /\ DOMAIN held \cap gone = gone
  BY FS_Subset, FS_Difference, FS_CardinalityType
<1>2. gone # {} => Cardinality(gone) # 0
  BY <1>1, FS_EmptySet
<1> QED  BY <1>1, <1>2 DEF EvictOldest

LEMMA SetShape ==
    ASSUME CacheInv, NEW k \in CacheKeys, NEW v, NEW ttl \in Lifetimes \cup {NoLifetime}, Set(k, v, ttl)
    PROVE  \E entry, gone :
               /\ entry.value = v /\ (entry.expires \in Nat \/ entry.expires = NoLifetime)
               /\ written' = [written EXCEPT ![k] = [value |-> v, expires |-> entry.expires]]
               /\ DOMAIN entries' = ((DOMAIN entries \ Stale) \cup {k}) \ gone
               /\ \A j \in DOMAIN entries' : entries'[j] = IF j = k THEN entry ELSE entries[j]
               /\ IsFiniteSet(DOMAIN entries') /\ Cardinality(DOMAIN entries') <= options.max
               /\ gone # {} => Cardinality(DOMAIN entries') = options.max
<1> DEFINE lasts == IF ttl # NoLifetime THEN ttl ELSE options.ttl
           entry == [value |-> v, inserted |-> clock,
                     expires |-> IF lasts = NoLifetime THEN NoLifetime ELSE clock + lasts]
           keys == (DOMAIN entries \ Stale) \cup {k}
           held == [j \in keys |-> IF j = k THEN entry ELSE entries[j]]
<1>1. entry.value = v /\ (entry.expires \in Nat \/ entry.expires = NoLifetime)
  <2>1. lasts \in Nat \/ lasts = NoLifetime
    BY CacheAssumption DEF CacheInv
  <2> HIDE DEF lasts
  <2>2. clock \in Nat
    BY DEF CacheInv
  <2>3. CASE lasts = NoLifetime
    BY <2>3
  <2>4. CASE lasts # NoLifetime
    BY <2>1, <2>2, <2>4
  <2> QED  BY <2>3, <2>4
<1>2. PICK gone \in SUBSET DOMAIN held :
          EvictOldest(held, gone) /\ entries' = [j \in DOMAIN held \ gone |-> held[j]]
  BY DEF Set
<1>3. written' = [written EXCEPT ![k] = [value |-> v, expires |-> entry.expires]]
  BY DEF Set
<1> HIDE DEF entry
<1>4. DOMAIN held = keys /\ IsFiniteSet(keys)
  BY FS_Subset, FS_AddElement DEF CacheInv
<1>5. /\ IsFiniteSet(keys \ gone) /\ Cardinality(keys \ gone) <= options.max
      /\ gone # {} => Cardinality(keys \ gone) = options.max
  <2> HIDE DEF held, keys
  <2> QED  BY <1>2, <1>4, EvictionMakesRoom DEF CacheInv
<1>6. DOMAIN entries' = keys \ gone
  BY <1>2
<1>7. \A j \in DOMAIN entries' : entries'[j] = IF j = k THEN entry ELSE entries[j]
  BY <1>2
<1> QED  BY <1>1, <1>3, <1>5, <1>6, <1>7

LEMMA StepCache == CacheInv /\ [CacheNext]_cacheState => CacheInv' /\ [CacheStep]_cacheVars
<1> SUFFICES ASSUME CacheInv, [CacheNext]_cacheState PROVE CacheInv' /\ [CacheStep]_cacheVars
  OBVIOUS
<1> USE DEF CacheInv
<1>1. CASE Tick /\ UNCHANGED cacheVars
  BY <1>1 DEF Tick, cacheVars
<1>2. ASSUME NEW k, entries' = Keeping(DOMAIN entries \ {k})
      PROVE  /\ DOMAIN entries' = DOMAIN entries \ {k}
             /\ IsFiniteSet(DOMAIN entries') /\ Cardinality(DOMAIN entries') <= options.max
             /\ \A j \in DOMAIN entries' : entries'[j] = entries[j]
  <2> DEFINE keys == DOMAIN entries \ {k}
  <2>1. IsFiniteSet(keys) /\ Cardinality(keys) <= Cardinality(DOMAIN entries)
    BY FS_Subset
  <2>2. Cardinality(keys) \in Nat /\ Cardinality(DOMAIN entries) \in Nat
    BY <2>1, FS_CardinalityType
  <2>3. DOMAIN entries' = keys /\ \A j \in keys : entries'[j] = entries[j]
    BY <1>2 DEF Keeping
  <2>4. IsFiniteSet(DOMAIN entries') /\ Cardinality(DOMAIN entries') = Cardinality(keys)
    BY <2>1, <2>3
  <2> QED  BY <2>1, <2>2, <2>3, <2>4
<1>3. ASSUME NEW k \in CacheKeys, Get(k) PROVE CacheInv' /\ CacheStep
  <2>1. UNCHANGED <<clock, options, written>>
    BY <1>3 DEF Get
  <2>2. CASE k \in DOMAIN entries /\ ~Spent(entries[k])
    <3>1. entries' = entries /\ answer' = [hit |-> TRUE, key |-> k, value |-> entries[k].value, at |-> clock]
      BY <1>3, <2>2 DEF Get
    <3>2. entries[k].expires = NoLifetime \/ clock < entries[k].expires
      BY <2>2 DEF Spent
    <3>3. answer'.key = k /\ answer'.value = entries[k].value
      BY <3>1
    <3> QED  BY <2>1, <2>2, <3>1, <3>2, <3>3 DEF CacheStep
  <2>3. CASE ~(k \in DOMAIN entries /\ ~Spent(entries[k]))
    <3>1. answer' = Miss /\ entries' = Keeping(DOMAIN entries \ {k}) /\ ~answer'.hit
      BY <1>3, <2>3 DEF Get, Miss
    <3>2. CacheInv'
      BY <1>2, <2>1, <3>1
    <3>3. \A j \in DOMAIN entries \ DOMAIN entries' : Spent(entries[j])
      BY <1>2, <2>3, <3>1
    <3> QED  BY <1>2, <2>1, <3>1, <3>2, <3>3 DEF CacheStep
  <2> QED  BY <2>2, <2>3
<1>4. ASSUME NEW k \in CacheKeys, Delete(k) PROVE CacheInv' /\ CacheStep
  <2>1. /\ UNCHANGED <<clock, options>> /\ ~answer'.hit
        /\ entries' = Keeping(DOMAIN entries \ {k}) /\ written' = [written EXCEPT ![k] = Never]
    BY <1>4 DEF Delete, Miss
  <2>2. DOMAIN written' = CacheKeys /\ \A j \in CacheKeys : j # k => written'[j] = written[j]
    BY <2>1
  <2>3. CacheInv'
    <3>1. /\ DOMAIN entries' = DOMAIN entries \ {k} /\ IsFiniteSet(DOMAIN entries')
          /\ Cardinality(DOMAIN entries') <= options.max
          /\ \A j \in DOMAIN entries' : entries'[j] = entries[j]
      <4>1. entries' = Keeping(DOMAIN entries \ {k})
        BY <2>1
      <4> QED  BY <1>2, <4>1
    <3>2. \A j \in DOMAIN entries' :
            /\ entries'[j].expires \in Nat \/ entries'[j].expires = NoLifetime
            /\ entries'[j].value = written'[j].value /\ entries'[j].expires = written'[j].expires
      BY <2>2, <3>1
    <3> QED  BY <2>1, <2>2, <3>1, <3>2
  <2>4. \A j \in DOMAIN entries \ DOMAIN entries' : written'[j] = Never
    BY <1>2, <2>1
  <2> QED  BY <1>2, <2>1, <2>3, <2>4 DEF CacheStep
<1>5. CASE Clear
  <2>1. /\ UNCHANGED <<clock, options>> /\ ~answer'.hit
        /\ DOMAIN entries' = {} /\ written' = [k \in CacheKeys |-> Never]
    BY <1>5 DEF Clear, Miss
  <2>2. Cardinality(DOMAIN entries') = 0 /\ IsFiniteSet(DOMAIN entries')
    BY <2>1, FS_EmptySet
  <2> QED  BY <2>1, <2>2 DEF CacheStep
<1>6. ASSUME NEW k \in CacheKeys, NEW v \in Values, NEW ttl \in Lifetimes \cup {NoLifetime}, Set(k, v, ttl)
      PROVE  CacheInv' /\ CacheStep
  <2>1. PICK entry, gone :
            /\ entry.value = v /\ (entry.expires \in Nat \/ entry.expires = NoLifetime)
            /\ written' = [written EXCEPT ![k] = [value |-> v, expires |-> entry.expires]]
            /\ DOMAIN entries' = ((DOMAIN entries \ Stale) \cup {k}) \ gone
            /\ \A j \in DOMAIN entries' : entries'[j] = IF j = k THEN entry ELSE entries[j]
            /\ IsFiniteSet(DOMAIN entries') /\ Cardinality(DOMAIN entries') <= options.max
            /\ gone # {} => Cardinality(DOMAIN entries') = options.max
    BY <1>6, SetShape
  <2>2. UNCHANGED <<clock, options>> /\ ~answer'.hit
    BY <1>6 DEF Set, Miss
  <2>3. CacheInv'
    BY <2>1, <2>2
  <2>4. \A j \in DOMAIN entries \ DOMAIN entries' : Spent(entries[j]) \/ j \in gone
    BY <2>1 DEF Stale
  <2> QED  BY <2>1, <2>2, <2>3, <2>4 DEF CacheStep
<1>7. CASE UNCHANGED cacheState
  BY <1>7 DEF cacheState, cacheVars
<1> QED
  BY <1>1, <1>3, <1>4, <1>5, <1>6, <1>7 DEF CacheNext

(* MemoryCacheStore's get, set, delete and clear: a get answers with what was
   stored last and only while it is good, and an entry that is good only makes
   room when the map is at max_entries. *)
THEOREM CacheIsTruthful == CacheSpec => CacheNeverLies
<1>1. clock \in Nat /\ CacheInit => CacheInv
  BY InitCache
<1>2. CacheInv /\ [CacheNext]_cacheState => CacheInv' /\ [CacheStep]_cacheVars
  BY StepCache
<1> QED  BY <1>1, <1>2, PTL DEF CacheSpec, CacheNeverLies

-----------------------------------------------------------------------------
(* The event bus. *)

BusSpec == BusInit /\ [][BusNext]_busVars

EmitsTyped ==
    /\ handlers \in Seq(Handlers)
    /\ \A p \in Emitters :
        \/ emits[p] \in [step : {"idle"}, event : Emitters \X Nat]
        \/ emits[p] \in [step : {"handling"}, event : Emitters \X Nat, rest : Seq(Handlers)]
        \/ emits[p] \in [step : {"sending"}, event : Emitters \X Nat, to : Nat]
    /\ DOMAIN emits = Emitters

Sent == Seq(Emitters \X Nat)
StreamsTyped ==
    /\ \A s \in Subscribers :
        \/ streams[s] \in [step : {"out", "creating"}]
        \/ streams[s] \in [step : {"attaching"}, in : Nat]
        \/ streams[s] \in [step : {"live"}, in : Nat, from : Nat, next : Nat, got : Sent,
                           lagged : BOOLEAN, before : SUBSET (Emitters \X Nat)]
    /\ DOMAIN streams = Subscribers

(* However the first subscriptions race, there is one channel. *)
OneChannel ==
    /\ channels \in Seq(Sent)
    /\ channel = Len(channels) /\ channel <= 1
    /\ \A s \in Subscribers : streams[s].step \in {"attaching", "live"} => streams[s].in = 1 /\ channel = 1

(* An emitter's events begin one after the other.  Of the handlers there were,
   those that have not handled the event wait for it. *)
Settled(e) == e \in DOMAIN begun /\ \A h \in begun[e] : <<h, e>> \in handled
EmitInv ==
    /\ DOMAIN begun \subseteq Emitters \X Nat
    /\ \A e \in DOMAIN begun : e[2] <= emits[e[1]].event[2]
    /\ done \subseteq DOMAIN begun
    /\ \A p \in Emitters :
        /\ emits[p].event[1] = p
        /\ emits[p].step # "idle" => emits[p].event \in DOMAIN begun
        /\ emits[p].step = "handling" => \A h \in begun[emits[p].event] :
               <<h, emits[p].event>> \in handled \/ h \in ToSet(emits[p].rest)
        /\ emits[p].step = "sending" => Settled(emits[p].event) /\ emits[p].to <= channel

(* What is in the channel was handled, and a stream that has not lagged has
   what was sent since it attached, up to its position. *)
InChannel(e, from, to) == \E i \in from..to : channels[1][i] = e
StreamSound(st) ==
    /\ st.from < st.next /\ st.next <= Len(channels[1]) + 1
    /\ st.before \subseteq DOMAIN begun
    /\ \A e \in ToSet(st.got) : Settled(e)
    /\ \A i \in (st.from + 1)..(st.next - 1) : channels[1][i] \in ToSet(st.got) \/ st.lagged
    /\ \A e \in done \ st.before : InChannel(e, st.from + 1, Len(channels[1]))
    /\ \A p \in Emitters :
        emits[p].step = "sending" /\ emits[p].event \notin st.before => emits[p].to = 1
StreamInv ==
    /\ channel = 1 => \A i \in 1..Len(channels[1]) : Settled(channels[1][i])
    /\ \A s \in Subscribers : streams[s].step = "live" => StreamSound(streams[s])

BusInv == EmitsTyped /\ StreamsTyped /\ OneChannel /\ EmitInv /\ StreamInv

LEMMA Appended ==
    ASSUME NEW S, NEW s \in Seq(S), NEW e \in S
    PROVE  /\ Append(s, e) \in Seq(S) /\ Len(Append(s, e)) = Len(s) + 1
           /\ Len(s) \in Nat /\ Append(s, e)[Len(s) + 1] = e
           /\ \A i \in 1..Len(s) : Append(s, e)[i] = s[i] /\ s[i] \in S
           /\ DOMAIN s = 1..Len(s) /\ DOMAIN Append(s, e) = 1..(Len(s) + 1)
OBVIOUS

LEMMA Headed ==
    ASSUME NEW S, NEW s \in Seq(S), s # <<>>
    PROVE  /\ Head(s) = s[1] /\ Head(s) \in S
           /\ Tail(s) \in Seq(S) /\ Len(Tail(s)) = Len(s) - 1
           /\ Len(s) \in Nat \ {0} /\ DOMAIN s = 1..Len(s) /\ DOMAIN Tail(s) = 1..(Len(s) - 1)
           /\ \A i \in 1..(Len(s) - 1) : Tail(s)[i] = s[i + 1]
OBVIOUS

LEMMA OneMore ==
    ASSUME NEW S, NEW s \in Seq(S), NEW e \in S
    PROVE  ToSet(Append(s, e)) = ToSet(s) \cup {e}
<1>1. /\ Len(s) \in Nat /\ DOMAIN s = 1..Len(s) /\ DOMAIN Append(s, e) = 1..(Len(s) + 1)
      /\ Append(s, e)[Len(s) + 1] = e /\ \A i \in 1..Len(s) : Append(s, e)[i] = s[i]
  BY Appended
<1>2. \A i \in 1..(Len(s) + 1) : i \in 1..Len(s) \/ i = Len(s) + 1
  BY <1>1
<1>3. Len(s) + 1 \in 1..(Len(s) + 1) /\ \A i \in 1..Len(s) : i \in 1..(Len(s) + 1)
  BY <1>1
<1> QED  BY <1>1, <1>2, <1>3 DEF ToSet

LEMMA HeadOrTail ==
    ASSUME NEW S, NEW s \in Seq(S), s # <<>>, NEW x \in ToSet(s)
    PROVE  x = Head(s) \/ x \in ToSet(Tail(s))
<1>1. /\ Head(s) = s[1] /\ Len(s) \in Nat \ {0} /\ DOMAIN s = 1..Len(s)
      /\ DOMAIN Tail(s) = 1..(Len(s) - 1) /\ \A i \in 1..(Len(s) - 1) : Tail(s)[i] = s[i + 1]
  BY Headed
<1>2. PICK i \in 1..Len(s) : x = s[i]
  BY <1>1 DEF ToSet
<1>3. CASE i = 1
  BY <1>1, <1>2, <1>3
<1>4. CASE i # 1
  <2>1. i - 1 \in 1..(Len(s) - 1) /\ (i - 1) + 1 = i
    BY <1>1, <1>4
  <2>2. Tail(s)[i - 1] = x
    BY <1>1, <1>2, <2>1
  <2> QED  BY <1>1, <2>1, <2>2 DEF ToSet
<1> QED  BY <1>3, <1>4

LEMMA SettledStays ==
    ASSUME \A e \in DOMAIN begun : e \in DOMAIN begun' /\ begun'[e] = begun[e], handled \subseteq handled'
    PROVE  \A e : Settled(e) => Settled(e)'
BY DEF Settled

LEMMA InitBus == BusInit => BusInv
<1> SUFFICES ASSUME BusInit PROVE BusInv
  OBVIOUS
<1> USE DEF BusInit
<1>1. EmitsTyped
  BY DEF EmitsTyped
<1>2. StreamsTyped
  BY DEF StreamsTyped
<1>3. OneChannel
  <2>1. channels \in Seq(Sent) /\ Len(channels) = 0
    OBVIOUS
  <2> QED  BY <2>1 DEF OneChannel
<1>4. EmitInv
  <2>1. DOMAIN begun = {}
    OBVIOUS
  <2> QED  BY <2>1 DEF EmitInv
<1>5. StreamInv
  BY DEF StreamInv
<1> QED  BY <1>1, <1>2, <1>3, <1>4, <1>5 DEF BusInv

(* Emitters leave streams alone, subscribers emits.  What a step of an emitter
   must not do to a stream. *)
LEMMA StreamsKept ==
    ASSUME BusInv, UNCHANGED <<channels, channel, streams>>, done' = done,
           \A e : Settled(e) => Settled(e)', DOMAIN begun \subseteq DOMAIN begun',
           \A p \in Emitters : emits'[p].step = "sending" =>
               (emits[p].step = "sending" /\ emits'[p] = emits[p]) \/ emits'[p].to = channel
    PROVE  StreamInv'
<1>1. \A e, i, j : InChannel(e, i, j)' <=> InChannel(e, i, j)
  BY DEF InChannel
<1>2. \A s \in Subscribers : streams[s].step = "live" => channel = 1
  BY DEF BusInv, OneChannel
<1>3. ASSUME NEW st, StreamSound(st), channel = 1
      PROVE  StreamSound(st)'
  BY <1>1, <1>3 DEF StreamSound
<1> QED  BY <1>1, <1>2, <1>3 DEF BusInv, StreamInv

LEMMA RegisterKeeps ==
    ASSUME BusInv, NEW h \in Handlers, Register(h)
    PROVE  BusInv'
<1>1. /\ UNCHANGED <<channels, channel, emits, streams, begun, done, handled>>
      /\ handlers' \in Seq(Handlers)
  BY DEF BusInv, EmitsTyped, Register
<1>2. EmitsTyped' /\ StreamsTyped' /\ OneChannel'
  BY <1>1 DEF BusInv, EmitsTyped, StreamsTyped, OneChannel
<1>3. \A e : Settled(e)' <=> Settled(e)
  BY <1>1 DEF Settled
<1>4. EmitInv'
  BY <1>1, <1>3 DEF BusInv, EmitInv
<1>5. StreamInv'
  BY <1>1, <1>3, StreamsKept DEF BusInv
<1> QED  BY <1>2, <1>4, <1>5 DEF BusInv

LEMMA EmitKeeps ==
    ASSUME BusInv, NEW p \in Emitters, Emit(p)
    PROVE  BusInv'
<1> USE DEF BusInv
<1> DEFINE n == emits[p].event[2] + 1
           e == <<p, n>>
<1>1. /\ emits[p].step = "idle" /\ emits[p].event \in Emitters \X Nat
      /\ UNCHANGED <<handlers, channels, channel, streams, done, handled>>
      /\ emits' = [emits EXCEPT ![p] = [step |-> "handling", event |-> e, rest |-> handlers]]
      /\ begun' = [d \in DOMAIN begun \cup {e} |-> IF d = e THEN ToSet(handlers) ELSE begun[d]]
  BY DEF Emit, EmitsTyped
<1>2. emits[p].event[2] \in Nat /\ n \in Nat /\ e \in Emitters \X Nat /\ e[1] = p /\ e[2] = n
  BY <1>1
<1>3. e \notin DOMAIN begun
  <2>1. ASSUME e \in DOMAIN begun PROVE FALSE
    <3>1. n <= emits[p].event[2]
      BY <1>2, <2>1 DEF EmitInv
    <3> QED  BY <1>2, <3>1
  <2> QED  BY <2>1
<1> HIDE DEF n, e
<1>4. emits'[p] = [step |-> "handling", event |-> e, rest |-> handlers] /\ DOMAIN emits' = Emitters
      /\ \A q \in Emitters \ {p} : emits'[q] = emits[q]
  BY <1>1 DEF EmitsTyped
<1>5. EmitsTyped'
  BY <1>1, <1>2, <1>4 DEF EmitsTyped
<1>6. StreamsTyped' /\ OneChannel'
  BY <1>1 DEF StreamsTyped, OneChannel
<1>7. /\ DOMAIN begun' = DOMAIN begun \cup {e} /\ begun'[e] = ToSet(handlers)
      /\ \A d \in DOMAIN begun : begun'[d] = begun[d]
  BY <1>1, <1>3
<1>8. \A d : Settled(d) => Settled(d)'
  BY <1>1, <1>7, SettledStays
<1>9. EmitInv'
  <2>1. DOMAIN begun' \subseteq Emitters \X Nat /\ done' \subseteq DOMAIN begun'
    BY <1>1, <1>2, <1>7 DEF EmitInv
  <2>2. ASSUME NEW d \in DOMAIN begun' PROVE d[2] <= emits'[d[1]].event[2]
    <3>1. emits'[p].event[2] = n /\ n = emits[p].event[2] + 1
      BY <1>2, <1>4 DEF n
    <3>2. CASE d = e
      BY <1>2, <1>4, <3>1, <3>2
    <3>3. CASE d \in DOMAIN begun
      <4>1. d[1] \in Emitters /\ d[2] \in Nat /\ d[2] <= emits[d[1]].event[2]
        BY <3>3 DEF EmitInv
      <4>2. CASE d[1] = p
        BY <1>2, <3>1, <4>1, <4>2
      <4>3. CASE d[1] # p
        BY <1>4, <4>1, <4>3
      <4> QED  BY <4>2, <4>3
    <3> QED  BY <1>7, <3>2, <3>3
  <2>3. ASSUME NEW q \in Emitters
        PROVE  /\ emits'[q].event[1] = q
               /\ emits'[q].step # "idle" => emits'[q].event \in DOMAIN begun'
               /\ emits'[q].step = "handling" => \A h \in begun'[emits'[q].event] :
                      <<h, emits'[q].event>> \in handled' \/ h \in ToSet(emits'[q].rest)
               /\ emits'[q].step = "sending" => Settled(emits[q].event)' /\ emits'[q].to <= channel'
    <3>1. CASE q = p
      BY <1>2, <1>4, <1>7, <3>1
    <3>2. CASE q # p
      BY <1>1, <1>4, <1>7, <1>8, <3>2 DEF EmitInv
    <3> QED  BY <3>1, <3>2
  <2> QED  BY <2>1, <2>2, <2>3 DEF EmitInv
<1>10. StreamInv'
  <2>1. \A q \in Emitters : emits'[q].step = "sending" => emits[q].step = "sending" /\ emits'[q] = emits[q]
    BY <1>4
  <2> QED  BY <1>1, <1>7, <1>8, <2>1, StreamsKept
<1> QED  BY <1>5, <1>6, <1>9, <1>10

LEMMA HandleKeeps ==
    ASSUME BusInv, NEW p \in Emitters, Handle(p)
    PROVE  BusInv'
<1> USE DEF BusInv
<1> DEFINE e == emits[p].event
           rest == emits[p].rest
<1>1. /\ emits[p] \in [step : {"handling"}, event : Emitters \X Nat, rest : Seq(Handlers)]
      /\ rest # <<>> /\ UNCHANGED <<handlers, channels, channel, streams, begun, done>>
  BY DEF Handle, EmitsTyped
<1>2. \/ emits'[p] = [step |-> "handling", event |-> e, rest |-> Tail(rest)] /\ handled' = handled \cup {<<Head(rest), e>>}
      \/ emits'[p] = [step |-> "idle", event |-> e] /\ handled' = handled
  BY <1>1 DEF Handle, EmitsTyped
<1>3. DOMAIN emits' = Emitters /\ \A q \in Emitters \ {p} : emits'[q] = emits[q]
  BY DEF Handle, EmitsTyped
<1>4. /\ e \in Emitters \X Nat /\ rest \in Seq(Handlers) /\ Tail(rest) \in Seq(Handlers)
      /\ emits'[p].event = e /\ emits'[p].step # "sending"
  BY <1>1, <1>2, Headed
<1> HIDE DEF e, rest
<1>5. EmitsTyped'
  <2>1. \/ emits'[p] \in [step : {"idle"}, event : Emitters \X Nat]
        \/ emits'[p] \in [step : {"handling"}, event : Emitters \X Nat, rest : Seq(Handlers)]
    <3>1. CASE emits'[p] = [step |-> "handling", event |-> e, rest |-> Tail(rest)]
      BY <1>4, <3>1
    <3>2. CASE emits'[p] = [step |-> "idle", event |-> e]
      BY <1>4, <3>2
    <3> QED  BY <1>2, <3>1, <3>2
  <2> QED  BY <1>1, <1>3, <2>1 DEF EmitsTyped
<1>6. StreamsTyped' /\ OneChannel'
  BY <1>1 DEF StreamsTyped, OneChannel
<1>7. \A d : Settled(d) => Settled(d)'
  BY <1>1, <1>2, SettledStays
<1>8. EmitInv'
  <2>1. \A q \in Emitters : emits'[q].event = emits[q].event
    BY <1>3, <1>4 DEF e
  <2>2. \A d \in DOMAIN begun : d[2] <= emits'[d[1]].event[2]
    BY <2>1 DEF EmitInv
  <2>3. ASSUME NEW q \in Emitters
        PROVE  /\ emits'[q].step # "idle" => emits'[q].event \in DOMAIN begun
               /\ emits'[q].step = "handling" => \A h \in begun[emits'[q].event] :
                      <<h, emits'[q].event>> \in handled' \/ h \in ToSet(emits'[q].rest)
               /\ emits'[q].step = "sending" => Settled(emits[q].event)' /\ emits'[q].to <= channel'
    <3>1. CASE q = p
      <4>1. e \in DOMAIN begun /\ \A h \in begun[e] : <<h, e>> \in handled \/ h \in ToSet(rest)
        BY <1>1 DEF EmitInv, e, rest
      <4>2. \A h \in ToSet(rest) : h = Head(rest) \/ h \in ToSet(Tail(rest))
        BY <1>1, <1>4, HeadOrTail
      <4>3. ASSUME emits'[p].step = "handling", NEW h \in begun[e]
            PROVE  <<h, e>> \in handled' \/ h \in ToSet(emits'[p].rest)
        <5>1. emits'[p].rest = Tail(rest) /\ handled' = handled \cup {<<Head(rest), e>>}
          BY <1>2, <4>3
        <5> QED  BY <4>1, <4>2, <5>1
      <4> QED  BY <1>4, <3>1, <4>1, <4>3
    <3>2. CASE q # p
      BY <1>1, <1>2, <1>3, <1>7, <2>1, <3>2 DEF EmitInv
    <3> QED  BY <3>1, <3>2
  <2> QED  BY <1>1, <2>1, <2>2, <2>3 DEF EmitInv
<1>9. StreamInv'
  <2>1. \A q \in Emitters : emits'[q].step = "sending" => emits[q].step = "sending" /\ emits'[q] = emits[q]
    BY <1>3, <1>4
  <2> QED  BY <1>1, <1>7, <2>1, StreamsKept
<1> QED  BY <1>5, <1>6, <1>8, <1>9

LEMMA LookUpKeeps ==
    ASSUME BusInv, NEW p \in Emitters, LookUp(p)
    PROVE  BusInv'
<1> USE DEF BusInv
<1> DEFINE e == emits[p].event
<1>1. /\ emits[p] \in [step : {"handling"}, event : Emitters \X Nat, rest : Seq(Handlers)]
      /\ emits[p].rest = <<>> /\ UNCHANGED <<handlers, channels, channel, streams, begun, done, handled>>
      /\ emits' = [emits EXCEPT ![p] = [step |-> "sending", event |-> e, to |-> channel]]
  BY DEF LookUp, EmitsTyped
<1>2. /\ emits'[p] = [step |-> "sending", event |-> e, to |-> channel]
      /\ DOMAIN emits' = Emitters /\ \A q \in Emitters \ {p} : emits'[q] = emits[q]
      /\ e \in Emitters \X Nat /\ channel \in Nat
  BY <1>1 DEF EmitsTyped, OneChannel
<1>3. Settled(e)
  <2>1. ToSet(emits[p].rest) = {}
    BY <1>1 DEF ToSet
  <2> QED  BY <1>1, <2>1 DEF EmitInv, Settled
<1>4. \A q \in Emitters : emits'[q].event = emits[q].event
  BY <1>2
<1> HIDE DEF e
<1>5. EmitsTyped'
  BY <1>1, <1>2 DEF EmitsTyped
<1>6. StreamsTyped' /\ OneChannel'
  BY <1>1 DEF StreamsTyped, OneChannel
<1>7. \A d : Settled(d) => Settled(d)'
  BY <1>1, SettledStays
<1>8. EmitInv'
  <2>1. \A d \in DOMAIN begun : d[2] <= emits'[d[1]].event[2]
    BY <1>4 DEF EmitInv
  <2>2. ASSUME NEW q \in Emitters
        PROVE  /\ emits'[q].step # "idle" => emits'[q].event \in DOMAIN begun
               /\ emits'[q].step = "handling" => \A h \in begun[emits'[q].event] :
                      <<h, emits'[q].event>> \in handled \/ h \in ToSet(emits'[q].rest)
               /\ emits'[q].step = "sending" => Settled(emits[q].event)' /\ emits'[q].to <= channel
    <3>1. CASE q = p
      BY <1>2, <1>3, <1>7, <3>1 DEF Settled
    <3>2. CASE q # p
      BY <1>1, <1>2, <1>7, <1>4, <3>2 DEF EmitInv
    <3> QED  BY <3>1, <3>2
  <2> QED  BY <1>1, <1>4, <2>1, <2>2 DEF EmitInv
<1>9. StreamInv'
  <2>1. \A q \in Emitters : emits'[q].step = "sending" =>
            (emits[q].step = "sending" /\ emits'[q] = emits[q]) \/ emits'[q].to = channel
    BY <1>2
  <2> QED  BY <1>1, <1>7, <2>1, StreamsKept
<1> QED  BY <1>5, <1>6, <1>8, <1>9

LEMMA SendKeeps ==
    ASSUME BusInv, NEW p \in Emitters, Send(p)
    PROVE  BusInv'
<1> USE DEF BusInv
<1> DEFINE e == emits[p].event
           to == emits[p].to
<1>1. /\ emits[p] \in [step : {"sending"}, event : Emitters \X Nat, to : Nat]
      /\ UNCHANGED <<handlers, channel, streams, begun, handled>> /\ done' = done \cup {e}
      /\ emits' = [emits EXCEPT ![p] = [step |-> "idle", event |-> e]]
      /\ channels' = IF to = 0 THEN channels ELSE [channels EXCEPT ![to] = Append(@, e)]
  BY DEF Send, EmitsTyped
<1>2. /\ emits'[p] = [step |-> "idle", event |-> e]
      /\ DOMAIN emits' = Emitters /\ \A q \in Emitters \ {p} : emits'[q] = emits[q]
      /\ e \in Emitters \X Nat /\ to \in Nat /\ to <= channel /\ Settled(e)
  BY <1>1 DEF EmitsTyped, EmitInv
<1>3. \A q \in Emitters : emits'[q].event = emits[q].event
  BY <1>2
<1>4. to \in {0, 1} /\ (to = 1 => channel = 1)
  BY <1>2 DEF OneChannel
<1>5. to = 0 => channels' = channels
  BY <1>1
<1>6. to = 1 => /\ channels[1] \in Sent /\ channels' \in Seq(Sent) /\ Len(channels') = Len(channels)
                /\ channels'[1] = Append(channels[1], e)
  <2> SUFFICES ASSUME to = 1
               PROVE  /\ channels[1] \in Sent /\ channels' \in Seq(Sent) /\ Len(channels') = Len(channels)
                      /\ channels'[1] = Append(channels[1], e)
    OBVIOUS
  <2>1. channels' = [channels EXCEPT ![1] = Append(channels[1], e)] /\ 1 \in 1..Len(channels)
        /\ channels \in Seq(Sent)
    BY <1>1, <1>4 DEF OneChannel
  <2>2. channels[1] \in Sent
    BY <2>1
  <2>3. Append(channels[1], e) \in Sent
    BY <1>2, <2>2, Appended DEF Sent
  <2> HIDE DEF e
  <2> QED  BY <2>1, <2>2, <2>3
<1> HIDE DEF e, to
<1>7. EmitsTyped'
  BY <1>1, <1>2 DEF EmitsTyped
<1>8. StreamsTyped'
  BY <1>1 DEF StreamsTyped
<1>9. OneChannel'
  BY <1>1, <1>4, <1>5, <1>6 DEF OneChannel
<1>10. \A d : Settled(d) => Settled(d)'
  BY <1>1, SettledStays
<1>11. EmitInv'
  <2>1. \A d \in DOMAIN begun : d[2] <= emits'[d[1]].event[2]
    BY <1>3 DEF EmitInv
  <2>2. done' \subseteq DOMAIN begun
    BY <1>1, <1>2 DEF EmitInv, Settled
  <2>3. ASSUME NEW q \in Emitters
        PROVE  /\ emits'[q].step # "idle" => emits'[q].event \in DOMAIN begun
               /\ emits'[q].step = "handling" => \A h \in begun[emits'[q].event] :
                      <<h, emits'[q].event>> \in handled \/ h \in ToSet(emits'[q].rest)
               /\ emits'[q].step = "sending" => Settled(emits[q].event)' /\ emits'[q].to <= channel
    <3>1. CASE q = p
      BY <1>2, <3>1
    <3>2. CASE q # p
      BY <1>1, <1>2, <1>3, <1>10, <3>2 DEF EmitInv
    <3> QED  BY <3>1, <3>2
  <2> QED  BY <1>1, <1>3, <2>1, <2>2, <2>3 DEF EmitInv
<1>12. ASSUME channel = 1
       PROVE  /\ Len(channels[1]) \in Nat /\ Len(channels'[1]) \in Nat /\ Len(channels[1]) <= Len(channels'[1])
              /\ \A i \in 1..Len(channels[1]) : channels'[1][i] = channels[1][i]
              /\ \A i \in 1..Len(channels'[1]) : i \in 1..Len(channels[1]) \/ channels'[1][i] = e
              /\ to = 1 => Len(channels'[1]) = Len(channels[1]) + 1 /\ channels'[1][Len(channels[1]) + 1] = e
  <2>1. channels[1] \in Sent
    <3>1. channels \in Seq(Sent) /\ 1 \in 1..Len(channels)
      BY <1>12 DEF OneChannel
    <3> QED  BY <3>1
  <2>2. CASE to = 0
    <3>1. Len(channels[1]) \in Nat
      BY <2>1 DEF Sent
    <3> QED  BY <1>5, <2>2, <3>1
  <2>3. CASE to = 1
    <3> DEFINE old == channels[1]
    <3>1. old \in Seq(Emitters \X Nat) /\ channels'[1] = Append(old, e)
      BY <1>6, <2>1, <2>3 DEF Sent
    <3>2. /\ Len(Append(old, e)) = Len(old) + 1 /\ Len(old) \in Nat /\ Append(old, e)[Len(old) + 1] = e
          /\ \A i \in 1..Len(old) : Append(old, e)[i] = old[i]
      BY <1>2, <3>1, Appended
    <3>3. \A i \in 1..(Len(old) + 1) : i \in 1..Len(old) \/ i = Len(old) + 1
      BY <3>2
    <3> QED  BY <3>1, <3>2, <3>3
  <2> QED  BY <1>4, <2>2, <2>3
<1>13. StreamInv'
  <2>1. ASSUME channel = 1, NEW i \in 1..Len(channels'[1]) PROVE Settled(channels[1][i])'
    <3>1. CASE i \in 1..Len(channels[1])
      <4>1. Settled(channels[1][i]) /\ channels'[1][i] = channels[1][i]
        BY <1>12, <2>1, <3>1 DEF StreamInv
      <4>2. ASSUME NEW d, d = channels'[1][i], Settled(d)' PROVE Settled(channels[1][i])'
        BY <4>2 DEF Settled
      <4>3. Settled(channels[1][i])'
        BY <1>10, <4>1, <4>2
      <4> QED  BY <4>3
    <3>2. CASE channels'[1][i] = e
      <4>1. ASSUME NEW d, d = channels'[1][i], Settled(d)' PROVE Settled(channels[1][i])'
        BY <4>1 DEF Settled
      <4>2. \A d : d = e => Settled(d)'
        BY <1>2, <1>10
      <4>3. Settled(channels[1][i])'
        BY <3>2, <4>1, <4>2
      <4> QED  BY <4>3
    <3> QED  BY <1>12, <2>1, <3>1, <3>2
  <2>2. ASSUME NEW st, channel = 1, st.from \in Nat, st.next \in Nat, StreamSound(st)
        PROVE  StreamSound(st)'
    <3>1. /\ st.from < st.next /\ st.next <= Len(channels[1]) + 1
          /\ st.before \subseteq DOMAIN begun
          /\ \A d \in ToSet(st.got) : Settled(d)
          /\ \A i \in (st.from + 1)..(st.next - 1) : channels[1][i] \in ToSet(st.got) \/ st.lagged
          /\ \A d \in done \ st.before : InChannel(d, st.from + 1, Len(channels[1]))
          /\ \A q \in Emitters :
              emits[q].step = "sending" /\ emits[q].event \notin st.before => emits[q].to = 1
      BY <2>2 DEF StreamSound
    <3>2. \A i \in (st.from + 1)..(st.next - 1) : channels'[1][i] = channels[1][i]
      <4>1. \A i \in (st.from + 1)..(st.next - 1) : i \in 1..Len(channels[1])
        BY <1>12, <2>2, <3>1
      <4> QED  BY <1>12, <2>2, <4>1
    <3>3. ASSUME NEW d \in done' \ st.before PROVE \E j \in (st.from + 1)..Len(channels'[1]) : channels'[1][j] = d
      <4>1. CASE d \in done
        <5>1. PICK i \in (st.from + 1)..Len(channels[1]) : channels[1][i] = d
          BY <3>1, <3>3, <4>1 DEF InChannel
        <5>2. i \in 1..Len(channels[1]) /\ i \in (st.from + 1)..Len(channels'[1])
          BY <1>12, <2>2
        <5>3. channels'[1][i] = d
          BY <1>12, <2>2, <5>1, <5>2
        <5> QED  BY <5>2, <5>3
      <4>2. CASE d = e
        <5>1. to = 1
          BY <1>1, <3>1, <3>3, <4>2 DEF e, to
        <5>2. Len(channels[1]) + 1 \in (st.from + 1)..Len(channels'[1])
          BY <1>12, <2>2, <3>1, <5>1
        <5> QED  BY <1>12, <2>2, <4>2, <5>1, <5>2
      <4> QED  BY <1>1, <3>3, <4>1, <4>2
    <3>4. \A q \in Emitters : emits'[q].step = "sending" /\ emits'[q].event \notin st.before => emits'[q].to = 1
      BY <1>2, <3>1
    <3>5. st.next <= Len(channels'[1]) + 1
      BY <1>12, <2>2, <3>1
    <3>6. \A i \in (st.from + 1)..(st.next - 1) : channels'[1][i] \in ToSet(st.got) \/ st.lagged
      BY <3>1, <3>2
    <3> QED  BY <1>1, <1>10, <3>1, <3>3, <3>4, <3>5, <3>6 DEF StreamSound, InChannel
  <2>3. \A s \in Subscribers : streams[s].step = "live" =>
            channel = 1 /\ streams[s].from \in Nat /\ streams[s].next \in Nat
    BY DEF OneChannel, StreamsTyped
  <2>4. \A s \in Subscribers : streams[s].step = "live" => StreamSound(streams[s])'
    <3>1. \A st : channel = 1 /\ st.from \in Nat /\ st.next \in Nat /\ StreamSound(st) => StreamSound(st)'
      BY <2>2
    <3>2. ASSUME NEW s \in Subscribers, streams[s].step = "live", NEW st, st = streams[s], st = streams'[s]
          PROVE StreamSound(streams[s])'
      <4>1. StreamSound(st)'
        BY <2>3, <3>1, <3>2 DEF StreamInv
      <4> QED  BY <3>2, <4>1 DEF StreamSound
    <3> QED  BY <1>1, <3>2
  <2> QED  BY <1>1, <2>1, <2>4 DEF StreamInv
<1> QED  BY <1>7, <1>8, <1>9, <1>11, <1>13

(* Subscribers leave the emitters alone. *)
LEMMA EmittersKept ==
    ASSUME BusInv, UNCHANGED <<handlers, emits, begun, done, handled>>, channel' \in Nat, channel <= channel'
    PROVE  EmitsTyped' /\ EmitInv' /\ \A d : Settled(d)' <=> Settled(d)
<1> USE DEF BusInv
<1>1. EmitsTyped'
  BY DEF EmitsTyped
<1>2. \A d : Settled(d)' <=> Settled(d)
  BY DEF Settled
<1>3. \A p \in Emitters : emits[p].step = "sending" => emits[p].to \in Nat /\ emits[p].to <= channel'
  BY DEF EmitsTyped, EmitInv, OneChannel
<1>4. EmitInv'
  BY <1>2, <1>3 DEF EmitInv, Settled
<1> QED  BY <1>1, <1>2, <1>4

LEMMA FindKeeps ==
    ASSUME BusInv, NEW s \in Subscribers, Find(s)
    PROVE  BusInv'
<1> USE DEF BusInv
<1>1. UNCHANGED <<handlers, channels, channel, emits, begun, done, handled>>
  BY DEF Find
<1>2. /\ streams'[s] = [step |-> "creating"] \/ (channel # 0 /\ streams'[s] = [step |-> "attaching", in |-> channel])
      /\ DOMAIN streams' = Subscribers /\ \A t \in Subscribers \ {s} : streams'[t] = streams[t]
  BY DEF Find, StreamsTyped
<1>3. channel \in Nat /\ (channel # 0 => channel = 1)
  BY DEF OneChannel
<1>4. StreamsTyped'
  BY <1>2, <1>3 DEF StreamsTyped
<1>5. OneChannel'
  BY <1>1, <1>2, <1>3 DEF OneChannel
<1>6. EmitsTyped' /\ EmitInv' /\ \A d : Settled(d)' <=> Settled(d)
  BY <1>1, <1>3, EmittersKept
<1>7. StreamInv'
  <2>1. ASSUME NEW st, StreamSound(st) PROVE StreamSound(st)'
    BY <1>1, <1>6, <2>1 DEF StreamSound, InChannel
  <2>2. \A t \in Subscribers : streams'[t].step = "live" => t # s /\ streams'[t] = streams[t]
    BY <1>2
  <2>3. ASSUME NEW t \in Subscribers, streams'[t].step = "live", NEW st, st = streams[t], st = streams'[t]
        PROVE  StreamSound(streams[t])'
    <3>1. StreamSound(st)'
      BY <2>1, <2>2, <2>3 DEF StreamInv
    <3> QED  BY <2>3, <3>1 DEF StreamSound
  <2>4. channel = 1 => \A i \in 1..Len(channels[1]) : Settled(channels[1][i])'
    <3>1. ASSUME NEW d, Settled(d), NEW i, d = channels[1][i] PROVE Settled(channels[1][i])'
      BY <1>1, <1>6, <3>1 DEF Settled
    <3> QED  BY <3>1 DEF StreamInv
  <2> QED  BY <1>1, <2>2, <2>3, <2>4 DEF StreamInv
<1> QED  BY <1>4, <1>5, <1>6, <1>7

LEMMA OpenChannelKeeps ==
    ASSUME BusInv, NEW s \in Subscribers, OpenChannel(s)
    PROVE  BusInv'
<1> USE DEF BusInv
<1>1. /\ UNCHANGED <<handlers, emits, begun, done, handled>>
      /\ \/ channel = 0 /\ channels' = Append(channels, <<>>) /\ channel' = Len(channels')
         \/ channel # 0 /\ channels' = channels /\ channel' = channel
  BY DEF OpenChannel
<1>2. /\ streams'[s] = [step |-> "attaching", in |-> channel']
      /\ DOMAIN streams' = Subscribers /\ \A t \in Subscribers \ {s} : streams'[t] = streams[t]
  BY DEF OpenChannel, StreamsTyped
<1>3. channel \in Nat /\ channel = Len(channels) /\ channel <= 1
  BY DEF OneChannel
<1>4. /\ channel' = 1 /\ channels' \in Seq(Sent) /\ Len(channels') = 1
      /\ (channel = 0 /\ channels'[1] = <<>>) \/ (channel = 1 /\ channels' = channels)
  <2>1. CASE channel = 0
    <3>1. <<>> \in Sent /\ channels \in Seq(Sent) /\ Len(channels) = 0
      BY <2>1 DEF OneChannel, Sent
    <3>2. Append(channels, <<>>) \in Seq(Sent) /\ Len(Append(channels, <<>>)) = 0 + 1
          /\ Append(channels, <<>>)[0 + 1] = <<>>
      BY <3>1, Appended
    <3> QED  BY <1>1, <2>1, <3>2
  <2>2. CASE channel # 0
    <3>1. channel = 1 /\ channels \in Seq(Sent)
      BY <1>3, <2>2 DEF OneChannel
    <3>2. channels' = channels /\ channel' = channel
      BY <1>1, <2>2
    <3> QED  BY <1>3, <3>1, <3>2
  <2> QED  BY <2>1, <2>2
<1>5. StreamsTyped'
  BY <1>2, <1>4 DEF StreamsTyped
<1>6. OneChannel'
  BY <1>2, <1>3, <1>4 DEF OneChannel
<1>7. EmitsTyped' /\ EmitInv' /\ \A d : Settled(d)' <=> Settled(d)
  <2>1. channel' \in Nat /\ channel <= channel'
    BY <1>3, <1>4
  <2> QED  BY <1>1, <2>1, EmittersKept
<1>8. StreamInv'
  <2>1. \A t \in Subscribers : streams'[t].step = "live" =>
            t # s /\ streams'[t] = streams[t] /\ channel = 1
    BY <1>2 DEF OneChannel
  <2>2. CASE channel = 0
    <3>1. Len(channels'[1]) = 0 /\ \A i \in 1..Len(channels'[1]) : FALSE
      BY <1>3, <1>4, <2>2
    <3> QED  BY <2>1, <2>2, <3>1 DEF StreamInv
  <2>3. CASE channel = 1
    <3>1. channels' = channels
      BY <1>4, <2>3
    <3>2. ASSUME NEW st, StreamSound(st) PROVE StreamSound(st)'
      BY <1>1, <1>7, <3>1, <3>2 DEF StreamSound, InChannel
    <3>3. ASSUME NEW t \in Subscribers, streams'[t].step = "live", NEW st, st = streams[t], st = streams'[t]
          PROVE  StreamSound(streams[t])'
      <4>1. StreamSound(st)'
        BY <2>1, <3>2, <3>3 DEF StreamInv
      <4> QED  BY <3>3, <4>1 DEF StreamSound
    <3>4. \A i \in 1..Len(channels[1]) : Settled(channels[1][i])'
      <4>1. ASSUME NEW d, Settled(d), NEW i, d = channels[1][i] PROVE Settled(channels[1][i])'
        BY <1>7, <3>1, <4>1 DEF Settled
      <4> QED  BY <2>3, <4>1 DEF StreamInv
    <3> QED  BY <2>1, <3>1, <3>3, <3>4 DEF StreamInv
  <2> QED  BY <1>3, <2>2, <2>3
<1> QED  BY <1>5, <1>6, <1>7, <1>8

(* A stream starts at the tail: what an emit that had not begun will send is
   after it. *)
LEMMA AttachKeeps ==
    ASSUME BusInv, NEW s \in Subscribers, Attach(s)
    PROVE  BusInv'
<1> USE DEF BusInv
<1>1. UNCHANGED <<handlers, channels, channel, emits, begun, done, handled>>
      /\ streams[s].step = "attaching"
  BY DEF Attach
<1>2. streams[s].in = 1 /\ channel = 1
  BY <1>1 DEF OneChannel
<1>3. channels[1] \in Sent /\ Len(channels[1]) \in Nat
  <2>1. channels \in Seq(Sent) /\ 1 \in 1..Len(channels)
    BY <1>2 DEF OneChannel
  <2>2. channels[1] \in Sent
    BY <2>1
  <2> QED  BY <2>2 DEF Sent
<1>4. PICK st : st = [step |-> "live", in |-> 1, from |-> Len(channels[1]), next |-> Len(channels[1]) + 1,
                      got |-> <<>>, lagged |-> FALSE, before |-> DOMAIN begun]
  OBVIOUS
<1>5. streams'[s] = st /\ DOMAIN streams' = Subscribers /\ \A t \in Subscribers \ {s} : streams'[t] = streams[t]
  BY <1>2, <1>4 DEF Attach, StreamsTyped
<1>6. st \in [step : {"live"}, in : Nat, from : Nat, next : Nat, got : Sent,
              lagged : BOOLEAN, before : SUBSET (Emitters \X Nat)]
  <2>1. <<>> \in Sent /\ DOMAIN begun \in SUBSET (Emitters \X Nat)
    BY DEF Sent, EmitInv
  <2> QED  BY <1>3, <1>4, <2>1
<1>7. StreamsTyped'
  BY <1>5, <1>6 DEF StreamsTyped
<1>8. OneChannel'
  BY <1>1, <1>2, <1>4, <1>5 DEF OneChannel
<1>9. EmitsTyped' /\ EmitInv' /\ \A d : Settled(d)' <=> Settled(d)
  BY <1>1, <1>2, EmittersKept
<1>10. StreamSound(st)
  <2>1. ToSet(st.got) = {}
    BY <1>4 DEF ToSet
  <2>2. \A i \in (st.from + 1)..(st.next - 1) : FALSE
    BY <1>3, <1>4
  <2>3. done \ st.before = {}
    BY <1>4 DEF EmitInv
  <2>4. \A q \in Emitters : emits[q].step = "sending" => emits[q].event \in st.before
    BY <1>4 DEF EmitInv
  <2> QED  BY <1>3, <1>4, <2>1, <2>2, <2>3, <2>4 DEF StreamSound
<1>11. StreamInv'
  <2>1. ASSUME NEW so, StreamSound(so) PROVE StreamSound(so)'
    BY <1>1, <1>9, <2>1 DEF StreamSound, InChannel
  <2>2. ASSUME NEW t \in Subscribers, streams'[t].step = "live", NEW so, so = streams'[t]
        PROVE  StreamSound(streams[t])'
    <3>1. StreamSound(so)
      BY <1>5, <1>10, <2>2 DEF StreamInv
    <3>2. StreamSound(so)'
      BY <2>1, <3>1
    <3> QED  BY <2>2, <3>2 DEF StreamSound
  <2>3. \A i \in 1..Len(channels[1]) : Settled(channels[1][i])'
    <3>1. ASSUME NEW d, Settled(d), NEW i, d = channels[1][i] PROVE Settled(channels[1][i])'
      BY <1>1, <1>9, <3>1 DEF Settled
    <3> QED  BY <1>2, <3>1 DEF StreamInv
  <2> QED  BY <1>1, <2>2, <2>3 DEF StreamInv
<1> QED  BY <1>7, <1>8, <1>9, <1>11

LEMMA ReceiveKeeps ==
    ASSUME BusInv, NEW s \in Subscribers, Receive(s)
    PROVE  BusInv'
<1> USE DEF BusInv
<1>1. UNCHANGED <<handlers, channels, channel, emits, begun, done, handled>>
      /\ streams[s].step = "live" /\ streams[s].next <= Len(channels[streams[s].in])
  BY DEF Receive
<1>2. streams[s].in = 1 /\ channel = 1
  BY <1>1 DEF OneChannel
<1>3. channels[1] \in Sent /\ Len(channels[1]) \in Nat
  <2>1. channels \in Seq(Sent) /\ 1 \in 1..Len(channels)
    BY <1>2 DEF OneChannel
  <2>2. channels[1] \in Sent
    BY <2>1
  <2> QED  BY <2>2 DEF Sent
<1>4. PICK old : old = streams[s]
  OBVIOUS
<1>5. /\ old \in [step : {"live"}, in : Nat, from : Nat, next : Nat, got : Sent,
                  lagged : BOOLEAN, before : SUBSET (Emitters \X Nat)]
      /\ old.in = 1 /\ StreamSound(old)
  BY <1>1, <1>2, <1>4 DEF StreamsTyped, StreamInv
<1>6. PICK at : at = Position(s)
  OBVIOUS
<1>7. at \in Nat /\ old.next <= at /\ at <= Len(channels[1]) /\ at \in 1..Len(channels[1])
  <2>1. old.next \in Nat \ {0} /\ old.next <= Len(channels[1])
    BY <1>1, <1>2, <1>4, <1>5 DEF StreamSound
  <2>2. at = IF old.next < Len(channels[1]) - BusCapacity + 1 THEN Len(channels[1]) - BusCapacity + 1
             ELSE old.next
    BY <1>2, <1>4, <1>6 DEF Position
  <2> QED  BY <1>3, <2>1, <2>2, BusAssumption
<1>8. PICK seen : seen = channels[1][at]
  OBVIOUS
<1>9. seen \in Emitters \X Nat /\ Settled(seen)
  BY <1>2, <1>3, <1>7, <1>8 DEF Sent, StreamInv
<1>10. PICK st : st = [old EXCEPT !.next = at + 1, !.lagged = @ \/ at > old.next, !.got = Append(@, seen)]
  OBVIOUS
<1>11. streams'[s] = st /\ DOMAIN streams' = Subscribers /\ \A t \in Subscribers \ {s} : streams'[t] = streams[t]
  <2>1. streams' = [streams EXCEPT ![s].next = at + 1, ![s].lagged = @ \/ at > streams[s].next,
                                   ![s].got = Append(@, channels[1][at])]
    BY <1>2, <1>4, <1>6 DEF Receive
  <2> QED  BY <1>4, <1>8, <1>10, <2>1 DEF StreamsTyped
<1>12. /\ st.step = "live" /\ st.in = 1 /\ st.from = old.from /\ st.next = at + 1
       /\ st.got = Append(old.got, seen) /\ st.lagged = (old.lagged \/ at > old.next) /\ st.before = old.before
  BY <1>5, <1>10
<1>13. st \in [step : {"live"}, in : Nat, from : Nat, next : Nat, got : Sent,
               lagged : BOOLEAN, before : SUBSET (Emitters \X Nat)]
  <2>1. Append(old.got, seen) \in Sent
    BY <1>5, <1>9, Appended DEF Sent
  <2>2. at + 1 \in Nat /\ (old.lagged \/ at > old.next) \in BOOLEAN
    BY <1>7
  <2> QED  BY <1>5, <1>10, <2>1, <2>2
<1>14. StreamsTyped'
  BY <1>11, <1>13 DEF StreamsTyped
<1>15. OneChannel'
  BY <1>1, <1>2, <1>11, <1>12 DEF OneChannel
<1>16. EmitsTyped' /\ EmitInv' /\ \A d : Settled(d)' <=> Settled(d)
  BY <1>1, <1>2, EmittersKept
<1>17. StreamSound(st)
  <2>1. /\ old.from < old.next /\ old.before \subseteq DOMAIN begun
        /\ \A e \in ToSet(old.got) : Settled(e)
        /\ \A i \in (old.from + 1)..(old.next - 1) : channels[1][i] \in ToSet(old.got) \/ old.lagged
        /\ \A e \in done \ old.before : InChannel(e, old.from + 1, Len(channels[1]))
        /\ \A p \in Emitters :
            emits[p].step = "sending" /\ emits[p].event \notin old.before => emits[p].to = 1
    BY <1>5 DEF StreamSound
  <2>2. ToSet(st.got) = ToSet(old.got) \cup {seen}
    <3>1. old.got \in Seq(Emitters \X Nat) /\ seen \in Emitters \X Nat
      BY <1>5, <1>9 DEF Sent
    <3> QED  BY <1>12, <3>1, OneMore
  <2>3. old.from \in Nat /\ old.next \in Nat
    BY <1>5
  <2>4. ASSUME NEW i \in (st.from + 1)..(st.next - 1) PROVE channels[1][i] \in ToSet(st.got) \/ st.lagged
    <3>1. i \in (old.from + 1)..at
      BY <1>7, <1>12, <2>3, <2>4
    <3>2. CASE i < old.next
      <4>1. i \in (old.from + 1)..(old.next - 1)
        BY <2>3, <3>1, <3>2
      <4> QED  BY <1>12, <2>1, <2>2, <4>1
    <3>3. CASE i = at
      BY <1>8, <2>2, <3>3
    <3>4. CASE old.next <= i /\ i # at
      <4>1. at > old.next
        BY <1>7, <2>3, <3>1, <3>4
      <4>2. (old.lagged \/ at > old.next) = TRUE
        BY <4>1
      <4>3. st.lagged = TRUE
        BY <1>12, <4>2
      <4> QED  BY <4>3
    <3> QED  BY <1>7, <2>3, <3>1, <3>2, <3>3, <3>4
  <2>5. st.from < st.next /\ st.next <= Len(channels[1]) + 1
    BY <1>3, <1>7, <1>12, <2>1, <2>3
  <2> QED  BY <1>9, <1>12, <2>1, <2>2, <2>4, <2>5 DEF StreamSound
<1>18. StreamInv'
  <2>1. ASSUME NEW so, StreamSound(so) PROVE StreamSound(so)'
    BY <1>1, <1>16, <2>1 DEF StreamSound, InChannel
  <2>2. ASSUME NEW t \in Subscribers, streams'[t].step = "live", NEW so, so = streams'[t]
        PROVE  StreamSound(streams[t])'
    <3>1. StreamSound(so)
      BY <1>11, <1>17, <2>2 DEF StreamInv
    <3>2. StreamSound(so)'
      BY <2>1, <3>1
    <3> QED  BY <2>2, <3>2 DEF StreamSound
  <2>3. \A i \in 1..Len(channels[1]) : Settled(channels[1][i])'
    <3>1. ASSUME NEW d, Settled(d), NEW i, d = channels[1][i] PROVE Settled(channels[1][i])'
      BY <1>1, <1>16, <3>1 DEF Settled
    <3> QED  BY <1>2, <3>1 DEF StreamInv
  <2> QED  BY <1>1, <2>2, <2>3 DEF StreamInv
<1> QED  BY <1>14, <1>15, <1>16, <1>18

LEMMA StepBus == BusInv /\ [BusNext]_busVars => BusInv'
<1> SUFFICES ASSUME BusInv, [BusNext]_busVars PROVE BusInv'
  OBVIOUS
<1>1. CASE \E h \in Handlers : Register(h)
  BY <1>1, RegisterKeeps
<1>2. CASE \E p \in Emitters : Emit(p) \/ Handle(p) \/ LookUp(p) \/ Send(p)
  BY <1>2, EmitKeeps, HandleKeeps, LookUpKeeps, SendKeeps
<1>3. CASE \E s \in Subscribers : Find(s) \/ OpenChannel(s) \/ Attach(s) \/ Receive(s)
  BY <1>3, FindKeeps, OpenChannelKeeps, AttachKeeps, ReceiveKeeps
<1>4. CASE UNCHANGED busVars
  <2>1. channel \in Nat /\ UNCHANGED <<handlers, channels, channel, emits, streams, begun, done, handled>>
    BY <1>4 DEF busVars, BusInv, OneChannel
  <2>2. EmitsTyped' /\ EmitInv' /\ \A d : Settled(d)' <=> Settled(d)
    BY <2>1, EmittersKept
  <2>3. StreamsTyped' /\ OneChannel'
    BY <2>1 DEF BusInv, StreamsTyped, OneChannel
  <2>4. StreamInv'
    <3>1. \A p \in Emitters : emits'[p] = emits[p]
      BY <2>1
    <3> QED  BY <2>1, <2>2, <3>1, StreamsKept
  <2> QED  BY <2>2, <2>3, <2>4 DEF BusInv
<1> QED  BY <1>1, <1>2, <1>3, <1>4 DEF BusNext

LEMMA StreamsDeliver == BusInv => BusDelivers
<1> SUFFICES ASSUME BusInv, NEW s \in Subscribers, streams[s].step = "live"
             PROVE  /\ \A e \in ToSet(streams[s].got) : \A h \in begun[e] : <<h, e>> \in handled
                    /\ \A e \in done \ streams[s].before : e \in Reached(s) \/ streams[s].lagged
  BY DEF BusDelivers
<1> USE DEF BusInv
<1>1. PICK st : st = streams[s]
  OBVIOUS
<1>2. StreamSound(st) /\ st.in = 1 /\ channel = 1 /\ st.from \in Nat /\ st.next \in Nat
  BY <1>1 DEF StreamInv, OneChannel, StreamsTyped
<1>3. \A e \in ToSet(st.got) : Settled(e)
  BY <1>2 DEF StreamSound
<1>4. ASSUME NEW e \in done \ st.before PROVE e \in Reached(s) \/ st.lagged
  <2>1. PICK i \in (st.from + 1)..Len(channels[1]) : channels[1][i] = e
    BY <1>2, <1>4 DEF StreamSound, InChannel
  <2>2. channels \in Seq(Sent) /\ 1 \in 1..Len(channels)
    BY <1>2 DEF OneChannel
  <2>3. channels[1] \in Sent
    BY <2>2
  <2>4. Len(channels[1]) \in Nat
    BY <2>3 DEF Sent
  <2>5. CASE i < st.next
    <3>1. i \in (st.from + 1)..(st.next - 1)
      BY <1>2, <2>1, <2>4, <2>5
    <3>2. channels[1][i] \in ToSet(st.got) \/ st.lagged
      BY <1>2, <3>1 DEF StreamSound
    <3> QED  BY <1>1, <2>1, <3>2 DEF Reached
  <2>6. CASE st.next <= i
    <3>1. i \in st.next..Len(channels[1])
      BY <1>2, <2>1, <2>4, <2>6
    <3> QED  BY <1>1, <1>2, <2>1, <3>1 DEF Reached
  <2> QED  BY <1>2, <2>1, <2>4, <2>5, <2>6
<1> QED  BY <1>1, <1>3, <1>4 DEF Settled

(* emit and subscribe: what a stream yields was handled by every handler there
   was, and a stream gets what was emitted after it was made, or has lagged,
   however the first subscriptions race for the channel. *)
THEOREM BusIsReliable == BusSpec => []BusDelivers
<1>1. BusInit => BusInv
  BY InitBus
<1>2. BusInv /\ [BusNext]_busVars => BusInv'
  BY StepBus
<1>3. BusInv => BusDelivers
  BY StreamsDeliver
<1> QED  BY <1>1, <1>2, <1>3, PTL DEF BusSpec

-----------------------------------------------------------------------------
(* The access log. *)

LogSpec == LogInit /\ [][LogNext]_logVars

Steps == {"idle", "exception", "response", "checking", "sending", "full", "counted"}
LogLine == [thread : Threads, number : Nat, error : BOOLEAN]
LogTyped ==
    /\ threads \in [Threads -> [step : Steps, number : 0..MaxRequests, error : BOOLEAN]]
    /\ \A t \in Threads : Unsettled(t) => threads[t].number # 0
    /\ queue \in Seq(LogLine) /\ buffered \in Seq(LogLine) /\ output \in Seq(LogLine)
    /\ dropped \in Nat /\ pending \in Nat /\ reported \in Nat

(* A worker's lines are of the requests it is done with, in their order. *)
LinesInv ==
    /\ \A i, j \in 1..Len(Lines) :
        i < j /\ Lines[i].thread = Lines[j].thread => Lines[i].number < Lines[j].number
    /\ \A i \in 1..Len(Lines) : LET t == Lines[i].thread IN
        /\ Lines[i].number <= threads[t].number
        /\ Unsettled(t) => Lines[i].number < threads[t].number

AllShown == logging = [own |-> TRUE, onlyErrors |-> FALSE]
CountInv ==
    /\ dropped = reported + pending + Cardinality(Counted)
    /\ AllShown => Cardinality(Returned) = Len(Lines) + dropped - Cardinality(Counted)

LogInv == LogTyped /\ LinesInv /\ CountInv

LEMMA OneElementMore ==
    ASSUME NEW S, NEW T, NEW x, IsFiniteSet(S), x \notin S, \A y : y \in T <=> y \in S \/ y = x
    PROVE  IsFiniteSet(T) /\ Cardinality(T) = Cardinality(S) + 1
<1>1. T = S \cup {x}
  OBVIOUS
<1>2. IsFiniteSet(S \cup {x}) /\ Cardinality(S \cup {x}) = Cardinality(S) + 1
  BY FS_AddElement
<1> QED  BY <1>1, <1>2, Zenon

LEMMA SameElements ==
    ASSUME NEW S, NEW T, IsFiniteSet(S), \A y : y \in T <=> y \in S
    PROVE  IsFiniteSet(T) /\ Cardinality(T) = Cardinality(S)
<1>1. T = S
  OBVIOUS
<1> QED  BY <1>1, Zenon

LEMMA CountsAreFinite ==
    /\ IsFiniteSet(Counted) /\ Cardinality(Counted) \in Nat
    /\ IsFiniteSet(Returned) /\ Cardinality(Returned) \in Nat
<1>1. IsFiniteSet(Threads) /\ MaxRequests \in Nat
  BY LogAssumption
<1>2. IsFiniteSet(Counted)
  <2>1. Counted \in SUBSET Threads
    BY DEF Counted
  <2> HIDE DEF Counted
  <2> QED  BY <1>1, <2>1, FS_Subset
<1>3. IsFiniteSet(Returned)
  <2>1. IsFiniteSet(1..MaxRequests)
    BY <1>1, FS_Interval
  <2>2. IsFiniteSet(Threads \X (1..MaxRequests))
    BY <1>1, <2>1, FS_Product
  <2>3. Returned \in SUBSET (Threads \X (1..MaxRequests))
    BY DEF Returned
  <2> HIDE DEF Returned
  <2> QED  BY <2>2, <2>3, FS_Subset
<1> QED  BY <1>2, <1>3, FS_CardinalityType

(* What a worker's step does to the two counts. *)
LEMMA Moved ==
    ASSUME LogTyped, NEW t \in Threads, Unsettled(t), NEW to \in Steps, Goes(t, to)
    PROVE  /\ threads' \in [Threads -> [step : Steps, number : 0..MaxRequests, error : BOOLEAN]]
           /\ \A u \in Threads : threads'[u].number = threads[u].number
           /\ \A u \in Threads : Unsettled(u)' => Unsettled(u)
           /\ to # "idle" => Cardinality(Returned') = Cardinality(Returned)
           /\ to = "idle" => Cardinality(Returned') = Cardinality(Returned) + 1
           /\ At(t, "counted") /\ to # "counted" => Cardinality(Counted') = Cardinality(Counted) - 1
           /\ ~At(t, "counted") /\ to = "counted" => Cardinality(Counted') = Cardinality(Counted) + 1
           /\ ~At(t, "counted") /\ to # "counted" => Cardinality(Counted') = Cardinality(Counted)
<1>1. /\ threads' \in [Threads -> [step : Steps, number : 0..MaxRequests, error : BOOLEAN]]
      /\ threads'[t].step = to /\ threads'[t].number = threads[t].number
      /\ \A u \in Threads \ {t} : threads'[u] = threads[u]
  BY DEF LogTyped, Goes
<1>2. \A u \in Threads : threads'[u].number = threads[u].number /\ (Unsettled(u)' => Unsettled(u))
  BY <1>1 DEF Unsettled, At
<1>3. /\ IsFiniteSet(Counted) /\ Cardinality(Counted) \in Nat
      /\ IsFiniteSet(Returned) /\ Cardinality(Returned) \in Nat
  BY CountsAreFinite
<1>9. IsFiniteSet(Counted')
  <2>1. Counted' \in SUBSET Threads /\ IsFiniteSet(Threads)
    BY LogAssumption DEF Counted
  <2> HIDE DEF Counted
  <2> QED  BY <2>1, FS_Subset
<1>4. ASSUME to # "idle" PROVE Cardinality(Returned') = Cardinality(Returned)
  <2>1. \A u \in Threads : Unsettled(u)' <=> Unsettled(u)
    BY <1>1, <1>4 DEF Unsettled, At
  <2>2. \A r : r \in Returned' <=> r \in Returned
    BY <1>2, <2>1 DEF Returned
  <2> QED  BY <1>3, <2>2, SameElements
<1>5. ASSUME to = "idle" PROVE Cardinality(Returned') = Cardinality(Returned) + 1
  <2> DEFINE n == threads[t].number
  <2>1. <<t, n>> \notin Returned
    BY DEF Returned
  <2>2. ~Unsettled(t)' /\ \A u \in Threads \ {t} : Unsettled(u)' <=> Unsettled(u)
    BY <1>1, <1>5 DEF Unsettled, At
  <2>3. n \in 1..MaxRequests
    BY LogAssumption DEF LogTyped
  <2>4. ASSUME NEW r PROVE r \in Returned' <=> r \in Returned \/ r = <<t, n>>
    <3>1. CASE r \in Threads \X (1..MaxRequests)
      <4>1. r = <<r[1], r[2]>> /\ r[1] \in Threads /\ r[2] \in Int
        BY <3>1
      <4>2. CASE r[1] = t
        BY <1>1, <2>2, <2>3, <3>1, <4>1, <4>2 DEF Returned
      <4>3. CASE r[1] # t
        BY <1>1, <2>2, <3>1, <4>1, <4>3 DEF Returned
      <4> QED  BY <4>2, <4>3
    <3>2. CASE r \notin Threads \X (1..MaxRequests)
      BY <2>3, <3>2 DEF Returned
    <3> QED  BY <3>1, <3>2
  <2> HIDE DEF n
  <2>5. \A r : r \in Returned' <=> r \in Returned \/ r = <<t, n>>
    BY <2>4
  <2> QED  BY <1>3, <2>1, <2>5, OneElementMore
<1>6. ASSUME At(t, "counted"), to # "counted" PROVE Cardinality(Counted') = Cardinality(Counted) - 1
  <2>1. \A u : u \in Counted <=> u \in Counted' \/ u = t
    BY <1>1, <1>6 DEF Counted, At
  <2>2. t \notin Counted'
    BY <1>1, <1>6 DEF Counted, At
  <2>3. Cardinality(Counted) = Cardinality(Counted') + 1 /\ Cardinality(Counted') \in Nat
    BY <1>9, <2>1, <2>2, OneElementMore, FS_CardinalityType
  <2> QED  BY <2>3
<1>7. ASSUME ~At(t, "counted"), to = "counted" PROVE Cardinality(Counted') = Cardinality(Counted) + 1
  <2>1. \A u : u \in Counted' <=> u \in Counted \/ u = t
    BY <1>1, <1>7 DEF Counted, At
  <2>2. t \notin Counted
    BY <1>7 DEF Counted
  <2> QED  BY <1>3, <2>1, <2>2, OneElementMore
<1>8. ASSUME ~At(t, "counted"), to # "counted" PROVE Cardinality(Counted') = Cardinality(Counted)
  <2>1. \A u : u \in Counted' <=> u \in Counted
    BY <1>1, <1>8 DEF Counted, At
  <2> QED  BY <1>3, <2>1, SameElements
<1> QED  BY <1>1, <1>2, <1>4, <1>5, <1>6, <1>7, <1>8

LEMMA LinesTyped ==
    ASSUME LogTyped
    PROVE  /\ Lines \in Seq(LogLine) /\ Len(Lines) \in Nat /\ DOMAIN Lines = 1..Len(Lines)
           /\ \A i \in 1..Len(Lines) : Lines[i].thread \in Threads /\ Lines[i].number \in Nat
<1>1. output \o buffered \in Seq(LogLine)
  BY ConcatProperties DEF LogTyped
<1>2. (output \o buffered) \o queue \in Seq(LogLine)
  BY <1>1, ConcatProperties DEF LogTyped
<1>3. Lines \in Seq(LogLine)
  BY <1>2 DEF Lines
<1> HIDE DEF Lines
<1>4. \A i \in 1..Len(Lines) : Lines[i] \in LogLine
  BY <1>3
<1> QED  BY <1>3, <1>4 DEF LogLine

LEMMA LineSent ==
    ASSUME LogTyped, NEW x \in LogLine, queue' = Append(queue, x), UNCHANGED <<buffered, output>>
    PROVE  Lines' = Append(Lines, x)
<1> DEFINE front == output \o buffered
<1>1. front \in Seq(LogLine) /\ queue \in Seq(LogLine) /\ <<x>> \in Seq(LogLine)
  BY ConcatProperties DEF LogTyped
<1>2. Lines' = front \o Append(queue, x) /\ Lines = front \o queue
  BY DEF Lines
<1> HIDE DEF front
<1>3. Append(queue, x) = queue \o <<x>>
  BY <1>1, AppendIsConcat
<1>4. front \o queue \in Seq(LogLine)
  BY <1>1, ConcatProperties
<1>5. Append(front \o queue, x) = (front \o queue) \o <<x>>
  BY <1>4, AppendIsConcat
<1>6. (front \o queue) \o <<x>> = front \o (queue \o <<x>>)
  BY <1>1, ConcatAssociative
<1> QED  BY <1>2, <1>3, <1>5, <1>6, Zenon

LEMMA LinesTaken ==
    ASSUME LogTyped, TakeBatch
    PROVE  Lines' = Lines /\ LogTyped'
<1>1. PICK n \in 0..BatchSize : /\ n <= Len(queue)
                                /\ buffered' = buffered \o SubSeq(queue, 1, n)
                                /\ queue' = SubSeq(queue, n + 1, Len(queue))
  BY DEF TakeBatch
<1>2. UNCHANGED <<threads, output, dropped, pending, reported>>
  BY DEF TakeBatch
<1>3. n \in Nat /\ Len(queue) \in Nat
  BY <1>1, LogAssumption DEF LogTyped
<1> DEFINE a == SubSeq(queue, 1, n)
           b == SubSeq(queue, n + 1, Len(queue))
<1>4. a \in Seq(LogLine) /\ b \in Seq(LogLine)
  <2>1. \A i \in 1..n : queue[i] \in LogLine
    BY <1>1, <1>3 DEF LogTyped
  <2>2. \A i \in (n + 1)..Len(queue) : queue[i] \in LogLine
    BY <1>1, <1>3 DEF LogTyped
  <2>3. a \in Seq(LogLine)
    BY <1>3, <2>1, SubSeqProperties
  <2>4. b \in Seq(LogLine)
    BY <1>3, <2>2, SubSeqProperties
  <2> QED  BY <2>3, <2>4
<1>5. a \o b = queue
  <2>1. a \o b = SubSeq(queue, 1, Len(queue))
    <3>1. 1 \in 1..(Len(queue) + 1) /\ n \in (1 - 1)..Len(queue) /\ Len(queue) \in n..Len(queue)
      BY <1>1, <1>3
    <3> QED  BY <3>1, ConcatAdjacentSubSeq DEF LogTyped
  <2>2. SubSeq(queue, 1, Len(queue)) = queue
    BY SubSeqFull DEF LogTyped
  <2> QED  BY <2>1, <2>2
<1>6. buffered' = buffered \o a /\ queue' = b
  BY <1>1
<1> HIDE DEF a, b
<1>7. output \in Seq(LogLine) /\ buffered \in Seq(LogLine) /\ output \o buffered \in Seq(LogLine)
  BY ConcatProperties DEF LogTyped
<1>8. output \o (buffered \o a) = (output \o buffered) \o a
  <2>1. output \in Seq(LogLine) /\ buffered \in Seq(LogLine) /\ a \in Seq(LogLine)
    BY <1>4, <1>7
  <2> QED  BY <2>1, ConcatAssociative
<1>9. ((output \o buffered) \o a) \o b = (output \o buffered) \o (a \o b)
  <2> DEFINE front == output \o buffered
  <2>1. front \in Seq(LogLine)
    BY <1>7
  <2> HIDE DEF front
  <2>2. (front \o a) \o b = front \o (a \o b)
    BY <1>4, <2>1, ConcatAssociative
  <2> QED  BY <2>2 DEF front
<1>10. Lines' = Lines
  <2>1. Lines' = (output \o (buffered \o a)) \o b
    BY <1>2, <1>6 DEF Lines
  <2>2. Lines = (output \o buffered) \o queue
    BY DEF Lines
  <2> QED  BY <1>5, <1>8, <1>9, <2>1, <2>2, Zenon
<1>11. LogTyped'
  <2>1. buffered' \in Seq(LogLine)
    BY <1>4, <1>6, <1>7, ConcatProperties
  <2> QED  BY <1>2, <1>4, <1>6, <2>1 DEF LogTyped, Unsettled, At
<1> QED  BY <1>10, <1>11

LEMMA LinesFlushed ==
    ASSUME LogTyped, Flush
    PROVE  Lines' = Lines /\ LogTyped'
<1>1. output' = output \o buffered /\ buffered' = <<>> /\ UNCHANGED <<threads, queue, dropped, pending, reported>>
  BY DEF Flush
<1>2. output' \in Seq(LogLine)
  BY <1>1, ConcatProperties DEF LogTyped
<1>3. output' \o <<>> = output'
  BY <1>2, ConcatEmptySeq
<1>4. Lines' = Lines
  <2>1. Lines' = (output' \o <<>>) \o queue
    BY <1>1 DEF Lines
  <2>2. Lines = output' \o queue
    BY <1>1 DEF Lines
  <2> QED  BY <1>3, <2>1, <2>2, Zenon
<1>5. LogTyped'
  BY <1>1, <1>2 DEF LogTyped, Unsettled, At
<1> QED  BY <1>4, <1>5

LEMMA LinesKept ==
    ASSUME LogTyped, LinesInv, Lines' = Lines, \A u \in Threads : threads'[u].number = threads[u].number,
           \A u \in Threads : Unsettled(u)' => Unsettled(u)
    PROVE  LinesInv'
<1>1. \A i \in 1..Len(Lines) : Lines[i].thread \in Threads
  BY LinesTyped
<1>2. \A i, j \in 1..Len(Lines) :
        i < j /\ Lines[i].thread = Lines[j].thread => Lines[i].number < Lines[j].number
  BY DEF LinesInv
<1>3. ASSUME NEW i \in 1..Len(Lines)
      PROVE  /\ Lines[i].number <= threads'[Lines[i].thread].number
             /\ threads'[Lines[i].thread].step # "idle" => Lines[i].number < threads'[Lines[i].thread].number
  BY <1>1 DEF LinesInv, Unsettled, At
<1> HIDE DEF Lines
<1> QED  BY <1>2, <1>3 DEF LinesInv, Unsettled, At

LEMMA InitLog == LogInit => LogInv
<1> SUFFICES ASSUME LogInit PROVE LogInv
  OBVIOUS
<1> USE DEF LogInit
<1>1. LogTyped
  BY LogAssumption DEF LogTyped, Steps, Unsettled, At
<1>2. Len(Lines) = 0
  BY DEF Lines
<1>3. LinesInv
  <2>1. 1..Len(Lines) = {}
    BY <1>2
  <2> HIDE DEF Lines
  <2> QED  BY <2>1 DEF LinesInv
<1>4. \A t : t \notin Counted
  BY DEF Counted, At
<1>5. \A r : r \notin Returned
  BY DEF Returned
<1>6. Cardinality(Counted) = 0 /\ Cardinality(Returned) = 0
  BY <1>4, <1>5, CountsAreFinite, FS_EmptySet
<1>7. CountInv
  BY <1>2, <1>6 DEF CountInv
<1> QED  BY <1>1, <1>3, <1>7 DEF LogInv

LEMMA RespondKeeps ==
    ASSUME LogInv, NEW t \in Threads, Respond(t)
    PROVE  LogInv'
<1> USE DEF LogInv
<1>1. PICK error \in BOOLEAN : threads' = [threads EXCEPT ![t] =
            [step |-> IF error THEN "exception" ELSE "response", number |-> @.number + 1, error |-> error]]
  BY DEF Respond
<1>2. /\ At(t, "idle") /\ threads[t].number < MaxRequests
      /\ UNCHANGED <<logging, queue, dropped, pending, buffered, output, reported>>
  BY DEF Respond
<1>3. MaxRequests \in Nat /\ threads[t].number \in Nat /\ \A u \in Threads : threads[u].number \in Nat
  BY LogAssumption DEF LogTyped
<1>4. /\ threads'[t].step \in {"exception", "response"} /\ threads'[t].number = threads[t].number + 1
      /\ threads'[t].error \in BOOLEAN /\ DOMAIN threads' = Threads
      /\ \A u \in Threads \ {t} : threads'[u] = threads[u]
  BY <1>1 DEF LogTyped
<1>5. threads' \in [Threads -> [step : Steps, number : 0..MaxRequests, error : BOOLEAN]]
  BY <1>1, <1>2, <1>3 DEF LogTyped, Steps
<1>6. LogTyped'
  <2>1. \A u \in Threads : threads'[u].step # "idle" => threads'[u].number # 0
    BY <1>3, <1>4 DEF LogTyped, Unsettled, At
  <2> QED  BY <1>2, <1>5, <2>1 DEF LogTyped, Unsettled, At
<1>7. Lines' = Lines
  BY <1>2 DEF Lines
<1>8. LinesInv'
  <2>1. \A i \in 1..Len(Lines) : Lines[i].thread \in Threads /\ Lines[i].number \in Nat
    BY LinesTyped
  <2>2. \A i, j \in 1..Len(Lines) :
          i < j /\ Lines[i].thread = Lines[j].thread => Lines[i].number < Lines[j].number
    BY DEF LinesInv
  <2>3. ASSUME NEW i \in 1..Len(Lines)
        PROVE  /\ Lines[i].number <= threads'[Lines[i].thread].number
               /\ threads'[Lines[i].thread].step # "idle" => Lines[i].number < threads'[Lines[i].thread].number
    <3>1. CASE Lines[i].thread = t
      <4>1. Lines[i].number <= threads[t].number
        BY <3>1 DEF LinesInv
      <4> QED  BY <1>3, <1>4, <2>1, <3>1, <4>1
    <3>2. CASE Lines[i].thread # t
      BY <1>4, <2>1, <3>2 DEF LinesInv, Unsettled, At
    <3> QED  BY <3>1, <3>2
  <2> HIDE DEF Lines
  <2> QED  BY <1>7, <2>2, <2>3 DEF LinesInv, Unsettled, At
<1>9. CountInv'
  <2>1. \A u : u \in Counted' <=> u \in Counted
    BY <1>2, <1>4 DEF Counted, At
  <2>2. ASSUME NEW r PROVE r \in Returned' <=> r \in Returned
    <3>1. CASE r \in Threads \X (1..MaxRequests) /\ r[1] = t
      <4>1. r[2] \in Nat /\ threads[t].number \in Nat
        BY <1>3, <3>1
      <4>2. r[2] < threads[t].number + 1 <=> r[2] <= threads[t].number
        BY <4>1
      <4> QED  BY <1>2, <1>4, <3>1, <4>1, <4>2 DEF Returned, Unsettled, At
    <3>2. CASE r \in Threads \X (1..MaxRequests) /\ r[1] # t
      BY <1>4, <3>2 DEF Returned, Unsettled, At
    <3>3. CASE r \notin Threads \X (1..MaxRequests)
      BY <3>3 DEF Returned
    <3> QED  BY <3>1, <3>2, <3>3
  <2>3. Cardinality(Counted') = Cardinality(Counted) /\ Cardinality(Returned') = Cardinality(Returned)
    BY <2>1, <2>2, CountsAreFinite, SameElements
  <2> HIDE DEF Lines
  <2> QED  BY <1>2, <1>7, <2>3 DEF CountInv, AllShown
<1> QED  BY <1>6, <1>8, <1>9

(* The worker's steps after that keep its number. *)
LEMMA WorkerKeeps ==
    ASSUME LogInv, NEW t \in Threads,
           LogException(t) \/ LogRequest(t) \/ CheckFull(t) \/ TrySend(t) \/ CountDrop(t) \/ CountPending(t)
    PROVE  LogInv'
<1> USE DEF LogInv
<1>1. Unsettled(t) /\ UNCHANGED <<logging, buffered, output, reported>>
  BY DEF Unsettled, At, LogException, LogRequest, CheckFull, TrySend, CountDrop, CountPending
<1>2. PICK to \in Steps : Goes(t, to)
  BY DEF Steps, LogException, LogRequest, CheckFull, TrySend, CountDrop, CountPending
<1>3. /\ threads' \in [Threads -> [step : Steps, number : 0..MaxRequests, error : BOOLEAN]]
      /\ \A u \in Threads : threads'[u].number = threads[u].number
      /\ \A u \in Threads : Unsettled(u)' => Unsettled(u)
      /\ to # "idle" => Cardinality(Returned') = Cardinality(Returned)
      /\ to = "idle" => Cardinality(Returned') = Cardinality(Returned) + 1
      /\ At(t, "counted") /\ to # "counted" => Cardinality(Counted') = Cardinality(Counted) - 1
      /\ ~At(t, "counted") /\ to = "counted" => Cardinality(Counted') = Cardinality(Counted) + 1
      /\ ~At(t, "counted") /\ to # "counted" => Cardinality(Counted') = Cardinality(Counted)
  BY <1>1, <1>2, Moved
<1>4. threads'[t].step = to
  BY <1>2 DEF Goes, LogTyped
<1>5. Cardinality(Counted) \in Nat /\ Cardinality(Returned) \in Nat /\ Len(Lines) \in Nat
  BY CountsAreFinite, LinesTyped
<1>6. dropped = reported + pending + Cardinality(Counted)
      /\ (AllShown => Cardinality(Returned) = Len(Lines) + dropped - Cardinality(Counted))
      /\ dropped \in Nat /\ pending \in Nat /\ reported \in Nat
  BY DEF CountInv, LogTyped
<1>7. AllShown' <=> AllShown
  BY <1>1 DEF AllShown
<1>8. CASE /\ UNCHANGED <<queue, dropped, pending>> /\ (to = "idle" => ~AllShown)
           /\ ~At(t, "counted") /\ to # "counted"
  <2>1. Lines' = Lines
    BY <1>1, <1>8 DEF Lines
  <2>2. LogTyped'
    BY <1>1, <1>3, <1>8 DEF LogTyped
  <2>3. LinesInv'
    BY <1>3, <2>1, LinesKept
  <2>4. CountInv'
    <3> HIDE DEF Lines
    <3> QED  BY <1>1, <1>3, <1>5, <1>6, <1>7, <1>8, <2>1 DEF CountInv
  <2> QED  BY <2>2, <2>3, <2>4
<1>9. CASE LogException(t)
  BY <1>4, <1>8, <1>9 DEF LogException, Goes, At, LogTyped
<1>10. CASE LogRequest(t)
  <2>1. to = "idle" => ~AllShown
    BY <1>4, <1>10 DEF LogRequest, Goes, AllShown, LogTyped
  <2>2. to # "counted" /\ ~At(t, "counted") /\ UNCHANGED <<queue, dropped, pending>>
    BY <1>4, <1>10 DEF LogRequest, Goes, At, LogTyped
  <2> QED  BY <1>8, <2>1, <2>2
<1>11. CASE CheckFull(t)
  BY <1>4, <1>8, <1>11 DEF CheckFull, Goes, At, LogTyped
<1>12. CASE TrySend(t) /\ Len(queue) = QueueCapacity
  BY <1>4, <1>8, <1>12 DEF TrySend, Goes, At, LogTyped
<1>13. CASE TrySend(t) /\ Len(queue) # QueueCapacity
  <2> DEFINE x == EntryOf(t)
  <2>1. /\ to = "idle" /\ ~At(t, "counted") /\ queue' = Append(queue, x) /\ UNCHANGED <<dropped, pending>>
    BY <1>4, <1>13 DEF TrySend, Goes, At, LogTyped
  <2>2. x \in LogLine /\ x.thread = t /\ x.number = threads[t].number
    BY LogAssumption DEF EntryOf, LogLine, LogTyped
  <2> HIDE DEF x
  <2>3. Lines' = Append(Lines, x)
    BY <1>1, <2>1, <2>2, LineSent
  <2> HIDE DEF Lines
  <2>4. /\ Lines \in Seq(LogLine) /\ Len(Lines') = Len(Lines) + 1 /\ Lines'[Len(Lines) + 1] = x
        /\ \A i \in 1..Len(Lines) : Lines'[i] = Lines[i]
    <3>1. Lines \in Seq(LogLine)
      BY LinesTyped
    <3> QED  BY <2>2, <2>3, <3>1, Appended
  <2>5. LogTyped'
    <3>1. queue' \in Seq(LogLine)
      BY <2>1, <2>2, Appended DEF LogTyped
    <3> QED  BY <1>1, <1>3, <2>1, <3>1 DEF LogTyped
  <2>6. LinesInv'
    <3>1. \A i \in 1..Len(Lines) : Lines[i].thread \in Threads /\ Lines[i].number \in Nat
      BY LinesTyped
    <3>2. \A i \in 1..Len(Lines) :
            /\ Lines[i].thread = t => Lines[i].number < threads[t].number
            /\ Lines[i].number <= threads[Lines[i].thread].number
            /\ Unsettled(Lines[i].thread) => Lines[i].number < threads[Lines[i].thread].number
      BY <1>1 DEF LinesInv
    <3>3. \A i \in 1..(Len(Lines) + 1) : i \in 1..Len(Lines) \/ i = Len(Lines) + 1
      BY <1>5
    <3>4. ~Unsettled(t)'
      BY <1>4, <2>1 DEF Unsettled, At
    <3>5. \A i, j \in 1..Len(Lines) :
            i < j /\ Lines[i].thread = Lines[j].thread => Lines[i].number < Lines[j].number
      BY DEF LinesInv
    <3>6. ASSUME NEW i \in 1..Len(Lines'), NEW j \in 1..Len(Lines'), i < j, Lines'[i].thread = Lines'[j].thread
          PROVE  Lines'[i].number < Lines'[j].number
      <4>1. i \in 1..Len(Lines)
        BY <1>5, <2>4, <3>6
      <4>2. CASE j \in 1..Len(Lines)
        BY <2>4, <3>5, <3>6, <4>1, <4>2
      <4>3. CASE j = Len(Lines) + 1
        BY <2>2, <2>4, <3>2, <3>6, <4>1, <4>3
      <4> QED  BY <2>4, <3>3, <4>2, <4>3
    <3>7. ASSUME NEW i \in 1..Len(Lines')
          PROVE  /\ Lines'[i].number <= threads'[Lines'[i].thread].number
                 /\ threads'[Lines'[i].thread].step # "idle" =>
                        Lines'[i].number < threads'[Lines'[i].thread].number
      <4>1. CASE i \in 1..Len(Lines)
        <5>1. Lines[i].thread \in Threads /\ Lines'[i] = Lines[i]
          BY <2>4, <3>1, <4>1
        <5>2. threads'[Lines[i].thread].step # "idle" => Unsettled(Lines[i].thread)
          BY <1>3, <5>1 DEF Unsettled, At
        <5> QED  BY <1>3, <3>2, <4>1, <5>1, <5>2
      <4>2. CASE i = Len(Lines) + 1
        <5>1. threads'[t].number = threads[t].number /\ threads[t].number \in Int
          BY <1>3 DEF LogTyped
        <5> QED  BY <1>4, <2>1, <2>2, <2>4, <4>2, <5>1
      <4> QED  BY <2>4, <3>3, <4>1, <4>2
    <3> QED  BY <3>6, <3>7 DEF LinesInv, Unsettled, At
  <2>7. CountInv'
    <3>1. Cardinality(Counted') = Cardinality(Counted) /\ Cardinality(Returned') = Cardinality(Returned) + 1
      BY <1>3, <2>1
    <3>2. dropped' = reported' + pending' + Cardinality(Counted')
      BY <1>1, <1>6, <2>1, <3>1
    <3>3. AllShown' => Cardinality(Returned') = Len(Lines') + dropped' - Cardinality(Counted')
      BY <1>5, <1>6, <1>7, <2>1, <2>4, <3>1
    <3> QED  BY <3>2, <3>3 DEF CountInv
  <2> QED  BY <2>5, <2>6, <2>7
<1>14. CASE CountDrop(t)
  <2>1. to = "counted" /\ ~At(t, "counted") /\ dropped' = dropped + 1 /\ UNCHANGED <<queue, pending>>
    BY <1>4, <1>14 DEF CountDrop, Goes, At, LogTyped
  <2>2. Lines' = Lines
    BY <1>1, <2>1 DEF Lines
  <2>3. LogTyped'
    BY <1>1, <1>3, <2>1 DEF LogTyped
  <2>4. LinesInv'
    BY <1>3, <2>2, LinesKept
  <2>5. CountInv'
    <3> HIDE DEF Lines
    <3> QED  BY <1>1, <1>3, <1>5, <1>6, <1>7, <2>1, <2>2 DEF CountInv
  <2> QED  BY <2>3, <2>4, <2>5
<1>15. CASE CountPending(t)
  <2>1. to = "idle" /\ At(t, "counted") /\ pending' = pending + 1 /\ UNCHANGED <<queue, dropped>>
    BY <1>4, <1>15 DEF CountPending, Goes, LogTyped
  <2>2. Lines' = Lines
    BY <1>1, <2>1 DEF Lines
  <2>3. LogTyped'
    BY <1>1, <1>3, <2>1 DEF LogTyped
  <2>4. LinesInv'
    BY <1>3, <2>2, LinesKept
  <2>5. CountInv'
    <3> HIDE DEF Lines
    <3>1. Cardinality(Counted') = Cardinality(Counted) - 1 /\ Cardinality(Returned') = Cardinality(Returned) + 1
      BY <1>3, <2>1
    <3>2. dropped' = reported' + pending' + Cardinality(Counted')
      BY <1>1, <1>5, <1>6, <2>1, <3>1
    <3>3. AllShown' => Cardinality(Returned') = Len(Lines') + dropped' - Cardinality(Counted')
      BY <1>5, <1>6, <1>7, <2>1, <2>2, <3>1
    <3> QED  BY <3>2, <3>3 DEF CountInv
  <2> QED  BY <2>3, <2>4, <2>5
<1> QED  BY <1>9, <1>10, <1>11, <1>12, <1>13, <1>14, <1>15

LEMMA StepLog == LogInv /\ [LogNext]_logVars => LogInv'
<1> SUFFICES ASSUME LogInv, [LogNext]_logVars PROVE LogInv'
  OBVIOUS
<1> USE DEF LogInv
<1>1. ASSUME UNCHANGED <<logging, threads>>, Lines' = Lines, LogTyped',
             reported' + pending' = reported + pending, dropped' = dropped
      PROVE  LogInv'
  <2>1. LinesInv'
    BY <1>1, LinesKept DEF Unsettled, At
  <2>2. Counted' = Counted /\ Returned' = Returned
    BY <1>1 DEF Counted, Returned, Unsettled, At
  <2>3. Cardinality(Counted') = Cardinality(Counted) /\ Cardinality(Returned') = Cardinality(Returned)
    BY <2>2, Zenon
  <2>4. CountInv'
    <3> HIDE DEF Lines
    <3>1. Cardinality(Counted) \in Nat
      BY CountsAreFinite
    <3>2. dropped' = reported' + pending' + Cardinality(Counted')
      BY <1>1, <2>3, <3>1 DEF CountInv, LogTyped
    <3>3. AllShown' => Cardinality(Returned') = Len(Lines') + dropped' - Cardinality(Counted')
      BY <1>1, <2>3 DEF CountInv, AllShown
    <3> QED  BY <3>2, <3>3 DEF CountInv
  <2> QED  BY <1>1, <2>1, <2>4
<1>2. ASSUME UNCHANGED <<logging, threads, queue, dropped, pending, buffered, output, reported>>
      PROVE  LogInv'
  BY <1>2, <1>1 DEF Lines, LogTyped, Unsettled, At
<1>3. CASE \E t \in Threads : ThreadNext(t)
  BY <1>3, RespondKeeps, WorkerKeeps DEF ThreadNext
<1>4. CASE LockStreams
  BY <1>2, <1>4 DEF LockStreams
<1>5. CASE TakeBatch
  BY <1>1, <1>5, LinesTaken DEF TakeBatch
<1>6. CASE Report
  <2>1. /\ UNCHANGED <<logging, threads, queue, dropped, buffered, output>>
        /\ reported' \in Nat /\ pending' \in Nat /\ reported' + pending' = reported + pending
    BY <1>6 DEF Report, LogTyped
  <2>2. Lines' = Lines
    BY <2>1 DEF Lines
  <2>3. LogTyped'
    BY <2>1 DEF LogTyped, Unsettled, At
  <2> QED  BY <1>1, <2>1, <2>2, <2>3
<1>7. CASE Flush
  BY <1>1, <1>7, LinesFlushed DEF Flush
<1>8. CASE IntervalPasses
  BY <1>2, <1>8 DEF IntervalPasses
<1>9. CASE UNCHANGED logVars
  BY <1>2, <1>9 DEF logVars
<1> QED  BY <1>3, <1>4, <1>5, <1>6, <1>7, <1>8, <1>9 DEF LogNext, WriterNext

(* log_http_request, record_drop and the writer's loop: no entry disappears or
   is written twice, and no drop is forgotten or reported twice, however the
   workers and the writer interleave and whatever the sizes of queue and
   batch. *)
THEOREM LogKeepsItsBooks == LogSpec => []NothingUnaccounted
<1>1. LogInit => LogInv
  BY InitLog
<1>2. LogInv /\ [LogNext]_logVars => LogInv'
  BY StepLog
<1>3. LogInv => NothingUnaccounted
  <2> SUFFICES ASSUME LogInv PROVE NothingUnaccounted
    OBVIOUS
  <2>1. DOMAIN Lines = 1..Len(Lines)
    BY LinesTyped DEF LogInv
  <2> HIDE DEF Lines
  <2> QED  BY <2>1 DEF LogInv, LinesInv, CountInv, AllShown, NothingUnaccounted
<1> QED  BY <1>1, <1>2, <1>3, PTL DEF LogSpec

-----------------------------------------------------------------------------
(* The throttle store. *)

ThrottleSpec == ThrottleInit /\ [][ThrottleNext]_<<clock, throttleVars>>

WellMade(b) ==
    /\ b = [key |-> b.key, count |-> b.count, expires |-> b.expires, gen |-> b.gen]
    /\ b.key.route \in Routes
    /\ b.count \in Nat /\ b.expires \in Nat /\ b.gen \in Nat

(* A generation and a key say which bucket it is. *)
Distinct(live) == \A b, c \in live : b.gen = c.gen \/ b.key = c.key => b = c

CallsInv ==
    /\ clock \in Nat
    /\ DOMAIN calls = Requests
    /\ \A r \in Requests : calls[r].step = "clocked" =>
        calls[r].now \in Nat /\ calls[r].now <= clock /\ calls[r].key.route \in Routes

StoreInv ==
    /\ capacity \in Nat \ {0} /\ generation \in Nat
    /\ \A b \in buckets : WellMade(b) /\ b.gen <= generation
    /\ Distinct(buckets)
    /\ IsFiniteSet(buckets) /\ IsFiniteSet(expirations) /\ IsFiniteSet(order)
    /\ BucketsAreIndexed

ThrottleInv == CallsInv /\ StoreInv

(* The order of finite sets of numbers is well-founded, so a set of numbers
   has a least one. *)
LEMMA LeastNumber ==
    ASSUME NEW S \in SUBSET Nat, S # {}
    PROVE  \E i \in S : \A j \in S : i <= j
<1> DEFINE Down == {0..i : i \in S}
<1>1. Down \subseteq FiniteSubsetsOf(Nat) /\ Down # {}
  <2>1. \A i \in S : 0..i \in SUBSET Nat /\ IsFiniteSet(0..i)
    BY FS_Interval
  <2> QED  BY <2>1 DEF FiniteSubsetsOf
<1>2. PICK d \in Down : \A e \in Down : <<e, d>> \notin StrictSubsetOrdering(Nat)
  <2> HIDE DEF Down
  <2> QED  BY <1>1, FS_StrictSubsetOrderingWellFounded, WFMin
<1>3. PICK i \in S : d = 0..i
  OBVIOUS
<1>4. ASSUME NEW j \in S, j < i PROVE FALSE
  <2>1. 0..j \subseteq 0..i /\ i \in 0..i /\ i \notin 0..j
    BY <1>4
  <2>2. <<0..j, 0..i>> \in StrictSubsetOrdering(Nat)
    BY <2>1 DEF StrictSubsetOrdering
  <2> QED  BY <1>2, <1>3, <2>2
<1> QED  BY <1>4

(* A store with buckets has one that is the oldest. *)
LEMMA OldestIsOne ==
    ASSUME NEW places, NEW live, live # {}, Distinct(live),
           \A b \in live : b.gen \in Nat /\ Place(b) \in places
    PROVE  \E o \in live :
               /\ \A b : b \in Oldest(places, live) <=> b = o
               /\ \A c \in live : c = o \/ o.gen < c.gen
<1> DEFINE gens == {b.gen : b \in live}
<1>1. gens \in SUBSET Nat /\ gens # {}
  OBVIOUS
<1>2. PICK i \in gens : \A j \in gens : i <= j
  <2> HIDE DEF gens
  <2> QED  BY <1>1, LeastNumber
<1>3. PICK o \in live : o.gen = i
  OBVIOUS
<1>4. \A c \in live : o.gen <= c.gen
  BY <1>2, <1>3
<1>5. \A c \in live : c = o \/ o.gen < c.gen
  <2>1. \A c \in live : c.gen = o.gen => c = o
    BY DEF Distinct
  <2> QED  BY <1>4, <2>1
<1>6. \A b : b \in Oldest(places, live) <=> b = o
  <2>1. ASSUME NEW b \in Oldest(places, live) PROVE b = o
    <3>1. b \in live /\ b.gen <= o.gen
      BY <2>1 DEF Oldest
    <3> QED  BY <1>5, <3>1
  <2>2. o \in Oldest(places, live)
    BY <1>4 DEF Oldest
  <2> QED  BY <2>1, <2>2
<1> QED  BY <1>5, <1>6

LEMMA ImageIsSmaller ==
    ASSUME NEW S, IsFiniteSet(S), NEW f, DOMAIN f = S, f = [x \in S |-> f[x]], NEW T, \A y : y \in T <=> \E x \in S : y = f[x]
    PROVE  IsFiniteSet(T) /\ Cardinality(T) <= Cardinality(S)
<1>1. f \in [S -> T]
  OBVIOUS
<1>2. f \in Surjection(S, T)
  BY <1>1 DEF Surjection
<1> QED  BY <1>2, FS_Surjection

(* Compaction bounds an index and keeps what the live buckets have there. *)
LEMMA Compacted ==
    ASSUME NEW held, IsFiniteSet(held), capacity \in Nat, Cardinality(held) <= capacity,
           NEW f, DOMAIN f = held, f = [b \in held |-> f[b]],
           NEW all, \A y : y \in all <=> \E b \in held : y = f[b],
           NEW stamps, IsFiniteSet(stamps), \A b \in held : f[b] \in stamps,
           NEW index, index = Compact(stamps, all)
    PROVE  /\ IsFiniteSet(index) /\ Cardinality(index) <= 2 * capacity
           /\ \A b \in held : f[b] \in index
<1>1. IsFiniteSet(all) /\ Cardinality(all) <= Cardinality(held)
  BY ImageIsSmaller
<1>2. Cardinality(all) \in Nat /\ Cardinality(stamps) \in Nat /\ Cardinality(held) \in Nat
  BY <1>1, FS_CardinalityType
<1>3. CASE Cardinality(stamps) > 2 * capacity
  <2>1. index = all
    BY <1>3 DEF Compact
  <2>2. Cardinality(all) <= 2 * capacity
    BY <1>1, <1>2
  <2>3. \A b \in held : f[b] \in all
    OBVIOUS
  <2> QED  BY <1>1, <2>1, <2>2, <2>3, Zenon
<1>4. CASE ~(Cardinality(stamps) > 2 * capacity)
  <2>1. index = stamps
    BY <1>4 DEF Compact
  <2>2. Cardinality(stamps) <= 2 * capacity
    BY <1>2, <1>4
  <2> QED  BY <2>1, <2>2, Zenon
<1> QED  BY <1>3, <1>4

(* Counting on a bucket puts another in its place. *)
LEMMA OneCounted ==
    ASSUME NEW held, IsFiniteSet(held), \A b \in held : WellMade(b), Distinct(held),
           NEW mine \in held, NEW n \in Nat, NEW counted, counted = [mine EXCEPT !.count = n],
           NEW made, made = (held \ {mine}) \cup {counted}
    PROVE  /\ WellMade(counted) /\ counted.gen = mine.gen /\ counted.key = mine.key
           /\ counted.count = n /\ counted.expires = mine.expires
           /\ \A b : b \in made <=> (b \in held /\ b # mine) \/ b = counted
           /\ IsFiniteSet(made) /\ Cardinality(made) = Cardinality(held)
           /\ Distinct(made)
<1>1. /\ counted = [key |-> mine.key, count |-> n, expires |-> mine.expires, gen |-> mine.gen]
      /\ counted.gen = mine.gen /\ counted.key = mine.key /\ counted.count = n /\ counted.expires = mine.expires
  BY DEF WellMade
<1>2. WellMade(counted)
  BY <1>1 DEF WellMade
<1>3. \A b : b \in made <=> (b \in held /\ b # mine) \/ b = counted
  OBVIOUS
<1>4. \A b \in held : b # mine => b.gen # counted.gen /\ b.key # counted.key /\ b # counted
  BY <1>1 DEF Distinct
<1>5. Distinct(made)
  BY <1>3, <1>4 DEF Distinct
<1>6. IsFiniteSet(made) /\ Cardinality(made) = Cardinality(held)
  <2>1. IsFiniteSet(held \ {mine}) /\ Cardinality(held \ {mine}) = Cardinality(held) - 1
    BY FS_RemoveElement
  <2>2. counted \notin held \ {mine}
    BY <1>4
  <2>3. Cardinality(held) \in Nat
    BY FS_CardinalityType
  <2>4. IsFiniteSet(made) /\ Cardinality(made) = Cardinality(held \ {mine}) + 1
    <3> DEFINE others == held \ {mine}
    <3>1. IsFiniteSet(others) /\ counted \notin others /\ \A b : b \in made <=> b \in others \/ b = counted
      BY <1>3, <2>1, <2>2
    <3> HIDE DEF others
    <3>2. IsFiniteSet(made) /\ Cardinality(made) = Cardinality(others) + 1
      BY <3>1, OneElementMore
    <3> QED  BY <3>2 DEF others
  <2> QED  BY <2>1, <2>3, <2>4
<1> QED  BY <1>1, <1>2, <1>3, <1>5, <1>6

(* Increment: the request goes by its stale time, a full store forgets its
   oldest bucket, and the indexes are compacted. *)
LEMMA IncrementKeeps ==
    ASSUME ThrottleInv, NEW r \in Requests, Increment(r)
    PROVE  StoreInv' /\ CallsInv' /\ QuotaStep
<1> DEFINE k == calls[r].key
           now == calls[r].now
           live == buckets \ Expired(now)
           known == BucketsOf(k, live) # {}
           full == ~known /\ Cardinality(live) >= capacity
           kept == IF full THEN live \ Oldest(order, live) ELSE live
           fresh == {b \in {[key |-> k, count |-> 0, expires |-> now + Window[k.route],
                             gen |-> generation + 1]} : ~known}
           held == kept \cup fresh
           mine == CHOOSE b \in held : b.key = k
           counted == CountOne(mine)
           stamps == (expirations \ Due(now)) \cup {Entry(b) : b \in fresh}
           places == (order \ (IF full THEN Passed(order, live) ELSE {})) \cup {Place(b) : b \in fresh}
           f == [key |-> k, count |-> 0, expires |-> now + Window[k.route], gen |-> generation + 1]
<1>1. /\ calls[r].step = "clocked"
      /\ generation' = generation + Cardinality(fresh)
      /\ buckets' = (held \ {mine}) \cup {counted}
      /\ expirations' = Compact(stamps, {Entry(b) : b \in held})
      /\ order' = Compact(places, {Place(b) : b \in held})
      /\ calls' = [calls EXCEPT ![r] =
                    IF counted.count <= Limit[k.route] THEN IdleCall
                    ELSE [step |-> "rejected", retry_after |-> counted.expires - now]]
      /\ UNCHANGED <<clock, capacity>>
  BY DEF Increment
<1>2. now \in Nat /\ now <= clock /\ clock \in Nat /\ k.route \in Routes /\ DOMAIN calls = Requests
  BY <1>1 DEF ThrottleInv, CallsInv
<1>3. /\ capacity \in Nat \ {0} /\ generation \in Nat /\ Distinct(buckets)
      /\ \A b \in buckets : WellMade(b) /\ b.gen <= generation /\ Entry(b) \in expirations /\ Place(b) \in order
      /\ IsFiniteSet(buckets) /\ IsFiniteSet(expirations) /\ IsFiniteSet(order)
      /\ Cardinality(buckets) <= capacity
  BY DEF ThrottleInv, StoreInv, BucketsAreIndexed
<1>4. live \subseteq buckets /\ \A b \in buckets \ live : b.expires <= now
  BY DEF Expired
<1>5. IsFiniteSet(live) /\ Cardinality(live) \in Nat /\ Cardinality(live) <= capacity
  <2>1. live \in SUBSET buckets
    BY <1>4
  <2> HIDE DEF live
  <2>2. IsFiniteSet(live) /\ Cardinality(live) <= Cardinality(buckets)
    BY <1>3, <2>1, FS_Subset
  <2> QED  BY <1>3, <2>2, FS_CardinalityType
<1>6. /\ WellMade(f) /\ f.key = k /\ f.gen = generation + 1 /\ f.count = 0
  BY <1>2, <1>3, ThrottleAssumption DEF WellMade
<1>7. \/ known /\ fresh = {} /\ kept = live /\ places = order /\ stamps = expirations \ Due(now)
         /\ \E b \in live : b.key = k
      \/ ~known /\ \A b \in live : b.key # k
  BY DEF BucketsOf
<1>8. ~known => fresh = {f} /\ Entry(f) \in stamps /\ Place(f) \in places
  OBVIOUS
<1>9. known => Cardinality(fresh) = 0
  <2>1. known => fresh = {}
    OBVIOUS
  <2> HIDE DEF known, fresh
  <2> QED  BY <2>1, FS_EmptySet, Zenon
<1>10. ~known => Cardinality(fresh) = 1
  <2> HIDE DEF known, fresh, f
  <2> QED  BY <1>8, FS_Singleton, Zenon
<1>11. IsFiniteSet(stamps) /\ IsFiniteSet(places)
  <2>1. IsFiniteSet(fresh)
    <3> HIDE DEF known, fresh, f
    <3>1. known => fresh = {}
      BY <1>7
    <3> QED  BY <1>8, <3>1, FS_EmptySet, FS_Singleton, Zenon
  <2>2. PICK fe : fe = [b \in fresh |-> Entry(b)]
    OBVIOUS
  <2>3. PICK fp : fp = [b \in fresh |-> Place(b)]
    OBVIOUS
  <2>4. PICK es : es = {Entry(b) : b \in fresh}
    OBVIOUS
  <2>5. PICK ps : ps = {Place(b) : b \in fresh}
    OBVIOUS
  <2>6. IsFiniteSet(es) /\ IsFiniteSet(ps)
    <3> HIDE DEF fresh
    <3>1. DOMAIN fe = fresh /\ fe = [x \in fresh |-> fe[x]] /\ \A y : y \in es <=> \E x \in fresh : y = fe[x]
      BY <2>2, <2>4
    <3>2. DOMAIN fp = fresh /\ fp = [x \in fresh |-> fp[x]] /\ \A y : y \in ps <=> \E x \in fresh : y = fp[x]
      BY <2>3, <2>5
    <3>3. IsFiniteSet(es)
      BY <2>1, <3>1, ImageIsSmaller
    <3> QED  BY <2>1, <3>2, <3>3, ImageIsSmaller
  <2>7. PICK rest : rest = expirations \ Due(now)
    OBVIOUS
  <2>8. PICK remain : remain = order \ (IF full THEN Passed(order, live) ELSE {})
    OBVIOUS
  <2>9. rest \in SUBSET expirations /\ remain \in SUBSET order
    BY <2>7, <2>8
  <2>10. IsFiniteSet(rest) /\ IsFiniteSet(remain)
    BY <1>3, <2>9, FS_Subset
  <2>11. IsFiniteSet(rest \cup es) /\ IsFiniteSet(remain \cup ps)
    BY <2>6, <2>10, FS_Union
  <2>12. stamps = rest \cup es /\ places = remain \cup ps
    BY <2>4, <2>5, <2>7, <2>8
  <2> HIDE DEF stamps, places
  <2> QED  BY <2>11, <2>12, Zenon
<1>12. \A b \in live : Entry(b) \in stamps
  BY <1>3, <1>4 DEF Due, Expired, Entry
<1>13. \A b \in live : ~full => Place(b) \in places
  BY <1>3, <1>4
<1>14. ASSUME full
       PROVE  \E o \in live : /\ \A c \in live : c = o \/ (o.gen < c.gen /\ Place(c) \in places)
                              /\ \A b : b \in kept <=> b \in live /\ b # o
  <2>1. live # {}
    <3> HIDE DEF live
    <3> QED  BY <1>3, <1>5, <1>14, FS_EmptySet DEF full
  <2>2. Distinct(live) /\ \A b \in live : b.gen \in Nat /\ Place(b) \in order
    BY <1>3, <1>4 DEF Distinct, WellMade
  <2>3. PICK o \in live : /\ \A b : b \in Oldest(order, live) <=> b = o
                          /\ \A c \in live : c = o \/ o.gen < c.gen
    <3> HIDE DEF live
    <3> QED  BY <2>1, <2>2, OldestIsOne
  <2>4. \A c \in live : c # o => Place(c) \notin Passed(order, live)
    <3> SUFFICES ASSUME NEW c \in live, c # o, Place(c) \in Passed(order, live) PROVE FALSE
      OBVIOUS
    <3>1. Place(c).gen <= o.gen
      BY <2>3 DEF Passed
    <3>2. Place(c).gen = c.gen
      BY DEF Place
    <3>3. c.gen \in Nat /\ o.gen \in Nat /\ o.gen < c.gen
      BY <2>2, <2>3
    <3> QED  BY <3>1, <3>2, <3>3
  <2> QED  BY <1>14, <2>2, <2>3, <2>4
<1> HIDE DEF stamps, places, known
<1>15. full => Cardinality(live) = capacity
  <2> HIDE DEF live
  <2> QED  BY <1>3, <1>5
<1>16. ~known /\ ~full => Cardinality(live) < capacity
  <2> HIDE DEF live
  <2> QED  BY <1>3, <1>5
<1>17. kept \subseteq live /\ (~full => kept = live) /\ (full => ~known)
  OBVIOUS
<1>18. \A b : b \in held <=> b \in kept \/ (~known /\ b = f)
  BY <1>7, <1>8
<1>19. mine \in held /\ mine.key = k
  <2>1. \E b \in held : b.key = k
    BY <1>6, <1>7, <1>18
  <2> HIDE DEF held
  <2> QED  BY <2>1
<1> HIDE DEF fresh, f, mine
<1>20. \A b \in kept : b \in buckets /\ WellMade(b) /\ b.gen <= generation /\ b.gen \in Nat
  BY <1>3, <1>4, <1>17 DEF WellMade
<1> HIDE DEF live
<1>21. IsFiniteSet(kept) /\ Cardinality(kept) \in Nat
       /\ (full => Cardinality(kept) + 1 = capacity) /\ (~known => Cardinality(kept) < capacity)
       /\ Cardinality(kept) <= capacity
  <2>1. kept \in SUBSET live
    BY <1>17
  <2> HIDE DEF kept
  <2>2. IsFiniteSet(kept) /\ Cardinality(kept) \in Nat /\ Cardinality(kept) <= Cardinality(live)
    BY <1>5, <2>1, FS_Subset, FS_CardinalityType
  <2>3. ASSUME full PROVE Cardinality(kept) + 1 = capacity
    <3>1. PICK o \in live : \A b : b \in kept <=> b \in live /\ b # o
      BY <1>14, <2>3
    <3>2. o \notin kept /\ \A b : b \in live <=> b \in kept \/ b = o
      BY <3>1
    <3>3. Cardinality(live) = Cardinality(kept) + 1
      BY <2>2, <3>2, OneElementMore
    <3> QED  BY <1>15, <2>3, <3>3
  <2>4. ASSUME ~full, ~known PROVE Cardinality(kept) < capacity
    <3>1. kept = live
      BY <1>17, <2>4
    <3>2. Cardinality(kept) = Cardinality(live)
      BY <3>1, Zenon
    <3> QED  BY <1>16, <2>4, <3>2
  <2> HIDE DEF full
  <2> QED  BY <1>3, <1>5, <2>2, <2>3, <2>4
<1> HIDE DEF kept, held
<1>22. generation' \in Nat /\ generation <= generation' /\ (~known => generation' = generation + 1)
  BY <1>1, <1>3, <1>9, <1>10
<1>23. \A b \in held : WellMade(b) /\ b.gen <= generation'
  BY <1>3, <1>6, <1>18, <1>20, <1>22
<1>24. Distinct(held)
  <2>1. Distinct(kept)
    BY <1>3, <1>20 DEF Distinct
  <2>2. ASSUME ~known, NEW b \in kept PROVE b.gen # f.gen /\ b.key # f.key
    BY <1>3, <1>6, <1>7, <1>17, <1>20, <2>2
  <2> QED  BY <1>18, <2>1, <2>2 DEF Distinct
<1>25. IsFiniteSet(held) /\ Cardinality(held) \in Nat /\ Cardinality(held) <= capacity
       /\ (full => Cardinality(held) = capacity)
  <2>1. CASE known
    <3>1. IsFiniteSet(held) /\ Cardinality(held) = Cardinality(kept)
      <4>1. \A b : b \in held <=> b \in kept
        BY <1>18, <2>1
      <4> QED  BY <1>21, <4>1, SameElements
    <3> QED  BY <1>17, <1>21, <2>1, <3>1
  <2>2. CASE ~known
    <3>1. IsFiniteSet(held) /\ Cardinality(held) = Cardinality(kept) + 1
      <4>1. (\A b : b \in held <=> b \in kept \/ b = f) /\ f \notin kept
        BY <1>3, <1>6, <1>18, <1>20, <2>2
      <4> QED  BY <1>21, <4>1, OneElementMore
    <3> HIDE DEF full
    <3> QED  BY <1>3, <1>17, <1>21, <2>2, <3>1
  <2> QED  BY <2>1, <2>2
<1>26. \A b \in held : Entry(b) \in stamps /\ Place(b) \in places
  <2>1. \A b \in kept : Place(b) \in places
    <3> HIDE DEF full
    <3> QED  BY <1>13, <1>14, <1>17
  <2> QED  BY <1>8, <1>12, <1>17, <1>18, <2>1
<1>27. ASSUME NEW b \in live, b \notin held PROVE full /\ \A c \in held : b.gen < c.gen
  <2> HIDE DEF full
  <2>1. full /\ ~known /\ b \notin kept
    BY <1>17, <1>18, <1>27
  <2>2. PICK o \in live : /\ \A c \in live : c = o \/ o.gen < c.gen
                          /\ \A c : c \in kept <=> c \in live /\ c # o
    BY <1>14, <2>1
  <2>3. b = o /\ b.gen <= generation /\ b.gen \in Nat
    BY <1>3, <1>4, <1>27, <2>1, <2>2 DEF WellMade
  <2>4. \A c \in kept : b.gen < c.gen
    BY <1>17, <2>2, <2>3
  <2> QED  BY <1>3, <1>6, <1>18, <2>1, <2>3, <2>4
<1> DEFINE n == IF mine.count > Limit[mine.key.route] THEN mine.count ELSE mine.count + 1
<1>28. n \in Nat /\ mine.count <= n
  <2>1. mine.count \in Nat
    BY <1>19, <1>23 DEF WellMade
  <2> QED  BY <2>1
<1>29. counted = [mine EXCEPT !.count = n]
  BY DEF CountOne
<1> HIDE DEF n, counted
<1>30. PICK made : made = buckets'
  OBVIOUS
<1>31. /\ WellMade(counted) /\ counted.gen = mine.gen /\ counted.key = mine.key
       /\ counted.count = n /\ counted.expires = mine.expires
       /\ \A b : b \in made <=> (b \in held /\ b # mine) \/ b = counted
       /\ IsFiniteSet(made) /\ Cardinality(made) = Cardinality(held)
       /\ Distinct(made)
  BY <1>1, <1>19, <1>23, <1>24, <1>25, <1>28, <1>29, <1>30, OneCounted
<1>32. \A b \in made : WellMade(b) /\ b.gen <= generation'
  BY <1>19, <1>23, <1>31
<1> HIDE DEF full
<1>33. IsFiniteSet(buckets') /\ Cardinality(buckets') = Cardinality(made)
  BY <1>30, <1>31, Zenon
<1>34. PICK fe : fe = [b \in held |-> Entry(b)]
  OBVIOUS
<1>35. PICK fp : fp = [b \in held |-> Place(b)]
  OBVIOUS
<1>36. PICK es : es = {Entry(b) : b \in held}
  OBVIOUS
<1>37. PICK ps : ps = {Place(b) : b \in held}
  OBVIOUS
<1>38. /\ IsFiniteSet(expirations') /\ Cardinality(expirations') <= 2 * capacity
       /\ \A b \in held : Entry(b) \in expirations'
  <2>1. DOMAIN fe = held /\ fe = [b \in held |-> fe[b]] /\ (\A b \in held : fe[b] = Entry(b))
        /\ \A y : y \in es <=> \E b \in held : y = fe[b]
    BY <1>34, <1>36
  <2>2. PICK index : index = expirations'
    OBVIOUS
  <2>3. index = Compact(stamps, es)
    BY <1>1, <1>36, <2>2, Zenon
  <2>4. \A b \in held : fe[b] \in stamps
    BY <1>26, <2>1
  <2>5. IsFiniteSet(index) /\ Cardinality(index) <= 2 * capacity /\ \A b \in held : fe[b] \in index
    BY <1>3, <1>11, <1>25, <2>1, <2>3, <2>4, Compacted
  <2>6. IsFiniteSet(expirations') /\ Cardinality(expirations') <= 2 * capacity
    BY <2>2, <2>5, Zenon
  <2> QED  BY <2>1, <2>2, <2>5, <2>6
<1>39. /\ IsFiniteSet(order') /\ Cardinality(order') <= 2 * capacity
       /\ \A b \in held : Place(b) \in order'
  <2>1. DOMAIN fp = held /\ fp = [b \in held |-> fp[b]] /\ (\A b \in held : fp[b] = Place(b))
        /\ \A y : y \in ps <=> \E b \in held : y = fp[b]
    BY <1>35, <1>37
  <2>2. PICK index : index = order'
    OBVIOUS
  <2>3. index = Compact(places, ps)
    BY <1>1, <1>37, <2>2, Zenon
  <2>4. \A b \in held : fp[b] \in places
    BY <1>26, <2>1
  <2>5. IsFiniteSet(index) /\ Cardinality(index) <= 2 * capacity /\ \A b \in held : fp[b] \in index
    BY <1>3, <1>11, <1>25, <2>1, <2>3, <2>4, Compacted
  <2>6. IsFiniteSet(order') /\ Cardinality(order') <= 2 * capacity
    BY <2>2, <2>5, Zenon
  <2> QED  BY <2>1, <2>2, <2>5, <2>6
<1>40. StoreInv'
  <2>1. \A b \in buckets' : Entry(b) \in expirations' /\ Place(b) \in order'
    <3>1. Entry(counted) = Entry(mine) /\ Place(counted) = Place(mine)
      BY <1>31 DEF Entry, Place
    <3> QED  BY <1>19, <1>30, <1>31, <1>38, <1>39, <3>1
  <2>2. Cardinality(buckets') <= capacity'
    BY <1>1, <1>25, <1>31, <1>33
  <2>3. BucketsAreIndexed'
    BY <1>1, <1>38, <1>39, <2>1, <2>2 DEF BucketsAreIndexed
  <2>4. Distinct(buckets)' /\ \A b \in buckets' : WellMade(b) /\ b.gen <= generation'
    BY <1>30, <1>31, <1>32 DEF Distinct
  <2> QED  BY <1>1, <1>3, <1>22, <1>33, <1>38, <1>39, <2>3, <2>4 DEF StoreInv, WellMade
<1>41. calls'[r] = IF counted.count <= Limit[k.route] THEN IdleCall
                   ELSE [step |-> "rejected", retry_after |-> counted.expires - now]
  BY <1>1, <1>2
<1>42. DOMAIN calls' = Requests /\ \A q \in Requests \ {r} : calls'[q] = calls[q]
  BY <1>1, <1>2
<1>43. CallsInv'
  <2>1. calls'[r].step # "clocked"
    BY <1>41 DEF IdleCall
  <2> QED  BY <1>1, <1>2, <1>42, <2>1 DEF ThrottleInv, CallsInv
<1>44. ASSUME NEW b \in buckets
       PROVE  IF Survivors(b) = {} THEN b.expires <= clock \/ Evicted(b)
              ELSE \A c \in Survivors(b) : c.count >= b.count /\ c.expires = b.expires
  <2>1. b.gen \in Nat /\ b.gen <= generation /\ b.count \in Nat /\ b.expires \in Nat
    BY <1>3 DEF WellMade
  <2>2. CASE b \in held
    <3>1. \A c \in made : c.gen = b.gen => c = b \/ (c = counted /\ b = mine)
      BY <1>19, <1>24, <1>31, <2>2 DEF Distinct
    <3>2. \E c \in made : c.gen = b.gen
      BY <1>31, <2>2
    <3>3. \A c \in made : c.gen = b.gen => c.count >= b.count /\ c.expires = b.expires
      BY <1>28, <1>31, <2>1, <3>1
    <3> QED  BY <1>30, <3>2, <3>3 DEF Survivors
  <2>3. CASE b \in live /\ b \notin held
    <3>1. full /\ \A c \in held : b.gen < c.gen
      BY <1>27, <2>3
    <3>2. \A c \in made : b.gen < c.gen
      BY <1>19, <1>31, <3>1
    <3>3. Survivors(b) = {}
      <4>1. \A c \in made : c.gen # b.gen
        BY <1>31, <1>32, <2>1, <3>2 DEF WellMade
      <4> QED  BY <1>30, <4>1 DEF Survivors
    <3>4. generation' > generation
      BY <1>3, <1>17, <1>22, <3>1
    <3>5. Cardinality(buckets') = capacity
      BY <1>25, <1>31, <1>33, <3>1
    <3> QED  BY <1>30, <3>2, <3>3, <3>4, <3>5 DEF Evicted
  <2>4. CASE b \notin live
    <3>1. b.expires <= clock
      BY <1>2, <1>4, <2>1, <2>4
    <3>2. \A c \in held : c.gen # b.gen
      <4>1. \A c \in kept : c.gen # b.gen
        BY <1>3, <1>17, <1>20, <2>4 DEF Distinct
      <4> QED  BY <1>3, <1>6, <1>18, <2>1, <4>1
    <3>3. Survivors(b) = {}
      <4>1. \A c \in made : c.gen # b.gen
        BY <1>19, <1>31, <3>2
      <4> QED  BY <1>30, <4>1 DEF Survivors
    <3> QED  BY <3>1, <3>3
  <2> QED  BY <2>2, <2>3, <2>4
<1>45. ASSUME NEW q \in Requests, calls'[q].step = "rejected", calls'[q] # calls[q],
              NEW b \in BucketsOf(calls[q].key, buckets')
       PROVE  clock + calls'[q].retry_after >= b.expires
  <2>1. q = r
    BY <1>42, <1>45
  <2>2. calls'[r].retry_after = counted.expires - now
    BY <1>41, <1>45, <2>1 DEF IdleCall
  <2>3. b \in made /\ b.key = k
    BY <1>30, <1>45, <2>1 DEF BucketsOf
  <2>4. b = counted
    BY <1>19, <1>31, <2>3 DEF Distinct
  <2>5. counted.expires \in Nat
    BY <1>31 DEF WellMade
  <2> QED  BY <1>2, <2>1, <2>2, <2>4, <2>5
<1> QED  BY <1>40, <1>43, <1>44, <1>45 DEF QuotaStep

LEMMA InitThrottle == ThrottleInit => ThrottleInv
<1> SUFFICES ASSUME ThrottleInit PROVE ThrottleInv
  OBVIOUS
<1> USE DEF ThrottleInit
<1>1. CallsInv
  BY DEF CallsInv, IdleCall
<1>2. Cardinality(buckets) = 0 /\ Cardinality(expirations) = 0 /\ Cardinality(order) = 0
      /\ IsFiniteSet(buckets) /\ IsFiniteSet(expirations) /\ IsFiniteSet(order)
  BY FS_EmptySet, Zenon
<1>3. capacity \in Nat \ {0}
  BY ThrottleAssumption
<1>4. StoreInv
  BY <1>2, <1>3 DEF StoreInv, BucketsAreIndexed, Distinct
<1> QED  BY <1>1, <1>4 DEF ThrottleInv

LEMMA StepThrottle ==
    ThrottleInv /\ [ThrottleNext]_<<clock, throttleVars>> => ThrottleInv' /\ [QuotaStep]_throttleVars
<1> SUFFICES ASSUME ThrottleInv, [ThrottleNext]_<<clock, throttleVars>>
             PROVE  ThrottleInv' /\ [QuotaStep]_throttleVars
  OBVIOUS
<1> USE DEF ThrottleInv
<1>1. ASSUME UNCHANGED <<capacity, buckets, expirations, order, generation>> PROVE StoreInv'
  BY <1>1 DEF StoreInv, BucketsAreIndexed, Distinct
<1>2. CASE Tick /\ UNCHANGED throttleVars
  <2>1. clock' \in Nat /\ clock <= clock' /\ UNCHANGED <<capacity, calls, buckets, expirations, order, generation>>
    BY <1>2 DEF Tick, CallsInv, throttleVars
  <2>2. CallsInv'
    BY <2>1 DEF CallsInv
  <2> QED  BY <1>1, <1>2, <2>1, <2>2
<1>3. ASSUME NEW r \in Requests, ReadClock(r) PROVE ThrottleInv' /\ QuotaStep
  <2>1. PICK q \in Traffic : calls' = [calls EXCEPT ![r] =
            [step |-> "clocked", now |-> clock,
             key |-> [client |-> Client(q.peer, q.chain), route |-> q.route]]]
    BY <1>3 DEF ReadClock
  <2>2. UNCHANGED <<clock, capacity, buckets, expirations, order, generation>>
    BY <1>3 DEF ReadClock
  <2>3. calls'[r].step = "clocked" /\ calls'[r].now = clock /\ calls'[r].key.route = q.route
        /\ DOMAIN calls' = Requests /\ \A s \in Requests \ {r} : calls'[s] = calls[s]
    BY <2>1 DEF CallsInv
  <2>4. q.route \in Routes
    BY ThrottleAssumption
  <2>5. CallsInv'
    BY <2>2, <2>3, <2>4 DEF CallsInv
  <2>6. \A b \in buckets : Survivors(b) # {} /\ \A c \in Survivors(b) : c = b
    BY <2>2 DEF Survivors, StoreInv, Distinct
  <2>7. \A b \in buckets : b.count \in Nat
    BY DEF StoreInv, WellMade
  <2>8. \A s \in Requests : calls'[s].step = "rejected" => calls'[s] = calls[s]
    BY <2>3
  <2>9. QuotaStep
    BY <2>6, <2>7, <2>8 DEF QuotaStep
  <2> QED  BY <1>1, <2>2, <2>5, <2>9
<1>4. ASSUME NEW r \in Requests, Increment(r) PROVE ThrottleInv' /\ QuotaStep
  BY <1>4, IncrementKeeps
<1>5. CASE UNCHANGED <<clock, throttleVars>>
  BY <1>1, <1>5 DEF throttleVars, CallsInv
<1> QED  BY <1>2, <1>3, <1>4, <1>5 DEF ThrottleNext

LEMMA AlwaysThrottleInv == ThrottleSpec => []ThrottleInv
BY InitThrottle, StepThrottle, PTL DEF ThrottleSpec

(* ThrottleStore::increment: the store stays within its capacity and its two
   indexes within twice that, and each live bucket is in both, for any
   capacity, any limits and windows, and any order of the requests. *)
THEOREM StoreIsIndexed == ThrottleSpec => []BucketsAreIndexed
<1>1. ThrottleInv => BucketsAreIndexed
  BY DEF ThrottleInv, StoreInv
<1> QED  BY <1>1, AlwaysThrottleInv, PTL

(* Throttle::check: a bucket ends with its window or as the oldest of a full
   store, and whoever waits as long as Retry-After says has outlived the window
   that rejected it, however long the request waited for the lock. *)
THEOREM QuotasHold == ThrottleSpec => QuotaHolds
BY InitThrottle, StepThrottle, PTL DEF ThrottleSpec, QuotaHolds

-----------------------------------------------------------------------------
(* The commands on a project. *)

ProjectSpec == ProjectInit /\ [][ProjectNext]_projectVars

Content == [declares : SUBSET Parts, uses : SUBSET Parts, whole : BOOLEAN]
WholeContent == [declares : SUBSET Parts, uses : SUBSET Parts, whole : {TRUE}]
AppNames == {"Cargo.toml", ".gitignore", "AGENTS.md", "src/main.rs", "src/lib.rs", "src/app.rs"}
Item == [path : (Features \cup {"app"}) \X (Parts \cup AppNames), content : WholeContent]
Making == command.kind \in Kinds \cup {"new"}

FilesInv ==
    /\ \A p \in DOMAIN files : files[p] \in Content
    /\ ~targetDir => command.kind # "new" /\ \A name \in AppNames : ~Exists(<<"app", name>>)
    /\ \/ command = NoCommand
       \/ /\ command = [kind |-> command.kind, on |-> command.on, todo |-> command.todo, kept |-> command.kept]
          /\ command.kind \in Kinds \cup {"new", "fetched", "locking", "installing"}

(* What a command has still to make is not there, but for the mod.rs it may
   skip, and all it needs is there or to come. *)
ToCome(p) == \E i \in 1..Len(command.todo) : command.todo[i].path = p
MakingInv ==
    Making =>
        /\ command.todo \in Seq(Item)
        /\ \A i \in 1..Len(command.todo) :
            /\ command.todo[i].path[1] = command.on
            /\ Exists(command.todo[i].path) =>
                command.kind \in {"service", "controller"} /\ command.todo[i].path[2] = "mod"
            /\ command.todo[i].path[2] \in (IF command.kind = "new" THEN AppNames ELSE Parts)
        /\ \A i, j \in 1..Len(command.todo) : command.todo[i].path = command.todo[j].path => i = j
        /\ command.kind = "new" =>
            \A name \in AppNames : Whole(<<"app", name>>, files) \/ ToCome(<<"app", name>>)
        /\ command.kind \in Kinds =>
            /\ \A part \in Required(command.kind) :
                Whole(<<command.on, part>>, files) \/ ToCome(<<command.on, part>>)
            /\ Exists(<<command.on, "mod">>) \/ ToCome(<<command.on, "mod">>)

(* What holds of a feature between commands holds within one of what is there
   and what is to come. *)
WillExist(p) == Exists(p) \/ (command.kind \in Kinds /\ ToCome(p))
Together(f, content) ==
    WillExist(<<f, "mod">>) /\ \A q \in content.declares \cup content.uses : WillExist(<<f, q>>)
FeatureSound(f) ==
    /\ \A part \in Parts : Exists(<<f, part>>) => Together(f, files[<<f, part>>])
    /\ command.kind \in Kinds => \A i \in 1..Len(command.todo) :
        command.todo[i].path[1] = f => Together(f, command.todo[i].content)
FeaturesInv == \A f \in Features \ harmed : FeatureSound(f)

(* Cargo.lock is behind Cargo.toml only while update runs between the two, or
   once one has failed there; what update fetched was the latest then. *)
VersionInv ==
    /\ version.latest \in Nat
    /\ command.kind \in {"fetched", "locking", "installing"} =>
        command.on \in Nat /\ command.on <= version.latest
    /\ version = [latest |-> version.latest, manifest |-> version.manifest,
                  lock |-> version.lock, cli |-> version.cli]
    /\ lockHeld \in BOOLEAN
    /\ command.kind = "locking" \/ version.lock = version.manifest \/ lockHeld
    /\ command.kind \in {"locking", "installing"} => version.manifest = command.on

ProjectInv == FilesInv /\ MakingInv /\ FeaturesInv /\ VersionInv

LEMMA InitProject == ProjectInit => ProjectInv
<1> SUFFICES ASSUME ProjectInit PROVE ProjectInv
  OBVIOUS
<1> USE DEF ProjectInit, NoCommand
<1>1. \A p : ~Exists(p)
  BY DEF Exists
<1>2. FilesInv
  BY <1>1 DEF FilesInv, Exists
<1>3. command.kind = "none" /\ command.kind \notin Kinds /\ ~Making
  BY DEF Making, Kinds
<1>4. FeaturesInv
  BY <1>1, <1>3 DEF FeaturesInv, FeatureSound
<1>5. VersionInv
  BY <1>3 DEF VersionInv
<1> QED  BY <1>2, <1>3, <1>4, <1>5 DEF ProjectInv, MakingInv, Making

(* What a generator is about to make: each file once, what it needs among it,
   and nothing that a file declares or uses but what will be there. *)
IsPlan(plan, kind, f, service) ==
    /\ plan \in Seq(Item)
    /\ \A i \in 1..Len(plan) :
        /\ plan[i].path[1] = f /\ plan[i].path[2] \in Parts
        /\ plan[i].path[2] \in Required(kind) \/ (kind \in {"service", "controller"} /\ plan[i].path[2] = "mod")
    /\ \A i, j \in 1..Len(plan) : plan[i].path = plan[j].path => i = j
    /\ \A part \in Required(kind) \cup {"mod"} : \E i \in 1..Len(plan) : plan[i].path = <<f, part>>
    /\ \A i \in 1..Len(plan) : \A q \in plan[i].content.declares \cup plan[i].content.uses :
           (service /\ q = "service") \/ \E j \in 1..Len(plan) : plan[j].path = <<f, q>>

LEMMA PlanShape ==
    ASSUME NEW kind \in Kinds, NEW f \in Features, NEW service \in BOOLEAN,
           NEW plan, plan = Plan(kind, f, service)
    PROVE  IsPlan(plan, kind, f, service)
<1> DEFINE mod == [path |-> <<f, "mod">>, content |-> File(Declared(kind, service), {}, TRUE)]
           svc == [path |-> <<f, "service">>, content |-> Plain]
           ctl(s) == [path |-> <<f, "controller">>, content |-> File({}, {part \in {"service"} : s}, TRUE)]
<1>1. /\ svc \in Item /\ svc.path = <<f, "service">> /\ svc.content.declares = {} /\ svc.content.uses = {}
  BY DEF Item, WholeContent, Plain, File, Parts
<1>2. /\ mod \in Item /\ mod.path = <<f, "mod">> /\ mod.content.uses = {}
      /\ mod.content.declares = Declared(kind, service)
  <2>1. Declared(kind, service) \in SUBSET Parts
    BY DEF Declared, Parts, Kinds
  <2> QED  BY <2>1 DEF Item, WholeContent, File, Parts
<1>3. ASSUME NEW s \in BOOLEAN
      PROVE  /\ ctl(s) \in Item /\ ctl(s).path = <<f, "controller">> /\ ctl(s).content.declares = {}
             /\ \A q \in ctl(s).content.uses : q = "service" /\ s
  <2> QED  BY DEF Item, WholeContent, File, Parts
<1>4. \A s \in BOOLEAN : /\ ctl(s) \in Item /\ ctl(s).path = <<f, "controller">> /\ ctl(s).content.declares = {}
                         /\ \A q \in ctl(s).content.uses : q = "service" /\ s
  BY <1>3
<1>5. /\ kind = "service" => plan = <<svc, mod>>
      /\ kind = "controller" => plan = <<ctl(service), mod>>
      /\ kind = "module" => plan = <<mod, svc, ctl(TRUE)>>
  BY DEF Plan
<1> DEFINE own == ctl(service)
           both == ctl(TRUE)
<1>6. /\ own \in Item /\ own.path = <<f, "controller">> /\ own.content.declares = {}
      /\ \A q \in own.content.uses : q = "service" /\ service
  BY <1>4
<1>7. /\ both \in Item /\ both.path = <<f, "controller">> /\ both.content.declares = {}
      /\ \A q \in both.content.uses : q = "service"
  BY <1>4
<1>8. /\ kind = "service" => plan = <<svc, mod>>
      /\ kind = "controller" => plan = <<own, mod>>
      /\ kind = "module" => plan = <<mod, svc, both>>
  BY <1>5
<1> HIDE DEF mod, svc, ctl, own, both
<1>9. CASE kind = "service"
  <2> DEFINE p2 == <<svc, mod>>
  <2>4. p2 \in Seq(Item) /\ Len(p2) = 2 /\ p2[1] = svc /\ p2[2] = mod
    BY <1>1, <1>2
  <2>5. plan = p2
    BY <1>8, <1>9
  <2> HIDE DEF p2
  <2>1. /\ plan \in Seq(Item) /\ Len(plan) = 2 /\ plan[1] = svc /\ plan[2] = mod
    BY <2>4, <2>5
  <2>2. \A i \in 1..2 : i = 1 \/ i = 2
    OBVIOUS
  <2>3. \A q \in mod.content.declares : q = "service"
    BY <1>2, <1>9 DEF Declared
  <2> QED  BY <1>1, <1>2, <1>9, <2>1, <2>2, <2>3 DEF Required, Parts, IsPlan
<1>10. CASE kind = "controller"
  <2> DEFINE p2 == <<own, mod>>
  <2>4. p2 \in Seq(Item) /\ Len(p2) = 2 /\ p2[1] = own /\ p2[2] = mod
    BY <1>2, <1>6
  <2>5. plan = p2
    BY <1>8, <1>10
  <2> HIDE DEF p2
  <2>1. /\ plan \in Seq(Item) /\ Len(plan) = 2 /\ plan[1] = own /\ plan[2] = mod
    BY <2>4, <2>5
  <2>2. \A i \in 1..2 : i = 1 \/ i = 2
    OBVIOUS
  <2>3. \A q \in mod.content.declares : q = "controller" \/ (service /\ q = "service")
    BY <1>2, <1>10 DEF Declared
  <2> QED  BY <1>2, <1>6, <1>10, <2>1, <2>2, <2>3 DEF Required, Parts, IsPlan
<1>11. CASE kind = "module"
  <2> DEFINE p3 == <<mod, svc, both>>
  <2>4. p3 \in Seq(Item) /\ Len(p3) = 3 /\ p3[1] = mod /\ p3[2] = svc /\ p3[3] = both
    BY <1>1, <1>2, <1>7
  <2>5. plan = p3
    BY <1>8, <1>11
  <2> HIDE DEF p3
  <2>1. /\ plan \in Seq(Item) /\ Len(plan) = 3 /\ plan[1] = mod /\ plan[2] = svc /\ plan[3] = both
    BY <2>4, <2>5
  <2>2. \A i \in 1..3 : i = 1 \/ i = 2 \/ i = 3
    OBVIOUS
  <2>3. \A q \in mod.content.declares : q = "controller" \/ q = "service"
    BY <1>2, <1>11 DEF Declared
  <2> QED  BY <1>1, <1>2, <1>7, <1>11, <2>1, <2>2, <2>3 DEF Required, Parts, IsPlan
<1> QED  BY <1>9, <1>10, <1>11 DEF Kinds

LEMMA SoundAgain ==
    ASSUME NEW f, \A x : WillExist(<<f, x>>) => WillExist(<<f, x>>)',
           \A part \in Parts : Exists(<<f, part>>)' => Together(f, files'[<<f, part>>]),
           command'.kind \in Kinds => \A i \in 1..Len(command'.todo) :
               command'.todo[i].path[1] = f => Together(f, command'.todo[i].content)
    PROVE  FeatureSound(f)'
BY DEF FeatureSound, Together

LEMMA NothingMoves ==
    ASSUME ProjectInv, UNCHANGED <<files, targetDir, command, harmed>>
    PROVE  FilesInv' /\ MakingInv' /\ FeaturesInv'
<1>1. \A p : (Exists(p)' <=> Exists(p)) /\ (ToCome(p)' <=> ToCome(p)) /\ (WillExist(p)' <=> WillExist(p))
  BY DEF Exists, ToCome, WillExist
<1>2. FilesInv'
  BY <1>1 DEF ProjectInv, FilesInv
<1>3. MakingInv'
  <2>1. MakingInv /\ (Making' <=> Making)
    BY DEF ProjectInv, Making
  <2> QED  BY <1>1, <2>1 DEF MakingInv
<1>4. ASSUME NEW f \in Features \ harmed' PROVE FeatureSound(f)'
  <2>1. FeatureSound(f)
    BY <1>4 DEF ProjectInv, FeaturesInv
  <2>2. \A part \in Parts : Exists(<<f, part>>)' => Together(f, files'[<<f, part>>])
    BY <1>1, <2>1 DEF FeatureSound
  <2>3. command'.kind \in Kinds => \A i \in 1..Len(command'.todo) :
            command'.todo[i].path[1] = f => Together(f, command'.todo[i].content)
    BY <2>1 DEF FeatureSound
  <2> QED  BY <1>1, <2>2, <2>3, SoundAgain
<1> QED  BY <1>2, <1>3, <1>4 DEF FeaturesInv

LEMMA SameFiles ==
    ASSUME ProjectInv, \A p : Exists(p)' <=> Exists(p),
           \A g, part : part \in Parts => files'[<<g, part>>] = files[<<g, part>>],
           harmed \subseteq harmed',
           command.kind \in Kinds => command.todo = <<>>, command'.kind \notin Kinds
    PROVE  FeaturesInv'
<1>1. \A p : WillExist(p) => WillExist(p)'
  <2>1. \A p : command.kind \in Kinds => ~ToCome(p)
    BY DEF ToCome
  <2> QED  BY <2>1 DEF WillExist
<1>2. ASSUME NEW f \in Features \ harmed' PROVE FeatureSound(f)'
  <2>1. FeatureSound(f)
    BY <1>2 DEF ProjectInv, FeaturesInv
  <2>2. \A part \in Parts : Exists(<<f, part>>)' => Together(f, files'[<<f, part>>])
    BY <2>1 DEF FeatureSound
  <2> QED  BY <1>1, <2>2, SoundAgain
<1> QED  BY <1>2 DEF FeaturesInv

LEMMA Idle ==
    ASSUME command = NoCommand
    PROVE  command.kind = "none" /\ command.kind \notin Kinds /\ ~Making
BY DEF NoCommand, Kinds, Making

LEMMA IdleNext ==
    ASSUME command' = NoCommand
    PROVE  command'.kind = "none" /\ command'.kind \notin Kinds /\ ~Making' /\ MakingInv'
BY DEF NoCommand, Kinds, Making, MakingInv

LEMMA RefusedKeeps ==
    ASSUME ProjectInv, command = NoCommand, NEW result \in {"exists", "failed"}, Refused(result),
           targetDir => targetDir', UNCHANGED <<version, harmed, lockHeld>>
    PROVE  ProjectInv' /\ ReportStep
<1>1. command' = NoCommand /\ UNCHANGED files /\ outcome' = result
  BY DEF Refused, Reports
<1>2. FilesInv'
  BY <1>1, IdleNext DEF ProjectInv, FilesInv, Exists
<1>3. MakingInv'
  BY <1>1, IdleNext
<1>4. FeaturesInv'
  BY <1>1, Idle, IdleNext, SameFiles DEF Exists
<1>5. VersionInv'
  BY <1>1, Idle, IdleNext DEF ProjectInv, VersionInv
<1>6. ReportStep
  BY <1>1, Idle DEF ReportStep
<1> QED  BY <1>2, <1>3, <1>4, <1>5, <1>6 DEF ProjectInv

LEMMA AppFilesAreNames == Range(AppFiles) \subseteq AppNames
<1>1. DOMAIN AppFiles = 1..6
  BY DEF AppFiles
<1>2. \A i \in 1..6 : i = 1 \/ i = 2 \/ i = 3 \/ i = 4 \/ i = 5 \/ i = 6
  OBVIOUS
<1>3. \A i \in 1..6 : AppFiles[i] \in AppNames
  BY <1>2 DEF AppFiles, AppNames
<1> QED  BY <1>1, <1>3 DEF Range

LEMMA NewKeeps ==
    ASSUME ProjectInv, New
    PROVE  ProjectInv' /\ ReportStep
<1>1. command = NoCommand /\ UNCHANGED <<version, harmed, lockHeld>>
  BY DEF New, Free
<1>2. CASE \/ targetDir /\ Refused("exists") /\ UNCHANGED targetDir
           \/ ~targetDir /\ Refused("failed") /\ targetDir' \in BOOLEAN
  BY <1>1, <1>2, RefusedKeeps
<1>3. CASE /\ ~targetDir /\ targetDir' = TRUE
           /\ Begins("new", "app",
                  [i \in DOMAIN AppFiles |-> [path |-> <<"app", AppFiles[i]>>, content |-> Plain]])
           /\ UNCHANGED files
  <2> DEFINE todo == [i \in DOMAIN AppFiles |-> [path |-> <<"app", AppFiles[i]>>, content |-> Plain]]
  <2>1. /\ targetDir' = TRUE /\ UNCHANGED <<files, outcome>>
        /\ command' = [kind |-> "new", on |-> "app", todo |-> todo, kept |-> DOMAIN files]
    BY <1>3 DEF Begins
  <2>2. /\ DOMAIN AppFiles = 1..6
        /\ \A i \in 1..6 : AppFiles[i] \in AppNames
        /\ \A i, j \in 1..6 : AppFiles[i] = AppFiles[j] => i = j
    <3>1. DOMAIN AppFiles = 1..6
      BY DEF AppFiles
    <3>2. \A i \in 1..6 : i = 1 \/ i = 2 \/ i = 3 \/ i = 4 \/ i = 5 \/ i = 6
      OBVIOUS
    <3>3. /\ AppFiles[1] = "Cargo.toml" /\ AppFiles[2] = ".gitignore" /\ AppFiles[3] = "AGENTS.md"
          /\ AppFiles[4] = "src/main.rs" /\ AppFiles[5] = "src/lib.rs" /\ AppFiles[6] = "src/app.rs"
      BY DEF AppFiles
    <3> QED  BY <3>1, <3>2, <3>3 DEF AppNames
  <2>11. ASSUME NEW name \in AppNames PROVE \E i \in 1..6 : AppFiles[i] = name
    <3>1. /\ AppFiles[1] = "Cargo.toml" /\ AppFiles[2] = ".gitignore" /\ AppFiles[3] = "AGENTS.md"
          /\ AppFiles[4] = "src/main.rs" /\ AppFiles[5] = "src/lib.rs" /\ AppFiles[6] = "src/app.rs"
      BY DEF AppFiles
    <3>2. 1 \in 1..6 /\ 2 \in 1..6 /\ 3 \in 1..6 /\ 4 \in 1..6 /\ 5 \in 1..6 /\ 6 \in 1..6
      OBVIOUS
    <3> QED  BY <3>1, <3>2 DEF AppNames
  <2> HIDE DEF todo
  <2>3. /\ DOMAIN todo = 1..6
        /\ \A i \in 1..6 : todo[i].path = <<"app", AppFiles[i]>> /\ todo[i] \in Item
    BY <2>2 DEF todo, Item, WholeContent, Plain, File
  <2>4. todo \in Seq(Item) /\ Len(todo) = 6
    <3>1. todo \in [1..6 -> Item]
      BY <2>3 DEF todo
    <3>2. todo \in Seq(Item)
      BY <3>1, SeqDef
    <3>3. DOMAIN todo = 1..Len(todo) /\ Len(todo) \in Nat
      BY <3>2, LenProperties
    <3>4. Len(todo) = 6
      BY <2>3, <3>3
    <3> QED  BY <3>2, <3>4
  <2>5. command'.kind = "new" /\ command'.on = "app" /\ command'.todo = todo /\ command'.kind \notin Kinds
    BY <2>1 DEF Kinds
  <2>6. FilesInv'
    BY <1>3, <2>1, <2>5 DEF ProjectInv, FilesInv
  <2>7. MakingInv'
    <3>1. \A name \in AppNames : ~Exists(<<"app", name>>)
      BY <1>3 DEF ProjectInv, FilesInv
    <3>2. \A i \in 1..6 : todo[i].path[1] = "app" /\ todo[i].path[2] \in AppNames /\ todo[i].path \notin DOMAIN files
      BY <2>2, <2>3, <3>1 DEF Exists
    <3>3. \A i, j \in 1..6 : todo[i].path = todo[j].path => i = j
      BY <2>2, <2>3
    <3>4. \A i \in 1..Len(todo) : todo[i].path[1] = command'.on /\ todo[i].path[2] \in AppNames /\ ~Exists(todo[i].path)'
      BY <2>1, <2>4, <2>5, <3>2 DEF Exists
    <3>5. \A i, j \in 1..Len(todo) : todo[i].path = todo[j].path => i = j
      BY <2>4, <3>3
    <3>6. \A name \in AppNames : ToCome(<<"app", name>>)'
      <4>1. ASSUME NEW name \in AppNames PROVE \E i \in 1..Len(todo) : todo[i].path = <<"app", name>>
        BY <2>3, <2>4, <2>11
      <4> QED  BY <2>5, <4>1 DEF ToCome
    <3> QED  BY <2>4, <2>5, <3>4, <3>5, <3>6 DEF MakingInv
  <2>8. FeaturesInv'
    BY <1>1, <2>1, <2>5, Idle, SameFiles DEF Exists
  <2>9. VersionInv'
    BY <1>1, <2>5, Idle DEF ProjectInv, VersionInv
  <2>10. ReportStep
    BY <1>1, <2>1, <2>5, Idle DEF ReportStep, Ends, NoCommand
  <2> QED  BY <2>6, <2>7, <2>8, <2>9, <2>10 DEF ProjectInv
<1> QED  BY <1>2, <1>3 DEF New

LEMMA GenerateKeeps ==
    ASSUME ProjectInv, NEW kind \in Kinds, NEW f \in Features, Generate(kind, f)
    PROVE  ProjectInv' /\ ReportStep
<1>1. command = NoCommand /\ UNCHANGED <<targetDir, version, harmed, lockHeld>>
  BY DEF Generate, Free
<1>2. CASE ~Exists(Manifest) \/ \E part \in Required(kind) : Exists(<<f, part>>)
  BY <1>1, <1>2, RefusedKeeps DEF Generate
<1>3. CASE Exists(Manifest) /\ ~ \E part \in Required(kind) : Exists(<<f, part>>)
  <2> DEFINE service == Exists(<<f, "service">>)
  <2>10. PICK plan : plan = Plan(kind, f, service)
    OBVIOUS
  <2>1. /\ UNCHANGED <<files, targetDir, outcome>>
        /\ command' = [kind |-> kind, on |-> f, todo |-> plan, kept |-> DOMAIN files]
    BY <1>1, <1>3, <2>10 DEF Generate, Begins
  <2>2. service \in BOOLEAN
    BY DEF Exists
  <2>3. /\ plan \in Seq(Item)
        /\ \A i \in 1..Len(plan) :
            /\ plan[i].path[1] = f /\ plan[i].path[2] \in Parts
            /\ plan[i].path[2] \in Required(kind) \/ (kind \in {"service", "controller"} /\ plan[i].path[2] = "mod")
        /\ \A i, j \in 1..Len(plan) : plan[i].path = plan[j].path => i = j
        /\ \A part \in Required(kind) \cup {"mod"} : \E i \in 1..Len(plan) : plan[i].path = <<f, part>>
        /\ \A i \in 1..Len(plan) : \A q \in plan[i].content.declares \cup plan[i].content.uses :
               (service /\ q = "service") \/ \E j \in 1..Len(plan) : plan[j].path = <<f, q>>
    <3> HIDE DEF service
    <3>1. IsPlan(plan, kind, f, service)
      BY <2>2, <2>10, PlanShape
    <3> QED  BY <3>1 DEF IsPlan
  <2>4. command'.kind = kind /\ command'.on = f /\ command'.todo = plan
    BY <2>1
  <2>5. FilesInv'
    BY <2>1 DEF ProjectInv, FilesInv, Exists, Kinds
  <2>6. MakingInv'
    <3>1. \A i \in 1..Len(plan) : plan[i].path \in DOMAIN files =>
              kind \in {"service", "controller"} /\ plan[i].path[2] = "mod"
      <4> SUFFICES ASSUME NEW i \in 1..Len(plan), plan[i].path \in DOMAIN files, plan[i].path[2] \in Required(kind)
                   PROVE FALSE
        BY <2>3
      <4>1. plan[i] \in Item
        BY <2>3
      <4>2. plan[i].path = <<f, plan[i].path[2]>>
        BY <2>3, <4>1 DEF Item
      <4> QED  BY <1>3, <4>2 DEF Exists
    <3>2. kind # "new"
      BY DEF Kinds
    <3> QED  BY <2>1, <2>3, <2>4, <3>1, <3>2 DEF MakingInv, Exists, ToCome
  <2>7. FeaturesInv'
    <3>1. \A p : WillExist(p) => WillExist(p)'
      BY <1>1, <2>1, Idle DEF WillExist, Exists
    <3>2. \A p : (\E i \in 1..Len(plan) : plan[i].path = p) => WillExist(p)'
      BY <2>4 DEF WillExist, ToCome
    <3>3. ASSUME NEW g \in Features \ harmed PROVE FeatureSound(g)'
      <4>1. FeatureSound(g)
        BY <3>3 DEF ProjectInv, FeaturesInv
      <4>2. ASSUME NEW part \in Parts, Exists(<<g, part>>)' PROVE Together(g, files[<<g, part>>])'
        <5>1. Together(g, files'[<<g, part>>])
          BY <2>1, <4>1, <4>2 DEF FeatureSound, Exists
        <5> QED  BY <3>1, <5>1 DEF Together
      <4>3. ASSUME NEW i \in 1..Len(plan), plan[i].path[1] = g
            PROVE  /\ WillExist(<<g, "mod">>)'
                   /\ \A q \in plan[i].content.declares \cup plan[i].content.uses : WillExist(<<g, q>>)'
        <5>1. g = f
          BY <2>3, <4>3
        <5>2. WillExist(<<f, "mod">>)'
          BY <2>3, <3>2
        <5>3. service => WillExist(<<f, "service">>)'
          BY <2>1 DEF WillExist, Exists
        <5>4. ASSUME NEW q \in plan[i].content.declares \cup plan[i].content.uses PROVE WillExist(<<f, q>>)'
          <6> HIDE DEF service
          <6> QED  BY <2>3, <3>2, <5>3, <5>4
        <5> QED  BY <5>1, <5>2, <5>4
      <4> QED  BY <2>4, <4>2, <4>3 DEF FeatureSound, Together
    <3> QED  BY <1>1, <3>3 DEF FeaturesInv
  <2>8. VersionInv'
    BY <1>1, <2>4, Idle DEF ProjectInv, VersionInv, Kinds
  <2>9. ReportStep
    BY <1>1, <2>1, <2>4, Idle DEF ReportStep, Ends, NoCommand, Kinds
  <2> QED  BY <2>5, <2>6, <2>7, <2>8, <2>9 DEF ProjectInv
<1> QED  BY <1>2, <1>3

LEMMA CreateFileKeeps ==
    ASSUME ProjectInv, CreateFile
    PROVE  ProjectInv' /\ ReportStep
<1> USE DEF ProjectInv
<1>1. Making /\ command.todo # <<>> /\ UNCHANGED <<targetDir, version, commands, lockHeld>>
  BY DEF CreateFile, Making
<1>2. PICK todo : todo = command.todo
  OBVIOUS
<1>3. PICK it : it = Head(todo)
  OBVIOUS
<1>4. PICK rest : rest = Tail(todo)
  OBVIOUS
<1>5. /\ todo \in Seq(Item) /\ todo # <<>>
      /\ \A i \in 1..Len(todo) :
          /\ todo[i].path[1] = command.on
          /\ Exists(todo[i].path) => command.kind \in {"service", "controller"} /\ todo[i].path[2] = "mod"
          /\ todo[i].path[2] \in (IF command.kind = "new" THEN AppNames ELSE Parts)
      /\ \A i, j \in 1..Len(todo) : todo[i].path = todo[j].path => i = j
      /\ command.kind = "new" =>
          \A name \in AppNames : Whole(<<"app", name>>, files) \/ \E i \in 1..Len(todo) : todo[i].path = <<"app", name>>
      /\ command.kind \in Kinds =>
          /\ \A part \in Required(command.kind) :
              Whole(<<command.on, part>>, files) \/ \E i \in 1..Len(todo) : todo[i].path = <<command.on, part>>
          /\ Exists(<<command.on, "mod">>) \/ \E i \in 1..Len(todo) : todo[i].path = <<command.on, "mod">>
  BY <1>1, <1>2 DEF MakingInv, ToCome
<1>6. /\ it = todo[1] /\ it \in Item /\ rest \in Seq(Item) /\ Len(rest) = Len(todo) - 1
      /\ Len(todo) \in Nat \ {0} /\ 1 \in 1..Len(todo)
      /\ \A i \in 1..Len(rest) : rest[i] = todo[i + 1] /\ i + 1 \in 1..Len(todo) /\ i + 1 # 1
      /\ \A i \in 1..Len(todo) : i = 1 \/ (i - 1 \in 1..Len(rest) /\ todo[i] = rest[i - 1])
  <2>1. /\ Head(todo) = todo[1] /\ Head(todo) \in Item /\ Tail(todo) \in Seq(Item)
        /\ Len(Tail(todo)) = Len(todo) - 1 /\ Len(todo) \in Nat \ {0}
        /\ \A i \in 1..(Len(todo) - 1) : Tail(todo)[i] = todo[i + 1]
    BY <1>5, Headed
  <2>2. /\ it = todo[1] /\ it \in Item /\ rest \in Seq(Item) /\ Len(rest) = Len(todo) - 1
        /\ Len(todo) \in Nat \ {0} /\ \A i \in 1..(Len(todo) - 1) : rest[i] = todo[i + 1]
    BY <1>3, <1>4, <2>1
  <2>3. ASSUME NEW i \in 1..Len(rest) PROVE rest[i] = todo[i + 1] /\ i + 1 \in 1..Len(todo) /\ i + 1 # 1
    BY <2>2
  <2>4. ASSUME NEW i \in 1..Len(todo), i # 1 PROVE i - 1 \in 1..Len(rest) /\ todo[i] = rest[i - 1]
    <3>1. i - 1 \in 1..(Len(todo) - 1) /\ (i - 1) + 1 = i
      BY <2>2, <2>4
    <3>2. rest[i - 1] = todo[(i - 1) + 1]
      BY <2>2, <3>1
    <3> QED  BY <2>2, <3>1, <3>2
  <2> QED  BY <2>2, <2>3, <2>4
<1>7. /\ it.path = <<command.on, it.path[2]>> /\ it.path[1] = command.on
      /\ it.content \in Content /\ it.content.whole
      /\ it.path[2] \in (IF command.kind = "new" THEN AppNames ELSE Parts)
  <2>1. it.path = <<command.on, it.path[2]>> /\ it.path[1] = command.on /\ it.content \in WholeContent
    BY <1>5, <1>6 DEF Item
  <2>2. it.content \in Content /\ it.content.whole
    BY <2>1 DEF Content, WholeContent
  <2> QED  BY <1>5, <1>6, <2>1, <2>2
<1>8. Exists(it.path) => Skips(it.path)
  BY <1>5, <1>6 DEF Skips
<1>9. /\ command' = [command EXCEPT !.todo = rest]
      /\ UNCHANGED <<outcome, harmed>>
      /\ (Exists(it.path) /\ UNCHANGED files) \/ (~Exists(it.path) /\ files' = With(it.path, it.content))
  <2>1. command = [kind |-> command.kind, on |-> command.on, todo |-> command.todo, kept |-> command.kept]
    BY <1>1, Idle DEF FilesInv
  <2> QED  BY <1>2, <1>3, <1>4, <1>8, <2>1 DEF CreateFile, Skips
<1>10. /\ command' = [kind |-> command.kind, on |-> command.on, todo |-> rest, kept |-> command.kept]
       /\ command.kind \in Kinds \cup {"new"}
  <2>1. command = [kind |-> command.kind, on |-> command.on, todo |-> command.todo, kept |-> command.kept]
    BY <1>1, Idle DEF FilesInv
  <2>2. command' = [[kind |-> command.kind, on |-> command.on, todo |-> command.todo, kept |-> command.kept] EXCEPT !.todo = rest]
    BY <1>9, <2>1
  <2> QED  BY <1>1, <2>2 DEF Making
<1>11. command'.kind = command.kind /\ command'.on = command.on /\ command'.todo = rest
  BY <1>10
<1>12. /\ \A p : Exists(p) => Exists(p)' /\ files'[p] = files[p]
       /\ \A p : Exists(p)' => Exists(p) \/ (p = it.path /\ ~Exists(p) /\ files'[p] = it.content)
       /\ Exists(it.path)'
  BY <1>9 DEF Exists, With
<1>13. FilesInv'
  <2>1. \A p \in DOMAIN files' : files'[p] \in Content
    BY <1>7, <1>12 DEF FilesInv, Exists
  <2>2. ASSUME ~targetDir, NEW name \in AppNames, Exists(<<"app", name>>)' PROVE FALSE
    <3>1. command.kind # "new" /\ it.path = <<"app", name>>
      BY <1>12, <2>2 DEF FilesInv
    <3>2. name \in Parts
      BY <1>7, <3>1
    <3> QED  BY <3>2 DEF Parts, AppNames
  <2>3. ~targetDir => command.kind # "new"
    BY DEF FilesInv
  <2>4. \A name \in AppNames : ~targetDir' => ~Exists(<<"app", name>>)'
    BY <1>1, <2>2
  <2> QED  BY <1>1, <1>10, <1>11, <2>1, <2>3, <2>4 DEF FilesInv
<1>14. ASSUME NEW p, \E i \in 1..Len(todo) : todo[i].path = p
       PROVE  Exists(p)' \/ \E i \in 1..Len(rest) : rest[i].path = p
  BY <1>6, <1>12, <1>14
<1>15. MakingInv'
  <2>1. ASSUME NEW i \in 1..Len(rest)
        PROVE  /\ rest[i].path[1] = command.on
               /\ Exists(rest[i].path)' => command.kind \in {"service", "controller"} /\ rest[i].path[2] = "mod"
               /\ rest[i].path[2] \in (IF command.kind = "new" THEN AppNames ELSE Parts)
    <3>1. rest[i].path # it.path
      BY <1>5, <1>6
    <3>2. Exists(rest[i].path)' => Exists(rest[i].path)
      BY <1>12, <3>1
    <3> QED  BY <1>5, <1>6, <3>2
  <2>2. \A i, j \in 1..Len(rest) : rest[i].path = rest[j].path => i = j
    <3>1. ASSUME NEW i \in 1..Len(rest), NEW j \in 1..Len(rest), rest[i].path = rest[j].path PROVE i = j
      <4>1. i + 1 = j + 1
        BY <1>5, <1>6, <3>1
      <4> QED  BY <4>1
    <3> QED  BY <3>1
  <2>3. PICK on : on = command.on
    OBVIOUS
  <2>4. ASSUME NEW p, p = it.path => ~Exists(p),
               Whole(p, files) \/ \E i \in 1..Len(todo) : todo[i].path = p
        PROVE  Whole(p, files') \/ \E i \in 1..Len(rest) : rest[i].path = p
    <3>1. CASE Whole(p, files)
      BY <1>12, <3>1 DEF Whole, Exists
    <3>2. CASE p = it.path
      BY <1>7, <1>12, <2>4, <3>2 DEF Whole, Exists
    <3>3. CASE p # it.path /\ \E i \in 1..Len(todo) : todo[i].path = p
      BY <1>6, <3>3
    <3> QED  BY <2>4, <3>1, <3>2, <3>3
  <2>8. Exists(it.path) => command.kind \in {"service", "controller"} /\ it.path[2] = "mod"
    BY <1>5, <1>6
  <2>9. command.kind = "new" => \A name \in AppNames :
            Whole(<<"app", name>>, files') \/ \E i \in 1..Len(rest) : rest[i].path = <<"app", name>>
    BY <1>5, <2>4, <2>8
  <2>10. ASSUME command.kind \in Kinds, NEW part \in Required(command.kind)
         PROVE  Whole(<<on, part>>, files') \/ \E i \in 1..Len(rest) : rest[i].path = <<on, part>>
    <3>1. <<on, part>> = it.path => ~Exists(<<on, part>>)
      BY <2>8, <2>10 DEF Required
    <3> QED  BY <1>5, <2>3, <2>4, <2>10, <3>1
  <2>5. command'.kind = command.kind /\ command'.on = on /\ command'.todo = rest
    BY <1>11, <2>3
  <2>6. \A i \in 1..Len(rest) :
          /\ rest[i].path[1] = on
          /\ rest[i].path \in DOMAIN files' => command.kind \in {"service", "controller"} /\ rest[i].path[2] = "mod"
          /\ rest[i].path[2] \in (IF command.kind = "new" THEN AppNames ELSE Parts)
    BY <2>1, <2>3 DEF Exists
  <2>7. command.kind \in Kinds =>
          <<on, "mod">> \in DOMAIN files' \/ \E i \in 1..Len(rest) : rest[i].path = <<on, "mod">>
    BY <1>5, <1>12, <1>14, <2>3 DEF Exists
  <2> QED  BY <1>6, <2>2, <2>5, <2>6, <2>7, <2>9, <2>10 DEF MakingInv, ToCome, Exists
<1>16. FeaturesInv'
  <2>1. \A p : WillExist(p) => WillExist(p)'
    BY <1>2, <1>11, <1>12, <1>14 DEF WillExist, ToCome
  <2>2. ASSUME NEW g \in Features \ harmed PROVE FeatureSound(g)'
    <3>1. FeatureSound(g)
      BY <2>2 DEF FeaturesInv
    <3>2. ASSUME NEW part \in Parts, Exists(<<g, part>>)' PROVE Together(g, files'[<<g, part>>])
      <4>1. CASE Exists(<<g, part>>)
        BY <1>12, <3>1, <4>1 DEF FeatureSound
      <4>2. CASE ~Exists(<<g, part>>)
        <5>1. it.path = <<g, part>> /\ files'[<<g, part>>] = it.content
          BY <1>12, <3>2, <4>2
        <5>2. command.kind # "new"
          BY <1>7, <5>1 DEF Parts, AppNames
        <5>3. command.kind \in Kinds /\ command.todo[1].path[1] = g /\ 1 \in 1..Len(command.todo)
          BY <1>2, <1>6, <1>10, <5>1, <5>2
        <5> QED  BY <1>2, <1>6, <3>1, <5>1, <5>3 DEF FeatureSound
      <4> QED  BY <4>1, <4>2
    <3>3. ASSUME command.kind \in Kinds, NEW i \in 1..Len(rest), rest[i].path[1] = g
          PROVE  Together(g, rest[i].content)
      BY <1>2, <1>6, <3>1, <3>3 DEF FeatureSound
    <3> QED  BY <1>11, <2>1, <3>2, <3>3, SoundAgain
  <2> QED  BY <1>9, <2>2 DEF FeaturesInv
<1>17. VersionInv'
  BY <1>1, <1>11 DEF VersionInv
<1>18. ReportStep
  BY <1>10, <1>11, <1>12 DEF ReportStep, Ends, NoCommand, Exists, Kinds
<1> QED  BY <1>13, <1>15, <1>16, <1>17, <1>18

(* A command that breaks off has harmed its feature, and no other. *)
LEMMA FailToCreateKeeps ==
    ASSUME ProjectInv, FailToCreate
    PROVE  ProjectInv' /\ ReportStep
<1> USE DEF ProjectInv
<1>1. /\ Making /\ command.todo # <<>> /\ UNCHANGED <<targetDir, version, commands, lockHeld>>
      /\ command' = NoCommand /\ harmed' = harmed \cup {command.on}
      /\ outcome' = "failed"
  BY DEF FailToCreate, Making, Reports
<1>2. PICK it : it = Head(command.todo)
  OBVIOUS
<1>3. /\ command.todo \in Seq(Item) /\ 1 \in 1..Len(command.todo) /\ it = command.todo[1] /\ it \in Item
  <2>1. command.todo \in Seq(Item)
    BY <1>1 DEF MakingInv
  <2> QED  BY <1>1, <1>2, <2>1, Headed
<1> DEFINE part == File({}, {}, FALSE)
<1>4. /\ it.path = <<command.on, it.path[2]>> /\ ~Exists(it.path)
      /\ it.path[2] \in (IF command.kind = "new" THEN AppNames ELSE Parts)
      /\ UNCHANGED files \/ files' = With(it.path, part)
  <2>1. it.path = <<command.on, it.path[2]>>
    BY <1>1, <1>3 DEF MakingInv, Item
  <2>2. it.path[2] \in (IF command.kind = "new" THEN AppNames ELSE Parts)
    BY <1>1, <1>3 DEF MakingInv
  <2> QED  BY <1>2, <2>1, <2>2 DEF FailToCreate
<1>11. part \in Content
  BY DEF Content, File
<1> HIDE DEF part
<1>5. /\ \A p : Exists(p) => Exists(p)' /\ files'[p] = files[p]
      /\ \A p : Exists(p)' => Exists(p) \/ (p = it.path /\ files'[p] = part)
  BY <1>4 DEF Exists, With
<1>6. FilesInv'
  <2>2. \A p \in DOMAIN files' : files'[p] \in Content
    BY <1>5, <1>11 DEF FilesInv, Exists
  <2>3. ASSUME ~targetDir, NEW name \in AppNames, Exists(<<"app", name>>)' PROVE FALSE
    <3>1. command.kind # "new" /\ it.path = <<"app", name>>
      BY <1>5, <2>3 DEF FilesInv
    <3>2. name \in Parts
      BY <1>4, <3>1
    <3> QED  BY <3>2 DEF Parts, AppNames
  <2>4. \A name \in AppNames : ~targetDir' => ~Exists(<<"app", name>>)'
    BY <1>1, <2>3
  <2> QED  BY <1>1, <2>2, <2>4, IdleNext DEF FilesInv
<1>7. MakingInv'
  BY <1>1, IdleNext
<1>8. FeaturesInv'
  <2>1. ASSUME NEW g \in Features \ harmed' PROVE FeatureSound(g)'
    <3>1. FeatureSound(g) /\ g # command.on
      BY <1>1, <2>1 DEF FeaturesInv
    <3>2. ASSUME NEW x, WillExist(<<g, x>>) PROVE Exists(<<g, x>>)
      <4>1. command.kind \in Kinds => ~ToCome(<<g, x>>)
        <5>1. \A i \in 1..Len(command.todo) : command.todo[i].path[1] # g
          BY <1>1, <3>1 DEF MakingInv
        <5> QED  BY <5>1 DEF ToCome
      <4> QED  BY <3>2, <4>1 DEF WillExist
    <3>3. \A x : WillExist(<<g, x>>) => WillExist(<<g, x>>)'
      BY <1>5, <3>2 DEF WillExist
    <3>4. \A other \in Parts : Exists(<<g, other>>)' => Together(g, files'[<<g, other>>])
      <4>1. \A other : <<g, other>> # it.path
        BY <1>4, <3>1
      <4> QED  BY <1>5, <3>1, <4>1 DEF FeatureSound
    <3> QED  BY <1>1, <3>3, <3>4, IdleNext, SoundAgain
  <2> QED  BY <2>1 DEF FeaturesInv
<1>9. VersionInv'
  BY <1>1, IdleNext DEF VersionInv, Making, Kinds
<1>10. ReportStep
  BY <1>1, <1>5 DEF ReportStep, Exists
<1> QED  BY <1>6, <1>7, <1>8, <1>9, <1>10

LEMMA CreatedKeeps ==
    ASSUME ProjectInv, Created
    PROVE  ProjectInv' /\ ReportStep
<1> USE DEF ProjectInv
<1>1. /\ Making /\ command.todo = <<>> /\ UNCHANGED <<files, targetDir, version, commands, harmed, lockHeld>>
      /\ command' = NoCommand
      /\ outcome' = "created"
  BY DEF Created, Making, Reports
<1>2. FilesInv'
  BY <1>1, IdleNext DEF FilesInv, Exists
<1>3. MakingInv'
  BY <1>1, IdleNext
<1>4. FeaturesInv'
  BY <1>1, IdleNext, SameFiles DEF Exists
<1>5. VersionInv'
  BY <1>1, IdleNext DEF VersionInv, Making, Kinds
<1>6. /\ command.kind = "new" => \A name \in AppNames : Whole(<<"app", name>>, files)
      /\ command.kind \in Kinds =>
          /\ \A part \in Required(command.kind) : Whole(<<command.on, part>>, files)
          /\ Exists(<<command.on, "mod">>)
  BY <1>1 DEF MakingInv, ToCome
<1>8. command.kind = "new" \/ command.kind \in Kinds
  BY <1>1 DEF Making
<1>7. ReportStep
  BY <1>1, <1>6, <1>8, AppFilesAreNames DEF ReportStep, Exists
<1> QED  BY <1>2, <1>3, <1>4, <1>5, <1>7

(* update leaves the files of the features alone. *)
LEMMA UpdateFrame ==
    ASSUME ProjectInv, ~Making, ~Making', VersionInv', ReportStep, UNCHANGED <<targetDir, harmed>>,
           \A p : Exists(p)' <=> Exists(p),
           \A p : Exists(p) => files'[p] \in Content,
           \A g, part : part \in Parts => files'[<<g, part>>] = files[<<g, part>>],
           command' = NoCommand \/
           (/\ command' = [kind |-> command'.kind, on |-> command'.on, todo |-> command'.todo, kept |-> command'.kept]
            /\ command'.kind \in {"fetched", "locking", "installing"})
    PROVE  ProjectInv' /\ ReportStep
<1>1. FilesInv'
  BY DEF ProjectInv, FilesInv, Exists, Making
<1>2. FeaturesInv'
  BY SameFiles DEF Making
<1> QED  BY <1>1, <1>2 DEF ProjectInv, MakingInv

LEMMA UpdateKeeps ==
    ASSUME ProjectInv,
           Update \/ UpdateManifest \/ ManifestUnusable \/ UpdateLock \/ UpdateSelf
    PROVE  ProjectInv' /\ ReportStep
<1> USE DEF ProjectInv
<1>1. UNCHANGED <<files, targetDir, harmed>>
  BY DEF Update, UpdateManifest, ManifestUnusable, UpdateLock, UpdateSelf, Refused
<1>2. /\ \A p : Exists(p)' <=> Exists(p)
      /\ \A p : Exists(p) => files'[p] \in Content
      /\ \A g, part : part \in Parts => files'[<<g, part>>] = files[<<g, part>>]
  BY <1>1 DEF Exists, FilesInv
<1>3. \/ command = NoCommand
      \/ command = [kind |-> command.kind, on |-> command.on, todo |-> command.todo, kept |-> command.kept]
  BY DEF FilesInv
<1>4. /\ version = [latest |-> version.latest, manifest |-> version.manifest,
                    lock |-> version.lock, cli |-> version.cli]
      /\ version.latest \in Nat
      /\ command.kind \in {"fetched", "locking", "installing"} =>
          command.on \in Nat /\ command.on <= version.latest
      /\ lockHeld \in BOOLEAN
      /\ command.kind = "locking" \/ version.lock = version.manifest \/ lockHeld
      /\ command.kind \in {"locking", "installing"} => version.manifest = command.on
  BY DEF VersionInv
<1>5. CASE Update
  <2>1. /\ command = NoCommand /\ UNCHANGED <<version, lockHeld>>
        /\ \/ /\ command' = [kind |-> "fetched", on |-> version.latest, todo |-> <<>>, kept |-> DOMAIN files]
              /\ outcome' = outcome
           \/ /\ command' = NoCommand
              /\ outcome' = "failed"
    BY <1>5 DEF Update, Free, Begins, Refused, Reports
  <2>2. command'.kind \in {"none", "fetched"} /\ (command'.kind = "fetched" => command'.on = version.latest)
    BY <2>1 DEF NoCommand
  <2>3. VersionInv'
    BY <1>4, <2>1, <2>2, Idle DEF VersionInv
  <2>4. command' = NoCommand => outcome' = "failed"
    BY <2>1 DEF NoCommand
  <2>5. ReportStep
    BY <2>1, <2>4, Idle DEF ReportStep, Ends
  <2>6. ~Making /\ ~Making'
    BY <2>1, <2>2, Idle DEF Making, Kinds
  <2> QED  BY <1>1, <1>2, <2>1, <2>3, <2>5, <2>6, UpdateFrame
<1>6. CASE ManifestUnusable
  <2>1. /\ command.kind = "fetched" /\ command' = NoCommand /\ UNCHANGED <<version, lockHeld>>
        /\ outcome' = "failed"
    BY <1>6 DEF ManifestUnusable, Reports
  <2>2. VersionInv'
    BY <1>4, <2>1, IdleNext DEF VersionInv
  <2>3. ReportStep
    BY <1>1, <2>1 DEF ReportStep
  <2> QED  BY <1>1, <1>2, <2>1, <2>2, <2>3, IdleNext, UpdateFrame DEF Making, Kinds
<1>7. CASE UpdateManifest
  <2>1. /\ command.kind = "fetched" /\ lockHeld' = lockHeld /\ UNCHANGED outcome
        /\ version.lock = version.manifest \/ lockHeld
        /\ command' = [command EXCEPT !.kind = AfterManifest]
        /\ version' = [version EXCEPT !.manifest = command.on]
    BY <1>4, <1>7 DEF UpdateManifest
  <2>2. command' = [kind |-> AfterManifest, on |-> command.on, todo |-> command.todo, kept |-> command.kept]
    <3>1. command = [kind |-> command.kind, on |-> command.on, todo |-> command.todo, kept |-> command.kept]
      BY <1>3, <2>1, Idle
    <3>2. command' = [[kind |-> command.kind, on |-> command.on, todo |-> command.todo, kept |-> command.kept]
                      EXCEPT !.kind = AfterManifest]
      BY <2>1, <3>1
    <3> QED  BY <3>2
  <2>3. /\ version'.manifest = command.on /\ version'.lock = version.lock /\ version'.latest = version.latest
        /\ version' = [latest |-> version.latest, manifest |-> command.on,
                       lock |-> version.lock, cli |-> version.cli]
    <3>1. version' = [[latest |-> version.latest, manifest |-> version.manifest,
                       lock |-> version.lock, cli |-> version.cli] EXCEPT !.manifest = command.on]
      BY <1>4, <2>1
    <3> QED  BY <3>1
  <2>4. /\ command'.kind = AfterManifest /\ command'.on = command.on
        /\ AfterManifest \in {"locking", "installing"}
    BY <2>2 DEF AfterManifest
  <2>5. VersionInv'
    <3>1. CASE version.manifest = command.on
      BY <1>4, <2>1, <2>3, <2>4, <3>1 DEF AfterManifest, VersionInv
    <3>2. CASE version.manifest # command.on
      BY <1>4, <2>1, <2>3, <2>4, <3>2 DEF AfterManifest, VersionInv
    <3> QED  BY <3>1, <3>2
  <2>6. ReportStep
    BY <1>1, <2>4, IdleNext DEF ReportStep, Ends
  <2> QED  BY <1>1, <1>2, <2>1, <2>2, <2>4, <2>5, <2>6, UpdateFrame DEF Making, Kinds
<1>8. CASE UpdateLock
  <2>1. command.kind = "locking" /\ version.manifest = command.on
    BY <1>4, <1>8 DEF UpdateLock
  <2>2. CASE /\ version' = [version EXCEPT !.lock = version.manifest]
             /\ command' = [command EXCEPT !.kind = "installing"]
             /\ lockHeld' = FALSE
             /\ UNCHANGED outcome
    <3>1. command' = [kind |-> "installing", on |-> command.on, todo |-> command.todo, kept |-> command.kept]
      <4>1. command = [kind |-> command.kind, on |-> command.on, todo |-> command.todo, kept |-> command.kept]
        BY <1>3, <2>1, Idle
      <4>2. command' = [[kind |-> command.kind, on |-> command.on, todo |-> command.todo, kept |-> command.kept]
                        EXCEPT !.kind = "installing"]
        BY <2>2, <4>1
      <4> QED  BY <4>2
    <3>2. version' = [latest |-> version.latest, manifest |-> version.manifest,
                      lock |-> version.manifest, cli |-> version.cli]
      <4>1. version' = [[latest |-> version.latest, manifest |-> version.manifest,
                         lock |-> version.lock, cli |-> version.cli] EXCEPT !.lock = version.manifest]
        BY <1>4, <2>2
      <4> QED  BY <4>1
    <3>3. VersionInv'
      BY <1>4, <2>1, <2>2, <3>1, <3>2 DEF VersionInv
    <3>4. command'.kind = "installing"
      BY <3>1
    <3>5. ReportStep
      BY <1>1, <3>4, IdleNext DEF ReportStep, Ends
    <3> QED  BY <1>1, <1>2, <2>1, <3>1, <3>3, <3>4, <3>5, UpdateFrame DEF Making, Kinds
  <2>3. CASE Reports("failed") /\ lockHeld' = TRUE /\ UNCHANGED version
    <3>1. command' = NoCommand /\ outcome' = "failed"
      BY <2>3 DEF Reports
    <3>2. VersionInv'
      BY <1>4, <2>3, <3>1, IdleNext DEF VersionInv
    <3>3. ReportStep
      BY <1>1, <3>1 DEF ReportStep
    <3> QED  BY <1>1, <1>2, <2>1, <3>1, <3>2, <3>3, IdleNext, UpdateFrame DEF Making, Kinds
  <2> QED  BY <1>8, <2>2, <2>3 DEF UpdateLock
<1>9. CASE UpdateSelf
  <2>1. /\ command.kind = "installing" /\ version.manifest = command.on /\ (version.lock = version.manifest \/ lockHeld)
        /\ lockHeld' = lockHeld /\ command' = NoCommand
    BY <1>4, <1>9 DEF UpdateSelf, Reports
  <2>2. \/ version' = version /\ outcome' = "failed"
        \/ /\ version' = [version EXCEPT !.cli = version.latest]
           /\ outcome' = "updated"
    BY <1>9 DEF UpdateSelf, Reports
  <2>3. /\ version'.manifest = version.manifest /\ version'.lock = version.lock
        /\ version'.latest = version.latest
        /\ outcome' # "failed" => version'.cli = version.latest
        /\ version' = [latest |-> version'.latest, manifest |-> version'.manifest,
                       lock |-> version'.lock, cli |-> version'.cli]
    <3>1. CASE version' = [version EXCEPT !.cli = version.latest]
      <4>1. version' = [[latest |-> version.latest, manifest |-> version.manifest,
                         lock |-> version.lock, cli |-> version.cli] EXCEPT !.cli = version.latest]
        BY <1>4, <3>1
      <4> QED  BY <4>1
    <3>2. CASE version' = version /\ outcome' = "failed"
      BY <1>4, <3>2
    <3> QED  BY <2>2, <3>1, <3>2
  <2>4. VersionInv'
    BY <1>4, <2>1, <2>3, IdleNext DEF VersionInv
  <2>5. outcome' \in {"failed", "updated"} /\ (outcome' = "updated" => version'.cli >= command.on)
    BY <1>4, <2>1, <2>2, <2>3
  <2>6. ReportStep
    BY <1>1, <2>1, <2>3, <2>5 DEF ReportStep
  <2> QED  BY <1>1, <1>2, <2>1, <2>4, <2>6, IdleNext, UpdateFrame DEF Making, Kinds
<1> QED  BY <1>5, <1>6, <1>7, <1>8, <1>9

(* A write of Cargo.toml that fails leaves no feature's file other than it was. *)
LEMMA WriteManifestFailsKeeps ==
    ASSUME ProjectInv, WriteManifestFails
    PROVE  ProjectInv' /\ ReportStep
<1> USE DEF ProjectInv
<1>1. PICK whole \in BOOLEAN, left \in {version.manifest, command.on} :
          /\ files' = [files EXCEPT ![Manifest].whole = whole]
          /\ version' = [version EXCEPT !.manifest = left]
          /\ lockHeld' = (lockHeld \/ left = command.on)
  BY DEF WriteManifestFails
<1>2. /\ command.kind = "fetched" /\ command' = NoCommand /\ outcome' = "failed"
      /\ UNCHANGED <<targetDir, commands, harmed>> /\ Exists(Manifest)
  BY DEF WriteManifestFails, Reports, Readable
<1>3. /\ \A p : Exists(p)' <=> Exists(p)
      /\ \A p : Exists(p) => files'[p] \in Content
      /\ \A g, part : part \in Parts => files'[<<g, part>>] = files[<<g, part>>]
  <2> DEFINE broken == [files[Manifest] EXCEPT !.whole = whole]
  <2>1. broken \in Content
    <3>1. files[Manifest] \in Content
      BY <1>2 DEF FilesInv, Exists
    <3>2. PICK d \in SUBSET Parts, u \in SUBSET Parts, w \in BOOLEAN :
              files[Manifest] = [declares |-> d, uses |-> u, whole |-> w]
      BY <3>1 DEF Content
    <3>3. broken = [declares |-> d, uses |-> u, whole |-> whole]
      BY <3>2
    <3> HIDE DEF broken
    <3> QED  BY <3>3 DEF Content
  <2>2. files' = [files EXCEPT ![Manifest] = broken]
    BY <1>1
  <2> HIDE DEF broken
  <2>3. \A g, part : part \in Parts => <<g, part>> # Manifest
    BY DEF Parts, Manifest
  <2>4. \A p : p # Manifest => files'[p] = files[p]
    BY <2>2 DEF FilesInv
  <2> QED  BY <1>2, <2>1, <2>2, <2>3, <2>4 DEF Exists, FilesInv
<1>4. VersionInv'
  <2>1. /\ version = [latest |-> version.latest, manifest |-> version.manifest,
                      lock |-> version.lock, cli |-> version.cli]
        /\ version.latest \in Nat /\ lockHeld \in BOOLEAN
        /\ version.lock = version.manifest \/ lockHeld
    BY <1>2 DEF VersionInv
  <2>2. version' = [[latest |-> version.latest, manifest |-> version.manifest,
                     lock |-> version.lock, cli |-> version.cli] EXCEPT !.manifest = left]
    BY <1>1, <2>1
  <2>3. version' = [latest |-> version.latest, manifest |-> left, lock |-> version.lock, cli |-> version.cli]
    BY <2>2
  <2> QED  BY <1>1, <1>2, <2>1, <2>3, IdleNext DEF VersionInv
<1>5. ReportStep
  BY <1>2 DEF ReportStep, Kinds
<1> QED  BY <1>2, <1>3, <1>4, <1>5, IdleNext, UpdateFrame DEF Making, Kinds

LEMMA PublishKeeps ==
    ASSUME ProjectInv, Publish
    PROVE  ProjectInv' /\ ReportStep
<1> USE DEF ProjectInv
<1>1. UNCHANGED <<files, targetDir, command, outcome, commands, harmed, lockHeld>>
      /\ version' = [version EXCEPT !.latest = @ + 1]
  BY DEF Publish
<1>2. version' = [latest |-> version.latest + 1, manifest |-> version.manifest,
                  lock |-> version.lock, cli |-> version.cli]
  <2>1. version' = [[latest |-> version.latest, manifest |-> version.manifest,
                     lock |-> version.lock, cli |-> version.cli] EXCEPT !.latest = version.latest + 1]
    BY <1>1 DEF VersionInv
  <2> QED  BY <2>1
<1>3. VersionInv'
  BY <1>1, <1>2 DEF VersionInv
<1>4. FilesInv' /\ MakingInv' /\ FeaturesInv'
  BY <1>1, NothingMoves
<1>5. ReportStep
  BY <1>1 DEF ReportStep, Ends
<1> QED  BY <1>3, <1>4, <1>5

LEMMA UserKeeps ==
    ASSUME ProjectInv, NEW f \in Features, NEW part \in Parts,
           (part # "mod" /\ UserDeclares(f, part)) \/ UserDeletes(f, part)
    PROVE  ProjectInv' /\ ReportStep
<1> USE DEF ProjectInv
<1>1. /\ command = NoCommand /\ UNCHANGED <<targetDir, version, command, outcome, commands, lockHeld>>
      /\ harmed \subseteq harmed'
  BY DEF UserDeclares, UserDeletes
<1>2. MakingInv' /\ command'.kind \notin Kinds
  BY <1>1, IdleNext
<1>3. VersionInv'
  BY <1>1 DEF VersionInv
<1>4. ReportStep
  BY <1>1, Idle DEF ReportStep, Ends
<1>5. \A p : (WillExist(p) <=> Exists(p)) /\ (WillExist(p)' <=> Exists(p)')
  BY <1>1, Idle, IdleNext DEF WillExist
<1>6. CASE UserDeclares(f, part)
  <2> DEFINE mod == <<f, "mod">>
             declared == [files[mod] EXCEPT !.declares = @ \cup {part}]
  <2>1. Exists(<<f, part>>) /\ Exists(mod) /\ files' = [files EXCEPT ![mod] = declared] /\ harmed' = harmed
    BY <1>6 DEF UserDeclares
  <2>2. /\ declared = [declares |-> files[mod].declares \cup {part}, uses |-> files[mod].uses,
                        whole |-> files[mod].whole]
        /\ declared \in Content
    <3>1. files[mod] \in Content
      BY <2>1 DEF FilesInv, Exists
    <3>2. PICK d \in SUBSET Parts, u \in SUBSET Parts, w \in BOOLEAN :
              files[mod] = [declares |-> d, uses |-> u, whole |-> w]
      BY <3>1 DEF Content
    <3>3. declared = [declares |-> d \cup {part}, uses |-> u, whole |-> w]
      BY <3>2
    <3>4. d \cup {part} \in SUBSET Parts
      OBVIOUS
    <3> HIDE DEF declared
    <3> QED  BY <3>2, <3>3, <3>4 DEF Content
  <2> HIDE DEF declared
  <2>3. /\ \A p : Exists(p)' <=> Exists(p)
        /\ \A p : Exists(p) => (p = mod /\ files'[p] = declared) \/ files'[p] = files[p]
    BY <2>1 DEF Exists
  <2>4. FilesInv'
    BY <1>1, <2>2, <2>3 DEF FilesInv, Exists
  <2>5. ASSUME NEW g \in Features \ harmed' PROVE FeatureSound(g)'
    <3>1. FeatureSound(g)
      BY <2>1, <2>5 DEF FeaturesInv
    <3>2. ASSUME NEW other \in Parts, Exists(<<g, other>>)' PROVE Together(g, files'[<<g, other>>])
      <4>1. Together(g, files[<<g, other>>])
        BY <2>3, <3>1, <3>2 DEF FeatureSound
      <4>2. CASE <<g, other>> = mod /\ files'[<<g, other>>] = declared
        <5>1. g = f /\ declared.declares = files[mod].declares \cup {part} /\ declared.uses = files[mod].uses
          BY <2>2, <4>2
        <5>2. WillExist(<<f, part>>)
          BY <1>5, <2>1
        <5> QED  BY <4>1, <4>2, <5>1, <5>2 DEF Together
      <4>3. CASE files'[<<g, other>>] = files[<<g, other>>]
        BY <4>1, <4>3
      <4> QED  BY <2>3, <3>2, <4>2, <4>3
    <3>3. \A x : WillExist(<<g, x>>) => WillExist(<<g, x>>)'
      BY <1>5, <2>3
    <3> QED  BY <1>2, <3>2, <3>3, SoundAgain
  <2> QED  BY <1>2, <1>3, <1>4, <2>4, <2>5 DEF FeaturesInv
<1>7. CASE UserDeletes(f, part)
  <2>1. files' = [p \in DOMAIN files \ {<<f, part>>} |-> files[p]] /\ harmed' = harmed \cup {f}
    BY <1>7 DEF UserDeletes
  <2>2. \A p : Exists(p)' <=> Exists(p) /\ p # <<f, part>>
    BY <2>1 DEF Exists
  <2>3. \A p : Exists(p)' => files'[p] = files[p]
    BY <2>1 DEF Exists
  <2>4. FilesInv'
    BY <1>1, <2>2, <2>3 DEF FilesInv, Exists
  <2>5. ASSUME NEW g \in Features \ harmed' PROVE FeatureSound(g)'
    <3>1. FeatureSound(g) /\ g # f
      BY <2>1, <2>5 DEF FeaturesInv
    <3>2. \A other \in Parts : Exists(<<g, other>>)' => Together(g, files'[<<g, other>>])
      BY <2>2, <2>3, <3>1 DEF FeatureSound
    <3>3. \A x : WillExist(<<g, x>>) => WillExist(<<g, x>>)'
      BY <1>5, <2>2, <3>1
    <3> QED  BY <1>2, <3>2, <3>3, SoundAgain
  <2> QED  BY <1>2, <1>3, <1>4, <2>4, <2>5 DEF FeaturesInv
<1> QED  BY <1>6, <1>7

LEMMA StepProject ==
    ProjectInv /\ [ProjectNext]_projectVars => ProjectInv' /\ [ReportStep]_projectVars
<1> SUFFICES ASSUME ProjectInv, [ProjectNext]_projectVars PROVE ProjectInv' /\ [ReportStep]_projectVars
  OBVIOUS
<1>1. CASE New \/ CreateFile \/ FailToCreate \/ Created
  BY <1>1, NewKeeps, CreateFileKeeps, FailToCreateKeeps, CreatedKeeps
<1>2. CASE \/ Update \/ UpdateManifest \/ ManifestUnusable \/ WriteManifestFails
           \/ UpdateLock \/ UpdateSelf \/ Publish
  BY <1>2, UpdateKeeps, WriteManifestFailsKeeps, PublishKeeps
<1>3. ASSUME NEW f \in Features, NEW kind \in Kinds, Generate(kind, f) PROVE ProjectInv' /\ ReportStep
  BY <1>3, GenerateKeeps
<1>4. ASSUME NEW f \in Features, NEW part \in {"service", "controller"}, UserDeclares(f, part)
      PROVE  ProjectInv' /\ ReportStep
  BY <1>4, UserKeeps DEF Parts
<1>5. ASSUME NEW f \in Features, NEW part \in Parts, UserDeletes(f, part) PROVE ProjectInv' /\ ReportStep
  BY <1>5, UserKeeps
<1>6. CASE UNCHANGED projectVars
  <2>1. FilesInv' /\ MakingInv' /\ FeaturesInv'
    BY <1>6, NothingMoves DEF projectVars
  <2>2. VersionInv'
    BY <1>6 DEF projectVars, ProjectInv, VersionInv
  <2> QED  BY <1>6, <2>1, <2>2 DEF ProjectInv
<1> QED  BY <1>1, <1>2, <1>3, <1>4, <1>5, <1>6 DEF ProjectNext

LEMMA AlwaysProjectInv == ProjectSpec => []ProjectInv
BY InitProject, StepProject, PTL DEF ProjectSpec

(* generate: a feature that no failure and no user has touched holds together
   between commands, whatever generated it in whatever order. *)
THEOREM FeaturesCompile == ProjectSpec => []FeaturesHoldTogether
<1>1. ProjectInv => FeaturesHoldTogether
  <2> SUFFICES ASSUME ProjectInv, command = NoCommand PROVE FeaturesHoldTogether
    BY DEF FeaturesHoldTogether
  <2>1. \A p : WillExist(p) <=> Exists(p)
    BY Idle DEF WillExist
  <2> QED  BY <2>1 DEF ProjectInv, FeaturesInv, FeatureSound, Together, FeaturesHoldTogether
<1> QED  BY <1>1, AlwaysProjectInv, PTL

(* new, generate and update: a command does all of its work or says that it
   did not, and no generator takes a file away or writes over one. *)
THEOREM CommandsReportTruly == ProjectSpec => ReportsAreTrue
BY InitProject, StepProject, PTL DEF ProjectSpec, ReportsAreTrue
=============================================================================
