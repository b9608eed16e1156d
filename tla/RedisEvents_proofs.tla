------------------------- MODULE RedisEvents_proofs -------------------------
(* Proofs about RedisEvents, for any events, replicas, services and bounds. *)
EXTENDS RedisEvents, FiniteSetTheorems, TLAPS

(* What the Stream, the group and the tasks know of an event agrees. *)
EntryInv ==
    /\ IsFiniteSet({e \in Events : Emitted(e)})
    /\ \A e \in seen : Emitted(e)
    /\ \A t \in tasks :
        /\ t.evt \in seen
        /\ t.turn \in 1..deliveries[t.evt]
        /\ t.phase = "running" => t.attempt \in 1..deliveries[t.evt]

TypeInv == TypeOK /\ EntryInv

LEMMA Limits ==
    ASSUME TypeOK
    PROVE  Concurrency \in Nat \ {0} /\ MaxDeliveries \in Nat \ {0}
BY DEF TypeOK, Service, Concurrency, MaxDeliveries

LEMMA Fewer ==
    ASSUME NEW S, NEW T, IsFiniteSet(S), T \subseteq S
    PROVE  /\ IsFiniteSet(T) /\ Cardinality(T) \in Nat /\ Cardinality(S) \in Nat
           /\ Cardinality(T) <= Cardinality(S)
BY FS_Subset, FS_CardinalityType

-----------------------------------------------------------------------------
(* What the steps do. *)

(* The entries in S are handed to a consumer, which may not live to see it. *)
Claimed(S) ==
    /\ IsFiniteSet(S)
    /\ \A e \in S : Emitted(e) /\ ~Trimmed(e) /\ (e \in stale \/ e \notin seen)
    /\ Delivered(S)
    /\ seen' = seen \cup S
    /\ pending' \subseteq pending \cup S
    /\ S \subseteq pending'
    /\ \A e \in pending \ pending' : Trimmed(e)
    /\ stale' \subseteq stale \ S
    /\ stale' \subseteq pending'

LEMMA DeliveredBy ==
    ASSUME TypeOK, NEW S, Delivered(S)
    PROVE  /\ deliveries' \in [Events -> Nat]
           /\ \A e \in Events :
                deliveries'[e] = IF e \in S THEN deliveries[e] + 1 ELSE deliveries[e]
BY DEF Delivered, TypeOK

LEMMA NothingClaimed ==
    ASSUME TypeOK, UNCHANGED groupVars
    PROVE  Claimed({})
<1>1. Delivered({})
  BY DEF TypeOK, groupVars, Delivered
<1>2. IsFiniteSet({})
  BY FS_EmptySet
<1> QED  BY <1>1, <1>2 DEF Claimed, TypeOK, groupVars

LEMMA EmittedFinite ==
    ASSUME TypeInv, NEW S \in SUBSET Events, \A e \in S : Emitted(e)
    PROVE  IsFiniteSet(S)
<1>1. S \subseteq {e \in Events : Emitted(e)}
  OBVIOUS
<1> QED  BY <1>1, Fewer DEF TypeInv, EntryInv

LEMMA AutoClaimed ==
    ASSUME TypeInv, NEW r \in Replicas, NEW S \in SUBSET pending, XAUTOCLAIM(r, S)
    PROVE  Claimed(S)
<1>1. PICK gone \in SUBSET pending :
        /\ Takes(gone, {e \in pending : Trimmed(e)}, room[r])
        /\ Takes(S, {e \in stale : ~Trimmed(e)}, room[r] - Cardinality(gone))
        /\ pending' = pending \ gone
        /\ stale' = stale \ (gone \cup S)
        /\ Delivered(S)
        /\ UNCHANGED seen
  BY DEF XAUTOCLAIM
<1>2. /\ gone \subseteq {e \in pending : Trimmed(e)}
      /\ S \subseteq {e \in stale : ~Trimmed(e)}
  BY <1>1 DEF Takes
<1>3. S \in SUBSET Events /\ \A e \in S : Emitted(e)
  BY DEF TypeInv, TypeOK, EntryInv
<1>4. IsFiniteSet(S)
  BY <1>3, EmittedFinite
<1> QED  BY <1>1, <1>2, <1>3, <1>4 DEF Claimed, TypeInv, TypeOK

LEMMA GroupRead ==
    ASSUME TypeInv, NEW r \in Replicas, NEW S \in SUBSET Undelivered, XREADGROUP(r, S)
    PROVE  Claimed(S)
<1>1. S \in SUBSET Events /\ \A e \in S : Emitted(e)
  BY DEF Undelivered
<1>2. IsFiniteSet(S)
  BY <1>1, EmittedFinite
<1> QED  BY <1>1, <1>2 DEF XREADGROUP, Claimed, Undelivered, TypeInv, TypeOK

LEMMA LostClaimed ==
    ASSUME TypeInv, NEW r \in Replicas, CallLost(r)
    PROVE  \E S \in SUBSET Events : Claimed(S)
<1>1. ASSUME NEW S \in SUBSET pending, XAUTOCLAIM(r, S)
      PROVE  \E T \in SUBSET Events : Claimed(T)
  BY <1>1, AutoClaimed DEF TypeInv, TypeOK
<1>2. ASSUME NEW S \in SUBSET Undelivered, XREADGROUP(r, S)
      PROVE  \E T \in SUBSET Events : Claimed(T)
  BY <1>2, GroupRead DEF Undelivered
<1>3. CASE UNCHANGED groupVars
  BY <1>3, NothingClaimed DEF TypeInv
<1> QED  BY <1>1, <1>2, <1>3 DEF CallLost

(* A step of a replica hands out entries and spawns their tasks, or is a
   disruption in which it loses all of its own. *)
ReplicaMoves(r, S) ==
    /\ Claimed(S)
    /\ \/ Spawn(r, S) /\ disruptions' = disruptions
       \/ tasks' = tasks \ TasksOf(r) /\ disruptions' = disruptions + 1

LEMMA ReplicaStep ==
    ASSUME TypeInv, NEW r \in Replicas, ReplicaNext(r)
    PROVE  /\ UNCHANGED <<streamVars, buried, historyVars>>
           /\ \E S \in SUBSET Events : ReplicaMoves(r, S)
<1>1. UNCHANGED <<streamVars, buried, historyVars>>
  BY DEF ReplicaNext, StartReplica, CancelReplica, BeginFetch, Reclaim, ReadGroup,
         FetchFails, LoopFails, Drained, ShutdownAborts, Crash
<1> SUFFICES \E S \in SUBSET Events : ReplicaMoves(r, S)
  BY <1>1
<1>2. CASE StartReplica(r) \/ CancelReplica(r) \/ BeginFetch(r) \/ Drained(r)
  <2>1. UNCHANGED <<groupVars, tasks, disruptions>>
    BY <1>2 DEF StartReplica, CancelReplica, BeginFetch, Drained
  <2>2. Claimed({}) /\ Spawn(r, {})
    BY <2>1, NothingClaimed DEF Spawn, TypeInv
  <2> QED  BY <2>1, <2>2 DEF ReplicaMoves
<1>3. CASE Reclaim(r)
  <2>1. PICK S \in SUBSET pending : XAUTOCLAIM(r, S) /\ Spawn(r, S)
    BY <1>3 DEF Reclaim
  <2>2. Claimed(S) /\ S \in SUBSET Events
    BY <2>1, AutoClaimed DEF TypeInv, TypeOK
  <2> QED  BY <1>3, <2>1, <2>2 DEF ReplicaMoves, Reclaim
<1>4. CASE ReadGroup(r)
  <2>1. PICK S \in SUBSET Undelivered : XREADGROUP(r, S) /\ Spawn(r, S)
    BY <1>4 DEF ReadGroup
  <2>2. Claimed(S) /\ S \in SUBSET Events
    BY <2>1, GroupRead DEF Undelivered
  <2> QED  BY <1>4, <2>1, <2>2 DEF ReplicaMoves, ReadGroup
<1>5. CASE FetchFails(r) \/ ShutdownAborts(r) \/ Crash(r)
  <2>1. PICK S \in SUBSET Events : Claimed(S)
    BY <1>5, LostClaimed DEF FetchFails, ShutdownAborts, Crash
  <2> QED
    BY <1>5, <2>1 DEF ReplicaMoves, FetchFails, ShutdownAborts, Crash, Abandon, Disrupt,
                      Disrupted
<1>6. CASE LoopFails(r)
  BY <1>6, NothingClaimed DEF LoopFails, ReplicaMoves, Abandon, Disrupted, TypeInv
<1> QED  BY <1>2, <1>3, <1>4, <1>5, <1>6 DEF ReplicaNext

(* A task goes on as another task for the same delivery, or ends. *)
Successor(t, u) ==
    u \in Task /\ u.rep = t.rep /\ u.evt = t.evt /\ u.turn = t.turn

(* What the steps of a task have in common. *)
TaskMoves(t) ==
    /\ UNCHANGED <<streamVars, seen, deliveries>>
    /\ pending' \subseteq pending
    /\ \A e \in pending \ pending' : e = t.evt /\ (Trimmed(e) \/ t.phase = "ack")
    /\ stale' \subseteq stale /\ stale' \subseteq pending'
    /\ \A e \in stale \ stale' : e = t.evt
    /\ \/ \E u : Successor(t, u) /\ tasks' = (tasks \ {t}) \cup {u}
       \/ tasks' = tasks \ {t}
       \/ tasks' = tasks

LEMMA PhaseSuccessor ==
    ASSUME NEW t \in Task, NEW p \in Phases
    PROVE  /\ Successor(t, [t EXCEPT !.phase = p])
           /\ [t EXCEPT !.phase = p].phase = p
BY DEF Successor, Task

LEMMA RunningSuccessor ==
    ASSUME NEW t \in Task, NEW n \in Nat
    PROVE  /\ Successor(t, [t EXCEPT !.phase = "running", !.attempt = n])
           /\ [t EXCEPT !.phase = "running", !.attempt = n].phase = "running"
           /\ [t EXCEPT !.phase = "running", !.attempt = n].attempt = n
BY DEF Successor, Task, Phases

(* The attempt that pending_attempt reads back is one of those made. *)
LEMMA AttemptMade ==
    ASSUME TypeInv, NEW t \in tasks
    PROVE  /\ PendingAttempt(t.evt) \in 1..deliveries[t.evt]
           /\ PendingAttempt(t.evt) \in Nat
<1>1. t.evt \in Events /\ deliveries[t.evt] \in Nat /\ deliveries[t.evt] >= 1
  BY DEF TypeInv, TypeOK, EntryInv, Task
<1> QED  BY <1>1 DEF PendingAttempt

LEMMA TaskStep ==
    ASSUME TypeInv, NEW t \in tasks, TaskNext(t)
    PROVE  TaskMoves(t)
<1>1. t \in Task /\ t.evt \in Events /\ PendingAttempt(t.evt) \in Nat
  BY AttemptMade DEF TypeInv, TypeOK, Task
<1>2. UNCHANGED <<streamVars, seen, deliveries>>
  BY DEF TaskNext, Discard, Invoke, AttemptUnknown, Heartbeat, HeartbeatFails,
         HandlerSettles, HandlerFails, HandlerPanics, Bury, BuryFails, Ack, AckFails,
         Touch, XACK, groupVars
<1>3. /\ pending' \subseteq pending
      /\ \A e \in pending \ pending' : e = t.evt /\ (Trimmed(e) \/ t.phase = "ack")
      /\ stale' \subseteq stale /\ stale' \subseteq pending'
      /\ \A e \in stale \ stale' : e = t.evt
  <2>1. CASE UNCHANGED groupVars
    BY <2>1 DEF groupVars, TypeInv, TypeOK
  <2>2. CASE Touch(t)
    BY <2>2 DEF Touch, TypeInv, TypeOK
  <2>3. CASE XACK(t.evt) /\ t.phase = "ack"
    BY <2>3 DEF XACK, TypeInv, TypeOK
  <2> QED
    BY <2>1, <2>2, <2>3 DEF TaskNext, Discard, Invoke, AttemptUnknown, Heartbeat,
       HeartbeatFails, HandlerSettles, HandlerFails, HandlerPanics, Bury, BuryFails,
       Ack, AckFails
<1>4. \/ \E u : Successor(t, u) /\ tasks' = (tasks \ {t}) \cup {u}
      \/ tasks' = tasks \ {t}
      \/ tasks' = tasks
  <2>1. CASE \E p \in Phases : Becomes(t, p)
    BY <1>1, <2>1, PhaseSuccessor DEF Becomes
  <2>2. CASE Invoke(t)
    BY <1>1, <2>2, RunningSuccessor DEF Invoke
  <2>3. CASE Ends(t) \/ tasks' = tasks
    BY <2>3 DEF Ends
  <2> QED
    BY <2>1, <2>2, <2>3 DEF TaskNext, Discard, AttemptUnknown, Heartbeat,
       HeartbeatFails, HandlerSettles, HandlerFails, HandlerPanics, Bury, BuryFails,
       Ack, AckFails, Phases
<1> QED  BY <1>2, <1>3, <1>4 DEF TaskMoves

-----------------------------------------------------------------------------
(* Type correctness. *)

LEMMA TypeInit == Init => TypeInv
<1> SUFFICES ASSUME Init PROVE TypeInv
  OBVIOUS
<1> USE DEF Init
<1>1. service \in Service /\ Concurrency \in Nat \ {0}
  BY ServicesAssumption DEF Service, Concurrency
<1>2. {e \in Events : Emitted(e)} = {}
  BY DEF Emitted
<1>3. IsFiniteSet({})
  BY FS_EmptySet
<1>4. TypeOK
  BY <1>1, <1>3 DEF TypeOK
<1> QED  BY <1>2, <1>3, <1>4 DEF TypeInv, EntryInv

(* MAXLEN moves the trimming point forward, and not past the last entry. *)
LEMMA Trimming ==
    ASSUME TypeOK, tail' = tail + 1, MAXLEN
    PROVE  trimmed' \in 0..tail' /\ trimmed' >= trimmed /\ tail' \in Nat
<1>1. /\ service.retention \in Nat /\ tail \in Nat /\ trimmed \in Nat
      /\ trimmed <= tail
  BY DEF TypeOK, Service
<1>2. CASE trimmed' = trimmed
  BY <1>1, <1>2
<1>3. CASE trimmed' \in trimmed..(tail' - service.retention)
  BY <1>1, <1>3
<1> QED  BY <1>2, <1>3 DEF MAXLEN

LEMMA TypeEmit ==
    ASSUME TypeInv, NEW e \in Events, Emit(e), service' = service
    PROVE  TypeInv'
<1>1. /\ tail' = tail + 1 /\ pos' = [pos EXCEPT ![e] = tail']
      /\ trimmed' \in 0..tail' /\ tail' \in Nat
      /\ UNCHANGED <<seen, pending, stale, deliveries, status, loop, room, tasks,
                     disruptions, buried, historyVars>>
  BY Trimming DEF Emit, TypeInv, groupVars, loopVars
<1>2. TypeOK'
  BY <1>1 DEF TypeInv, TypeOK, historyVars, Concurrency
<1>3. /\ \A f \in Events : f # e => pos'[f] = pos[f]
      /\ \A f \in Events : Emitted(f) => Emitted(f)'
  BY <1>1 DEF TypeInv, TypeOK, Emitted
<1>4. {f \in Events : Emitted(f)'} \subseteq {f \in Events : Emitted(f)} \cup {e}
  BY <1>3 DEF Emitted
<1>5. IsFiniteSet({f \in Events : Emitted(f)} \cup {e})
  BY FS_AddElement DEF TypeInv, EntryInv
<1>6. IsFiniteSet({f \in Events : Emitted(f)'})
  BY <1>4, <1>5, Fewer
<1>7. EntryInv'
  BY <1>1, <1>3, <1>6 DEF TypeInv, TypeOK, EntryInv
<1> QED  BY <1>2, <1>7 DEF TypeInv

LEMMA TypeIdle ==
    ASSUME TypeInv, NEW e \in Events, IdleElapses(e), service' = service
    PROVE  TypeInv'
<1>1. /\ stale' = stale \cup {e} /\ e \in pending /\ disruptions' \in Nat
      /\ UNCHANGED <<streamVars, seen, pending, deliveries, loopVars, tasks, buried,
                     historyVars>>
  BY DEF IdleElapses, Disrupt, Disrupted, TypeInv, TypeOK
<1>2. TypeOK'
  BY <1>1 DEF TypeInv, TypeOK, streamVars, loopVars, historyVars, Concurrency
<1>3. EntryInv'
  BY <1>1 DEF TypeInv, EntryInv, Emitted, streamVars
<1> QED  BY <1>2, <1>3 DEF TypeInv

LEMMA NewTaskTyped ==
    ASSUME TypeOK, NEW r \in Replicas, NEW e \in Events
    PROVE  /\ NewTask(r, e) \in Task
           /\ NewTask(r, e).rep = r /\ NewTask(r, e).evt = e
           /\ NewTask(r, e).turn = deliveries[e] + 1
           /\ NewTask(r, e).phase = "claimed"
BY DEF NewTask, Task, TypeOK, Phases

LEMMA SpawnTyped ==
    ASSUME TypeOK, NEW r \in Replicas, NEW S \in SUBSET Events, IsFiniteSet(S),
           Spawn(r, S)
    PROVE  tasks' \subseteq Task /\ IsFiniteSet(tasks')
<1> DEFINE F == {NewTask(r, e) : e \in S}
           g == [e \in S |-> NewTask(r, e)]
<1>1. g \in Surjection(S, F)
  BY DEF Surjection
<1>2. IsFiniteSet(F)
  BY <1>1, FS_Surjection
<1>3. F \subseteq Task
  BY NewTaskTyped
<1>4. IsFiniteSet(tasks \cup F)
  BY <1>2, FS_Union DEF TypeOK
<1> QED  BY <1>3, <1>4 DEF Spawn, TypeOK

(* The replica's own variables. *)
LEMMA LoopTyped ==
    ASSUME TypeInv, NEW r \in Replicas, ReplicaNext(r)
    PROVE  /\ status' \in [Replicas -> {"down", "up", "stopping"}]
           /\ loop' \in [Replicas -> {"top", "fetch", "read"}]
           /\ room' \in [Replicas -> 0..Concurrency]
<1>1. Concurrency \in Nat \ {0}
  BY Limits DEF TypeInv
<1>2. Cardinality(TasksOf(r)) \in Nat
  BY Fewer DEF TasksOf, TypeInv, TypeOK
<1>3. ASSUME BeginFetch(r)
      PROVE  Concurrency - Cardinality(TasksOf(r)) \in 0..Concurrency
  BY <1>1, <1>2, <1>3 DEF BeginFetch
<1>4. CASE BeginFetch(r)
  BY <1>1, <1>3, <1>4 DEF BeginFetch, TypeInv, TypeOK
<1>5. CASE Abandon(r)
  BY <1>1, <1>5 DEF Abandon, TypeInv, TypeOK
<1>6. CASE StartReplica(r) \/ CancelReplica(r) \/ Drained(r)
  BY <1>6 DEF StartReplica, CancelReplica, Drained, TypeInv, TypeOK
<1>7. CASE Reclaim(r) \/ ReadGroup(r)
  BY <1>1, <1>7 DEF Reclaim, ReadGroup, TypeInv, TypeOK
<1> QED
  BY <1>4, <1>5, <1>6, <1>7
  DEF ReplicaNext, FetchFails, LoopFails, ShutdownAborts, Crash

(* The tasks after a step of a replica: old ones, or one for a delivery. *)
LEMMA ReplicaTasks ==
    ASSUME TypeInv, NEW r \in Replicas, NEW S \in SUBSET Events, ReplicaMoves(r, S)
    PROVE  /\ tasks' \subseteq Task /\ IsFiniteSet(tasks')
           /\ \A t \in tasks' :
                \/ t \in tasks
                \/ /\ t.rep = r /\ t.evt \in S /\ t.phase = "claimed"
                   /\ t.turn = deliveries[t.evt] + 1
                   /\ disruptions' = disruptions
<1>1. CASE tasks' = tasks \ TasksOf(r)
  BY <1>1, Fewer DEF TypeInv, TypeOK
<1>2. CASE Spawn(r, S) /\ disruptions' = disruptions
  <2>1. tasks' \subseteq Task /\ IsFiniteSet(tasks')
    BY <1>2, SpawnTyped DEF ReplicaMoves, Claimed, TypeInv
  <2>2. ASSUME NEW t \in tasks', t \notin tasks
        PROVE  /\ t.rep = r /\ t.evt \in S /\ t.phase = "claimed"
               /\ t.turn = deliveries[t.evt] + 1
    <3>1. PICK e \in S : t = NewTask(r, e)
      BY <1>2, <2>2 DEF Spawn
    <3> QED  BY <3>1, NewTaskTyped DEF TypeInv
  <2> QED  BY <1>2, <2>1, <2>2
<1> QED  BY <1>1, <1>2 DEF ReplicaMoves

LEMMA TypeReplica ==
    ASSUME TypeInv, NEW r \in Replicas, ReplicaNext(r), service' = service
    PROVE  TypeInv'
<1>1. UNCHANGED <<streamVars, buried, historyVars>>
  BY ReplicaStep
<1>2. PICK S \in SUBSET Events : ReplicaMoves(r, S)
  BY ReplicaStep
<1>3. /\ deliveries' \in [Events -> Nat]
      /\ \A e \in Events :
            deliveries'[e] = IF e \in S THEN deliveries[e] + 1 ELSE deliveries[e]
  BY <1>2, DeliveredBy DEF ReplicaMoves, Claimed, TypeInv
<1>4. /\ seen' \subseteq Events /\ pending' \subseteq seen' /\ stale' \subseteq pending'
      /\ seen \subseteq seen' /\ S \subseteq seen' /\ \A e \in seen' : Emitted(e)
  BY <1>2 DEF ReplicaMoves, Claimed, TypeInv, TypeOK, EntryInv
<1>5. disruptions' \in Nat
  BY <1>2 DEF ReplicaMoves, TypeInv, TypeOK
<1>6. tasks' \subseteq Task /\ IsFiniteSet(tasks')
  BY <1>2, ReplicaTasks
<1>7. TypeOK'
  BY <1>1, <1>3, <1>4, <1>5, <1>6, LoopTyped
  DEF TypeInv, TypeOK, streamVars, historyVars, Concurrency
<1>8. ASSUME NEW t \in tasks'
      PROVE  /\ t.evt \in seen'
             /\ t.turn \in 1..deliveries'[t.evt]
             /\ t.phase = "running" => t.attempt \in 1..deliveries'[t.evt]
  <2>1. t.evt \in Events /\ deliveries[t.evt] \in Nat
    BY <1>6 DEF Task, TypeInv, TypeOK
  <2>2. CASE t \in tasks
    BY <1>3, <1>4, <2>1, <2>2 DEF TypeInv, EntryInv
  <2>3. CASE t.evt \in S /\ t.phase = "claimed" /\ t.turn = deliveries[t.evt] + 1
    BY <1>3, <1>4, <2>1, <2>3
  <2> QED  BY <1>2, <2>2, <2>3, ReplicaTasks
<1>9. EntryInv'
  BY <1>1, <1>4, <1>8 DEF TypeInv, EntryInv, Emitted, streamVars
<1> QED  BY <1>7, <1>9 DEF TypeInv

LEMMA TypeTask ==
    ASSUME TypeInv, NEW t \in tasks, TaskNext(t), service' = service
    PROVE  TypeInv'
<1>1. TaskMoves(t)
  BY TaskStep
<1>2. t \in Task /\ t.evt \in Events
  BY DEF TypeInv, TypeOK, Task
<1>3. /\ UNCHANGED loopVars
      /\ disruptions' \in Nat /\ buried' \in [Events -> Nat]
      /\ discarded' \subseteq service.invalid /\ handled' \subseteq Events
      /\ exhausted' \subseteq Events
      /\ invocations' \in [Events -> Nat] /\ failures' \in [Events -> Nat]
  <2> USE <1>2 DEF TypeInv, TypeOK, historyVars, Again, Disrupt, Disrupted
  <2>1. CASE Discard(t)  BY <2>1 DEF Discard
  <2>2. CASE Invoke(t)  BY <2>2 DEF Invoke
  <2>3. CASE AttemptUnknown(t)  BY <2>3 DEF AttemptUnknown
  <2>4. CASE Heartbeat(t) \/ HeartbeatFails(t)
    BY <2>4 DEF Heartbeat, HeartbeatFails
  <2>5. CASE HandlerSettles(t)  BY <2>5 DEF HandlerSettles
  <2>6. CASE HandlerFails(t)  BY <2>6 DEF HandlerFails
  <2>7. CASE HandlerPanics(t)  BY <2>7 DEF HandlerPanics
  <2>8. CASE Bury(t) \/ BuryFails(t)
    BY <2>8 DEF Bury, BuryFails
  <2>9. CASE Ack(t) \/ AckFails(t)
    BY <2>9 DEF Ack, AckFails
  <2> QED  BY <2>1, <2>2, <2>3, <2>4, <2>5, <2>6, <2>7, <2>8, <2>9 DEF TaskNext
<1>4. tasks' \subseteq Task /\ IsFiniteSet(tasks')
  <2>1. IsFiniteSet(tasks \ {t})
    BY FS_Difference DEF TypeInv, TypeOK
  <2>2. \A u : IsFiniteSet((tasks \ {t}) \cup {u})
    BY <2>1, FS_AddElement
  <2> QED  BY <1>1, <2>1, <2>2 DEF TaskMoves, Successor, TypeInv, TypeOK
<1>5. TypeOK'
  BY <1>1, <1>3, <1>4
  DEF TypeInv, TypeOK, TaskMoves, streamVars, loopVars, Concurrency
<1>6. ASSUME NEW u \in tasks'
      PROVE  /\ u.evt \in seen'
             /\ u.turn \in 1..deliveries'[u.evt]
             /\ u.phase = "running" => u.attempt \in 1..deliveries'[u.evt]
  <2>1. CASE u \in tasks
    BY <1>1, <2>1 DEF TaskMoves, TypeInv, EntryInv
  <2>2. CASE u \notin tasks
    <3>1. u.evt = t.evt /\ u.turn = t.turn
      BY <1>1, <2>2 DEF TaskMoves, Successor
    <3>2. u.phase = "running" => u.attempt \in 1..deliveries[u.evt]
      <4>1. CASE Invoke(t)
        <5>1. u = [t EXCEPT !.phase = "running", !.attempt = PendingAttempt(t.evt)]
          BY <2>2, <4>1 DEF Invoke
        <5>2. u.attempt = PendingAttempt(t.evt)
          BY <1>2, <5>1, AttemptMade, RunningSuccessor
        <5> QED  BY <3>1, <5>2, AttemptMade
      <4>2. CASE \E p \in Phases \ {"running"} : Becomes(t, p)
        BY <1>2, <2>2, <4>2, PhaseSuccessor DEF Becomes
      <4>3. CASE tasks' \subseteq tasks
        BY <2>2, <4>3
      <4> QED
        BY <4>1, <4>2, <4>3 DEF TaskNext, Discard, AttemptUnknown, Heartbeat,
           HeartbeatFails, HandlerSettles, HandlerFails, HandlerPanics, Bury, BuryFails,
           Ack, AckFails, Phases, Ends
    <3> QED  BY <1>1, <3>1, <3>2 DEF TaskMoves, TypeInv, EntryInv
  <2> QED  BY <2>1, <2>2
<1>7. EntryInv'
  BY <1>1, <1>6 DEF TypeInv, EntryInv, TaskMoves, Emitted, streamVars
<1> QED  BY <1>5, <1>7 DEF TypeInv

LEMMA TypeStutter == ASSUME TypeInv, UNCHANGED vars PROVE TypeInv'
BY DEF TypeInv, TypeOK, EntryInv, Emitted, vars, stateVars, streamVars, groupVars,
       loopVars, historyVars, Concurrency

LEMMA TypeInductive == Spec => []TypeInv
<1>1. TypeInv /\ [Next]_vars => TypeInv'
  BY TypeEmit, TypeIdle, TypeReplica, TypeTask, TypeStutter DEF Next
<1> QED  BY <1>1, TypeInit, PTL DEF Spec

(* Every variable keeps its type: what is stale is pending, what is pending was
   seen, and each replica runs a finite set of tasks. *)
THEOREM TypeCorrect == Spec => []TypeOK
<1>1. TypeInv => TypeOK  BY DEF TypeInv
<1> QED  BY <1>1, TypeInductive, PTL

-----------------------------------------------------------------------------
(* At least once. *)

(* Why an event may leave the pending list. *)
Justified(e) ==
    \/ e \in handled \cup discarded
    \/ e \in exhausted /\ (service.deadLetters => buried[e] > 0)

(* What a task that is about to bury or acknowledge its event has done. *)
TaskInv ==
    \A t \in tasks :
        /\ t.phase = "ack" => Justified(t.evt)
        /\ t.phase = "bury" => t.evt \in exhausted

LimitInv ==
    \A e \in Events :
        /\ e \in exhausted => deliveries[e] >= MaxDeliveries
        /\ buried[e] > 0 => e \in exhausted

SettleInv == TaskInv /\ LimitInv /\ AtLeastOnce

LEMMA SettleInit == Init => SettleInv
BY DEF Init, SettleInv, TaskInv, LimitInv, AtLeastOnce

(* Steps that neither settle an event nor touch its history. *)
LEMMA SettleElsewhere ==
    ASSUME TypeInv, TypeInv', SettleInv, UNCHANGED <<service, buried, historyVars>>,
           \A e \in Events : deliveries'[e] >= deliveries[e],
           \A e \in Events : Trimmed(e) => Trimmed(e)',
           \A e \in seen' : e \in seen \/ e \in pending',
           \A e \in pending \ pending' : Trimmed(e)',
           \A t \in tasks' : t \in tasks \/ t.phase = "claimed"
    PROVE  SettleInv'
<1> USE DEF SettleInv, historyVars
<1>1. TaskInv'
  BY DEF TaskInv, Justified
<1>2. LimitInv'
  <2> SUFFICES ASSUME NEW e \in Events, e \in exhausted
               PROVE  deliveries'[e] >= MaxDeliveries
    BY DEF LimitInv, MaxDeliveries
  <2>1. deliveries[e] >= MaxDeliveries /\ deliveries'[e] >= deliveries[e]
    BY DEF LimitInv
  <2>2. MaxDeliveries \in Nat /\ deliveries[e] \in Nat /\ deliveries'[e] \in Nat
    BY Limits DEF TypeInv, TypeOK
  <2> QED  BY <2>1, <2>2
<1>3. AtLeastOnce'
  BY DEF AtLeastOnce, TypeInv, TypeOK
<1> QED  BY <1>1, <1>2, <1>3

LEMMA SettleEvent ==
    ASSUME TypeInv, TypeInv', SettleInv, NEW e \in Events, Emit(e) \/ IdleElapses(e),
           service' = service
    PROVE  SettleInv'
<1>1. /\ UNCHANGED <<seen, pending, deliveries, tasks, buried, historyVars>>
      /\ \A f \in Events : Trimmed(f) => Trimmed(f)'
  <2>1. CASE Emit(e)
    <3>1. trimmed' >= trimmed /\ trimmed' \in Int /\ trimmed \in Int
      BY <2>1, Trimming DEF Emit, TypeInv, TypeOK
    <3>2. \A f \in Events : Emitted(f) => pos'[f] = pos[f] /\ pos[f] \in Nat
      BY <2>1 DEF Emit, Emitted, TypeInv, TypeOK
    <3> QED  BY <2>1, <3>1, <3>2 DEF Emit, groupVars, Trimmed, Emitted
  <2>2. CASE IdleElapses(e)
    BY <2>2 DEF IdleElapses, Trimmed, Emitted, streamVars
  <2> QED  BY <2>1, <2>2
<1>2. \A f \in Events : deliveries'[f] >= deliveries[f]
  BY <1>1 DEF TypeInv, TypeOK
<1> QED  BY <1>1, <1>2, SettleElsewhere

LEMMA SettleReplica ==
    ASSUME TypeInv, TypeInv', SettleInv, NEW r \in Replicas, ReplicaNext(r),
           service' = service
    PROVE  SettleInv'
<1>1. UNCHANGED <<streamVars, buried, historyVars>>
  BY ReplicaStep
<1>2. PICK S \in SUBSET Events : ReplicaMoves(r, S)
  BY ReplicaStep
<1>3. \A e \in Events : deliveries'[e] >= deliveries[e]
  <2>1. \A e \in Events :
            deliveries'[e] = IF e \in S THEN deliveries[e] + 1 ELSE deliveries[e]
    BY <1>2, DeliveredBy DEF ReplicaMoves, Claimed, TypeInv
  <2> QED  BY <2>1 DEF TypeInv, TypeOK
<1>4. /\ \A e \in seen' : e \in seen \/ e \in pending'
      /\ \A e \in pending \ pending' : Trimmed(e)
  BY <1>2 DEF ReplicaMoves, Claimed
<1>5. \A e \in Events : Trimmed(e)' <=> Trimmed(e)
  BY <1>1 DEF Trimmed, Emitted, streamVars
<1>6. \A t \in tasks' : t \in tasks \/ t.phase = "claimed"
  BY <1>2, ReplicaTasks
<1> QED
  BY <1>1, <1>3, <1>4, <1>5, <1>6, SettleElsewhere DEF TypeInv, TypeOK

(* A task settles no event but its own. *)
LEMMA SettleHistory ==
    ASSUME TypeInv, SettleInv, NEW t \in tasks, TaskNext(t)
    PROVE  /\ handled \subseteq handled' /\ discarded \subseteq discarded'
           /\ exhausted \subseteq exhausted'
           /\ \A e \in Events : buried[e] > 0 => buried'[e] > 0
           /\ \A e \in exhausted' : e \in exhausted \/ deliveries[e] >= MaxDeliveries
           /\ \A e \in Events : buried'[e] > 0 => e \in exhausted
<1> USE DEF SettleInv, historyVars
<1>1. t.evt \in Events
  BY DEF TypeInv, TypeOK, Task
<1>2. CASE HandlerFails(t)
  <2>1. ASSUME ~(t.attempt < MaxDeliveries)
        PROVE  deliveries[t.evt] >= MaxDeliveries
    <3>1. t.attempt \in 1..deliveries[t.evt]
      BY <1>2 DEF HandlerFails, TypeInv, EntryInv
    <3>2. MaxDeliveries \in Nat /\ deliveries[t.evt] \in Nat
      BY <1>1, Limits DEF TypeInv, TypeOK
    <3> QED  BY <2>1, <3>1, <3>2
  <2> QED  BY <1>2, <2>1 DEF HandlerFails, LimitInv
<1>3. CASE Bury(t) \/ BuryFails(t)
  <2>1. t.evt \in exhausted
    BY <1>3 DEF Bury, BuryFails, TaskInv
  <2>2. buried' = buried \/ buried' = Again(buried, t.evt)
    BY <1>3 DEF Bury, BuryFails
  <2>3. \A e \in Events : \/ buried'[e] = buried[e]
                          \/ e = t.evt /\ buried'[e] = buried[e] + 1
    BY <1>1, <2>2 DEF Again, TypeInv, TypeOK
  <2> QED  BY <1>3, <2>1, <2>3 DEF Bury, BuryFails, LimitInv, TypeInv, TypeOK
<1>4. CASE buried' = buried /\ exhausted' = exhausted
           /\ handled \subseteq handled' /\ discarded \subseteq discarded'
  BY <1>4 DEF LimitInv
<1> QED
  BY <1>2, <1>3, <1>4 DEF TaskNext, Discard, Invoke, AttemptUnknown, Heartbeat,
     HeartbeatFails, HandlerSettles, HandlerPanics, Ack, AckFails

LEMMA SettleTask ==
    ASSUME TypeInv, TypeInv', SettleInv, NEW t \in tasks, TaskNext(t),
           service' = service
    PROVE  SettleInv'
<1>1. t \in Task /\ t.evt \in Events
  BY DEF TypeInv, TypeOK, Task
<1>2. TaskMoves(t)
  BY TaskStep
<1>3. \A e \in Events : Justified(e) => Justified(e)'
  BY SettleHistory DEF Justified
<1>4. ASSUME NEW u \in tasks', u \notin tasks
      PROVE  /\ u.phase = "ack" => Justified(t.evt)'
             /\ u.phase = "bury" => t.evt \in exhausted'
             /\ u.evt = t.evt
  <2>1. u.evt = t.evt
    BY <1>2, <1>4 DEF TaskMoves, Successor
  <2>2. ASSUME NEW p \in Phases, Becomes(t, p) PROVE u.phase = p
    BY <1>1, <1>4, <2>2, PhaseSuccessor DEF Becomes
  <2>3. CASE Discard(t)  BY <2>1, <2>2, <2>3 DEF Discard, Justified, Phases
  <2>4. CASE HandlerSettles(t)  BY <2>1, <2>2, <2>4 DEF HandlerSettles, Justified, Phases
  <2>5. CASE HandlerFails(t)
    <3>1. PICK p \in Phases : /\ Becomes(t, p) /\ t.evt \in exhausted'
                              /\ p = IF service.deadLetters THEN "bury" ELSE "ack"
      BY <1>4, <2>5 DEF HandlerFails, Ends, Phases
    <3> QED  BY <2>1, <2>2, <3>1 DEF Justified
  <2>6. CASE Bury(t)
    <3>1. t.evt \in exhausted'
      BY <2>6 DEF Bury, historyVars, SettleInv, TaskInv
    <3>2. buried'[t.evt] > 0
      BY <1>1, <2>6 DEF Bury, Again, TypeInv, TypeOK
    <3>3. u.phase = "ack"
      BY <2>2, <2>6 DEF Bury, Phases
    <3> QED  BY <2>1, <3>1, <3>2, <3>3 DEF Justified
  <2>7. CASE Invoke(t)
    <3>1. u = [t EXCEPT !.phase = "running", !.attempt = PendingAttempt(t.evt)]
      BY <1>4, <2>7 DEF Invoke
    <3>2. u.phase = "running"
      BY <1>1, <3>1, AttemptMade, RunningSuccessor
    <3> QED  BY <2>1, <3>2
  <2>8. CASE Becomes(t, "failed")
    BY <2>1, <2>2, <2>8 DEF Phases
  <2>9. CASE tasks' \subseteq tasks
    BY <1>4, <2>9
  <2> QED
    BY <2>3, <2>4, <2>5, <2>6, <2>7, <2>8, <2>9 DEF TaskNext, AttemptUnknown,
       Heartbeat, HeartbeatFails, HandlerPanics, BuryFails, Ack, AckFails, Ends
<1>5. TaskInv'
  <2> SUFFICES ASSUME NEW u \in tasks'
               PROVE  /\ u.phase = "ack" => Justified(u.evt)'
                      /\ u.phase = "bury" => u.evt \in exhausted'
    BY DEF TaskInv
  <2>1. CASE u \in tasks
    <3>1. u.evt \in Events
      BY <2>1 DEF TypeInv, TypeOK, Task
    <3> QED  BY <1>3, <2>1, <3>1, SettleHistory DEF SettleInv, TaskInv
  <2> QED  BY <1>4, <2>1
<1>6. LimitInv'
  BY <1>2, SettleHistory
  DEF LimitInv, SettleInv, TaskMoves, MaxDeliveries, TypeInv, TypeOK
<1>7. AtLeastOnce'
  <2> SUFFICES ASSUME NEW e \in seen
               PROVE  e \in pending' \/ Trimmed(e)' \/ Justified(e)'
    BY <1>2 DEF AtLeastOnce, TaskMoves, Justified
  <2>1. e \in Events /\ (Trimmed(e)' <=> Trimmed(e))
    BY <1>2 DEF TaskMoves, Trimmed, Emitted, streamVars, TypeInv, TypeOK
  <2>2. e \in pending \/ Trimmed(e) \/ Justified(e)
    BY DEF SettleInv, AtLeastOnce, Justified
  <2>3. CASE e \in pending \ pending'
    <3>1. Trimmed(e) \/ (e = t.evt /\ t.phase = "ack")
      BY <1>2, <2>3 DEF TaskMoves
    <3> QED  BY <1>3, <2>1, <3>1 DEF SettleInv, TaskInv
  <2> QED  BY <1>3, <2>1, <2>2, <2>3
<1> QED  BY <1>5, <1>6, <1>7 DEF SettleInv

LEMMA SettleStutter == ASSUME SettleInv, UNCHANGED vars PROVE SettleInv'
BY DEF SettleInv, TaskInv, LimitInv, AtLeastOnce, Justified, MaxDeliveries, Trimmed,
       Emitted, vars, stateVars, streamVars, groupVars, historyVars

LEMMA SettleInductive == Spec => []SettleInv
<1>1. TypeInv /\ TypeInv' /\ SettleInv /\ [Next]_vars => SettleInv'
  BY SettleEvent, SettleReplica, SettleTask, SettleStutter DEF Next
<1> QED  BY <1>1, SettleInit, TypeInductive, PTL DEF Spec

(* At least once: an event the group was given leaves the pending list only
   trimmed, settled by its handler, discarded, or given up after its last attempt
   with its copy in the dead-letter Stream (process_event_entry). *)
THEOREM EventsAreSettled == Spec => []AtLeastOnce
<1>1. SettleInv => AtLeastOnce  BY DEF SettleInv
<1> QED  BY <1>1, SettleInductive, PTL

-----------------------------------------------------------------------------
(* What is certain as long as nothing went wrong. *)

(* An event is in one task at a time, which keeps it from being claimed. *)
SoleInv ==
    /\ \A t, u \in tasks : t.evt = u.evt => t = u
    /\ \A t \in tasks :
        /\ t.evt \notin stale /\ t.phase # "failed"
        /\ t.phase \in {"claimed", "running"} => t.evt \in pending \/ Trimmed(t.evt)

(* Nothing came of the event yet. *)
Open(e) == buried[e] = 0 /\ e \notin handled

(* Every delivery but the one at work ended in a failure. *)
TaskTally(t) ==
    /\ t.phase \in {"claimed", "running"} =>
        /\ deliveries[t.evt] = failures[t.evt] + 1
        /\ deliveries[t.evt] <= MaxDeliveries
        /\ Open(t.evt)
    /\ t.phase = "running" =>
        t.attempt = deliveries[t.evt] \/ (t.attempt = 1 /\ t.evt \notin pending)
    /\ t.phase = "bury" => failures[t.evt] = MaxDeliveries /\ Open(t.evt)

Tally(e) ==
    /\ e \notin seen => deliveries[e] = 0 /\ failures[e] = 0 /\ Open(e)
    /\ e \in pending /\ (\A t \in tasks : t.evt # e) =>
        failures[e] = deliveries[e] /\ deliveries[e] < MaxDeliveries /\ Open(e)
    /\ buried[e] > 0 =>
        buried[e] = 1 /\ failures[e] = MaxDeliveries /\ e \notin handled

CountInv == (\A t \in tasks : TaskTally(t)) /\ (\A e \in Events : Tally(e))

QuietInv == disruptions = 0 => SoleInv /\ CountInv

LEMMA QuietInit == Init => QuietInv
BY DEF Init, QuietInv, SoleInv, CountInv, Tally, Open

LEMMA QuietEvent ==
    ASSUME TypeInv, TypeInv', SoleInv, CountInv, NEW e \in Events,
           Emit(e) \/ IdleElapses(e), disruptions' = disruptions, service' = service
    PROVE  SoleInv' /\ CountInv'
<1>1. /\ UNCHANGED <<seen, pending, deliveries, tasks, buried, historyVars>>
      /\ stale' \subseteq stale \cup {e}
      /\ ~Attended(e) \/ stale' = stale
  BY DEF Emit, IdleElapses, Disrupt, Disrupted, groupVars, TypeInv, TypeOK
<1>2. \A f \in Events : Trimmed(f) => Trimmed(f)'
  <2>1. CASE Emit(e)
    <3>1. trimmed' >= trimmed /\ trimmed' \in Int /\ trimmed \in Int
      BY <2>1, Trimming DEF Emit, TypeInv, TypeOK
    <3>2. \A f \in Events : Emitted(f) => pos'[f] = pos[f] /\ pos[f] \in Nat
      BY <2>1 DEF Emit, Emitted, TypeInv, TypeOK
    <3> QED  BY <3>1, <3>2 DEF Trimmed, Emitted
  <2>2. CASE IdleElapses(e)
    BY <2>2 DEF IdleElapses, Trimmed, Emitted, streamVars
  <2> QED  BY <2>1, <2>2
<1>3. SoleInv'
  <2>1. ASSUME NEW t \in tasks
        PROVE  t.evt \notin stale'
    BY <1>1 DEF SoleInv, Attended, Live
  <2> QED  BY <1>1, <1>2, <2>1 DEF SoleInv, TypeInv, TypeOK, Task
<1>4. CountInv'
  BY <1>1 DEF CountInv, TaskTally, Tally, Open, MaxDeliveries, historyVars
<1> QED  BY <1>3, <1>4

(* What is claimed undisturbed is in no task and has failed whenever it was
   delivered before. *)
LEMMA ClaimedFresh ==
    ASSUME TypeInv, SoleInv, CountInv, NEW S \in SUBSET Events, Claimed(S), NEW e \in S
    PROVE  /\ \A t \in tasks : t.evt # e
           /\ failures[e] = deliveries[e] /\ deliveries[e] < MaxDeliveries /\ Open(e)
<1>1. e \in stale \/ e \notin seen
  BY DEF Claimed
<1>2. \A t \in tasks : t.evt # e
  BY <1>1 DEF SoleInv, TypeInv, EntryInv
<1>3. CASE e \in stale
  BY <1>2, <1>3 DEF CountInv, Tally, TypeInv, TypeOK
<1>4. CASE e \notin seen
  <2>1. deliveries[e] = 0 /\ failures[e] = 0 /\ Open(e)
    BY <1>4 DEF CountInv, Tally
  <2>2. 0 < MaxDeliveries
    BY Limits DEF TypeInv
  <2> QED  BY <1>2, <2>1, <2>2
<1> QED  BY <1>1, <1>2, <1>3, <1>4

LEMMA QuietReplica ==
    ASSUME TypeInv, TypeInv', SoleInv, CountInv, NEW r \in Replicas, ReplicaNext(r),
           disruptions' = disruptions, service' = service
    PROVE  SoleInv' /\ CountInv'
<1>1. UNCHANGED <<streamVars, buried, historyVars>>
  BY ReplicaStep
<1>2. PICK S \in SUBSET Events : ReplicaMoves(r, S)
  BY ReplicaStep
<1>3. Claimed(S) /\ tasks' = tasks \cup {NewTask(r, e) : e \in S}
  BY <1>2 DEF ReplicaMoves, Spawn, TypeInv, TypeOK
<1>4. \A e \in Events :
          deliveries'[e] = IF e \in S THEN deliveries[e] + 1 ELSE deliveries[e]
  BY <1>3, DeliveredBy DEF Claimed, TypeInv
<1>5. /\ seen' = seen \cup S /\ pending' \subseteq pending \cup S /\ S \subseteq pending'
      /\ \A e \in pending \ pending' : Trimmed(e)
      /\ stale' \subseteq stale \ S
  BY <1>3 DEF Claimed
<1>6. \A e \in Events : Trimmed(e)' <=> Trimmed(e)
  BY <1>1 DEF Trimmed, Emitted, streamVars
<1>7. ASSUME NEW t \in tasks'
      PROVE  \/ t \in tasks /\ t.evt \in Events /\ t.evt \notin S
             \/ t.evt \in S /\ t = NewTask(r, t.evt) /\ t.phase = "claimed"
  <2>1. CASE t \in tasks
    BY <1>3, <2>1, ClaimedFresh DEF TypeInv, TypeOK, Task
  <2>2. CASE \E e \in S : t = NewTask(r, e)
    BY <2>2, NewTaskTyped DEF TypeInv
  <2> QED  BY <1>3, <2>1, <2>2
<1>8. SoleInv'
  <2>1. ASSUME NEW t \in tasks', NEW u \in tasks', t.evt = u.evt
        PROVE  t = u
    BY <1>7, <2>1 DEF SoleInv
  <2>2. ASSUME NEW t \in tasks'
        PROVE  /\ t.evt \notin stale' /\ t.phase # "failed"
               /\ t.phase \in {"claimed", "running"} =>
                    t.evt \in pending' \/ Trimmed(t.evt)'
    BY <1>5, <1>6, <1>7 DEF SoleInv
  <2> QED  BY <2>1, <2>2 DEF SoleInv
<1>9. ASSUME NEW t \in tasks'
      PROVE  TaskTally(t)'
  <2>1. CASE t \in tasks /\ t.evt \in Events /\ t.evt \notin S
    <3>1. TaskTally(t) /\ deliveries'[t.evt] = deliveries[t.evt]
      BY <1>4, <2>1 DEF CountInv
    <3>2. t.evt \notin pending => t.evt \notin pending'
      BY <1>5, <2>1
    <3> QED  BY <1>1, <3>1, <3>2 DEF TaskTally, Open, MaxDeliveries, historyVars
  <2>2. CASE t.evt \in S /\ t.phase = "claimed"
    <3>1. /\ failures[t.evt] = deliveries[t.evt] /\ Open(t.evt)
          /\ deliveries[t.evt] < MaxDeliveries
      BY <1>3, <2>2, ClaimedFresh
    <3>2. /\ deliveries'[t.evt] = deliveries[t.evt] + 1 /\ deliveries[t.evt] \in Nat
          /\ MaxDeliveries \in Nat
      BY <1>4, <2>2, Limits DEF TypeInv, TypeOK
    <3> QED  BY <1>1, <2>2, <3>1, <3>2 DEF TaskTally, Open, MaxDeliveries, historyVars
  <2> QED  BY <1>7, <2>1, <2>2
<1>10. ASSUME NEW e \in Events
       PROVE  Tally(e)'
  <2>1. CASE e \in S
    <3>1. NewTask(r, e) \in tasks' /\ NewTask(r, e).evt = e
      BY <1>3, <2>1, NewTaskTyped DEF TypeInv
    <3>2. Open(e) /\ e \in seen'
      BY <1>3, <1>5, <2>1, ClaimedFresh
    <3> QED  BY <1>1, <3>1, <3>2 DEF Tally, Open
  <2>2. CASE e \notin S
    <3>1. /\ deliveries'[e] = deliveries[e] /\ tasks \subseteq tasks'
          /\ e \in pending' => e \in pending
          /\ e \in seen' <=> e \in seen
      BY <1>3, <1>4, <1>5, <2>2
    <3> QED
      BY <1>1, <3>1 DEF CountInv, Tally, Open, MaxDeliveries, historyVars
  <2> QED  BY <2>1, <2>2
<1> QED  BY <1>8, <1>9, <1>10 DEF CountInv

(* The tally of an event whose task takes no part in the step. *)
LEMMA TallyElsewhere ==
    ASSUME TypeInv, CountInv, NEW t \in tasks, TaskNext(t), service' = service,
           NEW e \in Events, e # t.evt
    PROVE  /\ \A u \in tasks' : u.evt = e => u \in tasks /\ TaskTally(u)'
           /\ Tally(e)'
<1>1. TaskMoves(t)
  BY TaskStep
<1>2. /\ failures'[e] = failures[e] /\ buried'[e] = buried[e]
      /\ e \in handled' <=> e \in handled
  BY DEF TaskNext, Discard, Invoke, AttemptUnknown, Heartbeat, HeartbeatFails,
         HandlerSettles, HandlerFails, HandlerPanics, Bury, BuryFails, Ack, AckFails,
         historyVars, Again, TypeInv, TypeOK
<1>3. /\ e \in pending' <=> e \in pending
      /\ seen' = seen /\ deliveries' = deliveries
  BY <1>1 DEF TaskMoves
<1>4. /\ \A u \in tasks' : u.evt = e => u \in tasks
      /\ \A u \in tasks : u.evt = e => u \in tasks'
  BY <1>1 DEF TaskMoves, Successor
<1>5. \A u \in tasks' : u.evt = e => TaskTally(u)'
  BY <1>2, <1>3, <1>4 DEF CountInv, TaskTally, Open, MaxDeliveries
<1>6. Tally(e)'
  BY <1>2, <1>3, <1>4 DEF CountInv, Tally, Open, MaxDeliveries
<1> QED  BY <1>4, <1>5, <1>6

LEMMA SoleTask ==
    ASSUME TypeInv, SoleInv, NEW t \in tasks, TaskNext(t), disruptions' = disruptions
    PROVE  SoleInv'
<1>1. TaskMoves(t) /\ t \in Task /\ t.evt \in Events
  BY TaskStep DEF TypeInv, TypeOK, Task
<1>2. \A e \in Events : Trimmed(e)' <=> Trimmed(e)
  BY <1>1 DEF TaskMoves, Trimmed, Emitted, streamVars
<1>3. ASSUME NEW u \in tasks', NEW v \in tasks', u.evt = v.evt
      PROVE  u = v
  BY <1>1, <1>3 DEF TaskMoves, Successor, SoleInv
<1>4. ASSUME NEW u \in tasks'
      PROVE  /\ u.evt \notin stale'
             /\ u.evt \in pending /\ t.phase # "ack" =>
                    u.evt \in pending' \/ Trimmed(u.evt)'
  <2>1. u.evt \in Events /\ u.evt \notin stale
    BY <1>1 DEF TaskMoves, Successor, SoleInv, TypeInv, TypeOK, Task
  <2> QED  BY <1>1, <1>2, <2>1 DEF TaskMoves
<1>5. ASSUME NEW u \in tasks', u \notin tasks
      PROVE  /\ u.phase # "failed"
             /\ u.evt = t.evt
             /\ u.phase \in {"claimed", "running"} => t.phase = "claimed"
  <2>1. u.evt = t.evt
    BY <1>1, <1>5 DEF TaskMoves, Successor
  <2>2. ASSUME NEW p \in {"ack", "bury"}, Becomes(t, p) PROVE u.phase = p
    <3>1. u = [t EXCEPT !.phase = p]
      BY <1>5, <2>2 DEF Becomes
    <3> QED  BY <1>1, <3>1, PhaseSuccessor DEF Phases
  <2>3. CASE Invoke(t)
    <3>1. u = [t EXCEPT !.phase = "running", !.attempt = PendingAttempt(t.evt)]
      BY <1>5, <2>3 DEF Invoke
    <3>2. u.phase = "running"
      BY <1>1, <3>1, AttemptMade, RunningSuccessor
    <3> QED  BY <2>1, <2>3, <3>2 DEF Invoke
  <2>4. CASE \E p \in {"ack", "bury"} : Becomes(t, p)
    BY <2>1, <2>2, <2>4
  <2>5. CASE tasks' \subseteq tasks
    BY <1>5, <2>5
  <2>6. disruptions' # disruptions + 1
    BY DEF TypeInv, TypeOK
  <2> QED
    BY <2>3, <2>4, <2>5, <2>6 DEF TaskNext, Discard, AttemptUnknown, Heartbeat,
       HeartbeatFails, HandlerSettles, HandlerFails, HandlerPanics, Bury, BuryFails,
       Ack, AckFails, Ends, Disrupt, Disrupted
<1>6. ASSUME NEW u \in tasks', u.phase \in {"claimed", "running"}
      PROVE  u.evt \in pending' \/ Trimmed(u.evt)'
  <2>1. CASE u \in tasks
    <3>1. u.evt \in Events /\ (u.evt \in pending \/ Trimmed(u.evt))
      BY <1>6, <2>1 DEF SoleInv, TypeInv, TypeOK, Task
    <3>2. CASE u.evt = t.evt
      <4>1. t.phase # "ack"
        BY <1>6, <2>1, <3>2 DEF SoleInv
      <4> QED  BY <1>2, <1>4, <3>1, <4>1
    <3>3. CASE u.evt # t.evt
      BY <1>1, <1>2, <3>1, <3>3 DEF TaskMoves
    <3> QED  BY <3>2, <3>3
  <2>2. CASE u \notin tasks
    <3>1. u.evt = t.evt /\ t.phase = "claimed"
      BY <1>5, <1>6, <2>2
    <3> QED  BY <1>1, <1>2, <1>4, <3>1 DEF SoleInv
  <2> QED  BY <2>1, <2>2
<1> QED  BY <1>3, <1>4, <1>5, <1>6 DEF SoleInv

(* How a task counts its own event. *)
LEMMA CountTask ==
    ASSUME TypeInv, TypeInv', SoleInv, SoleInv', CountInv, NEW t \in tasks, TaskNext(t),
           disruptions' = disruptions, service' = service
    PROVE  CountInv'
<1> DEFINE e == t.evt
<1>1. /\ TaskMoves(t) /\ t \in Task /\ e \in Events /\ TaskTally(t) /\ Tally(e)
      /\ e \in seen /\ seen' = seen /\ deliveries' = deliveries
      /\ deliveries[e] \in Nat /\ failures[e] \in Nat /\ buried[e] \in Nat
      /\ MaxDeliveries \in Nat \ {0}
      /\ (e \in pending' => e \in pending)
  BY TaskStep, Limits DEF TypeInv, TypeOK, EntryInv, CountInv, Task, TaskMoves
<1>2. disruptions' # disruptions + 1
  BY DEF TypeInv, TypeOK
<1> SUFFICES /\ \A u \in tasks' : u.evt = e => TaskTally(u)'
             /\ Tally(e)'
  BY TallyElsewhere DEF CountInv, TypeInv, TypeOK, Task
(* A task that goes on stays the only one of its event. *)
<1>3. ASSUME NEW u \in tasks', u.evt = e,
             buried'[e] > 0 =>
                buried'[e] = 1 /\ failures'[e] = MaxDeliveries /\ e \notin handled',
             TaskTally(u)'
      PROVE  /\ \A v \in tasks' : v.evt = e => TaskTally(v)'
             /\ Tally(e)'
  <2>1. \A v \in tasks' : v.evt = e => v = u
    BY <1>3 DEF SoleInv
  <2>2. Tally(e)'
    BY <1>1, <1>3 DEF Tally, MaxDeliveries
  <2> QED  BY <1>3, <2>1, <2>2
<1>4. ASSUME NEW p \in Phases, Becomes(t, p)
      PROVE  /\ [t EXCEPT !.phase = p] \in tasks' /\ [t EXCEPT !.phase = p].evt = e
             /\ [t EXCEPT !.phase = p].phase = p
  BY <1>1, <1>4, PhaseSuccessor DEF Becomes, Successor
<1>5. ASSUME Becomes(t, "ack"),
             buried'[e] > 0 =>
                buried'[e] = 1 /\ failures'[e] = MaxDeliveries /\ e \notin handled'
      PROVE  /\ \A v \in tasks' : v.evt = e => TaskTally(v)'
             /\ Tally(e)'
  <2> DEFINE u == [t EXCEPT !.phase = "ack"]
  <2>1. u \in tasks' /\ u.evt = e /\ u.phase = "ack"
    BY <1>4, <1>5 DEF Phases
  <2> HIDE DEF u
  <2>2. TaskTally(u)'
    BY <2>1 DEF TaskTally
  <2> QED  BY <1>3, <1>5, <2>1, <2>2
<1>6. CASE Discard(t)
  BY <1>1, <1>5, <1>6 DEF Discard, Tally
<1>7. CASE Invoke(t)
  <2>1. PICK u : u = [t EXCEPT !.phase = "running", !.attempt = PendingAttempt(e)]
    OBVIOUS
  <2>2. u \in tasks' /\ u.evt = e /\ u.phase = "running" /\ u.attempt = PendingAttempt(e)
    BY <1>1, <1>7, <2>1, AttemptMade, RunningSuccessor DEF Invoke, Successor
  <2>3. UNCHANGED <<deliveries, pending, failures, buried, handled>>
    BY <1>7 DEF Invoke, groupVars
  <2>4. /\ deliveries[e] = failures[e] + 1 /\ deliveries[e] <= MaxDeliveries /\ Open(e)
    BY <1>1, <1>7 DEF Invoke, TaskTally
  <2>5. TaskTally(u)'
    BY <2>2, <2>3, <2>4 DEF TaskTally, Open, PendingAttempt, MaxDeliveries
  <2> QED  BY <1>1, <1>3, <2>2, <2>3, <2>5 DEF Tally
<1>8. CASE Heartbeat(t)
  <2>1. t \in tasks' /\ UNCHANGED <<failures, buried, handled>>
    BY <1>8 DEF Heartbeat, historyVars
  <2>2. TaskTally(t)'
    BY <1>1, <2>1 DEF TaskTally, Open, MaxDeliveries
  <2> QED  BY <1>1, <1>3, <2>1, <2>2 DEF Tally
<1>9. CASE HandlerSettles(t)
  <2>1. buried'[e] = 0
    BY <1>1, <1>9 DEF HandlerSettles, TaskTally, Open
  <2> QED  BY <1>5, <1>9, <2>1 DEF HandlerSettles
<1>10. CASE HandlerFails(t)
  <2>1. /\ UNCHANGED <<pending, buried, handled>> /\ failures'[e] = failures[e] + 1
        /\ deliveries[e] = failures[e] + 1 /\ deliveries[e] <= MaxDeliveries /\ Open(e)
        /\ t.attempt = deliveries[e] \/ (t.attempt = 1 /\ e \notin pending)
    BY <1>1, <1>10 DEF HandlerFails, Again, TaskTally, groupVars, TypeInv, TypeOK
  <2>2. CASE t.attempt < MaxDeliveries
    <3>1. tasks' = tasks \ {t}
      BY <1>10, <2>2 DEF HandlerFails, Ends
    <3>2. \A v \in tasks' : v.evt # e
      BY <3>1 DEF SoleInv
    <3>3. Tally(e)'
      BY <1>1, <2>1, <2>2 DEF Tally, Open, MaxDeliveries
    <3> QED  BY <3>2, <3>3
  <2>3. CASE ~(t.attempt < MaxDeliveries)
    <3>1. failures'[e] = MaxDeliveries
      <4>1. CASE t.attempt = deliveries[e]
        BY <1>1, <2>1, <2>3, <4>1
      <4>2. CASE t.attempt = 1
        BY <1>1, <2>1, <2>3, <4>2
      <4> QED  BY <2>1, <4>1, <4>2
    <3>2. CASE Becomes(t, "ack")
      BY <1>1, <1>5, <2>1, <3>2 DEF Open
    <3>3. CASE Becomes(t, "bury")
      <4> DEFINE u == [t EXCEPT !.phase = "bury"]
      <4>1. u \in tasks' /\ u.evt = e /\ u.phase = "bury"
        BY <1>4, <3>3 DEF Phases
      <4> HIDE DEF u
      <4>2. TaskTally(u)'
        BY <2>1, <3>1, <4>1 DEF TaskTally, Open, MaxDeliveries
      <4> QED  BY <1>1, <1>3, <2>1, <4>1, <4>2 DEF Open
    <3> QED  BY <1>10, <2>3, <3>2, <3>3 DEF HandlerFails
  <2> QED  BY <2>2, <2>3
<1>11. CASE Bury(t)
  <2>1. failures[e] = MaxDeliveries /\ Open(e)
    BY <1>1, <1>11 DEF Bury, TaskTally
  <2>2. buried'[e] = 1 /\ failures' = failures /\ handled' = handled
    BY <1>1, <1>11, <2>1 DEF Bury, Open, Again, historyVars, TypeInv, TypeOK
  <2> QED  BY <1>5, <1>11, <2>1, <2>2 DEF Bury, Open
<1>12. CASE Ack(t)
  <2>1. tasks' = tasks \ {t} /\ e \notin pending' /\ UNCHANGED <<failures, buried, handled>>
    BY <1>12 DEF Ack, Ends, XACK, historyVars
  <2>2. \A v \in tasks' : v.evt # e
    BY <2>1 DEF SoleInv
  <2>3. Tally(e)'
    BY <1>1, <2>1 DEF Tally, Open, MaxDeliveries
  <2> QED  BY <2>2, <2>3
<1> QED
  BY <1>2, <1>6, <1>7, <1>8, <1>9, <1>10, <1>11, <1>12
  DEF TaskNext, AttemptUnknown, HeartbeatFails, HandlerPanics, BuryFails, AckFails,
      Disrupt, Disrupted

(* The disruptions are never forgotten. *)
LEMMA DisruptionsStay ==
    ASSUME TypeInv, Next
    PROVE  disruptions' = disruptions \/ disruptions' = disruptions + 1
<1>1. ASSUME NEW r \in Replicas, ReplicaNext(r)
      PROVE  disruptions' = disruptions \/ disruptions' = disruptions + 1
  BY <1>1, ReplicaStep DEF ReplicaMoves
<1> QED
  BY <1>1 DEF Next, Emit, IdleElapses, TaskNext, Discard, Invoke, AttemptUnknown,
     Heartbeat, HeartbeatFails, HandlerSettles, HandlerFails, HandlerPanics, Bury,
     BuryFails, Ack, AckFails, Disrupt, Disrupted

LEMMA QuietStep == ASSUME TypeInv, TypeInv', QuietInv, Next PROVE QuietInv'
<1> SUFFICES ASSUME disruptions' = 0
             PROVE  SoleInv' /\ CountInv'
  BY DEF QuietInv
<1>1. disruptions' = disruptions /\ service' = service
  BY DisruptionsStay DEF Next, TypeInv, TypeOK
<1>2. SoleInv /\ CountInv
  BY <1>1 DEF QuietInv
<1>3. ASSUME NEW t \in tasks, TaskNext(t)
      PROVE  SoleInv' /\ CountInv'
  BY <1>1, <1>2, <1>3, SoleTask, CountTask
<1> QED  BY <1>1, <1>2, <1>3, QuietEvent, QuietReplica DEF Next

LEMMA QuietStutter == ASSUME QuietInv, UNCHANGED vars PROVE QuietInv'
BY DEF QuietInv, SoleInv, CountInv, TaskTally, Tally, Open, MaxDeliveries, Trimmed,
       Emitted, vars, stateVars, streamVars, groupVars, historyVars

LEMMA QuietInductive == Spec => []QuietInv
<1>1. TypeInv /\ TypeInv' /\ QuietInv /\ [Next]_vars => QuietInv'
  BY QuietStep, QuietStutter
<1> QED  BY <1>1, QuietInit, TypeInductive, PTL DEF Spec

(* A dead letter is an event whose deliveries were used up; undisrupted, it is
   the only copy of an event that failed every permitted time and never
   succeeded (process_event_entry, publish_dead_letter). *)
THEOREM DeadLettersAreHonest == Spec => []HonestDeadLetters
<1>1. ASSUME SettleInv, QuietInv
      PROVE  HonestDeadLetters
  BY <1>1 DEF HonestDeadLetters, SettleInv, LimitInv, QuietInv, CountInv, Tally
<1> QED  BY <1>1, SettleInductive, QuietInductive, PTL

(* Undisrupted, the attempt a handler is told counts the failed attempts before
   it, unless its event was trimmed away (pending_attempt). *)
THEOREM AttemptsAreCounted == Spec => []AttemptCounts
<1>1. ASSUME TypeInv, QuietInv
      PROVE  AttemptCounts
  <2> SUFFICES ASSUME NEW t \in tasks, t.phase = "running", disruptions = 0,
                      ~Trimmed(t.evt)
               PROVE  t.attempt = failures[t.evt] + 1
    BY DEF AttemptCounts
  <2>1. t.evt \in pending /\ TaskTally(t)
    BY <1>1 DEF QuietInv, SoleInv, CountInv
  <2> QED  BY <2>1 DEF TaskTally
<1> QED  BY <1>1, TypeInductive, QuietInductive, PTL

-----------------------------------------------------------------------------
(* Every invocation is paid for by a permitted delivery or by a disruption. *)

(* The tasks that may still invoke the handler or leave the event to another
   delivery. *)
Hands(e) ==
    {t \in tasks :
        /\ t.evt = e
        /\ \/ t.phase = "claimed"
           \/ t.phase = "running" /\ t.attempt < MaxDeliveries /\ e \in pending}

(* Those of which both may come. *)
Early(e) == {t \in Hands(e) : t.phase = "claimed" /\ t.turn < MaxDeliveries}

(* May the event be delivered again although nothing goes wrong? *)
Unheld(e) == e \notin seen \/ (e \in pending /\ (e \in stale \/ ~Attended(e)))
Free(e) == IF Unheld(e) THEN 1 ELSE 0

(* Deliveries so far that may be followed by another attempt. *)
Retried(e) ==
    IF deliveries[e] < MaxDeliveries THEN deliveries[e] ELSE MaxDeliveries - 1

Paid(e) ==
    Cardinality(Hands(e)) + Cardinality(Early(e)) + Free(e) + invocations[e]
        <= 1 + disruptions + Retried(e)

PaidInv == \A e \in Events : Paid(e)

LEMMA OneLess ==
    ASSUME NEW S, NEW T, NEW x \in S, IsFiniteSet(S), T \subseteq S \ {x}
    PROVE  /\ IsFiniteSet(T) /\ Cardinality(T) \in Nat /\ Cardinality(S) \in Nat
           /\ Cardinality(T) <= Cardinality(S) - 1
<1>1. IsFiniteSet(S \ {x}) /\ Cardinality(S \ {x}) = Cardinality(S) - 1
  BY FS_RemoveElement
<1>2. /\ IsFiniteSet(T) /\ Cardinality(T) \in Nat
      /\ Cardinality(T) <= Cardinality(S \ {x})
  BY <1>1, Fewer
<1> QED  BY <1>1, <1>2, FS_CardinalityType

LEMMA OneMore ==
    ASSUME NEW S, NEW T, NEW x, IsFiniteSet(S), T \subseteq S \cup {x}
    PROVE  /\ IsFiniteSet(T) /\ Cardinality(T) \in Nat /\ Cardinality(S) \in Nat
           /\ Cardinality(T) <= Cardinality(S) + 1
<1>1. /\ IsFiniteSet(S \cup {x}) /\ Cardinality(S) \in Nat
      /\ Cardinality(S \cup {x}) =
            IF x \in S THEN Cardinality(S) ELSE Cardinality(S) + 1
  BY FS_AddElement, FS_CardinalityType
<1>2. /\ IsFiniteSet(T) /\ Cardinality(T) \in Nat
      /\ Cardinality(T) <= Cardinality(S \cup {x})
  BY <1>1, Fewer
<1> QED  BY <1>1, <1>2

LEMMA OneReplaced ==
    ASSUME NEW S, NEW T, NEW x \in S, NEW y, IsFiniteSet(S), T \subseteq (S \ {x}) \cup {y}
    PROVE  /\ IsFiniteSet(T) /\ Cardinality(T) \in Nat /\ Cardinality(S) \in Nat
           /\ Cardinality(T) <= Cardinality(S)
<1>1. /\ IsFiniteSet(S \ {x}) /\ Cardinality(S \ {x}) \in Nat /\ Cardinality(S) \in Nat
      /\ Cardinality(S \ {x}) <= Cardinality(S) - 1
  BY OneLess
<1>2. /\ IsFiniteSet(T) /\ Cardinality(T) \in Nat
      /\ Cardinality(T) <= Cardinality(S \ {x}) + 1
  BY <1>1, OneMore
<1> QED  BY <1>1, <1>2

(* The terms of Paid are numbers. *)
LEMMA PaidTyped ==
    ASSUME TypeInv, NEW e \in Events
    PROVE  /\ IsFiniteSet(Hands(e)) /\ Cardinality(Hands(e)) \in Nat
           /\ IsFiniteSet(Early(e)) /\ Cardinality(Early(e)) \in Nat
           /\ Free(e) \in {0, 1} /\ invocations[e] \in Nat /\ disruptions \in Nat
           /\ Retried(e) \in Nat /\ Retried(e) <= MaxDeliveries - 1
           /\ deliveries[e] \in Nat
<1>1. Hands(e) \subseteq tasks /\ Early(e) \subseteq Hands(e)
  BY DEF Hands, Early
<1>2. /\ IsFiniteSet(Hands(e)) /\ Cardinality(Hands(e)) \in Nat
      /\ IsFiniteSet(Early(e)) /\ Cardinality(Early(e)) \in Nat
  BY <1>1, Fewer DEF TypeInv, TypeOK
<1>3. MaxDeliveries \in Nat \ {0} /\ deliveries[e] \in Nat
  BY Limits DEF TypeInv, TypeOK
<1>4. Retried(e) \in Nat /\ Retried(e) <= MaxDeliveries - 1
  BY <1>3 DEF Retried
<1> QED  BY <1>2, <1>3, <1>4 DEF Free, TypeInv, TypeOK

(* More deliveries never lower the account. *)
LEMMA RetriedGrows ==
    ASSUME TypeInv, TypeInv', NEW e \in Events, service' = service,
           deliveries'[e] >= deliveries[e]
    PROVE  Retried(e)' >= Retried(e) /\ Retried(e)' \in Nat
<1>1. /\ MaxDeliveries \in Nat \ {0} /\ deliveries[e] \in Nat /\ deliveries'[e] \in Nat
      /\ MaxDeliveries' = MaxDeliveries
  BY Limits DEF TypeInv, TypeOK, MaxDeliveries
<1> QED  BY <1>1 DEF Retried

(* A step that adds nobody who may invoke the handler, and either makes no new
   delivery possible, or takes somebody away, or is a disruption. *)
LEMMA PaidCalm ==
    ASSUME TypeInv, TypeInv', NEW e \in Events, Paid(e), service' = service,
           Hands(e)' \subseteq Hands(e),
           invocations'[e] = invocations[e], deliveries'[e] >= deliveries[e],
           \/ disruptions' >= disruptions /\ (Unheld(e)' => Unheld(e))
           \/ disruptions' >= disruptions /\ \E h \in Hands(e) : h \notin Hands(e)'
           \/ disruptions' = disruptions + 1
    PROVE  Paid(e)'
<1>1. Early(e)' \subseteq Early(e)
  BY DEF Early, MaxDeliveries
<1>2. /\ IsFiniteSet(Hands(e)) /\ Cardinality(Hands(e)) \in Nat
      /\ IsFiniteSet(Early(e)) /\ Cardinality(Early(e)) \in Nat
      /\ Free(e) \in {0, 1} /\ invocations[e] \in Nat /\ disruptions \in Nat
      /\ Retried(e) \in Nat
  BY PaidTyped
<1>3. Cardinality(Hands(e)') \in Nat /\ Cardinality(Hands(e)') <= Cardinality(Hands(e))
  BY <1>2, Fewer
<1>4. Cardinality(Early(e)') \in Nat /\ Cardinality(Early(e)') <= Cardinality(Early(e))
  BY <1>1, <1>2, Fewer
<1>5. Free(e)' \in {0, 1} /\ disruptions' \in Nat
  BY DEF Free, TypeInv, TypeOK
<1>6. Retried(e)' >= Retried(e) /\ Retried(e)' \in Nat
  BY RetriedGrows
<1>7. CASE disruptions' >= disruptions /\ (Unheld(e)' => Unheld(e))
  <2>1. Free(e)' <= Free(e)
    BY <1>7 DEF Free
  <2> QED  BY <1>2, <1>3, <1>4, <1>5, <1>6, <1>7, <2>1 DEF Paid
<1>8. ASSUME disruptions' >= disruptions, NEW h \in Hands(e), h \notin Hands(e)'
      PROVE  Paid(e)'
  <2>1. Cardinality(Hands(e)') <= Cardinality(Hands(e)) - 1
    BY <1>2, <1>8, OneLess
  <2> QED  BY <1>2, <1>3, <1>4, <1>5, <1>6, <1>8, <2>1 DEF Paid
<1>9. CASE disruptions' = disruptions + 1
  BY <1>2, <1>3, <1>4, <1>5, <1>6, <1>9 DEF Paid
<1> QED  BY <1>7, <1>8, <1>9

LEMMA PaidInit == Init => PaidInv
<1> SUFFICES ASSUME Init, NEW e \in Events
             PROVE  Paid(e)
  BY DEF PaidInv
<1>1. Hands(e) = {} /\ Early(e) = {} /\ Cardinality({}) = 0
  BY FS_EmptySet DEF Init, Hands, Early
<1>2. MaxDeliveries \in Nat \ {0}
  BY ServicesAssumption DEF Init, MaxDeliveries, Service
<1>3. Free(e) \in {0, 1} /\ invocations[e] = 0 /\ disruptions = 0 /\ Retried(e) = 0
  BY <1>2 DEF Init, Free, Retried
<1> QED  BY <1>1, <1>3 DEF Paid

LEMMA PaidEvent ==
    ASSUME TypeInv, TypeInv', PaidInv, NEW e \in Events, Emit(e) \/ IdleElapses(e),
           service' = service
    PROVE  PaidInv'
<1> SUFFICES ASSUME NEW f \in Events
             PROVE  Paid(f)'
  BY DEF PaidInv
<1>1. /\ UNCHANGED <<seen, pending, deliveries, tasks, invocations>>
      /\ stale' \subseteq stale \cup {e}
      /\ disruptions' >= disruptions
      /\ stale' = stale \/ ~Attended(e) \/ disruptions' = disruptions + 1
  BY DEF Emit, IdleElapses, groupVars, historyVars, Disrupt, Disrupted, TypeInv, TypeOK
<1>2. Hands(f)' = Hands(f) /\ (Attended(f)' <=> Attended(f))
  BY <1>1 DEF Hands, Attended, MaxDeliveries
<1>3. (Unheld(f)' => Unheld(f)) \/ disruptions' = disruptions + 1
  BY <1>1, <1>2 DEF Unheld
<1>4. Paid(f) /\ deliveries'[f] >= deliveries[f]
  BY <1>1 DEF PaidInv, TypeInv, TypeOK
<1> QED  BY <1>1, <1>2, <1>3, <1>4, PaidCalm

LEMMA PaidReplica ==
    ASSUME TypeInv, TypeInv', PaidInv, NEW r \in Replicas, ReplicaNext(r),
           service' = service
    PROVE  PaidInv'
<1> SUFFICES ASSUME NEW e \in Events
             PROVE  Paid(e)'
  BY DEF PaidInv
<1>1. PICK S \in SUBSET Events : ReplicaMoves(r, S)
  BY ReplicaStep
<1>2. Paid(e) /\ invocations'[e] = invocations[e]
  BY ReplicaStep DEF PaidInv, historyVars
<1>3. deliveries'[e] = IF e \in S THEN deliveries[e] + 1 ELSE deliveries[e]
  BY <1>1, DeliveredBy DEF ReplicaMoves, Claimed, TypeInv
<1>4. deliveries[e] \in Nat /\ deliveries'[e] >= deliveries[e]
  BY <1>3 DEF TypeInv, TypeOK
<1>5. /\ seen' = seen \cup S /\ pending' \subseteq pending \cup S /\ S \subseteq pending'
      /\ stale' \subseteq stale \ S
      /\ e \in S => e \in stale \/ e \notin seen
  BY <1>1 DEF ReplicaMoves, Claimed
(* An entry a task knows of gets pending only by being pending already. *)
<1>6. \A t \in tasks : t.evt = e /\ e \in pending' => e \in pending
  BY <1>5 DEF TypeInv, TypeOK, EntryInv
<1>7. CASE tasks' = tasks \ TasksOf(r) /\ disruptions' = disruptions + 1
  <2>1. Hands(e)' \subseteq Hands(e)
    BY <1>6, <1>7 DEF Hands, MaxDeliveries
  <2> QED  BY <1>2, <1>4, <1>7, <2>1, PaidCalm
<1>8. CASE Spawn(r, S) /\ disruptions' = disruptions
  <2>1. tasks' = tasks \cup {NewTask(r, f) : f \in S}
    BY <1>8 DEF Spawn
  <2>2. disruptions' >= disruptions
    BY <1>8 DEF TypeInv, TypeOK
  <2>3. CASE e \notin S
    <3>1. \A t \in tasks' : t.evt = e => t \in tasks
      BY <2>1, <2>3, NewTaskTyped DEF TypeInv
    <3>2. Hands(e)' \subseteq Hands(e)
      BY <1>6, <3>1 DEF Hands, MaxDeliveries
    <3>3. Attended(e) => Attended(e)'
      BY <2>1 DEF Attended
    <3>4. Unheld(e)' => Unheld(e)
      BY <1>5, <2>3, <3>3 DEF Unheld
    <3> QED  BY <1>2, <1>4, <2>2, <3>2, <3>4, PaidCalm
  <2>4. CASE e \in S
    <3>1. PICK u : u = NewTask(r, e)
      OBVIOUS
    <3>2. u.evt = e /\ u.phase = "claimed" /\ u.turn = deliveries[e] + 1
      BY <3>1, NewTaskTyped DEF TypeInv
    <3>3. u \in tasks' /\ \A t \in tasks' : t.evt = e => t \in tasks \/ t = u
      BY <2>1, <2>4, <3>1, NewTaskTyped DEF TypeInv
    <3>4. Hands(e)' \subseteq Hands(e) \cup {u}
      BY <1>6, <3>3 DEF Hands, MaxDeliveries
    <3>5. /\ Early(e)' \subseteq Early(e) \cup {u}
          /\ ~(u.turn < MaxDeliveries) => Early(e)' \subseteq Early(e)
      BY <3>4 DEF Early, MaxDeliveries
    <3>6. Free(e) = 1
      BY <1>5, <2>4 DEF Free, Unheld, TypeInv, TypeOK
    <3>7. Free(e)' = 0
      BY <1>5, <2>4, <3>2, <3>3 DEF Free, Unheld, Attended, Live
    <3>8. /\ IsFiniteSet(Hands(e)) /\ Cardinality(Hands(e)) \in Nat
          /\ IsFiniteSet(Early(e)) /\ Cardinality(Early(e)) \in Nat
          /\ invocations[e] \in Nat /\ disruptions \in Nat /\ Retried(e) \in Nat
      BY PaidTyped
    <3>9. /\ Cardinality(Hands(e)') \in Nat
          /\ Cardinality(Hands(e)') <= Cardinality(Hands(e)) + 1
      BY <3>4, <3>8, OneMore
    <3>10. /\ MaxDeliveries \in Nat \ {0} /\ MaxDeliveries' = MaxDeliveries
           /\ deliveries'[e] = deliveries[e] + 1
      BY <1>3, <2>4, Limits DEF TypeInv, MaxDeliveries
    <3>11. CASE u.turn < MaxDeliveries
      <4>1. Retried(e)' = Retried(e) + 1
        BY <1>4, <3>2, <3>10, <3>11 DEF Retried
      <4>2. /\ Cardinality(Early(e)') \in Nat
            /\ Cardinality(Early(e)') <= Cardinality(Early(e)) + 1
        BY <3>5, <3>8, OneMore
      <4> QED
        BY <1>2, <1>8, <3>6, <3>7, <3>8, <3>9, <4>1, <4>2 DEF Paid
    <3>12. CASE ~(u.turn < MaxDeliveries)
      <4>1. Retried(e)' >= Retried(e) /\ Retried(e)' \in Nat
        BY <1>4, RetriedGrows
      <4>2. /\ Cardinality(Early(e)') \in Nat
            /\ Cardinality(Early(e)') <= Cardinality(Early(e))
        BY <3>5, <3>8, <3>12, Fewer
      <4> QED
        BY <1>2, <1>8, <3>6, <3>7, <3>8, <3>9, <4>1, <4>2 DEF Paid
    <3> QED  BY <3>11, <3>12
  <2> QED  BY <2>3, <2>4
<1> QED  BY <1>1, <1>7, <1>8 DEF ReplicaMoves

(* A handler that is invoked moves its task on in the account. *)
LEMMA PaidInvoke ==
    ASSUME TypeInv, TypeInv', NEW t \in tasks, Invoke(t), Paid(t.evt),
           service' = service
    PROVE  Paid(t.evt)'
<1> DEFINE e == t.evt
<1>1. /\ t \in Task /\ e \in Events /\ e \in seen /\ t.turn \in Nat
      /\ t.turn <= deliveries[e] /\ deliveries[e] \in Nat
      /\ MaxDeliveries \in Nat \ {0} /\ MaxDeliveries' = MaxDeliveries
  BY Limits DEF TypeInv, TypeOK, EntryInv, Task, MaxDeliveries
<1>2. PICK u : u = [t EXCEPT !.phase = "running", !.attempt = PendingAttempt(e)]
  OBVIOUS
<1>3. /\ u.evt = e /\ u.phase = "running" /\ u.attempt = PendingAttempt(e)
  BY <1>1, <1>2, AttemptMade, RunningSuccessor DEF Successor
<1>4. /\ t.phase = "claimed" /\ tasks' = (tasks \ {t}) \cup {u}
      /\ invocations'[e] = invocations[e] + 1
      /\ UNCHANGED <<seen, pending, stale, deliveries, disruptions>>
  BY <1>1, <1>2 DEF Invoke, Again, groupVars, TypeInv, TypeOK
<1>5. t \in Hands(e)
  BY <1>4 DEF Hands
<1>6. /\ Hands(e)' \subseteq (Hands(e) \ {t}) \cup {u}
      /\ u \in Hands(e)' => u.attempt < MaxDeliveries /\ e \in pending
  <2>1. ASSUME NEW k \in Hands(e)', k # u
        PROVE  k \in Hands(e) \ {t}
    BY <1>4, <2>1 DEF Hands, MaxDeliveries
  <2>2. u \in Hands(e)' => u.attempt < MaxDeliveries /\ e \in pending
    BY <1>3, <1>4 DEF Hands, MaxDeliveries
  <2> QED  BY <2>1, <2>2
<1>7. Free(e)' = Free(e)
  <2>1. Attended(e) /\ Attended(e)'
    BY <1>3, <1>4 DEF Attended, Live
  <2> QED  BY <1>4, <2>1 DEF Free, Unheld
<1>8. Retried(e)' = Retried(e)
  BY <1>4 DEF Retried, MaxDeliveries
<1>9. /\ IsFiniteSet(Hands(e)) /\ Cardinality(Hands(e)) \in Nat
      /\ IsFiniteSet(Early(e)) /\ Cardinality(Early(e)) \in Nat
      /\ Free(e) \in {0, 1} /\ invocations[e] \in Nat /\ disruptions \in Nat
      /\ Retried(e) \in Nat
  BY <1>1, PaidTyped
<1>10. Early(e)' \subseteq Early(e) /\ u \notin Early(e)'
  BY <1>3, <1>6 DEF Early, MaxDeliveries
<1>11. CASE u \in Hands(e)'
  <2>1. t.turn < MaxDeliveries
    BY <1>1, <1>3, <1>6, <1>11 DEF PendingAttempt
  <2>2. t \in Early(e)
    BY <1>4, <1>5, <2>1 DEF Early
  <2>3. t \notin Early(e)'
    BY <1>3, <1>4, <1>10 DEF Early, Hands
  <2>4. /\ Cardinality(Early(e)') \in Nat
        /\ Cardinality(Early(e)') <= Cardinality(Early(e)) - 1
    BY <1>9, <1>10, <2>2, <2>3, OneLess
  <2>5. /\ Cardinality(Hands(e)') \in Nat
        /\ Cardinality(Hands(e)') <= Cardinality(Hands(e))
    BY <1>5, <1>6, <1>9, OneReplaced
  <2> QED  BY <1>4, <1>7, <1>8, <1>9, <2>4, <2>5 DEF Paid
<1>12. CASE u \notin Hands(e)'
  <2>1. Hands(e)' \subseteq Hands(e) \ {t}
    BY <1>6, <1>12
  <2>2. /\ Cardinality(Hands(e)') \in Nat
        /\ Cardinality(Hands(e)') <= Cardinality(Hands(e)) - 1
    BY <1>5, <1>9, <2>1, OneLess
  <2>3. /\ Cardinality(Early(e)') \in Nat
        /\ Cardinality(Early(e)') <= Cardinality(Early(e))
    BY <1>9, <1>10, Fewer
  <2> QED  BY <1>4, <1>7, <1>8, <1>9, <2>2, <2>3 DEF Paid
<1> QED  BY <1>11, <1>12

(* The other steps of a task invoke nothing. *)
LEMMA PaidTask ==
    ASSUME TypeInv, TypeInv', PaidInv, NEW t \in tasks, TaskNext(t),
           service' = service
    PROVE  PaidInv'
<1> SUFFICES ASSUME NEW e \in Events
             PROVE  Paid(e)'
  BY DEF PaidInv
<1>1. /\ TaskMoves(t) /\ t \in Task /\ t.evt \in Events /\ t.evt \in seen
      /\ Paid(e) /\ deliveries'[e] >= deliveries[e] /\ disruptions' >= disruptions
  <2>1. TaskMoves(t) /\ deliveries'[e] = deliveries[e] /\ deliveries[e] \in Nat
    BY TaskStep DEF TaskMoves, TypeInv, TypeOK
  <2>2. disruptions' = disruptions \/ disruptions' = disruptions + 1
    BY DisruptionsStay DEF Next
  <2> QED
    BY <2>1, <2>2 DEF PaidInv, TypeInv, TypeOK, EntryInv, Task
<1>2. CASE e # t.evt
  <2>1. invocations'[e] = invocations[e]
    BY <1>2 DEF TaskNext, Discard, Invoke, AttemptUnknown, Heartbeat, HeartbeatFails,
       HandlerSettles, HandlerFails, HandlerPanics, Bury, BuryFails, Ack, AckFails,
       historyVars, Again, TypeInv, TypeOK
  <2>2. /\ \A u \in tasks' : u.evt = e => u \in tasks
        /\ \A u \in tasks : u.evt = e => u \in tasks'
    BY <1>1, <1>2 DEF TaskMoves, Successor
  <2>3. Hands(e)' \subseteq Hands(e) /\ (Attended(e) => Attended(e)')
    BY <1>1, <2>2 DEF Hands, Attended, MaxDeliveries, TaskMoves
  <2>4. Unheld(e)' => Unheld(e)
    BY <1>1, <2>3 DEF Unheld, TaskMoves
  <2> QED  BY <1>1, <2>1, <2>3, <2>4, PaidCalm
<1>3. CASE e = t.evt
  (* Becoming a task that does not invoke. *)
  <2>1. ASSUME NEW p \in {"ack", "bury", "failed"}, Becomes(t, p),
               invocations' = invocations,
               p = "failed" => disruptions' = disruptions + 1
        PROVE  Paid(e)'
    <3> DEFINE u == [t EXCEPT !.phase = p]
    <3>1. u.phase = p /\ u.evt = e /\ tasks' = (tasks \ {t}) \cup {u}
      BY <1>1, <1>3, <2>1, PhaseSuccessor DEF Phases, Becomes, Successor
    <3> HIDE DEF u
    <3>2. Hands(e)' \subseteq Hands(e)
      BY <1>1, <3>1 DEF Hands, MaxDeliveries, TaskMoves
    <3>3. p # "failed" => (Unheld(e)' => Unheld(e))
      <4>1. p # "failed" => Attended(e)'
        BY <3>1 DEF Attended, Live
      <4> QED  BY <1>1, <4>1 DEF Unheld, TaskMoves
    <3> QED  BY <1>1, <2>1, <3>2, <3>3, PaidCalm
  <2>2. ASSUME tasks' \subseteq tasks, invocations' = invocations
        PROVE  Hands(e)' \subseteq Hands(e)
    BY <1>1, <2>2 DEF Hands, MaxDeliveries, TaskMoves
  <2>3. CASE Invoke(t)
    BY <1>1, <1>3, <2>3, PaidInvoke
  <2>4. CASE Heartbeat(t)
    <3>1. tasks' = tasks /\ invocations' = invocations
      BY <2>4 DEF Heartbeat, historyVars
    <3>2. Unheld(e)' => Unheld(e)
      BY <1>1, <3>1 DEF Unheld, Attended, TaskMoves
    <3> QED  BY <1>1, <2>2, <3>1, <3>2, PaidCalm
  <2>5. CASE HandlerFails(t)
    <3>1. invocations' = invocations /\ UNCHANGED groupVars /\ t.phase = "running"
      BY <2>5 DEF HandlerFails
    <3>2. CASE ~(t.attempt < MaxDeliveries)
      BY <2>1, <2>5, <3>1, <3>2 DEF HandlerFails
    <3>3. CASE t.attempt < MaxDeliveries
      <4>1. tasks' = tasks \ {t}
        BY <2>5, <3>3 DEF HandlerFails, Ends
      <4>2. CASE e \in pending
        <5>1. t \in Hands(e) /\ t \notin Hands(e)'
          BY <1>3, <3>1, <3>3, <4>1, <4>2 DEF Hands
        <5> QED  BY <1>1, <2>2, <3>1, <4>1, <5>1, PaidCalm
      <4>3. CASE e \notin pending
        <5>1. ~Unheld(e)'
          BY <1>1, <1>3, <3>1, <4>3 DEF Unheld, groupVars
        <5> QED  BY <1>1, <2>2, <3>1, <4>1, <5>1, PaidCalm
      <4> QED  BY <4>2, <4>3
    <3> QED  BY <3>2, <3>3
  <2>6. CASE BuryFails(t)
    <3>1. /\ tasks' \subseteq tasks /\ invocations' = invocations
          /\ disruptions' = disruptions + 1
      BY <2>6 DEF BuryFails, Ends, Disrupt, Disrupted, historyVars
    <3> QED  BY <1>1, <2>2, <3>1, PaidCalm
  <2>7. CASE Ack(t)
    <3>1. tasks' \subseteq tasks /\ invocations' = invocations
      BY <2>7 DEF Ack, Ends, historyVars
    <3>2. ~Unheld(e)'
      BY <1>1, <1>3, <2>7 DEF Ack, XACK, Unheld
    <3> QED  BY <1>1, <2>2, <3>1, <3>2, PaidCalm
  <2>8. CASE Discard(t) \/ HandlerSettles(t) \/ Bury(t)
    BY <2>1, <2>8 DEF Discard, HandlerSettles, Bury, historyVars
  <2>9. CASE AttemptUnknown(t) \/ HeartbeatFails(t) \/ HandlerPanics(t) \/ AckFails(t)
    BY <2>1, <2>9 DEF AttemptUnknown, HeartbeatFails, HandlerPanics, AckFails, Disrupt,
                      Disrupted, historyVars
  <2> QED
    BY <2>3, <2>4, <2>5, <2>6, <2>7, <2>8, <2>9 DEF TaskNext
<1> QED  BY <1>2, <1>3

LEMMA PaidStutter == ASSUME PaidInv, UNCHANGED vars PROVE PaidInv'
BY DEF PaidInv, Paid, Hands, Early, Free, Unheld, Attended, Retried, MaxDeliveries,
       vars, stateVars, groupVars, historyVars

LEMMA PaidInductive == Spec => []PaidInv
<1>1. TypeInv /\ TypeInv' /\ PaidInv /\ [Next]_vars => PaidInv'
  BY PaidEvent, PaidReplica, PaidTask, PaidStutter DEF Next
<1> QED  BY <1>1, PaidInit, TypeInductive, PTL DEF Spec

(* However events are claimed again, trimmed or lost on the way, the handler of
   one is invoked at most max_event_deliveries times, plus once for every
   disruption (process_event_entry, pending_attempt). *)
THEOREM InvocationsAreBounded == Spec => []BoundedInvocations
<1>1. ASSUME TypeInv, PaidInv
      PROVE  BoundedInvocations
  <2> SUFFICES ASSUME NEW e \in Events
               PROVE  invocations[e] <= MaxDeliveries + disruptions
    BY DEF BoundedInvocations
  <2>1. Paid(e)
    BY <1>1 DEF PaidInv
  <2>2. /\ Cardinality(Hands(e)) \in Nat /\ Cardinality(Early(e)) \in Nat
        /\ Free(e) \in {0, 1} /\ invocations[e] \in Nat /\ disruptions \in Nat
        /\ Retried(e) \in Nat /\ Retried(e) <= MaxDeliveries - 1
    BY <1>1, PaidTyped
  <2>3. MaxDeliveries \in Nat
    BY <1>1, Limits DEF TypeInv
  <2> QED  BY <2>1, <2>2, <2>3 DEF Paid
<1> QED  BY <1>1, TypeInductive, PaidInductive, PTL
=============================================================================
