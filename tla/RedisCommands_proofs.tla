----------------------- MODULE RedisCommands_proofs -----------------------
(* Proofs of the safety properties of RedisCommands. *)
EXTENDS RedisCommands, FiniteSetTheorems, TLAPS

(* The set of spawned or replaced tasks stays a finite set of tasks. *)
TaskTyped == tasks \subseteq Task /\ IsFiniteSet(tasks)

(* What a task action may turn task t into. *)
Successor(t, u) ==
    u \in Task /\ u.rep = t.rep /\ u.cmd = t.cmd /\ u.turn = t.turn

LEMMA FiniteTurns ==
    \A k \in Nat : IsFiniteSet(1..k) /\ Cardinality(1..k) <= k
<1> TAKE k \in Nat
<1>1. 1 \in Int /\ k \in Int  OBVIOUS
<1>2. IsFiniteSet(1..k) /\ Cardinality(1..k) = IF 1 > k THEN 0 ELSE k - 1 + 1
  BY <1>1, FS_Interval
<1> QED  BY <1>2

LEMMA NewTaskTyped ==
    ASSUME TypeOK, NEW r \in Replicas, NEW c \in Commands
    PROVE  /\ NewTask(r, c) \in Task
           /\ NewTask(r, c).rep = r /\ NewTask(r, c).cmd = c
           /\ NewTask(r, c).turn = claims[c] + 1
           /\ NewTask(r, c).phase = "claimed"
BY DEF NewTask, Task, TypeOK, Phases, Bodies

LEMMA FailedSuccessor ==
    ASSUME NEW t \in Task
    PROVE  Successor(t, Failed(t)) /\ Failed(t).phase = "failed"
BY DEF Failed, Successor, Task, Phases, Bodies

LEMMA AnsweringSuccessor ==
    ASSUME NEW t \in Task, NEW body \in Bodies
    PROVE  /\ Successor(t, Answering(t, body))
           /\ \/ /\ Answering(t, body).phase = "publish"
                 /\ Answering(t, body).body = body
              \/ Answering(t, body).phase = "complete"
BY DEF Answering, Successor, Task, Phases, Bodies

LEMMA PhaseSuccessor ==
    ASSUME NEW t \in Task
    PROVE  /\ Successor(t, [t EXCEPT !.phase = "complete"])
           /\ Successor(t, [t EXCEPT !.phase = "running"])
           /\ Successor(t, [t EXCEPT !.phase = "complete", !.body = "none"])
           /\ Successor(t, [t EXCEPT !.phase = "complete", !.body = "none", !.failing = TRUE])
           /\ [t EXCEPT !.phase = "complete"].phase = "complete"
           /\ [t EXCEPT !.phase = "running"].phase = "running"
           /\ [t EXCEPT !.phase = "complete", !.body = "none"].phase = "complete"
           /\ [t EXCEPT !.phase = "complete", !.body = "none", !.failing = TRUE].phase = "complete"
BY DEF Successor, Task, Phases, Bodies

LEMMA BecomesTyped ==
    ASSUME TaskTyped, NEW t, NEW u \in Task, Becomes(t, u)
    PROVE  TaskTyped'
<1>1. IsFiniteSet(tasks \ {t})
  BY FS_Difference DEF TaskTyped
<1>2. IsFiniteSet((tasks \ {t}) \cup {u})
  BY <1>1, FS_AddElement
<1> QED
  BY <1>2 DEF TaskTyped, Becomes

LEMMA DroppedTyped ==
    ASSUME TaskTyped, NEW S, tasks' = tasks \ S
    PROVE  TaskTyped'
<1>1. IsFiniteSet(tasks \ S)
  BY FS_Difference DEF TaskTyped
<1> QED
  BY <1>1 DEF TaskTyped

LEMMA SpawnTyped ==
    ASSUME TypeOK, NEW r \in Replicas, NEW S \in SUBSET Commands,
           IsFiniteSet(S), Spawn(r, S)
    PROVE  TaskTyped'
<1>1. IsFiniteSet({NewTask(r, c) : c \in S})
  <2> DEFINE F == {NewTask(r, c) : c \in S}
             g == [c \in S |-> NewTask(r, c)]
  <2>1. g \in Surjection(S, F)
    BY DEF Surjection
  <2> QED
    BY <2>1, FS_Surjection
<1>2. {NewTask(r, c) : c \in S} \subseteq Task
  BY NewTaskTyped
<1>3. IsFiniteSet(tasks \cup {NewTask(r, c) : c \in S})
  BY <1>1, FS_Union DEF TypeOK
<1> QED
  BY <1>2, <1>3 DEF TaskTyped, Spawn, TypeOK

-----------------------------------------------------------------------------
(* Type correctness. *)

LEMMA TypeInit == Init => TypeOK
BY ConcurrencyAssumption, FS_EmptySet DEF Init, TypeOK

LEMMA TypeClient ==
    ASSUME TypeOK, NEW c \in Commands, ClientNext(c)
    PROVE  TypeOK'
<1> USE DEF TypeOK, streamVars, loopVars, historyVars
<1>1. CASE Subscribe(c)  BY <1>1 DEF Subscribe
<1>2. CASE Send(c)  BY <1>2 DEF Send, XADD
<1>3. CASE SendUnheard(c)  BY <1>3 DEF SendUnheard, XADD
<1>4. CASE GiveUp(c)  BY <1>4 DEF GiveUp
<1>5. CASE Receive(c)  BY <1>5 DEF Receive
<1> QED  BY <1>1, <1>2, <1>3, <1>4, <1>5 DEF ClientNext

LEMMA TypeTime ==
    ASSUME TypeOK, NEW c \in Commands, TimeNext(c)
    PROVE  TypeOK'
<1> USE DEF TypeOK, clientVars, streamVars, loopVars, historyVars
<1>1. CASE IdleElapses(c)  BY <1>1 DEF IdleElapses, Disrupt, Disrupted
<1>2. CASE DeadlinePasses(c)  BY <1>2 DEF DeadlinePasses
<1> QED  BY <1>1, <1>2 DEF TimeNext

(* What the two delivering calls do to the Stream, whoever hears of it. *)
LEMMA AutoClaimTyped ==
    ASSUME TypeOK, NEW r \in Replicas, NEW S \in SUBSET pending, XAUTOCLAIM(r, S)
    PROVE  /\ IsFiniteSet(S) /\ S \subseteq stale /\ S \subseteq Commands
           /\ undelivered' = undelivered /\ pending' = pending
           /\ stale' = stale \ S
           /\ claims' \in [Commands -> Nat]
           /\ \A c \in Commands : claims'[c] = IF c \in S THEN claims[c] + 1 ELSE claims[c]
BY DEF XAUTOCLAIM, Fills, Delivered, TypeOK

LEMMA ReadGroupTyped ==
    ASSUME TypeOK, NEW r \in Replicas, NEW S \in SUBSET undelivered, XREADGROUP(r, S)
    PROVE  /\ IsFiniteSet(S) /\ S \subseteq undelivered /\ S \subseteq Commands
           /\ undelivered' = undelivered \ S /\ pending' = pending \cup S
           /\ stale' = stale
           /\ claims' \in [Commands -> Nat]
           /\ \A c \in Commands : claims'[c] = IF c \in S THEN claims[c] + 1 ELSE claims[c]
BY DEF XREADGROUP, Fills, Delivered, TypeOK

(* The entries a lost call delivered, if it was executed. *)
LEMMA CallLostTyped ==
    ASSUME TypeOK, NEW r \in Replicas, CallLost(r)
    PROVE  /\ undelivered' \subseteq undelivered
           /\ pending' = pending \cup (undelivered \ undelivered')
           /\ stale' \subseteq stale
           /\ claims' \in [Commands -> Nat]
           /\ \A c \in Commands : claims'[c] \in {claims[c], claims[c] + 1}
           /\ \A c \in Commands : claims'[c] = claims[c] + 1 => c \in stale \cup undelivered
<1>1. CASE \E S \in SUBSET pending : XAUTOCLAIM(r, S)
  BY <1>1, AutoClaimTyped DEF TypeOK
<1>2. CASE \E S \in SUBSET undelivered : XREADGROUP(r, S)
  BY <1>2, ReadGroupTyped DEF TypeOK
<1>3. CASE UNCHANGED <<streamVars, claims>>
  BY <1>3 DEF TypeOK, streamVars
<1> QED  BY <1>1, <1>2, <1>3 DEF CallLost

LEMMA AbandonTyped ==
    ASSUME TypeOK, NEW r \in Replicas, Abandon(r)
    PROVE  /\ status' \in [Replicas -> {"down", "up", "stopping"}]
           /\ loop' \in [Replicas -> {"top", "fetch", "read"}]
           /\ room' \in [Replicas -> 0..Concurrency]
           /\ TaskTyped'
<1>1. TaskTyped'
  BY DroppedTyped DEF TypeOK, TaskTyped, Abandon
<1> QED
  BY <1>1, ConcurrencyAssumption DEF TypeOK, Abandon

LEMMA TypeReplica ==
    ASSUME TypeOK, NEW r \in Replicas, ReplicaNext(r)
    PROVE  TypeOK'
<1> USE DEF clientVars, streamVars, loopVars, historyVars
<1>1. CASE StartReplica(r)  BY <1>1 DEF TypeOK, StartReplica
<1>2. CASE CancelReplica(r)  BY <1>2 DEF TypeOK, CancelReplica
<1>3. CASE BeginFetch(r)
  <2>1. Cardinality(TasksOf(r)) \in Nat
    <3>1. IsFiniteSet(TasksOf(r))
      BY FS_Subset DEF TypeOK, TasksOf
    <3> QED  BY <3>1, FS_CardinalityType
  <2>2. Concurrency - Cardinality(TasksOf(r)) \in 0..Concurrency
    BY <1>3, <2>1, ConcurrencyAssumption DEF BeginFetch
  <2> QED  BY <1>3, <2>2 DEF TypeOK, BeginFetch
<1>4. CASE Reclaim(r)
  <2>1. PICK S \in SUBSET pending : XAUTOCLAIM(r, S) /\ Spawn(r, S)
    BY <1>4 DEF Reclaim
  <2>2. TaskTyped'
    BY <2>1, AutoClaimTyped, SpawnTyped
  <2>3. /\ loop' \in [Replicas -> {"top", "fetch", "read"}]
        /\ room' \in [Replicas -> 0..Concurrency]
    BY <1>4, ConcurrencyAssumption DEF TypeOK, Reclaim
  <2> QED
    BY <1>4, <2>1, <2>2, <2>3, AutoClaimTyped DEF TypeOK, TaskTyped, Reclaim
<1>5. CASE ReadGroup(r)
  <2>1. PICK S \in SUBSET undelivered : XREADGROUP(r, S) /\ Spawn(r, S)
    BY <1>5 DEF ReadGroup
  <2>2. TaskTyped'
    BY <2>1, ReadGroupTyped, SpawnTyped
  <2> QED
    BY <1>5, <2>1, <2>2, ReadGroupTyped, ConcurrencyAssumption
    DEF TypeOK, TaskTyped, ReadGroup
<1>6. CASE FetchFails(r)
  BY <1>6, CallLostTyped, AbandonTyped
  DEF TypeOK, TaskTyped, FetchFails, Disrupt, Disrupted
<1>7. CASE LoopFails(r)
  BY <1>7, AbandonTyped DEF TypeOK, TaskTyped, LoopFails, Disrupted
<1>8. CASE Drained(r)  BY <1>8 DEF TypeOK, Drained
<1>9. CASE ShutdownAborts(r)
  BY <1>9, CallLostTyped, AbandonTyped
  DEF TypeOK, TaskTyped, ShutdownAborts, Disrupt, Disrupted
<1>10. CASE Crash(r)
  BY <1>10, CallLostTyped, AbandonTyped
  DEF TypeOK, TaskTyped, Crash, Disrupt, Disrupted
<1> QED
  BY <1>1, <1>2, <1>3, <1>4, <1>5, <1>6, <1>7, <1>8, <1>9, <1>10 DEF ReplicaNext

(* Every task action replaces the task by a successor or ends it. *)
LEMMA TaskStep ==
    ASSUME TypeOK, NEW t \in tasks, TaskNext(t)
    PROVE  \/ \E u \in Task : Successor(t, u) /\ Becomes(t, u)
           \/ tasks' = tasks \ {t}
           \/ tasks' = tasks
<1> t \in Task
  BY DEF TypeOK
<1>1. CASE Discard(t)  BY <1>1, PhaseSuccessor DEF Discard, Successor
<1>2. CASE Refuse(t)
  BY <1>2, AnsweringSuccessor DEF Refuse, Successor, Bodies
<1>3. CASE Invoke(t)  BY <1>3, PhaseSuccessor DEF Invoke, Successor
<1>4. CASE Heartbeat(t)  BY <1>4 DEF Heartbeat
<1>5. CASE HeartbeatFails(t) \/ HandlerPanics(t) \/ CompleteFails(t)
  BY <1>5, FailedSuccessor
  DEF HeartbeatFails, HandlerPanics, CompleteFails, Fails, Successor
<1>6. CASE HandlerReturns(t)
  BY <1>6, AnsweringSuccessor DEF HandlerReturns, Successor, Bodies
<1>7. CASE Publish(t) \/ PublishFails(t)
  BY <1>7, PhaseSuccessor DEF Publish, PublishFails, Successor
<1>8. CASE Complete(t)
  BY <1>8, FailedSuccessor DEF Complete, Fails, Successor
<1> QED
  BY <1>1, <1>2, <1>3, <1>4, <1>5, <1>6, <1>7, <1>8 DEF TaskNext

LEMMA TypeTask ==
    ASSUME TypeOK, NEW t \in tasks, TaskNext(t)
    PROVE  TypeOK'
<1>1. TaskTyped'
  BY TaskStep, BecomesTyped, DroppedTyped DEF TaskTyped, TypeOK
<1>2. t \in Task
  BY DEF TypeOK
<1>3. t.cmd \in Commands /\ t.turn \in Nat /\ t.body \in Bodies \cup {"none"}
  BY <1>2 DEF Task
<1> USE <1>1, <1>3
        DEF TaskTyped, TypeOK, clientVars, streamVars, loopVars, historyVars
<1>4. CASE Discard(t)  BY <1>4 DEF Discard
<1>5. CASE Refuse(t)  BY <1>5 DEF Refuse
<1>6. CASE Invoke(t)  BY <1>6 DEF Invoke
<1>7. CASE Heartbeat(t)  BY <1>7 DEF Heartbeat, Touch
<1>8. CASE HeartbeatFails(t)  BY <1>8 DEF HeartbeatFails, Touch, Disrupt, Disrupted
<1>9. CASE HandlerReturns(t)  BY <1>9 DEF HandlerReturns
<1>10. CASE HandlerPanics(t)  BY <1>10 DEF HandlerPanics, Disrupt, Disrupted
<1>11. CASE Publish(t)
  BY <1>11 DEF Publish, PUBLISH
<1>12. CASE PublishFails(t)
  BY <1>12 DEF PublishFails, PUBLISH, Disrupt, Disrupted
<1>13. CASE Complete(t)  BY <1>13 DEF Complete, AckDelete
<1>14. CASE CompleteFails(t)
  BY <1>14 DEF CompleteFails, AckDelete, Disrupt, Disrupted
<1> QED
  BY <1>4, <1>5, <1>6, <1>7, <1>8, <1>9, <1>10, <1>11, <1>12, <1>13, <1>14
  DEF TaskNext

LEMMA TypeStep == TypeOK /\ [Next]_vars => TypeOK'
<1> SUFFICES ASSUME TypeOK, [Next]_vars
             PROVE  TypeOK'
  OBVIOUS
<1>1. CASE UNCHANGED vars
  BY <1>1 DEF TypeOK, vars, clientVars, streamVars, loopVars, historyVars
<1> QED
  BY <1>1, TypeClient, TypeTime, TypeReplica, TypeTask DEF Next

(* Every variable keeps its type; stale entries are pending ones. *)
THEOREM TypeCorrect == Spec => []TypeOK
BY TypeInit, TypeStep, PTL DEF Spec

-----------------------------------------------------------------------------
(* Shared facts about the steps. *)

(* A replica step that hands out entries: what is delivered was claimable, is
   pending afterwards, and the new tasks are exactly the deliveries. *)
LEMMA ReclaimStep ==
    ASSUME TypeOK, NEW r \in Replicas, Reclaim(r)
    PROVE  \E S \in SUBSET stale :
              /\ S \subseteq Commands /\ IsFiniteSet(S)
              /\ S = {} \/ Cardinality(S) <= room[r]
              /\ undelivered' = undelivered /\ pending' = pending
              /\ stale' = stale \ S
              /\ \A c \in Commands : claims'[c] = IF c \in S THEN claims[c] + 1 ELSE claims[c]
              /\ tasks' = tasks \cup {NewTask(r, c) : c \in S}
              /\ S = {} => loop'[r] = "read" /\ room' = room
              /\ S # {} => loop'[r] = "top"
<1>1. PICK S \in SUBSET pending :
        /\ XAUTOCLAIM(r, S)
        /\ Spawn(r, S)
        /\ IF S = {}
           THEN loop' = [loop EXCEPT ![r] = "read"] /\ UNCHANGED room
           ELSE loop' = [loop EXCEPT ![r] = "top"] /\ room' = [room EXCEPT ![r] = 0]
  BY DEF Reclaim
<1>2. Cardinality(S) <= room[r]
  BY <1>1 DEF XAUTOCLAIM, Fills, TypeOK
<1> QED
  BY <1>1, <1>2, AutoClaimTyped DEF TypeOK, Spawn

LEMMA ReadGroupStep ==
    ASSUME TypeOK, NEW r \in Replicas, ReadGroup(r)
    PROVE  \E S \in SUBSET undelivered :
              /\ S \subseteq Commands /\ IsFiniteSet(S)
              /\ Cardinality(S) <= room[r]
              /\ undelivered' = undelivered \ S /\ pending' = pending \cup S
              /\ stale' = stale
              /\ \A c \in Commands : claims'[c] = IF c \in S THEN claims[c] + 1 ELSE claims[c]
              /\ tasks' = tasks \cup {NewTask(r, c) : c \in S}
<1>1. PICK S \in SUBSET undelivered : XREADGROUP(r, S) /\ Spawn(r, S)
  BY DEF ReadGroup
<1>2. Cardinality(S) <= room[r]
  BY <1>1 DEF XREADGROUP, Fills, TypeOK
<1> QED
  BY <1>1, <1>2, ReadGroupTyped DEF Spawn

(* The tasks after entries were handed out: old ones, or one for a delivery. *)
LEMMA SpawnedTasks ==
    ASSUME TypeOK, NEW r \in Replicas, NEW S \in SUBSET Commands,
           \A c \in Commands : claims'[c] = IF c \in S THEN claims[c] + 1 ELSE claims[c],
           tasks' = tasks \cup {NewTask(r, c) : c \in S},
           NEW t \in tasks'
    PROVE  /\ t \in Task
           /\ claims[t.cmd] <= claims'[t.cmd] /\ claims'[t.cmd] \in Nat
           /\ \/ t \in tasks
              \/ /\ t.cmd \in S /\ t.rep = r /\ t.phase = "claimed"
                 /\ t.turn = claims[t.cmd] + 1 /\ t.turn = claims'[t.cmd]
<1>1. CASE t \in tasks
  BY <1>1 DEF TypeOK, Task
<1>2. CASE \E c \in S : t = NewTask(r, c)
  BY <1>2, NewTaskTyped DEF TypeOK
<1> QED  BY <1>1, <1>2

(* A replica step spawns fresh tasks or drops some. *)
LEMMA ReplicaTasks ==
    ASSUME TypeOK, NEW r \in Replicas, ReplicaNext(r), NEW t \in tasks'
    PROVE  t \in tasks \/ t.phase = "claimed"
<1>1. CASE Reclaim(r)
  <2>1. PICK S \in SUBSET stale :
          /\ S \subseteq Commands
          /\ \A c \in Commands : claims'[c] = IF c \in S THEN claims[c] + 1 ELSE claims[c]
          /\ tasks' = tasks \cup {NewTask(r, c) : c \in S}
    BY <1>1, ReclaimStep
  <2> QED  BY <2>1, SpawnedTasks
<1>2. CASE ReadGroup(r)
  <2>1. PICK S \in SUBSET undelivered :
          /\ S \subseteq Commands
          /\ \A c \in Commands : claims'[c] = IF c \in S THEN claims[c] + 1 ELSE claims[c]
          /\ tasks' = tasks \cup {NewTask(r, c) : c \in S}
    BY <1>2, ReadGroupStep
  <2> QED  BY <2>1, SpawnedTasks
<1>3. CASE tasks' \subseteq tasks  BY <1>3
<1> QED
  BY <1>1, <1>2, <1>3
  DEF ReplicaNext, StartReplica, CancelReplica, BeginFetch, FetchFails,
      LoopFails, Drained, ShutdownAborts, Crash, Abandon

-----------------------------------------------------------------------------
(* The Stream, the group and the tasks agree on which entries exist. *)

StreamInv ==
    /\ undelivered \cap pending = {}
    /\ undelivered \cup pending \subseteq added
    /\ answered \subseteq added
    /\ \A t \in tasks : t.cmd \in added /\ 1 <= t.turn /\ t.turn <= claims[t.cmd]
    /\ \A c \in Commands : client[c] \in {"new", "subscribed"} => c \notin added

LEMMA StreamInit == Init => StreamInv
BY DEF Init, StreamInv

LEMMA StreamStep == TypeOK /\ StreamInv /\ [Next]_vars => StreamInv'
<1> SUFFICES ASSUME TypeOK, StreamInv, [Next]_vars
             PROVE  StreamInv'
  OBVIOUS
<1> USE DEF StreamInv, clientVars, streamVars, loopVars, historyVars
<1>1. ASSUME NEW c \in Commands, ClientNext(c)
      PROVE  StreamInv'
  BY <1>1 DEF TypeOK, ClientNext, Subscribe, Send, SendUnheard, GiveUp, Receive, XADD, Bodies
<1>2. ASSUME NEW c \in Commands, TimeNext(c)
      PROVE  StreamInv'
  BY <1>2 DEF TypeOK, TimeNext, IdleElapses, DeadlinePasses
<1>3. ASSUME NEW r \in Replicas, ReplicaNext(r)
      PROVE  StreamInv'
  <2>1. CASE StartReplica(r) \/ CancelReplica(r) \/ BeginFetch(r) \/ Drained(r)
    BY <2>1 DEF StartReplica, CancelReplica, BeginFetch, Drained
  <2>2. CASE Reclaim(r)
    <3>1. PICK S \in SUBSET stale :
              /\ S \subseteq Commands
              /\ undelivered' = undelivered /\ pending' = pending
              /\ \A c \in Commands : claims'[c] = IF c \in S THEN claims[c] + 1 ELSE claims[c]
              /\ tasks' = tasks \cup {NewTask(r, c) : c \in S}
      BY <2>2, ReclaimStep
    <3>2. \A t \in tasks' : t.cmd \in added /\ 1 <= t.turn /\ t.turn <= claims'[t.cmd]
      <4> TAKE t \in tasks'
      <4>1. /\ t \in Task /\ claims[t.cmd] <= claims'[t.cmd] /\ claims'[t.cmd] \in Nat
            /\ \/ t \in tasks
               \/ /\ t.cmd \in S
                  /\ t.turn = claims[t.cmd] + 1 /\ t.turn = claims'[t.cmd]
        BY <3>1, SpawnedTasks
      <4>2. t.cmd \in added
        BY <3>1, <4>1 DEF TypeOK
      <4> QED  BY <4>1, <4>2 DEF TypeOK, Task
    <3> QED  BY <2>2, <3>1, <3>2 DEF Reclaim
  <2>3. CASE ReadGroup(r)
    <3>1. PICK S \in SUBSET undelivered :
              /\ S \subseteq Commands
              /\ undelivered' = undelivered \ S /\ pending' = pending \cup S
              /\ \A c \in Commands : claims'[c] = IF c \in S THEN claims[c] + 1 ELSE claims[c]
              /\ tasks' = tasks \cup {NewTask(r, c) : c \in S}
      BY <2>3, ReadGroupStep
    <3>2. \A t \in tasks' : t.cmd \in added /\ 1 <= t.turn /\ t.turn <= claims'[t.cmd]
      <4> TAKE t \in tasks'
      <4>1. /\ t \in Task /\ claims[t.cmd] <= claims'[t.cmd] /\ claims'[t.cmd] \in Nat
            /\ \/ t \in tasks
               \/ /\ t.cmd \in S
                  /\ t.turn = claims[t.cmd] + 1 /\ t.turn = claims'[t.cmd]
        BY <3>1, SpawnedTasks
      <4>2. t.cmd \in added
        BY <3>1, <4>1 DEF TypeOK
      <4> QED  BY <4>1, <4>2 DEF TypeOK, Task
    <3> QED  BY <2>3, <3>1, <3>2 DEF ReadGroup
  <2>4. CASE FetchFails(r) \/ ShutdownAborts(r) \/ Crash(r)
    <3>1. /\ CallLost(r) /\ Abandon(r)
          /\ UNCHANGED <<client, added, answered>>
      BY <2>4 DEF FetchFails, ShutdownAborts, Crash
    <3>2. \A t \in tasks' : t \in tasks
      BY <3>1 DEF Abandon
    <3>3. \A t \in tasks' : t.cmd \in added /\ 1 <= t.turn /\ t.turn <= claims'[t.cmd]
      BY <3>1, <3>2, CallLostTyped DEF TypeOK, Task
    <3> QED  BY <3>1, <3>3, CallLostTyped
  <2>5. CASE LoopFails(r)
    BY <2>5 DEF LoopFails, Abandon
  <2> QED  BY <1>3, <2>1, <2>2, <2>3, <2>4, <2>5 DEF ReplicaNext
<1>4. ASSUME NEW t \in tasks, TaskNext(t)
      PROVE  StreamInv'
  <2>1. /\ UNCHANGED <<client, added, claims>>
        /\ undelivered' \subseteq undelivered /\ pending' \subseteq pending
        /\ answered' \subseteq answered \cup {t.cmd}
    BY <1>4
    DEF TaskNext, Discard, Refuse, Invoke, Heartbeat, HeartbeatFails,
        HandlerReturns, HandlerPanics, Publish, PublishFails, Complete,
        CompleteFails, AckDelete
  <2>2. \A u \in tasks' : u.cmd \in added /\ 1 <= u.turn /\ u.turn <= claims[u.cmd]
    BY <1>4, TaskStep DEF Successor, Becomes
  <2> QED  BY <2>1, <2>2
<1>5. CASE UNCHANGED vars
  BY <1>5 DEF vars
<1> QED
  BY <1>1, <1>2, <1>3, <1>4, <1>5 DEF Next

-----------------------------------------------------------------------------
(* Replies reach the callers that wait for them. *)

ReplyInv ==
    /\ \A t \in tasks : t.phase = "publish" => t.body \in Bodies
    /\ \A c \in Commands : client[c] \in {"subscribed", "waiting"} => inbox[c] # "closed"
    /\ NoReplyMissed

LEMMA ReplyInit == Init => ReplyInv
BY DEF Init, ReplyInv, NoReplyMissed

LEMMA ReplyStep == TypeOK /\ StreamInv /\ ReplyInv /\ [Next]_vars => ReplyInv'
<1> SUFFICES ASSUME TypeOK, StreamInv, ReplyInv, [Next]_vars
             PROVE  ReplyInv'
  OBVIOUS
<1> USE DEF ReplyInv, NoReplyMissed, clientVars, streamVars, loopVars, historyVars
<1>1. ASSUME NEW c \in Commands, ClientNext(c)
      PROVE  ReplyInv'
  <2>1. CASE Subscribe(c)
    BY <2>1 DEF TypeOK, Subscribe, Bodies
  <2>2. CASE Send(c)
    BY <2>2 DEF TypeOK, StreamInv, Send, Bodies
  <2>3. CASE SendUnheard(c)
    BY <2>3 DEF TypeOK, SendUnheard, Bodies
  <2>4. CASE GiveUp(c)
    BY <2>4 DEF TypeOK, GiveUp, Bodies
  <2>5. CASE Receive(c)
    BY <2>5 DEF TypeOK, Receive, Bodies
  <2> QED  BY <1>1, <2>1, <2>2, <2>3, <2>4, <2>5 DEF ClientNext
<1>2. ASSUME NEW c \in Commands, TimeNext(c)
      PROVE  ReplyInv'
  BY <1>2 DEF TimeNext, IdleElapses, DeadlinePasses
<1>3. ASSUME NEW r \in Replicas, ReplicaNext(r)
      PROVE  ReplyInv'
  <2>1. UNCHANGED <<client, inbox, answered>>
    BY <1>3
    DEF ReplicaNext, StartReplica, CancelReplica, BeginFetch, Reclaim,
        ReadGroup, FetchFails, LoopFails, Drained, ShutdownAborts, Crash
  <2>2. \A t \in tasks' : t \in tasks \/ t.phase = "claimed"
    BY <1>3, ReplicaTasks
  <2> QED  BY <2>1, <2>2
<1>4. ASSUME NEW t \in tasks, TaskNext(t)
      PROVE  ReplyInv'
  <2> t \in Task /\ t.cmd \in Commands /\ t.cmd \in added
    BY DEF TypeOK, StreamInv, Task
  <2>1. CASE Discard(t)
    BY <2>1, PhaseSuccessor DEF Discard, Becomes
  <2>2. CASE Refuse(t)
    BY <2>2, AnsweringSuccessor DEF Refuse, Becomes, Bodies
  <2>3. CASE Invoke(t)
    BY <2>3, PhaseSuccessor DEF Invoke, Becomes
  <2>4. CASE Heartbeat(t)
    BY <2>4 DEF Heartbeat
  <2>5. CASE HeartbeatFails(t) \/ HandlerPanics(t) \/ CompleteFails(t) \/ Complete(t)
    BY <2>5, FailedSuccessor
    DEF HeartbeatFails, HandlerPanics, CompleteFails, Complete, Fails, Becomes
  <2>6. CASE HandlerReturns(t)
    BY <2>6, AnsweringSuccessor DEF HandlerReturns, Becomes, Bodies
  <2>7. CASE Publish(t) \/ PublishFails(t)
    <3>1. \A u \in tasks' : u.phase = "publish" => u.body \in Bodies
      BY <2>7, PhaseSuccessor DEF Publish, PublishFails, Becomes
    <3>2. UNCHANGED client
      BY <2>7 DEF Publish, PublishFails
    <3>3. CASE PUBLISH(t.cmd, t.body) /\ answered' = answered \cup {t.cmd}
      <4>1. t.body \in Bodies
        BY <2>7 DEF Publish, PublishFails
      <4> QED  BY <3>1, <3>2, <3>3, <4>1 DEF PUBLISH, TypeOK, Bodies
    <3>4. CASE UNCHANGED <<inbox, answered>>
      BY <3>1, <3>2, <3>4
    <3> QED  BY <2>7, <3>3, <3>4 DEF Publish, PublishFails
  <2> QED
    BY <1>4, <2>1, <2>2, <2>3, <2>4, <2>5, <2>6, <2>7 DEF TaskNext
<1>5. CASE UNCHANGED vars
  BY <1>5 DEF vars
<1> QED
  BY <1>1, <1>2, <1>3, <1>4, <1>5 DEF Next

-----------------------------------------------------------------------------
(* Nothing leaves the Stream undecided. *)

DecisionInv ==
    /\ \A t \in tasks : t.phase \in {"publish", "complete"} => Decided(t.cmd)
    /\ NothingLost

LEMMA DecisionInit == Init => DecisionInv
BY DEF Init, DecisionInv, NothingLost

LEMMA DecisionStep == TypeOK /\ StreamInv /\ DecisionInv /\ [Next]_vars => DecisionInv'
<1> SUFFICES ASSUME TypeOK, StreamInv, DecisionInv, [Next]_vars
             PROVE  DecisionInv'
  OBVIOUS
<1> USE DEF DecisionInv, NothingLost, Stored, Decided, clientVars, streamVars,
            loopVars, historyVars
<1>1. ASSUME NEW c \in Commands, ClientNext(c)
      PROVE  DecisionInv'
  BY <1>1
  DEF ClientNext, Subscribe, Send, SendUnheard, GiveUp, Receive, XADD
<1>2. ASSUME NEW c \in Commands, TimeNext(c)
      PROVE  DecisionInv'
  BY <1>2 DEF TimeNext, IdleElapses, DeadlinePasses
<1>3. ASSUME NEW r \in Replicas, ReplicaNext(r)
      PROVE  DecisionInv'
  <2>1. UNCHANGED <<added, returned, rejected>>
    BY <1>3
    DEF ReplicaNext, StartReplica, CancelReplica, BeginFetch, Reclaim,
        ReadGroup, FetchFails, LoopFails, Drained, ShutdownAborts, Crash
  <2>2. \A t \in tasks' : t \in tasks \/ t.phase = "claimed"
    BY <1>3, ReplicaTasks
  <2>3. undelivered' \cup pending' = undelivered \cup pending
    <3>1. CASE Reclaim(r)  BY <3>1, ReclaimStep
    <3>2. CASE ReadGroup(r)
      <4>1. PICK S \in SUBSET undelivered : /\ undelivered' = undelivered \ S
                                           /\ pending' = pending \cup S
        BY <3>2, ReadGroupStep
      <4> QED  BY <4>1
    <3>3. CASE CallLost(r)  BY <3>3, CallLostTyped
    <3>4. CASE UNCHANGED streamVars  BY <3>4
    <3> QED
      BY <1>3, <3>1, <3>2, <3>3, <3>4
      DEF ReplicaNext, StartReplica, CancelReplica, BeginFetch, FetchFails,
          LoopFails, Drained, ShutdownAborts, Crash
  <2> QED  BY <2>1, <2>2, <2>3
<1>4. ASSUME NEW t \in tasks, TaskNext(t)
      PROVE  DecisionInv'
  <2> t \in Task /\ t.cmd \in Commands
    BY DEF TypeOK, Task
  <2>1. CASE Discard(t)
    BY <2>1, PhaseSuccessor DEF Discard, Becomes, Successor
  <2>2. CASE Refuse(t)
    BY <2>2, AnsweringSuccessor DEF Refuse, Becomes, Bodies, Successor
  <2>3. CASE Invoke(t)
    BY <2>3, PhaseSuccessor DEF Invoke, Becomes
  <2>4. CASE Heartbeat(t)
    BY <2>4 DEF Heartbeat
  <2>5. CASE HeartbeatFails(t) \/ HandlerPanics(t)
    BY <2>5, FailedSuccessor DEF HeartbeatFails, HandlerPanics, Fails, Becomes
  <2>6. CASE HandlerReturns(t)
    BY <2>6, AnsweringSuccessor DEF HandlerReturns, Becomes, Bodies, Successor
  <2>7. CASE Publish(t) \/ PublishFails(t)
    BY <2>7, PhaseSuccessor DEF Publish, PublishFails, Becomes, Successor
  <2>8. CASE Complete(t) \/ CompleteFails(t)
    BY <2>8, FailedSuccessor
    DEF Complete, CompleteFails, AckDelete, Fails, Becomes
  <2> QED
    BY <1>4, <2>1, <2>2, <2>3, <2>4, <2>5, <2>6, <2>7, <2>8 DEF TaskNext
<1>5. CASE UNCHANGED vars
  BY <1>5 DEF vars
<1> QED
  BY <1>1, <1>2, <1>3, <1>4, <1>5 DEF Next

-----------------------------------------------------------------------------
(* Every delivery after the first is paid for by a disruption.  An entry that
   some replica may be given next counts as one more delivery owed. *)

Claimable(c) ==
    \/ c \notin added
    \/ c \in undelivered
    \/ c \in pending /\ (c \in stale \/ ~Attended(c))

Owed(c) == IF Claimable(c) THEN 1 ELSE 0

PaidInv ==
    \A c \in Commands :
        /\ claims[c] + Owed(c) <= 1 + disruptions
        /\ \A n \in invoked[c] : 1 <= n /\ n <= claims[c]

LEMMA PaidInit == Init => PaidInv
BY DEF Init, PaidInv, Owed, Claimable

(* A step that delivers nothing and makes nothing claimable. *)
LEMMA PaidQuiet ==
    ASSUME TypeOK, PaidInv, UNCHANGED <<claims, invoked, disruptions>>,
           \A c \in Commands : Claimable(c)' => Claimable(c)
    PROVE  PaidInv'
BY DEF TypeOK, PaidInv, Owed

(* A disruption that delivers at most what was claimable. *)
LEMMA PaidDisrupted ==
    ASSUME TypeOK, PaidInv, UNCHANGED invoked, Disrupted,
           claims' \in [Commands -> Nat],
           \A c \in Commands : \/ claims'[c] = claims[c]
                               \/ claims'[c] = claims[c] + 1 /\ Claimable(c)
    PROVE  PaidInv'
<1> SUFFICES ASSUME NEW c \in Commands
             PROVE  /\ claims'[c] + Owed(c)' <= 1 + disruptions'
                    /\ \A n \in invoked'[c] : 1 <= n /\ n <= claims'[c]
  BY DEF PaidInv
<1>1. Owed(c)' \in {0, 1} /\ Owed(c) \in {0, 1}
  BY DEF Owed
<1>2. claims[c] \in Nat /\ claims'[c] \in Nat /\ disruptions \in Nat /\ invoked[c] \subseteq Nat
  BY DEF TypeOK
<1>3. claims[c] + Owed(c) <= 1 + disruptions /\ disruptions' = disruptions + 1
  BY DEF PaidInv, Disrupted
<1>4. claims'[c] <= 1 + disruptions /\ claims[c] <= claims'[c]
  BY <1>1, <1>2, <1>3 DEF Owed
<1>5. \A n \in invoked[c] : 1 <= n /\ n <= claims[c]
  BY DEF PaidInv
<1> QED
  BY <1>1, <1>2, <1>3, <1>4, <1>5

(* A delivery of claimable entries to tasks of a live replica. *)
LEMMA PaidDelivery ==
    ASSUME TypeOK, StreamInv, PaidInv,
           NEW r \in Replicas, NEW S \in SUBSET Commands,
           UNCHANGED <<invoked, disruptions, added>>,
           \A c \in S : Claimable(c),
           \A c \in S : c \notin undelivered' /\ c \notin stale' /\ c \in added,
           undelivered' \subseteq undelivered, pending' \subseteq pending \cup S,
           stale' \subseteq stale,
           \A c \in Commands : claims'[c] = IF c \in S THEN claims[c] + 1 ELSE claims[c],
           tasks' = tasks \cup {NewTask(r, c) : c \in S}
    PROVE  PaidInv'
<1>1. ASSUME NEW c \in S
      PROVE  ~Claimable(c)'
  <2>1. NewTask(r, c) \in tasks' /\ NewTask(r, c).cmd = c /\ Live(NewTask(r, c))
    BY NewTaskTyped DEF Live
  <2>2. Attended(c)'
    BY <2>1 DEF Attended, Live
  <2> QED  BY <2>2 DEF Claimable
<1>2. ASSUME NEW c \in Commands \ S, Claimable(c)'
      PROVE  Claimable(c)
  <2>1. Attended(c) => Attended(c)'
    BY DEF Attended, Live
  <2> QED  BY <1>2, <2>1 DEF Claimable
<1> SUFFICES ASSUME NEW c \in Commands
             PROVE  /\ claims'[c] + Owed(c)' <= 1 + disruptions'
                    /\ \A n \in invoked'[c] : 1 <= n /\ n <= claims'[c]
  BY DEF PaidInv
<1>3. claims[c] \in Nat /\ disruptions \in Nat /\ invoked[c] \subseteq Nat
  BY DEF TypeOK
<1>4. /\ claims[c] + Owed(c) <= 1 + disruptions
      /\ \A n \in invoked[c] : 1 <= n /\ n <= claims[c]
  BY DEF PaidInv
<1>5. CASE c \in S
  <2>1. Owed(c)' = 0 /\ Owed(c) = 1
    BY <1>1, <1>5 DEF Owed
  <2> QED  BY <1>3, <1>4, <1>5, <2>1
<1>6. CASE c \notin S
  <2>1. Owed(c)' <= Owed(c) /\ Owed(c) \in {0, 1} /\ Owed(c)' \in {0, 1}
    BY <1>2, <1>6 DEF Owed
  <2> QED  BY <1>3, <1>4, <1>6, <2>1
<1> QED  BY <1>5, <1>6

(* A live task that stays live, or leaves with its entry, makes nothing
   claimable. *)
LEMMA PaidTask ==
    ASSUME TypeOK, PaidInv, UNCHANGED <<claims, invoked, disruptions, added>>,
           NEW t \in tasks,
           undelivered' \subseteq undelivered, pending' \subseteq pending,
           stale' \subseteq stale,
           \/ t.cmd \in added /\ t.cmd \notin undelivered' \cup pending'
           \/ \E u \in tasks' : u.cmd = t.cmd /\ Live(u),
           \A u \in tasks : u # t => u \in tasks'
    PROVE  PaidInv'
<1> SUFFICES ASSUME NEW c \in Commands, Claimable(c)'
             PROVE  Claimable(c)
  BY PaidQuiet
<1>1. CASE c = t.cmd
  BY <1>1 DEF Claimable, Attended, Live
<1>2. CASE c # t.cmd
  <2>1. Attended(c) => Attended(c)'
    BY <1>2 DEF Attended, Live
  <2> QED  BY <2>1 DEF Claimable
<1> QED  BY <1>1, <1>2

LEMMA PaidStep == TypeOK /\ StreamInv /\ PaidInv /\ [Next]_vars => PaidInv'
<1> SUFFICES ASSUME TypeOK, StreamInv, PaidInv, [Next]_vars
             PROVE  PaidInv'
  OBVIOUS
<1> USE DEF clientVars, streamVars, loopVars, historyVars
<1>1. ASSUME NEW c \in Commands, ClientNext(c)
      PROVE  PaidInv'
  <2>1. UNCHANGED <<claims, invoked, disruptions, tasks>>
    BY <1>1 DEF ClientNext, Subscribe, Send, SendUnheard, GiveUp, Receive
  <2>2. \A d \in Commands : Claimable(d)' => Claimable(d)
    <3>1. CASE Send(c) \/ SendUnheard(c)
      <4>1. c \notin added /\ UNCHANGED <<pending, stale>>
            /\ undelivered' = undelivered \cup {c} /\ added' = added \cup {c}
        BY <3>1 DEF StreamInv, Send, SendUnheard, XADD
      <4> QED  BY <2>1, <4>1 DEF Claimable, Attended, Live
    <3>2. CASE UNCHANGED <<added, streamVars>>
      BY <2>1, <3>2 DEF Claimable, Attended, Live
    <3> QED
      BY <1>1, <3>1, <3>2 DEF ClientNext, Subscribe, GiveUp, Receive
  <2> QED  BY <2>1, <2>2, PaidQuiet
<1>2. ASSUME NEW c \in Commands, TimeNext(c)
      PROVE  PaidInv'
  <2>1. CASE IdleElapses(c) /\ ~Attended(c)
    <3>1. \A d \in Commands : Claimable(d)' => Claimable(d)
      BY <2>1 DEF IdleElapses, Claimable, Attended, Live
    <3> QED  BY <2>1, <3>1, PaidQuiet DEF IdleElapses
  <2>2. CASE IdleElapses(c) /\ Attended(c)
    BY <2>2, PaidDisrupted DEF TypeOK, IdleElapses, Disrupt
  <2>3. CASE DeadlinePasses(c)
    BY <2>3, PaidQuiet DEF DeadlinePasses, Claimable, Attended, Live
  <2> QED  BY <1>2, <2>1, <2>2, <2>3 DEF TimeNext
<1>3. ASSUME NEW r \in Replicas, ReplicaNext(r)
      PROVE  PaidInv'
  <2>1. CASE StartReplica(r) \/ CancelReplica(r) \/ BeginFetch(r) \/ Drained(r)
    BY <2>1, PaidQuiet
    DEF StartReplica, CancelReplica, BeginFetch, Drained, Claimable, Attended, Live
  <2>2. CASE Reclaim(r)
    <3>1. PICK S \in SUBSET stale :
              /\ S \subseteq Commands
              /\ undelivered' = undelivered /\ pending' = pending
              /\ stale' = stale \ S
              /\ \A c \in Commands : claims'[c] = IF c \in S THEN claims[c] + 1 ELSE claims[c]
              /\ tasks' = tasks \cup {NewTask(r, c) : c \in S}
      BY <2>2, ReclaimStep
    <3>2. UNCHANGED <<invoked, disruptions, added>>
      BY <2>2 DEF Reclaim
    <3>3. \A c \in S : /\ Claimable(c) /\ c \in added
                       /\ c \notin undelivered' /\ c \notin stale'
      BY <3>1 DEF TypeOK, StreamInv, Claimable
    <3> QED  BY <3>1, <3>2, <3>3, PaidDelivery
  <2>3. CASE ReadGroup(r)
    <3>1. PICK S \in SUBSET undelivered :
              /\ S \subseteq Commands
              /\ undelivered' = undelivered \ S /\ pending' = pending \cup S
              /\ stale' = stale
              /\ \A c \in Commands : claims'[c] = IF c \in S THEN claims[c] + 1 ELSE claims[c]
              /\ tasks' = tasks \cup {NewTask(r, c) : c \in S}
      BY <2>3, ReadGroupStep
    <3>2. UNCHANGED <<invoked, disruptions, added>>
      BY <2>3 DEF ReadGroup
    <3>3. \A c \in S : /\ Claimable(c) /\ c \in added
                       /\ c \notin undelivered' /\ c \notin stale'
      BY <3>1 DEF TypeOK, StreamInv, Claimable
    <3> QED  BY <3>1, <3>2, <3>3, PaidDelivery
  <2>4. CASE FetchFails(r) \/ ShutdownAborts(r) \/ Crash(r)
    <3>1. CallLost(r) /\ Disrupted /\ UNCHANGED invoked
      BY <2>4 DEF FetchFails, ShutdownAborts, Crash, Disrupt
    <3>2. \A c \in Commands : c \in stale \cup undelivered => Claimable(c)
      BY DEF TypeOK, Claimable
    <3> QED  BY <3>1, <3>2, CallLostTyped, PaidDisrupted
  <2>5. CASE LoopFails(r)
    BY <2>5, PaidDisrupted DEF TypeOK, LoopFails
  <2> QED  BY <1>3, <2>1, <2>2, <2>3, <2>4, <2>5 DEF ReplicaNext
<1>4. ASSUME NEW t \in tasks, TaskNext(t)
      PROVE  PaidInv'
  <2> t \in Task /\ t.cmd \in Commands /\ t.cmd \in added
    BY DEF TypeOK, StreamInv, Task
  <2>1. CASE Discard(t)
    BY <2>1, PaidTask, PhaseSuccessor DEF Discard, Becomes, Successor, Live
  <2>2. CASE Refuse(t)
    <3>1. PICK u : Becomes(t, u) /\ u.cmd = t.cmd /\ Live(u)
      BY <2>2, AnsweringSuccessor DEF Refuse, Successor, Live, Bodies
    <3> QED  BY <2>2, <3>1, PaidTask DEF Refuse, Becomes
  <2>3. CASE Invoke(t)
    <3>1. \A c \in Commands : Claimable(c)' => Claimable(c)
      <4>1. [t EXCEPT !.phase = "running"].cmd = t.cmd /\ Live([t EXCEPT !.phase = "running"])
        BY PhaseSuccessor DEF Successor, Live
      <4>2. \A c \in Commands : Attended(c) => Attended(c)'
        BY <2>3, <4>1 DEF Invoke, Becomes, Attended, Live
      <4> QED  BY <2>3, <4>2 DEF Invoke, Claimable
    <3>2. UNCHANGED <<claims, disruptions>>
      BY <2>3 DEF Invoke
    <3>3. \A c \in Commands : claims[c] + Owed(c)' <= 1 + disruptions
      BY <3>1 DEF TypeOK, PaidInv, Owed
    <3>4. \A c \in Commands : \A n \in invoked'[c] : 1 <= n /\ n <= claims[c]
      BY <2>3 DEF TypeOK, StreamInv, PaidInv, Invoke
    <3> QED  BY <3>2, <3>3, <3>4 DEF PaidInv
  <2>4. CASE Heartbeat(t)
    BY <2>4, PaidQuiet DEF Heartbeat, Touch, Claimable, Attended, Live
  <2>5. CASE HeartbeatFails(t) \/ HandlerPanics(t) \/ CompleteFails(t) \/ PublishFails(t)
    BY <2>5, PaidDisrupted
    DEF TypeOK, HeartbeatFails, HandlerPanics, CompleteFails, PublishFails, Disrupt
  <2>6. CASE HandlerReturns(t)
    <3>1. PICK u : Becomes(t, u) /\ u.cmd = t.cmd /\ Live(u)
      BY <2>6, AnsweringSuccessor DEF HandlerReturns, Successor, Live, Bodies
    <3> QED  BY <2>6, <3>1, PaidTask DEF HandlerReturns, Becomes
  <2>7. CASE Publish(t)
    BY <2>7, PaidTask, PhaseSuccessor DEF Publish, Becomes, Successor, Live
  <2>8. CASE Complete(t)
    BY <2>8, PaidTask DEF Complete, AckDelete, Fails, Becomes
  <2> QED
    BY <1>4, <2>1, <2>2, <2>3, <2>4, <2>5, <2>6, <2>7, <2>8 DEF TaskNext
<1>5. CASE UNCHANGED vars
  BY <1>5, PaidQuiet DEF vars, Claimable, Attended, Live
<1> QED
  BY <1>1, <1>2, <1>3, <1>4, <1>5 DEF Next

LEMMA PaidImplies == TypeOK /\ PaidInv => PaidInvocations
<1> SUFFICES ASSUME TypeOK, PaidInv, NEW c \in Commands
             PROVE  Cardinality(invoked[c]) <= 1 + disruptions
  BY DEF PaidInvocations
<1>1. claims[c] \in Nat /\ disruptions \in Nat /\ Owed(c) \in {0, 1}
  BY DEF TypeOK, Owed
<1>2. invoked[c] \subseteq 1..claims[c]
  BY <1>1 DEF TypeOK, PaidInv
<1>3. IsFiniteSet(1..claims[c]) /\ Cardinality(1..claims[c]) <= claims[c]
  BY <1>1, FiniteTurns
<1>4. /\ IsFiniteSet(invoked[c])
      /\ Cardinality(invoked[c]) <= Cardinality(1..claims[c])
  BY <1>2, <1>3, FS_Subset
<1>5. Cardinality(invoked[c]) \in Nat /\ Cardinality(1..claims[c]) \in Nat
  BY <1>3, <1>4, FS_CardinalityType
<1>6. claims[c] + Owed(c) <= 1 + disruptions
  BY DEF PaidInv
<1> QED  BY <1>1, <1>3, <1>4, <1>5, <1>6

-----------------------------------------------------------------------------
(* The JoinSets stay within max_handler_concurrency. *)

Load(r) == Cardinality(TasksOf(r))

RoomInv ==
    /\ ConcurrencyBound
    /\ \A r \in Replicas :
        loop[r] \in {"fetch", "read"} => room[r] + Load(r) <= Concurrency

LEMMA LoadType ==
    ASSUME TypeOK, NEW r \in Replicas
    PROVE  IsFiniteSet(TasksOf(r)) /\ Load(r) \in Nat
<1>1. IsFiniteSet(TasksOf(r))
  BY FS_Subset DEF TypeOK, TasksOf
<1> QED  BY <1>1, FS_CardinalityType DEF Load

LEMMA LoadTypeNext ==
    ASSUME TypeOK', NEW r \in Replicas
    PROVE  Load(r)' \in Nat
<1>1. IsFiniteSet(tasks') /\ TasksOf(r)' \in SUBSET tasks'
  BY DEF TypeOK, TasksOf
<1>2. IsFiniteSet(TasksOf(r)')
  BY <1>1, FS_Subset
<1> QED  BY <1>2, FS_CardinalityType DEF Load

LEMMA RoomInit == Init => RoomInv
<1> SUFFICES ASSUME Init PROVE RoomInv
  OBVIOUS
<1>1. \A r \in Replicas : TasksOf(r) = {}
  BY DEF Init, TasksOf
<1>2. \A r \in Replicas : Load(r) = 0
  BY <1>1, FS_EmptySet DEF Load
<1> QED
  BY <1>2, ConcurrencyAssumption DEF Init, RoomInv, ConcurrencyBound, Load

(* A step that leaves every load where it is, or lowers it. *)
LEMMA RoomQuiet ==
    ASSUME TypeOK, TypeOK', RoomInv,
           \A r \in Replicas : Load(r)' <= Load(r),
           \A r \in Replicas : (loop'[r] = loop[r] /\ room'[r] = room[r]) \/ loop'[r] = "top"
    PROVE  RoomInv'
<1> SUFFICES ASSUME NEW r \in Replicas
             PROVE  /\ Load(r)' <= Concurrency
                    /\ loop'[r] \in {"fetch", "read"} => room'[r] + Load(r)' <= Concurrency
  BY DEF RoomInv, ConcurrencyBound, Load
<1>1. Load(r) \in Nat
  BY LoadType
<1>2. Load(r)' \in Nat
  BY LoadTypeNext
<1>3. Load(r) <= Concurrency
  BY DEF RoomInv, ConcurrencyBound, Load
<1>4. room[r] \in Nat /\ room'[r] \in Nat /\ Concurrency \in Nat
  BY ConcurrencyAssumption DEF TypeOK
<1> QED  BY <1>1, <1>2, <1>3, <1>4 DEF RoomInv

LEMMA DroppedLoad ==
    ASSUME TypeOK, tasks' \subseteq tasks, NEW r \in Replicas
    PROVE  Load(r)' <= Load(r)
<1>1. TasksOf(r)' \in SUBSET TasksOf(r)
  BY DEF TasksOf
<1>2. Cardinality(TasksOf(r)') <= Cardinality(TasksOf(r))
  BY <1>1, LoadType, FS_Subset
<1> QED  BY <1>2 DEF Load

LEMMA BecomesLoad ==
    ASSUME TypeOK, NEW t \in tasks, NEW u \in Task, Successor(t, u),
           Becomes(t, u), NEW r \in Replicas
    PROVE  Load(r)' <= Load(r)
<1>1. CASE t.rep = r
  <2>1. TasksOf(r)' = (TasksOf(r) \ {t}) \cup {u}
    BY <1>1 DEF TasksOf, Becomes, Successor
  <2>2. t \in TasksOf(r)
    BY <1>1 DEF TasksOf
  <2> DEFINE Rest == TasksOf(r) \ {t}
  <2>3. IsFiniteSet(Rest) /\ Cardinality(Rest) = Cardinality(TasksOf(r)) - 1
    BY <2>2, LoadType, FS_RemoveElement
  <2>4. Cardinality(Rest) \in Nat
    BY <2>3, FS_CardinalityType
  <2> HIDE DEF Rest
  <2>5. Cardinality(Rest \cup {u}) <= Cardinality(Rest) + 1
    BY <2>3, <2>4, FS_AddElement
  <2>6. Cardinality(TasksOf(r)') <= Cardinality(TasksOf(r))
    BY <2>1, <2>3, <2>4, <2>5, LoadType DEF Rest, Load
  <2> QED  BY <2>6 DEF Load
<1>2. CASE t.rep # r
  <2>1. TasksOf(r)' = TasksOf(r)
    BY <1>2 DEF TasksOf, Becomes, Successor
  <2> QED  BY <2>1, LoadType DEF Load
<1> QED  BY <1>1, <1>2

(* A delivery raises the load of its replica by no more than its size. *)
LEMMA SpawnLoad ==
    ASSUME TypeOK, NEW r \in Replicas, NEW S \in SUBSET Commands, IsFiniteSet(S),
           tasks' = tasks \cup {NewTask(r, c) : c \in S}
    PROVE  /\ Load(r)' <= Load(r) + Cardinality(S)
           /\ \A q \in Replicas : q # r => Load(q)' = Load(q)
<1> DEFINE F == {NewTask(r, c) : c \in S}
           g == [c \in S |-> NewTask(r, c)]
<1>1. g \in Surjection(S, F)
  BY DEF Surjection
<1>2. IsFiniteSet(F) /\ Cardinality(F) <= Cardinality(S)
  BY <1>1, FS_Surjection
<1>3. TasksOf(r)' = TasksOf(r) \cup F
  BY NewTaskTyped DEF TasksOf
<1>4. \A q \in Replicas : q # r => TasksOf(q)' = TasksOf(q)
  BY NewTaskTyped DEF TasksOf
<1> HIDE DEF F
<1>5. Cardinality(TasksOf(r) \cup F)
         = Cardinality(TasksOf(r)) + Cardinality(F) - Cardinality(TasksOf(r) \cap F)
  BY <1>2, LoadType, FS_Union
<1>6. IsFiniteSet(TasksOf(r) \cap F)
  BY <1>2, FS_Intersection
<1>7. Cardinality(TasksOf(r) \cap F) \in Nat /\ Cardinality(F) \in Nat
      /\ Cardinality(S) \in Nat /\ Cardinality(TasksOf(r)) \in Nat
  BY <1>2, <1>6, LoadType, FS_CardinalityType DEF Load
<1>8. Cardinality(TasksOf(r)') <= Cardinality(TasksOf(r)) + Cardinality(S)
  BY <1>2, <1>3, <1>5, <1>7
<1> QED  BY <1>4, <1>8 DEF Load

(* A delivery that fits the room computed for it. *)
LEMMA RoomDelivery ==
    ASSUME TypeOK, TypeOK', RoomInv, NEW r \in Replicas, loop[r] \in {"fetch", "read"},
           NEW S \in SUBSET Commands, IsFiniteSet(S), Cardinality(S) <= room[r],
           tasks' = tasks \cup {NewTask(r, c) : c \in S},
           loop'[r] = "top",
           \A q \in Replicas : q # r => loop'[q] = loop[q] /\ room'[q] = room[q]
    PROVE  RoomInv'
<1>1. Cardinality(S) \in Nat
  BY FS_CardinalityType
<1>2. room[r] \in Nat /\ Concurrency \in Nat
  BY ConcurrencyAssumption DEF TypeOK
<1>3. room[r] + Load(r) <= Concurrency
  BY DEF RoomInv
<1>4. Load(r) \in Nat
  BY LoadType
<1>5. Load(r)' \in Nat
  BY LoadTypeNext
<1>6. Load(r)' <= Concurrency
  BY <1>1, <1>2, <1>3, <1>4, <1>5, SpawnLoad
<1>7. \A q \in Replicas : q # r => Load(q)' = Load(q)
  BY SpawnLoad
<1>8. ASSUME NEW q \in Replicas
      PROVE  /\ Load(q)' <= Concurrency
             /\ loop'[q] \in {"fetch", "read"} => room'[q] + Load(q)' <= Concurrency
  BY <1>6, <1>7 DEF RoomInv, ConcurrencyBound, Load
<1> QED  BY <1>8 DEF RoomInv, ConcurrencyBound, Load

LEMMA RoomStep == TypeOK /\ TypeOK' /\ RoomInv /\ [Next]_vars => RoomInv'
<1> SUFFICES ASSUME TypeOK, TypeOK', RoomInv, [Next]_vars
             PROVE  RoomInv'
  OBVIOUS
<1> USE DEF clientVars, streamVars, loopVars, historyVars
<1>1. CASE tasks' \subseteq tasks /\ UNCHANGED <<loop, room>>
  BY <1>1, DroppedLoad, RoomQuiet
<1>2. ASSUME NEW r \in Replicas, ReplicaNext(r)
      PROVE  RoomInv'
  <2>1. CASE StartReplica(r) \/ CancelReplica(r) \/ Drained(r)
    BY <2>1, <1>1 DEF StartReplica, CancelReplica, Drained
  <2>2. CASE BeginFetch(r)
    <3>1. \A q \in Replicas : Load(q)' = Load(q)
      BY <2>2 DEF BeginFetch, Load, TasksOf
    <3>2. Load(r) \in Nat /\ Concurrency \in Nat
      BY LoadType, ConcurrencyAssumption
    <3>3. room'[r] = Concurrency - Load(r)
      BY <2>2 DEF TypeOK, BeginFetch, Load
    <3>4. \A q \in Replicas : q # r => loop'[q] = loop[q] /\ room'[q] = room[q]
      BY <2>2 DEF TypeOK, BeginFetch
    <3>5. ASSUME NEW q \in Replicas
          PROVE  /\ Load(q)' <= Concurrency
                 /\ loop'[q] \in {"fetch", "read"} => room'[q] + Load(q)' <= Concurrency
      BY <3>1, <3>2, <3>3, <3>4 DEF RoomInv, ConcurrencyBound, Load
    <3> QED  BY <3>5 DEF RoomInv, ConcurrencyBound, Load
  <2>3. CASE Reclaim(r)
    <3>1. PICK S \in SUBSET stale :
              /\ S \subseteq Commands /\ IsFiniteSet(S)
              /\ S = {} \/ Cardinality(S) <= room[r]
              /\ tasks' = tasks \cup {NewTask(r, c) : c \in S}
              /\ S = {} => loop'[r] = "read" /\ room' = room
              /\ S # {} => loop'[r] = "top"
      BY <2>3, ReclaimStep
    <3>2. /\ loop[r] = "fetch"
          /\ \A q \in Replicas : q # r => loop'[q] = loop[q] /\ room'[q] = room[q]
      BY <2>3 DEF TypeOK, Reclaim
    <3>3. CASE S # {}
      BY <3>1, <3>2, <3>3, RoomDelivery
    <3>4. CASE S = {}
      <4>1. tasks' = tasks
        BY <3>1, <3>4
      <4>2. \A q \in Replicas : Load(q)' = Load(q)
        BY <4>1 DEF Load, TasksOf
      <4>3. ASSUME NEW q \in Replicas
            PROVE  /\ Load(q)' <= Concurrency
                   /\ loop'[q] \in {"fetch", "read"} => room'[q] + Load(q)' <= Concurrency
        BY <3>1, <3>2, <3>4, <4>2 DEF RoomInv, ConcurrencyBound, Load
      <4> QED  BY <4>3 DEF RoomInv, ConcurrencyBound, Load
    <3> QED  BY <3>3, <3>4
  <2>4. CASE ReadGroup(r)
    <3>1. PICK S \in SUBSET undelivered :
              /\ S \subseteq Commands /\ IsFiniteSet(S)
              /\ Cardinality(S) <= room[r]
              /\ tasks' = tasks \cup {NewTask(r, c) : c \in S}
      BY <2>4, ReadGroupStep
    <3>2. /\ loop[r] = "read" /\ loop'[r] = "top"
          /\ \A q \in Replicas : q # r => loop'[q] = loop[q] /\ room'[q] = room[q]
      BY <2>4 DEF TypeOK, ReadGroup
    <3> QED  BY <3>1, <3>2, RoomDelivery
  <2>5. CASE Abandon(r)
    <3>1. tasks' \subseteq tasks
      BY <2>5 DEF Abandon
    <3>2. \A q \in Replicas : (loop'[q] = loop[q] /\ room'[q] = room[q]) \/ loop'[q] = "top"
      BY <2>5 DEF TypeOK, Abandon
    <3> QED  BY <3>1, <3>2, DroppedLoad, RoomQuiet
  <2> QED
    BY <1>2, <2>1, <2>2, <2>3, <2>4, <2>5
    DEF ReplicaNext, FetchFails, LoopFails, ShutdownAborts, Crash
<1>3. ASSUME NEW t \in tasks, TaskNext(t)
      PROVE  RoomInv'
  <2>1. UNCHANGED <<loop, room>>
    BY <1>3
    DEF TaskNext, Discard, Refuse, Invoke, Heartbeat, HeartbeatFails,
        HandlerReturns, HandlerPanics, Publish, PublishFails, Complete,
        CompleteFails
  <2>2. \A q \in Replicas : Load(q)' <= Load(q)
    BY <1>3, TaskStep, BecomesLoad, DroppedLoad
  <2> QED  BY <2>1, <2>2, RoomQuiet
<1>4. CASE UNCHANGED <<tasks, loop, room>>
  BY <1>1, <1>4
<1> QED
  BY <1>2, <1>3, <1>4
  DEF Next, vars, ClientNext, Subscribe, Send, SendUnheard, GiveUp, Receive,
      TimeNext, IdleElapses, DeadlinePasses

-----------------------------------------------------------------------------
(* A body says what happened to the command it answers. *)

Honest(c, body) ==
    /\ body \in {"success", "error"} => c \in returned
    /\ body = "expired" => c \in rejected

HonestInv ==
    /\ \A t \in tasks : t.phase = "publish" => Honest(t.cmd, t.body)
    /\ \A c \in Commands : Honest(c, inbox[c]) /\ Honest(c, client[c])

LEMMA HonestInit == Init => HonestInv
BY DEF Init, HonestInv, Honest

LEMMA HonestStep == TypeOK /\ HonestInv /\ [Next]_vars => HonestInv'
<1> SUFFICES ASSUME TypeOK, HonestInv, [Next]_vars
             PROVE  HonestInv'
  OBVIOUS
<1> USE DEF HonestInv, Honest, clientVars, streamVars, loopVars, historyVars
<1>1. ASSUME NEW c \in Commands, ClientNext(c)
      PROVE  HonestInv'
  <2>1. UNCHANGED <<tasks, returned, rejected>>
    BY <1>1 DEF ClientNext, Subscribe, Send, SendUnheard, GiveUp, Receive
  <2>2. \A d \in Commands : Honest(d, inbox[d])' /\ Honest(d, client[d])'
    BY <1>1 DEF TypeOK, ClientNext, Subscribe, Send, SendUnheard, GiveUp, Receive
  <2> QED  BY <2>1, <2>2
<1>2. ASSUME NEW c \in Commands, TimeNext(c)
      PROVE  HonestInv'
  BY <1>2 DEF TimeNext, IdleElapses, DeadlinePasses
<1>3. ASSUME NEW r \in Replicas, ReplicaNext(r)
      PROVE  HonestInv'
  <2>1. UNCHANGED <<client, inbox, returned, rejected>>
    BY <1>3
    DEF ReplicaNext, StartReplica, CancelReplica, BeginFetch, Reclaim,
        ReadGroup, FetchFails, LoopFails, Drained, ShutdownAborts, Crash
  <2>2. \A t \in tasks' : t \in tasks \/ t.phase = "claimed"
    BY <1>3, ReplicaTasks
  <2> QED  BY <2>1, <2>2
<1>4. ASSUME NEW t \in tasks, TaskNext(t)
      PROVE  HonestInv'
  <2> t \in Task /\ t.cmd \in Commands
    BY DEF TypeOK, Task
  <2>1. CASE Discard(t)
    BY <2>1, PhaseSuccessor DEF Discard, Becomes
  <2>2. CASE Refuse(t)
    BY <2>2, AnsweringSuccessor DEF Refuse, Becomes, Bodies, Successor
  <2>3. CASE Invoke(t)
    BY <2>3, PhaseSuccessor DEF Invoke, Becomes
  <2>4. CASE Heartbeat(t)
    BY <2>4 DEF Heartbeat
  <2>5. CASE HeartbeatFails(t) \/ HandlerPanics(t) \/ CompleteFails(t) \/ Complete(t)
    BY <2>5, FailedSuccessor
    DEF HeartbeatFails, HandlerPanics, CompleteFails, Complete, Fails, Becomes
  <2>6. CASE HandlerReturns(t)
    BY <2>6, AnsweringSuccessor DEF HandlerReturns, Becomes, Bodies, Successor
  <2>7. CASE Publish(t) \/ PublishFails(t)
    <3>1. UNCHANGED <<client, returned, rejected>>
      BY <2>7 DEF Publish, PublishFails
    <3>2. \A u \in tasks' : u \in tasks \/ u.phase = "complete"
      BY <2>7, PhaseSuccessor DEF Publish, PublishFails, Becomes
    <3>3. inbox' = inbox \/ inbox' = [inbox EXCEPT ![t.cmd] = t.body]
      BY <2>7 DEF Publish, PublishFails, PUBLISH
    <3>4. Honest(t.cmd, t.body)
      BY <2>7 DEF Publish, PublishFails
    <3> QED  BY <3>1, <3>2, <3>3, <3>4 DEF TypeOK
  <2> QED
    BY <1>4, <2>1, <2>2, <2>3, <2>4, <2>5, <2>6, <2>7 DEF TaskNext
<1>5. CASE UNCHANGED vars
  BY <1>5 DEF vars
<1> QED
  BY <1>1, <1>2, <1>3, <1>4, <1>5 DEF Next

-----------------------------------------------------------------------------
(* While nothing was disrupted, a command is delivered to one task only, which
   either invokes the handler or refuses. *)

Undecided(c) == invoked[c] = {} /\ c \notin rejected

SingleInv ==
    /\ \A c \in rejected : claims[c] # 0
    /\ disruptions = 0 =>
        /\ \A t, u \in tasks : t.cmd = u.cmd => t = u
        /\ \A t \in tasks : t.phase = "claimed" => Undecided(t.cmd)
        /\ \A c \in rejected : invoked[c] = {}

LEMMA SingleInit == Init => SingleInv
BY DEF Init, SingleInv

(* A delivery goes to a command that had none before. *)
LEMMA SingleDelivery ==
    ASSUME TypeOK, StreamInv, SingleInv, PaidInv,
           NEW r \in Replicas, NEW S \in SUBSET Commands,
           \A c \in S : Claimable(c),
           UNCHANGED <<invoked, rejected, disruptions>>,
           \A c \in Commands : claims'[c] = IF c \in S THEN claims[c] + 1 ELSE claims[c],
           tasks' = tasks \cup {NewTask(r, c) : c \in S}
    PROVE  SingleInv'
<1>1. \A c \in rejected : claims'[c] # 0
  BY DEF SingleInv, TypeOK
<1>2. ASSUME disruptions = 0, NEW c \in S
      PROVE  Undecided(c) /\ \A t \in tasks : t.cmd # c
  <2>1. claims[c] \in Nat /\ claims[c] + 1 <= 1
    BY <1>2 DEF TypeOK, PaidInv, Owed
  <2>2. claims[c] = 0
    BY <2>1
  <2>3. invoked[c] = {}
    BY <2>2 DEF TypeOK, PaidInv
  <2>4. c \notin rejected
    BY <2>2 DEF SingleInv
  <2>5. \A t \in tasks : t.cmd # c
    BY <2>2 DEF StreamInv, TypeOK, Task
  <2> QED  BY <2>3, <2>4, <2>5 DEF Undecided
<1>3. \A t \in tasks' : t \in tasks \/ \E c \in S : t = NewTask(r, c) /\ t.cmd = c
  BY NewTaskTyped
<1> QED
  BY <1>1, <1>2, <1>3 DEF SingleInv, Undecided

(* A step that spawns nothing and decides nothing. *)
LEMMA SingleQuiet ==
    ASSUME SingleInv, tasks' \subseteq tasks, UNCHANGED <<invoked, rejected>>,
           \A c \in rejected : claims'[c] # 0,
           disruptions' = 0 => disruptions = 0
    PROVE  SingleInv'
BY DEF SingleInv, Undecided

(* A task that decides, or moves on after it decided. *)
LEMMA SingleTask ==
    ASSUME TypeOK, SingleInv, NEW t \in tasks, NEW u \in Task,
           Successor(t, u), Becomes(t, u), u.phase # "claimed",
           UNCHANGED claims, claims[t.cmd] # 0,
           disruptions' = 0 => disruptions = 0,
           \/ UNCHANGED <<invoked, rejected>>
           \/ /\ t.phase = "claimed"
              /\ \/ invoked' = invoked /\ rejected' = rejected \cup {t.cmd}
                 \/ /\ invoked' = [invoked EXCEPT ![t.cmd] = @ \cup {t.turn}]
                    /\ rejected' = rejected
    PROVE  SingleInv'
<1> t \in Task /\ t.cmd \in Commands
  BY DEF TypeOK, Task
<1>1. \A c \in rejected' : claims'[c] # 0
  BY DEF SingleInv
<1> SUFFICES ASSUME disruptions' = 0
             PROVE  /\ \A v, w \in tasks' : v.cmd = w.cmd => v = w
                    /\ \A v \in tasks' : v.phase = "claimed" => Undecided(v.cmd)'
                    /\ \A c \in rejected' : invoked'[c] = {}
  BY <1>1 DEF SingleInv
<1>2. \A v, w \in tasks : v.cmd = w.cmd => v = w
  BY DEF SingleInv
<1>3. \A v \in tasks' : v = u \/ (v \in tasks /\ v.cmd # t.cmd)
  <2>1. \A v \in tasks' : v = u \/ (v \in tasks /\ v # t)
    BY DEF Becomes
  <2> QED  BY <1>2, <2>1
<1>4. \A v, w \in tasks' : v.cmd = w.cmd => v = w
  BY <1>2, <1>3 DEF Successor
<1>5. ASSUME NEW v \in tasks', v.phase = "claimed"
      PROVE  Undecided(v.cmd)'
  <2>1. v \in tasks /\ v.cmd # t.cmd /\ v.cmd \in Commands
    BY <1>3, <1>5 DEF TypeOK, Task
  <2>2. Undecided(v.cmd)
    BY <1>5, <2>1 DEF SingleInv
  <2> QED  BY <2>1, <2>2 DEF Undecided, TypeOK
<1>6. \A c \in rejected' : invoked'[c] = {}
  BY DEF SingleInv, Undecided, TypeOK
<1> QED  BY <1>4, <1>5, <1>6

LEMMA SingleStep == TypeOK /\ StreamInv /\ PaidInv /\ SingleInv /\ [Next]_vars => SingleInv'
<1> SUFFICES ASSUME TypeOK, StreamInv, PaidInv, SingleInv, [Next]_vars
             PROVE  SingleInv'
  OBVIOUS
<1> USE DEF clientVars, streamVars, loopVars, historyVars
<1>1. CASE UNCHANGED <<tasks, invoked, rejected, claims, disruptions>>
  BY <1>1, SingleQuiet DEF SingleInv
<1>2. ASSUME NEW c \in Commands, TimeNext(c)
      PROVE  SingleInv'
  <2>1. UNCHANGED <<tasks, invoked, rejected, claims>>
    BY <1>2 DEF TimeNext, IdleElapses, DeadlinePasses
  <2>2. disruptions' = 0 => disruptions = 0
    BY <1>2 DEF TypeOK, TimeNext, IdleElapses, DeadlinePasses, Disrupt, Disrupted
  <2> QED  BY <2>1, <2>2, SingleQuiet DEF SingleInv
<1>3. ASSUME NEW r \in Replicas, ReplicaNext(r)
      PROVE  SingleInv'
  <2>1. CASE StartReplica(r) \/ CancelReplica(r) \/ BeginFetch(r) \/ Drained(r)
    BY <1>1, <2>1 DEF StartReplica, CancelReplica, BeginFetch, Drained
  <2>2. CASE Reclaim(r)
    <3>1. PICK S \in SUBSET stale :
            /\ S \subseteq Commands
            /\ \A c \in Commands : claims'[c] = IF c \in S THEN claims[c] + 1 ELSE claims[c]
            /\ tasks' = tasks \cup {NewTask(r, c) : c \in S}
      BY <2>2, ReclaimStep
    <3>2. \A c \in S : Claimable(c)
      BY <3>1 DEF TypeOK, Claimable
    <3>3. UNCHANGED <<invoked, rejected, disruptions>>
      BY <2>2 DEF Reclaim
    <3> QED  BY <3>1, <3>2, <3>3, SingleDelivery
  <2>3. CASE ReadGroup(r)
    <3>1. PICK S \in SUBSET undelivered :
            /\ S \subseteq Commands
            /\ \A c \in Commands : claims'[c] = IF c \in S THEN claims[c] + 1 ELSE claims[c]
            /\ tasks' = tasks \cup {NewTask(r, c) : c \in S}
      BY <2>3, ReadGroupStep
    <3>2. \A c \in S : Claimable(c)
      BY <3>1 DEF Claimable
    <3>3. UNCHANGED <<invoked, rejected, disruptions>>
      BY <2>3 DEF ReadGroup
    <3> QED  BY <3>1, <3>2, <3>3, SingleDelivery
  <2>4. CASE FetchFails(r) \/ LoopFails(r) \/ ShutdownAborts(r) \/ Crash(r)
    <3>1. disruptions' # 0
      BY <2>4 DEF TypeOK, FetchFails, LoopFails, ShutdownAborts, Crash, Disrupt, Disrupted
    <3>2. UNCHANGED rejected
      BY <2>4 DEF FetchFails, LoopFails, ShutdownAborts, Crash
    <3>3. \A c \in Commands : claims'[c] = claims[c] \/ claims'[c] = claims[c] + 1
      BY <2>4, CallLostTyped
      DEF FetchFails, LoopFails, ShutdownAborts, Crash
    <3> QED  BY <3>1, <3>2, <3>3 DEF SingleInv, TypeOK
  <2> QED  BY <1>3, <2>1, <2>2, <2>3, <2>4 DEF ReplicaNext
<1>4. ASSUME NEW t \in tasks, TaskNext(t)
      PROVE  SingleInv'
  <2> t \in Task /\ t.cmd \in Commands /\ claims[t.cmd] # 0
    BY DEF TypeOK, Task, StreamInv
  <2>1. UNCHANGED claims /\ (disruptions' = 0 => disruptions = 0)
    BY <1>4
    DEF TypeOK, TaskNext, Discard, Refuse, Invoke, Heartbeat, HeartbeatFails,
        HandlerReturns, HandlerPanics, Publish, PublishFails, Complete,
        CompleteFails, Disrupt, Disrupted
  <2>2. CASE Discard(t)
    <3> DEFINE u == [t EXCEPT !.phase = "complete"]
    <3>1. Successor(t, u) /\ u \in Task /\ u.phase = "complete"
      BY PhaseSuccessor DEF Successor
    <3>2. Becomes(t, u)
      BY <2>2 DEF Discard
    <3> HIDE DEF u
    <3> QED  BY <2>1, <2>2, <3>1, <3>2, SingleTask DEF Discard
  <2>3. CASE Refuse(t)
    BY <2>1, <2>3, AnsweringSuccessor, SingleTask DEF Refuse, Bodies, Successor
  <2>4. CASE Invoke(t)
    <3> DEFINE u == [t EXCEPT !.phase = "running"]
    <3>1. Successor(t, u) /\ u \in Task /\ u.phase = "running"
      BY PhaseSuccessor DEF Successor
    <3>2. Becomes(t, u)
      BY <2>4 DEF Invoke
    <3> HIDE DEF u
    <3> QED  BY <2>1, <2>4, <3>1, <3>2, SingleTask DEF Invoke
  <2>5. CASE Heartbeat(t)
    BY <1>1, <2>5 DEF Heartbeat
  <2>6. CASE HeartbeatFails(t) \/ HandlerPanics(t) \/ CompleteFails(t)
    BY <2>1, <2>6, FailedSuccessor, SingleTask
    DEF HeartbeatFails, HandlerPanics, CompleteFails, Fails, Successor
  <2>7. CASE HandlerReturns(t)
    BY <2>1, <2>7, AnsweringSuccessor, SingleTask DEF HandlerReturns, Bodies, Successor
  <2>8. CASE Publish(t) \/ PublishFails(t)
    <3>1. PICK u \in Task :
            Successor(t, u) /\ Becomes(t, u) /\ u.phase = "complete"
      BY <2>8, PhaseSuccessor DEF Publish, PublishFails, Successor
    <3> QED  BY <2>1, <2>8, <3>1, SingleTask DEF Publish, PublishFails
  <2>9. CASE Complete(t)
    <3>1. UNCHANGED <<invoked, rejected>>
      BY <2>9 DEF Complete
    <3>2. CASE Fails(t)
      BY <2>1, <3>1, <3>2, FailedSuccessor, SingleTask DEF Fails, Successor
    <3>3. CASE tasks' = tasks \ {t}
      BY <2>1, <3>1, <3>3, SingleQuiet DEF SingleInv
    <3> QED  BY <2>9, <3>2, <3>3 DEF Complete
  <2> QED
    BY <1>4, <2>2, <2>3, <2>4, <2>5, <2>6, <2>7, <2>8, <2>9 DEF TaskNext
<1> QED
  BY <1>1, <1>2, <1>3, <1>4
  DEF Next, vars, ClientNext, Subscribe, Send, SendUnheard, GiveUp, Receive

LEMMA TruthImplies == TypeOK /\ HonestInv /\ SingleInv => TruthfulReply
BY DEF TypeOK, HonestInv, Honest, SingleInv, TruthfulReply

-----------------------------------------------------------------------------
(* The theorems.  They share one inductive invariant. *)

IInv ==
    /\ TypeOK
    /\ StreamInv
    /\ ReplyInv
    /\ DecisionInv
    /\ PaidInv
    /\ RoomInv
    /\ HonestInv
    /\ SingleInv

LEMMA InvInit == Init => IInv
BY TypeInit, StreamInit, ReplyInit, DecisionInit, PaidInit, RoomInit,
   HonestInit, SingleInit
DEF IInv

LEMMA InvStep == IInv /\ [Next]_vars => IInv'
BY TypeStep, StreamStep, ReplyStep, DecisionStep, PaidStep, RoomStep,
   HonestStep, SingleStep
DEF IInv

LEMMA Invariance == Spec => []IInv
BY InvInit, InvStep, PTL DEF Spec

(* The handler of a command is invoked at most once plus once per disruption:
   XAUTOCLAIM by idle time, the heartbeat of a running handler and ack_delete
   together duplicate no undisturbed work, with any number of replicas. *)
THEOREM InvocationsArePaid == Spec => []PaidInvocations
<1>1. IInv => PaidInvocations
  BY PaidImplies DEF IInv
<1> QED  BY <1>1, Invariance, PTL

(* No command appended by request() leaves the Stream before its handler
   returned or process_command_entry refused it. *)
THEOREM NothingIsLost == Spec => []NothingLost
<1>1. IInv => NothingLost
  BY DEF IInv, DecisionInv
<1> QED  BY <1>1, Invariance, PTL

(* A caller of request() that still waits has, or has missed no, response:
   subscribing before XADD closes the race with the fastest replica. *)
THEOREM NoReplyIsMissed == Spec => []NoReplyMissed
<1>1. IInv => NoReplyMissed
  BY DEF IInv, ReplyInv
<1> QED  BY <1>1, Invariance, PTL

(* What request() returns is what process_command_entry did. *)
THEOREM RepliesAreTruthful == Spec => []TruthfulReply
<1>1. IInv => TruthfulReply
  BY TruthImplies DEF IInv
<1> QED  BY <1>1, Invariance, PTL

(* command_loop never runs more handlers than max_handler_concurrency. *)
THEOREM ConcurrencyIsBounded == Spec => []ConcurrencyBound
<1>1. IInv => ConcurrencyBound
  BY DEF IInv, RoomInv
<1> QED  BY <1>1, Invariance, PTL

-----------------------------------------------------------------------------
(* RedisCommands implements CommandContract: every step is a step of the
   contract or leaves its variables alone. *)

Held == undelivered \cup pending
Place(c) == IF c \notin added THEN "outside"
            ELSE IF Stored(c) THEN "queued" ELSE "removed"
Runs(c) == Cardinality(invoked[c])

ContractStep == [Contract!Next]_Contract!vars

LEMMA MapInit == Init => Contract!Init
<1> SUFFICES ASSUME Init PROVE Contract!Init
  OBVIOUS
<1>1. \A c \in Commands : Cardinality(invoked[c]) = 0
  BY FS_EmptySet DEF Init
<1>2. \A c \in Commands : c \notin added
  BY DEF Init
<1>3. returned \cup rejected = {} /\ disruptions = 0
  BY DEF Init
<1> QED
  BY <1>1, <1>2, <1>3 DEF Contract!Init

(* Nothing the contract speaks of changes. *)
LEMMA MapQuiet ==
    ASSUME UNCHANGED <<added, invoked, disruptions>>, Held' = Held,
           returned' \cup rejected' = returned \cup rejected
    PROVE  ContractStep
<1>1. \A c \in Commands : Place(c)' = Place(c)
  BY DEF Place, Held, Stored
<1> QED
  BY <1>1 DEF ContractStep, Contract!vars, Place

LEMMA MapTakeIn ==
    ASSUME NEW c \in Commands, c \notin added, added' = added \cup {c},
           Held' = Held \cup {c},
           UNCHANGED <<returned, rejected, invoked, disruptions>>
    PROVE  ContractStep
<1>1. Place(c) = "outside" /\ Place(c)' = "queued"
  BY DEF Place, Held, Stored
<1>2. \A d \in Commands : d # c => Place(d)' = Place(d)
  BY DEF Place, Held, Stored
<1>3. Contract!TakeIn(c)
  BY <1>1, <1>2 DEF Contract!TakeIn, Place
<1> QED  BY <1>3 DEF ContractStep, Contract!Next

LEMMA MapDecide ==
    ASSUME NEW c \in Commands, c \in added, Held' = Held,
           returned' \cup rejected' = returned \cup rejected \cup {c},
           UNCHANGED <<added, invoked, disruptions>>
    PROVE  ContractStep
<1>1. Place(c) # "outside" /\ \A d \in Commands : Place(d)' = Place(d)
  BY DEF Place, Held, Stored
<1>2. Contract!Decide(c)
  BY <1>1 DEF Contract!Decide, Place
<1> QED  BY <1>2 DEF ContractStep, Contract!Next

LEMMA MapRemove ==
    ASSUME NEW c \in Commands, c \in added, Held' = Held \ {c}, Decided(c),
           UNCHANGED <<added, returned, rejected, invoked, disruptions>>
    PROVE  ContractStep
<1>1. CASE c \notin Held
  BY <1>1, MapQuiet
<1>2. CASE c \in Held
  <2>1. Place(c) = "queued" /\ Place(c)' = "removed"
    BY <1>2 DEF Place, Held, Stored
  <2>2. \A d \in Commands : d # c => Place(d)' = Place(d)
    BY DEF Place, Held, Stored
  <2>3. Contract!Remove(c)
    BY <2>1, <2>2 DEF Contract!Remove, Place, Decided
  <2> QED  BY <2>3 DEF ContractStep, Contract!Next
<1> QED  BY <1>1, <1>2

LEMMA MapTrouble ==
    ASSUME Disrupted, UNCHANGED <<added, returned, rejected, invoked>>,
           \/ Held' = Held
           \/ \E c \in added : Decided(c) /\ Held' = Held \ {c},
           added \subseteq Commands
    PROVE  ContractStep
<1>1. CASE \A c \in Commands : Place(c)' = Place(c)
  <2>1. Contract!Trouble
    BY <1>1 DEF Contract!Trouble, Disrupted, Place
  <2> QED  BY <2>1 DEF ContractStep, Contract!Next
<1>2. CASE Held' = Held
  BY <1>1, <1>2 DEF Place, Held, Stored
<1>3. ASSUME NEW c \in added, Decided(c), Held' = Held \ {c}
      PROVE  ContractStep
  <2>1. CASE c \notin Held
    BY <1>2, <1>3, <2>1
  <2>2. CASE c \in Held
    <3>1. Place(c) = "queued" /\ Place(c)' = "removed"
      BY <1>3, <2>2 DEF Place, Held, Stored
    <3>2. \A d \in Commands : d # c => Place(d)' = Place(d)
      BY <1>3 DEF Place, Held, Stored
    <3>3. c \in returned \cup rejected /\ c \in Commands
      BY <1>3 DEF Decided
    <3>4. Contract!Trouble
      BY <3>1, <3>2, <3>3 DEF Contract!Trouble, Disrupted, Place
    <3> QED  BY <3>4 DEF ContractStep, Contract!Next
  <2> QED  BY <2>1, <2>2
<1> QED  BY <1>2, <1>3

(* An invocation is paid for when PaidInvocations still holds after it. *)
LEMMA MapRun ==
    ASSUME TypeOK, TypeOK', PaidInv, PaidInvocations',
           NEW c \in Commands, NEW n \in Nat, c \in added, Held' = Held,
           invoked' = [invoked EXCEPT ![c] = @ \cup {n}],
           UNCHANGED <<added, returned, rejected, disruptions>>
    PROVE  ContractStep
<1>1. CASE n \in invoked[c]
  <2>1. invoked' = invoked
    BY <1>1 DEF TypeOK
  <2> QED  BY <2>1, MapQuiet
<1>2. CASE n \notin invoked[c]
  <2>1. claims[c] \in Nat /\ invoked[c] \subseteq 1..claims[c]
    BY DEF TypeOK, PaidInv
  <2>2. IsFiniteSet(invoked[c])
    <3>1. IsFiniteSet(1..claims[c])
      BY <2>1, FiniteTurns
    <3> QED  BY <2>1, <3>1, FS_Subset
  <2>3. invoked'[c] = invoked[c] \cup {n}
    BY DEF TypeOK
  <2>4. Runs(c)' = Runs(c) + 1 /\ Runs(c) \in Nat
    BY <1>2, <2>2, <2>3, FS_AddElement, FS_CardinalityType DEF Runs
  <2>5. \A d \in Commands : d # c => Runs(d)' = Runs(d)
    BY DEF TypeOK, Runs
  <2>6. Runs(c) <= disruptions
    <3>1. Runs(c)' <= 1 + disruptions
      BY DEF PaidInvocations, Runs
    <3> QED  BY <2>4, <3>1 DEF TypeOK
  <2>7. Place(c) # "outside" /\ \A d \in Commands : Place(d)' = Place(d)
    BY DEF Place, Held, Stored
  <2>8. Contract!Run(c)
    BY <2>4, <2>5, <2>6, <2>7 DEF Contract!Run, Place, Runs
  <2> QED  BY <2>8 DEF ContractStep, Contract!Next
<1> QED  BY <1>1, <1>2

LEMMA MapStep == IInv /\ IInv' /\ [Next]_vars => ContractStep
<1> SUFFICES ASSUME IInv, IInv', [Next]_vars
             PROVE  ContractStep
  OBVIOUS
<1> TypeOK /\ TypeOK' /\ StreamInv /\ PaidInv /\ DecisionInv /\ PaidInvocations'
  <2>1. TypeOK' /\ PaidInv' => PaidInvocations'
    BY PaidImplies, PTL
  <2> QED  BY <2>1 DEF IInv
<1> USE DEF clientVars, streamVars, loopVars, historyVars
<1>1. ASSUME NEW c \in Commands, ClientNext(c)
      PROVE  ContractStep
  <2>1. CASE Send(c) \/ SendUnheard(c)
    <3>1. c \notin added
      BY <2>1 DEF Send, SendUnheard, StreamInv
    <3>2. added' = added \cup {c} /\ Held' = Held \cup {c}
      BY <2>1 DEF Send, SendUnheard, XADD, Held
    <3>3. UNCHANGED <<returned, rejected, invoked, disruptions>>
      BY <2>1 DEF Send, SendUnheard
    <3> QED  BY <3>1, <3>2, <3>3, MapTakeIn
  <2>2. CASE Subscribe(c) \/ GiveUp(c) \/ Receive(c)
    BY <2>2, MapQuiet DEF Subscribe, GiveUp, Receive, Held
  <2> QED  BY <1>1, <2>1, <2>2 DEF ClientNext
<1>2. ASSUME NEW c \in Commands, TimeNext(c)
      PROVE  ContractStep
  <2>1. Held' = Held /\ UNCHANGED <<added, returned, rejected, invoked>>
    BY <1>2 DEF TimeNext, IdleElapses, DeadlinePasses, Held
  <2>2. Disrupted \/ UNCHANGED disruptions
    BY <1>2 DEF TimeNext, IdleElapses, DeadlinePasses, Disrupt
  <2> QED  BY <2>1, <2>2, MapQuiet, MapTrouble DEF TypeOK
<1>3. ASSUME NEW r \in Replicas, ReplicaNext(r)
      PROVE  ContractStep
  <2>1. UNCHANGED <<added, returned, rejected, invoked>>
    BY <1>3
    DEF ReplicaNext, StartReplica, CancelReplica, BeginFetch, Reclaim,
        ReadGroup, FetchFails, LoopFails, Drained, ShutdownAborts, Crash
  <2>2. Disrupted \/ UNCHANGED disruptions
    BY <1>3
    DEF ReplicaNext, StartReplica, CancelReplica, BeginFetch, Reclaim,
        ReadGroup, FetchFails, LoopFails, Drained, ShutdownAborts, Crash, Disrupt
  <2>3. Held' = Held
    <3>1. CASE Reclaim(r)  BY <3>1, ReclaimStep DEF Held
    <3>2. CASE ReadGroup(r)
      <4>1. PICK S \in SUBSET undelivered : /\ undelivered' = undelivered \ S
                                           /\ pending' = pending \cup S
        BY <3>2, ReadGroupStep
      <4> QED  BY <4>1 DEF Held
    <3>3. CASE CallLost(r)  BY <3>3, CallLostTyped DEF Held
    <3>4. CASE UNCHANGED streamVars  BY <3>4 DEF Held
    <3> QED
      BY <1>3, <3>1, <3>2, <3>3, <3>4
      DEF ReplicaNext, StartReplica, CancelReplica, BeginFetch, FetchFails,
          LoopFails, Drained, ShutdownAborts, Crash
  <2> QED  BY <2>1, <2>2, <2>3, MapQuiet, MapTrouble DEF TypeOK
<1>4. ASSUME NEW t \in tasks, TaskNext(t)
      PROVE  ContractStep
  <2> /\ t \in Task /\ t.cmd \in Commands /\ t.turn \in Nat
      /\ t.cmd \in added /\ added \subseteq Commands
    BY DEF TypeOK, Task, StreamInv
  <2>1. CASE Discard(t)
    BY <2>1, MapDecide DEF Discard, Held
  <2>2. CASE Refuse(t)
    BY <2>2, MapDecide DEF Refuse, Held
  <2>3. CASE Invoke(t)
    BY <2>3, MapRun DEF Invoke, Held
  <2>4. CASE Heartbeat(t) \/ Publish(t)
    BY <2>4, MapQuiet DEF Heartbeat, Publish, Held
  <2>5. CASE HeartbeatFails(t) \/ HandlerPanics(t) \/ PublishFails(t)
    BY <2>5, MapTrouble
    DEF HeartbeatFails, HandlerPanics, PublishFails, Disrupt, Held
  <2>6. CASE HandlerReturns(t)
    BY <2>6, MapDecide DEF HandlerReturns, Held
  <2>7. CASE Complete(t)
    <3>1. Decided(t.cmd)
      BY <2>7 DEF Complete, DecisionInv
    <3>2. Held' = Held \ {t.cmd}
      BY <2>7 DEF Complete, AckDelete, Held
    <3>3. UNCHANGED <<added, returned, rejected, invoked, disruptions>>
      BY <2>7 DEF Complete
    <3> QED  BY <3>1, <3>2, <3>3, MapRemove
  <2>8. CASE CompleteFails(t)
    <3>1. Decided(t.cmd)
      BY <2>8 DEF CompleteFails, DecisionInv
    <3>2. Held' = Held \ {t.cmd} \/ Held' = Held
      BY <2>8 DEF CompleteFails, AckDelete, Held
    <3>3. UNCHANGED <<added, returned, rejected, invoked>> /\ Disrupted
      BY <2>8 DEF CompleteFails, Disrupt
    <3> QED  BY <3>1, <3>2, <3>3, MapTrouble
  <2> QED
    BY <1>4, <2>1, <2>2, <2>3, <2>4, <2>5, <2>6, <2>7, <2>8 DEF TaskNext
<1>5. CASE UNCHANGED vars
  BY <1>5, MapQuiet DEF vars, Held
<1> QED
  BY <1>1, <1>2, <1>3, <1>4, <1>5 DEF Next

(* The transport keeps its contract: a command taken in stays until decided,
   never comes back, and runs no more often than disruptions account for. *)
THEOREM TransportKeepsContract == Spec => ImplementsContract
<1>1. IInv /\ IInv' /\ [Next]_vars => [Contract!Next]_Contract!vars
  BY MapStep DEF ContractStep
<1> QED
  BY MapInit, <1>1, Invariance, PTL DEF Spec, ImplementsContract, Contract!Spec
=============================================================================
