------------------------- MODULE NatsEvents_proofs -------------------------
(* Proofs about NatsEvents, for any events, replicas, limits and bounds.   *)
EXTENDS NatsEvents, FiniteSetTheorems, TLAPS

(* Why deliveries of an event may end. *)
Justified(e) ==
    \/ e \in handled \cup discarded
    \/ e \in exhausted /\ (DeadLetters => buried[e] > 0)

BufferInv ==
    \A r \in Replicas :
        /\ status[r] = "down" => buffer[r] = {}
        /\ \A d \in buffer[r] : d.nth \in 1..delivered[d.evt]

(* What a task that is about to answer has done. *)
TaskInv ==
    \A t \in tasks :
        /\ t.phase = "settle" => Justified(t.evt)
        /\ t.phase = "bury" => t.evt \in exhausted

LimitInv ==
    \A e \in Events :
        /\ e \in exhausted => delivered[e] >= MaxDeliveries
        /\ buried[e] > 0 => e \in exhausted

TypeInv == TypeOK /\ IsFiniteSet(tasks) /\ BufferInv

SettleInv == TaskInv /\ LimitInv /\ AtLeastOnce

-----------------------------------------------------------------------------
(* Type correctness. *)

TaskTyped ==
    /\ tasks \subseteq Task
    /\ IsFiniteSet(tasks)
    /\ \A r \in Replicas : Cardinality(TasksOf(r)) <= Concurrency
    /\ \A t \in tasks : t.nth \in 1..delivered[t.evt]

LEMMA OutstandingFinite ==
    IsFiniteSet(Outstanding) /\ Cardinality(Outstanding) \in Nat
BY EventsAssumption, FS_Subset, FS_CardinalityType DEF Outstanding

LEMMA TasksFinite ==
    ASSUME IsFiniteSet(tasks), NEW r
    PROVE  IsFiniteSet(TasksOf(r)) /\ Cardinality(TasksOf(r)) \in Nat
BY FS_Subset, FS_CardinalityType DEF TasksOf

LEMMA Added ==
    ASSUME NEW S, IsFiniteSet(S), NEW x
    PROVE  /\ IsFiniteSet(S \cup {x})
           /\ Cardinality(S \cup {x}) <= Cardinality(S) + 1
<1>1. /\ IsFiniteSet(S \cup {x})
      /\ Cardinality(S \cup {x}) = IF x \in S THEN Cardinality(S) ELSE Cardinality(S) + 1
  BY FS_AddElement
<1>2. Cardinality(S) \in Nat
  BY FS_CardinalityType
<1> QED  BY <1>1, <1>2

LEMMA Replaced ==
    ASSUME NEW S, IsFiniteSet(S), NEW x \in S, NEW y
    PROVE  Cardinality((S \ {x}) \cup {y}) <= Cardinality(S)
<1>1. IsFiniteSet(S \ {x}) /\ Cardinality(S \ {x}) = Cardinality(S) - 1
  BY FS_RemoveElement
<1>2. Cardinality(S) \in Nat /\ Cardinality(S \ {x}) \in Nat
  BY <1>1, FS_CardinalityType
<1>3. Cardinality((S \ {x}) \cup {y}) <= Cardinality(S \ {x}) + 1
  BY <1>1, Added
<1>4. Cardinality((S \ {x}) \cup {y}) \in Nat
  BY <1>1, Added, FS_CardinalityType
<1> QED  BY <1>1, <1>2, <1>3, <1>4

LEMMA BecomesTyped ==
    ASSUME TaskTyped, NEW t \in tasks, NEW p, Becomes(t, p), delivered' = delivered,
           p \in {"claimed", "running", "bury", "settle", "nak", "failed"}
    PROVE  TaskTyped'
<1> DEFINE u == [t EXCEPT !.phase = p]
<1>1. /\ u \in Task /\ u.rep = t.rep /\ u.evt = t.evt /\ u.nth = t.nth
      /\ tasks' = (tasks \ {t}) \cup {u}
  BY DEF TaskTyped, Task, Becomes
<1> HIDE DEF u
<1>2. IsFiniteSet(tasks')
  <2>1. IsFiniteSet(tasks \ {t})
    BY FS_RemoveElement DEF TaskTyped
  <2> QED  BY <1>1, <2>1, FS_AddElement
<1>3. ASSUME NEW r \in Replicas
      PROVE  Cardinality(TasksOf(r)') <= Concurrency
  <2>1. CASE t.rep = r
    <3>1. TasksOf(r)' = (TasksOf(r) \ {t}) \cup {u}
      BY <1>1, <2>1 DEF TasksOf
    <3>2. Cardinality(TasksOf(r)') <= Cardinality(TasksOf(r))
      BY <2>1, <3>1, TasksFinite, Replaced DEF TaskTyped, TasksOf
    <3>3. Cardinality(TasksOf(r)') \in Nat
      BY <1>2, FS_Subset, FS_CardinalityType DEF TasksOf
    <3> QED
      BY <3>2, <3>3, TasksFinite, LimitsAssumption DEF TaskTyped
  <2>2. CASE t.rep # r
    <3>1. TasksOf(r)' = TasksOf(r)
      BY <1>1, <2>2 DEF TasksOf
    <3> QED  BY <3>1 DEF TaskTyped
  <2> QED  BY <2>1, <2>2
<1> QED  BY <1>1, <1>2, <1>3 DEF TaskTyped

LEMMA FewerTyped ==
    ASSUME TaskTyped, NEW S, tasks' = tasks \ S, delivered' = delivered
    PROVE  TaskTyped'
<1>1. IsFiniteSet(tasks')
  BY FS_Difference DEF TaskTyped
<1>2. ASSUME NEW r \in Replicas
      PROVE  Cardinality(TasksOf(r)') <= Concurrency
  <2>1. TasksOf(r)' \subseteq TasksOf(r)
    BY DEF TasksOf
  <2>2. /\ Cardinality(TasksOf(r)') <= Cardinality(TasksOf(r))
        /\ Cardinality(TasksOf(r)') \in Nat /\ Cardinality(TasksOf(r)) \in Nat
    BY <2>1, <1>1, TasksFinite, FS_Subset, FS_CardinalityType DEF TaskTyped
  <2> QED  BY <2>2, LimitsAssumption DEF TaskTyped
<1> QED  BY <1>1, <1>2 DEF TaskTyped

LEMMA TakeTyped ==
    ASSUME TaskTyped, NEW r \in Replicas, NEW d \in Delivery,
           d.nth \in 1..delivered[d.evt], Take(r, d)
    PROVE  TaskTyped'
<1> DEFINE u == [rep |-> r, evt |-> d.evt, nth |-> d.nth, phase |-> "claimed"]
<1>1. /\ u \in Task /\ u.rep = r /\ u.evt = d.evt /\ u.nth = d.nth
      /\ tasks' = tasks \cup {u} /\ delivered' = delivered
  BY DEF Take, Task, Delivery, brokerVars
<1> HIDE DEF u
<1>2. IsFiniteSet(tasks')
  BY <1>1, FS_AddElement DEF TaskTyped
<1>3. ASSUME NEW s \in Replicas
      PROVE  Cardinality(TasksOf(s)') <= Concurrency
  <2>1. CASE s = r
    <3>1. TasksOf(s)' = TasksOf(s) \cup {u}
      BY <1>1, <2>1 DEF TasksOf
    <3>2. Cardinality(TasksOf(s) \cup {u}) <= Cardinality(TasksOf(s)) + 1
      BY TasksFinite, Added DEF TaskTyped
    <3>3. Cardinality(TasksOf(s)) < Concurrency
      BY <2>1 DEF Take
    <3>4. Cardinality(TasksOf(s)') \in Nat
      BY <1>2, FS_Subset, FS_CardinalityType DEF TasksOf
    <3> QED
      BY <3>1, <3>2, <3>3, <3>4, TasksFinite, LimitsAssumption DEF TaskTyped
  <2>2. CASE s # r
    <3>1. TasksOf(s)' = TasksOf(s)
      BY <1>1, <2>2 DEF TasksOf
    <3> QED  BY <3>1 DEF TaskTyped
  <2> QED  BY <2>1, <2>2
<1> QED  BY <1>1, <1>2, <1>3 DEF TaskTyped

(* A step of JetStream: what is outstanding stays within max_ack_pending. *)
LEMMA MovesTyped ==
    ASSUME TypeOK, NEW e \in Events, NEW s \in Stages, Moves(e, s),
           s # "outstanding" \/ Cardinality(Outstanding) < Concurrency
    PROVE  /\ stage' \in [Events -> Stages]
           /\ Cardinality(Outstanding') <= Concurrency
<1>1. stage' \in [Events -> Stages] /\ stage' = [stage EXCEPT ![e] = s]
  BY DEF TypeOK, Moves
<1>2. CASE s # "outstanding"
  <2>1. Outstanding' \subseteq Outstanding
    BY <1>1, <1>2 DEF Outstanding, TypeOK
  <2>2. /\ Cardinality(Outstanding') <= Cardinality(Outstanding)
        /\ Cardinality(Outstanding') \in Nat
    BY <2>1, OutstandingFinite, FS_Subset, FS_CardinalityType
  <2> QED
    BY <1>1, <2>2, OutstandingFinite, LimitsAssumption DEF TypeOK
<1>3. CASE Cardinality(Outstanding) < Concurrency
  <2>1. Outstanding' \subseteq Outstanding \cup {e}
    BY <1>1 DEF Outstanding, TypeOK
  <2>2. /\ IsFiniteSet(Outstanding \cup {e})
        /\ Cardinality(Outstanding \cup {e}) <= Cardinality(Outstanding) + 1
    BY OutstandingFinite, Added
  <2>3. /\ Cardinality(Outstanding') <= Cardinality(Outstanding \cup {e})
        /\ Cardinality(Outstanding') \in Nat
        /\ Cardinality(Outstanding \cup {e}) \in Nat
    BY <2>1, <2>2, FS_Subset, FS_CardinalityType
  <2> QED
    BY <1>1, <1>3, <2>2, <2>3, OutstandingFinite, LimitsAssumption
<1> QED  BY <1>2, <1>3

LEMMA TypeInit == Init => TypeInv
<1> SUFFICES ASSUME Init PROVE TypeInv
  OBVIOUS
<1> USE DEF Init
<1>1. Outstanding = {} /\ \A r : TasksOf(r) = {}
  BY DEF Outstanding, TasksOf
<1>2. IsFiniteSet(tasks) /\ Cardinality({}) = 0
  BY FS_EmptySet
<1>3. TypeOK
  BY <1>1, <1>2, LimitsAssumption DEF TypeOK, Stages, None
<1>4. BufferInv
  BY DEF BufferInv
<1> QED  BY <1>2, <1>3, <1>4 DEF TypeInv

LEMMA TypeEvent ==
    ASSUME TypeInv, NEW e \in Events,
           Emit(e) \/ AckWaitElapses(e) \/ RetryDelayElapses(e)
    PROVE  TypeInv'
<1>1. /\ Moves(e, "ready") /\ "ready" \in Stages /\ disruptions' \in Nat
      /\ UNCHANGED <<delivered, replicaVars, tasks, buried, historyVars>>
  BY DEF Emit, AckWaitElapses, RetryDelayElapses, Stages, TypeInv, TypeOK, Disrupt,
         Disrupted
<1>2. stage' \in [Events -> Stages] /\ Cardinality(Outstanding') <= Concurrency
  BY <1>1, MovesTyped DEF TypeInv
<1>3. TypeOK'
  BY <1>1, <1>2 DEF TypeInv, TypeOK, replicaVars, historyVars, TasksOf
<1>4. BufferInv' /\ IsFiniteSet(tasks')
  BY <1>1 DEF TypeInv, BufferInv, replicaVars
<1> QED  BY <1>3, <1>4 DEF TypeInv

LEMMA TypeDeliver ==
    ASSUME TypeInv, NEW r \in Replicas, NEW e \in Events, Deliver(r, e)
    PROVE  TypeInv'
<1> DEFINE d == [evt |-> e, nth |-> delivered'[e]]
<1>1. /\ Moves(e, "outstanding") /\ "outstanding" \in Stages
      /\ Cardinality(Outstanding) < Concurrency
  BY DEF Deliver, Stages
<1>2. stage' \in [Events -> Stages] /\ Cardinality(Outstanding') <= Concurrency
  BY <1>1, MovesTyped DEF TypeInv
<1>3. /\ delivered' \in [Events -> Nat]
      /\ delivered'[e] = delivered[e] + 1
      /\ \A f \in Events : f # e => delivered'[f] = delivered[f]
  BY DEF Deliver, Again, TypeInv, TypeOK
<1>4. \A f \in Events : delivered[f] \in Nat /\ delivered[f] <= delivered'[f]
  BY <1>3 DEF TypeInv, TypeOK
<1>5. /\ d \in Delivery /\ d.evt = e /\ d.nth \in 1..delivered'[e]
      /\ buffer' = [buffer EXCEPT ![r] = @ \cup {d}]
  BY <1>3, <1>4 DEF Deliver, Delivery
<1>6. /\ status[r] # "down"
      /\ UNCHANGED <<status, stops, tasks, disruptions, buried, historyVars>>
  BY DEF Deliver
<1>7. \A f \in Events : \A n \in 1..delivered[f] : n \in 1..delivered'[f]
  BY <1>3, <1>4
<1> HIDE DEF d
<1>8. \A t \in tasks' : t.nth \in 1..delivered'[t.evt]
  BY <1>6, <1>7 DEF TypeInv, TypeOK, Task
<1>9. TypeOK'
  BY <1>2, <1>3, <1>5, <1>6, <1>8
  DEF TypeInv, TypeOK, historyVars, TasksOf
<1>10. BufferInv'
  BY <1>5, <1>6, <1>7 DEF TypeInv, TypeOK, BufferInv, Delivery
<1> QED  BY <1>6, <1>9, <1>10 DEF TypeInv

LEMMA TypeAbandon ==
    ASSUME TypeInv, NEW r \in Replicas, Abandon(r), disruptions' \in Nat,
           UNCHANGED <<brokerVars, buried, historyVars>>
    PROVE  TypeInv'
<1>1. /\ status' = [status EXCEPT ![r] = "down"]
      /\ buffer' = [buffer EXCEPT ![r] = {}]
      /\ tasks' = tasks \ TasksOf(r)
      /\ UNCHANGED <<stage, delivered, stops, buried, historyVars>>
  BY DEF Abandon, brokerVars
<1>2. TaskTyped'
  BY <1>1, FewerTyped DEF TypeInv, TypeOK, TaskTyped
<1>3. TypeOK'
  BY <1>1, <1>2 DEF TypeInv, TypeOK, TaskTyped, historyVars, Outstanding
<1>4. BufferInv'
  BY <1>1 DEF TypeInv, TypeOK, BufferInv
<1> QED  BY <1>2, <1>3, <1>4 DEF TypeInv, TaskTyped

LEMMA TypeReplica ==
    ASSUME TypeInv, NEW r \in Replicas, ReplicaNext(r)
    PROVE  TypeInv'
<1>1. CASE StartReplica(r) \/ CancelReplica(r)
  <2>1. /\ status' \in [Replicas -> {"down", "up", "draining"}] /\ stops' \in Nat
        /\ \A s \in Replicas : status'[s] = "down" => status[s] = "down"
        /\ UNCHANGED <<brokerVars, buffer, tasks, disruptions, buried, historyVars>>
    BY <1>1 DEF StartReplica, CancelReplica, TypeInv, TypeOK
  <2>2. TypeOK'
    BY <2>1 DEF TypeInv, TypeOK, brokerVars, historyVars, Outstanding, TasksOf
  <2>3. BufferInv' /\ IsFiniteSet(tasks')
    BY <2>1 DEF TypeInv, BufferInv, brokerVars
  <2> QED  BY <2>2, <2>3 DEF TypeInv
<1>2. CASE Drained(r) \/ LoopFails(r) \/ Crash(r)
  BY <1>2, TypeAbandon DEF Drained, LoopFails, Crash, Disrupt, Disrupted, TypeInv,
                           TypeOK
<1>3. CASE \E e \in Events : Deliver(r, e)
  BY <1>3, TypeDeliver
<1>4. ASSUME NEW d \in buffer[r], Take(r, d)
      PROVE  TypeInv'
  <2>1. d \in Delivery /\ d.nth \in 1..delivered[d.evt]
    BY DEF TypeInv, TypeOK, BufferInv
  <2>2. TaskTyped'
    BY <1>4, <2>1, TakeTyped DEF TypeInv, TypeOK, TaskTyped
  <2>3. /\ buffer' = [buffer EXCEPT ![r] = @ \ {d}]
        /\ UNCHANGED <<stage, delivered, status, stops, disruptions, buried, historyVars>>
    BY <1>4 DEF Take, brokerVars
  <2>4. TypeOK'
    BY <2>2, <2>3 DEF TypeInv, TypeOK, TaskTyped, historyVars, Outstanding
  <2>5. BufferInv'
    BY <2>3 DEF TypeInv, TypeOK, BufferInv
  <2> QED  BY <2>2, <2>4, <2>5 DEF TypeInv, TaskTyped
<1> QED  BY <1>1, <1>2, <1>3, <1>4 DEF ReplicaNext

LEMMA TypeTask ==
    ASSUME TypeInv, NEW t \in tasks, TaskNext(t)
    PROVE  TypeInv'
<1>1. /\ delivered' = delivered /\ UNCHANGED replicaVars
      /\ disruptions' \in Nat /\ buried' \in [Events -> Nat]
      /\ discarded' \subseteq Invalid /\ handled' \subseteq Events
      /\ exhausted' \subseteq Events
      /\ invocations' \in [Events -> Nat] /\ failures' \in [Events -> Nat]
  <2> USE DEF TypeInv, TypeOK, Task, brokerVars, historyVars, Again, Disrupt, Disrupted
  <2>1. CASE Discard(t)  BY <2>1 DEF Discard
  <2>2. CASE Invoke(t)  BY <2>2 DEF Invoke
  <2>3. CASE HandlerSettles(t)  BY <2>3 DEF HandlerSettles
  <2>4. CASE HandlerFails(t)  BY <2>4 DEF HandlerFails
  <2>5. CASE Bury(t)  BY <2>5 DEF Bury
  <2>6. CASE BuryFails(t)  BY <2>6 DEF BuryFails
  <2>7. CASE Answer(t)  BY <2>7 DEF Answer
  <2>8. CASE AnswerLost(t)  BY <2>8 DEF AnswerLost
  <2>9. CASE TaskFails(t)  BY <2>9 DEF TaskFails
  <2> QED  BY <2>1, <2>2, <2>3, <2>4, <2>5, <2>6, <2>7, <2>8, <2>9 DEF TaskNext
<1>2. TaskTyped'
  <2>1. CASE \E p \in {"claimed", "running", "bury", "settle", "nak", "failed"} :
              Becomes(t, p)
    BY <1>1, <2>1, BecomesTyped DEF TypeInv, TypeOK, TaskTyped
  <2>2. CASE Ends(t)
    BY <1>1, <2>2, FewerTyped DEF TypeInv, TypeOK, TaskTyped, Ends
  <2> QED
    BY <2>1, <2>2 DEF TaskNext, Discard, Invoke, HandlerSettles, HandlerFails, Bury,
                      BuryFails, Answer, AnswerLost, TaskFails
<1>3. stage' \in [Events -> Stages] /\ Cardinality(Outstanding') <= Concurrency
  <2>1. CASE stage' = stage
    BY <2>1 DEF TypeInv, TypeOK, Outstanding
  <2>2. CASE \E s \in {"settled", "delayed"} : Moves(t.evt, s)
    BY <2>2, MovesTyped DEF TypeInv, TypeOK, Task, Stages
  <2> QED
    BY <2>1, <2>2 DEF TaskNext, Discard, Invoke, HandlerSettles, HandlerFails, Bury,
       BuryFails, Answer, AnswerLost, TaskFails, ACK, NAK, brokerVars
<1>4. TypeOK'
  BY <1>1, <1>2, <1>3 DEF TypeInv, TypeOK, TaskTyped, replicaVars
<1>5. BufferInv'
  BY <1>1 DEF TypeInv, BufferInv, replicaVars
<1> QED  BY <1>2, <1>4, <1>5 DEF TypeInv, TaskTyped

LEMMA TypeStutter == ASSUME TypeInv, UNCHANGED vars PROVE TypeInv'
BY DEF TypeInv, TypeOK, BufferInv, vars, brokerVars, replicaVars, historyVars,
       Outstanding, TasksOf

LEMMA TypeInductive == Spec => []TypeInv
<1>1. TypeInv /\ [Next]_vars => TypeInv'
  BY TypeEvent, TypeReplica, TypeTask, TypeStutter DEF Next
<1> QED  BY <1>1, TypeInit, PTL DEF Spec

(* The types of the state, with at most max_ack_pending deliveries outstanding
   and at most max_handler_concurrency tasks in any replica (consume_event). *)
THEOREM TypeCorrect == Spec => []TypeOK
<1>1. TypeInv => TypeOK  BY DEF TypeInv
<1> QED  BY <1>1, TypeInductive, PTL

-----------------------------------------------------------------------------
(* At least once, and at most the permitted deliveries before burial. *)

LEMMA SettleInit == Init => SettleInv
BY DEF Init, None, SettleInv, TaskInv, LimitInv, AtLeastOnce

(* Steps that neither answer for an event nor touch its history. *)
LEMMA SettleElsewhere ==
    ASSUME TypeInv, TypeInv', SettleInv,
           UNCHANGED <<buried, historyVars>>,
           \A e \in Events : delivered'[e] >= delivered[e],
           \A e \in Events : stage'[e] = "settled" => stage[e] = "settled",
           \A t \in tasks' : t \in tasks \/ t.phase = "claimed"
    PROVE  SettleInv'
<1>1. LimitInv'
  <2>1. \A e \in Events : delivered[e] \in Nat /\ delivered'[e] \in Nat
    BY DEF TypeInv, TypeOK
  <2> QED
    BY <2>1, LimitsAssumption DEF SettleInv, LimitInv, historyVars
<1>2. AtLeastOnce'
  BY DEF SettleInv, AtLeastOnce, historyVars
<1>3. TaskInv'
  BY DEF SettleInv, TaskInv, Justified, historyVars
<1> QED  BY <1>1, <1>2, <1>3 DEF SettleInv

LEMMA SettleEvent ==
    ASSUME TypeInv, TypeInv', SettleInv, NEW e \in Events,
           Emit(e) \/ AckWaitElapses(e) \/ RetryDelayElapses(e)
    PROVE  SettleInv'
<1>1. /\ Moves(e, "ready")
      /\ UNCHANGED <<delivered, replicaVars, tasks, buried, historyVars>>
  BY DEF Emit, AckWaitElapses, RetryDelayElapses
<1> QED  BY <1>1, SettleElsewhere DEF Moves, TypeInv, TypeOK

LEMMA SettleReplica ==
    ASSUME TypeInv, TypeInv', SettleInv, NEW r \in Replicas, ReplicaNext(r)
    PROVE  SettleInv'
<1> USE DEF TypeInv, TypeOK, brokerVars
<1>1. CASE StartReplica(r) \/ CancelReplica(r)
  BY <1>1, SettleElsewhere DEF StartReplica, CancelReplica
<1>2. CASE Drained(r) \/ LoopFails(r) \/ Crash(r)
  BY <1>2, SettleElsewhere DEF Drained, LoopFails, Crash, Abandon
<1>3. ASSUME NEW e \in Events, Deliver(r, e)
      PROVE  SettleInv'
  BY <1>3, SettleElsewhere DEF Deliver, Moves, Again
<1>4. ASSUME NEW d \in buffer[r], Take(r, d)
      PROVE  SettleInv'
  BY <1>4, SettleElsewhere DEF Take
<1> QED  BY <1>1, <1>2, <1>3, <1>4 DEF ReplicaNext

(* What is justified stays justified. *)
LEMMA StaysJustified ==
    ASSUME TypeInv, TypeInv', NEW t \in tasks, TaskNext(t)
    PROVE  /\ handled \subseteq handled' /\ discarded \subseteq discarded'
           /\ exhausted \subseteq exhausted'
           /\ \A e \in Events : buried[e] \in Nat /\ buried'[e] >= buried[e]
           /\ \A e \in Events : Justified(e) => Justified(e)'
<1>1. handled \subseteq handled' /\ discarded \subseteq discarded'
      /\ exhausted \subseteq exhausted'
      /\ \A e \in Events : buried[e] \in Nat /\ buried'[e] >= buried[e]
  <2> USE DEF TypeInv, TypeOK, historyVars, Again
  <2>1. CASE Discard(t)  BY <2>1 DEF Discard
  <2>2. CASE Invoke(t)  BY <2>2 DEF Invoke
  <2>3. CASE HandlerSettles(t)  BY <2>3 DEF HandlerSettles
  <2>4. CASE HandlerFails(t)  BY <2>4 DEF HandlerFails
  <2>5. CASE Bury(t)  BY <2>5 DEF Bury
  <2>6. CASE BuryFails(t)  BY <2>6 DEF BuryFails
  <2>7. CASE Answer(t)  BY <2>7 DEF Answer
  <2>8. CASE AnswerLost(t)  BY <2>8 DEF AnswerLost
  <2>9. CASE TaskFails(t)  BY <2>9 DEF TaskFails
  <2> QED  BY <2>1, <2>2, <2>3, <2>4, <2>5, <2>6, <2>7, <2>8, <2>9 DEF TaskNext
<1>2. \A e \in Events : buried'[e] \in Nat
  BY DEF TypeInv, TypeOK
<1> QED  BY <1>1, <1>2 DEF Justified

LEMMA SettleTask ==
    ASSUME TypeInv, TypeInv', SettleInv, NEW t \in tasks, TaskNext(t)
    PROVE  SettleInv'
<1>1. /\ t \in Task /\ t.evt \in Events /\ t.nth \in 1..delivered[t.evt]
      /\ delivered[t.evt] \in Nat
      /\ \A p : /\ [t EXCEPT !.phase = p].evt = t.evt
                /\ [t EXCEPT !.phase = p].phase = p
  BY DEF TypeInv, TypeOK, Task
<1>2. delivered' = delivered
  BY DEF TaskNext, Discard, Invoke, HandlerSettles, HandlerFails, Bury, BuryFails,
         Answer, AnswerLost, TaskFails, brokerVars
<1>3. LimitInv'
  <2> USE DEF SettleInv, LimitInv, TaskInv, TypeInv, TypeOK, historyVars, Again
  <2>1. CASE Discard(t)  BY <1>2, <2>1 DEF Discard
  <2>2. CASE Invoke(t)  BY <1>2, <2>2 DEF Invoke
  <2>3. CASE HandlerSettles(t)  BY <1>2, <2>3 DEF HandlerSettles
  <2>4. CASE HandlerFails(t)
    <3>1. \/ exhausted' = exhausted
          \/ t.nth >= MaxDeliveries /\ exhausted' = exhausted \cup {t.evt}
      <4>1. t.nth \in Nat /\ MaxDeliveries \in Nat
        BY <1>1, LimitsAssumption
      <4>2. CASE t.nth < MaxDeliveries
        BY <2>4, <4>2 DEF HandlerFails
      <4>3. CASE ~(t.nth < MaxDeliveries)
        BY <2>4, <4>1, <4>3 DEF HandlerFails
      <4> QED  BY <4>2, <4>3
    <3>2. delivered[t.evt] >= t.nth
      BY <1>1
    <3>3. buried' = buried
      BY <2>4 DEF HandlerFails
    <3>4. \A e \in exhausted' : e \in Events => delivered[e] >= MaxDeliveries
      BY <3>1, <3>2, <1>1, LimitsAssumption
    <3>5. exhausted \subseteq exhausted'
      BY StaysJustified
    <3> QED  BY <1>2, <3>3, <3>4, <3>5
  <2>5. CASE Bury(t)  BY <1>1, <1>2, <2>5 DEF Bury
  <2>6. CASE BuryFails(t)  BY <1>1, <1>2, <2>6 DEF BuryFails
  <2>7. CASE Answer(t)  BY <1>2, <2>7 DEF Answer
  <2>8. CASE AnswerLost(t)  BY <1>2, <2>8 DEF AnswerLost
  <2>9. CASE TaskFails(t)  BY <1>2, <2>9 DEF TaskFails
  <2> QED  BY <2>1, <2>2, <2>3, <2>4, <2>5, <2>6, <2>7, <2>8, <2>9 DEF TaskNext
<1>4. AtLeastOnce'
  <2>1. \A e \in Events : stage'[e] = "settled" =>
            stage[e] = "settled" \/ (t.phase = "settle" /\ e = t.evt)
    BY <1>1 DEF TaskNext, Discard, Invoke, HandlerSettles, HandlerFails, Bury,
       BuryFails, Answer, AnswerLost, TaskFails, brokerVars, ACK, NAK, Moves,
       TypeInv, TypeOK
  <2>2. \A e \in Events : stage'[e] = "settled" => Justified(e)
    BY <2>1 DEF SettleInv, AtLeastOnce, TaskInv, Justified
  <2> QED  BY <2>2, StaysJustified DEF AtLeastOnce, Justified
<1>5. TaskInv'
  <2>1. ASSUME NEW u \in tasks, u.evt \in Events
        PROVE  /\ u.phase = "settle" => Justified(u.evt)'
               /\ u.phase = "bury" => u.evt \in exhausted'
    <3>1. Justified(u.evt) => Justified(u.evt)'
      BY <2>1, StaysJustified
    <3>2. u.evt \in exhausted => u.evt \in exhausted'
      BY StaysJustified
    <3> QED  BY <2>1, <3>1, <3>2 DEF SettleInv, TaskInv
  <2>2. ASSUME NEW p, Becomes(t, p),
               p = "settle" => Justified(t.evt)', p = "bury" => t.evt \in exhausted'
        PROVE  TaskInv'
    BY <1>1, <2>1, <2>2 DEF TaskInv, Becomes, TypeInv, TypeOK, Task
  <2>3. ASSUME Ends(t)
        PROVE  TaskInv'
    BY <2>1, <2>3 DEF TaskInv, Ends, TypeInv, TypeOK, Task
  <2>4. CASE Discard(t)  BY <2>4, <2>2, <1>1 DEF Discard, Justified
  <2>5. CASE Invoke(t)  BY <2>5, <2>2 DEF Invoke
  <2>6. CASE HandlerSettles(t)  BY <2>6, <2>2, <1>1 DEF HandlerSettles, Justified
  <2>7. CASE HandlerFails(t)
    <3>1. CASE t.nth < MaxDeliveries
      BY <2>7, <3>1, <2>2 DEF HandlerFails
    <3>2. CASE ~(t.nth < MaxDeliveries) /\ DeadLetters
      BY <2>7, <3>2, <2>2 DEF HandlerFails
    <3>3. CASE ~(t.nth < MaxDeliveries) /\ ~DeadLetters
      <4>1. Becomes(t, "settle") /\ t.evt \in exhausted'
        BY <2>7, <3>3 DEF HandlerFails
      <4> QED  BY <3>3, <4>1, <2>2 DEF Justified
    <3> QED  BY <3>1, <3>2, <3>3
  <2>8. CASE Bury(t)
    <3>1. t.evt \in exhausted' /\ Becomes(t, "settle") /\ buried'[t.evt] > 0
      BY <2>8, <1>1, <2>1 DEF Bury, Again, TypeInv, TypeOK
    <3> QED  BY <3>1, <2>2 DEF Justified
  <2>9. CASE BuryFails(t)  BY <2>9, <2>2 DEF BuryFails
  <2>10. CASE Answer(t) \/ AnswerLost(t)  BY <2>10, <2>3 DEF Answer, AnswerLost
  <2>11. CASE TaskFails(t)  BY <2>11, <2>2 DEF TaskFails
  <2> QED  BY <2>4, <2>5, <2>6, <2>7, <2>8, <2>9, <2>10, <2>11 DEF TaskNext
<1> QED  BY <1>3, <1>4, <1>5 DEF SettleInv

LEMMA SettleStutter == ASSUME SettleInv, UNCHANGED vars PROVE SettleInv'
BY DEF SettleInv, TaskInv, LimitInv, AtLeastOnce, Justified, vars, brokerVars,
       historyVars

LEMMA SettleInductive == Spec => []SettleInv
<1>1. TypeInv /\ TypeInv' /\ SettleInv /\ [Next]_vars => SettleInv'
  BY SettleEvent, SettleReplica, SettleTask, SettleStutter DEF Next
<1> QED  BY <1>1, SettleInit, TypeInductive, PTL DEF Spec

(* No delivery of an event ends before its handler settled it, or it was given
   up and, if a dead-letter subject is configured, published there, whatever
   crashes, is lost or comes late (process_event). *)
THEOREM DeliveriesEndJustified == Spec => []AtLeastOnce
<1>1. SettleInv => AtLeastOnce  BY DEF SettleInv
<1> QED  BY <1>1, SettleInductive, PTL

-----------------------------------------------------------------------------
(* Without disruptions an event is in one pair of hands, and the history adds  *)
(* up.                                                                         *)

Current(d) == stage[d.evt] = "outstanding" /\ d.nth = delivered[d.evt]

(* What a task or a replica at work holds is the last delivery of its event,
   and nobody else holds that. *)
SoleInv ==
    /\ \A t \in tasks : t.phase # "failed" /\ Current(t)
    /\ \A t, u \in tasks : t.evt = u.evt => t = u
    /\ \A r \in Replicas : status[r] = "up" =>
        \A d \in buffer[r] :
            /\ Current(d)
            /\ \A t \in tasks : t.evt # d.evt
            /\ \A s \in Replicas : status[s] = "up" =>
                \A f \in buffer[s] : f.evt = d.evt => s = r

Running(e) == \E t \in tasks : t.evt = e /\ t.phase = "running"
Closing(e) ==
    stage[e] = "settled" \/ \E t \in tasks : t.evt = e /\ t.phase = "settle"

(* Before the answer that settles an event is due, it is neither accepted nor
   buried, and its handler has failed in every invocation but the current one. *)
CountInv ==
    \A e \in Events :
        /\ Running(e) => invocations[e] = failures[e] + 1
        /\ ~Running(e) /\ e \notin handled => invocations[e] = failures[e]
        /\ ~Closing(e) => buried[e] = 0 /\ e \notin handled
        /\ buried[e] > 0 => buried[e] = 1 /\ e \notin handled

QuietInv == disruptions = 0 => SoleInv /\ CountInv

LEMMA QuietInit == Init => QuietInv
BY DEF Init, None, QuietInv, SoleInv, CountInv, Running

LEMMA SoleEvent ==
    ASSUME TypeInv, SoleInv, NEW e \in Events, disruptions' = disruptions,
           disruptions = 0,
           Emit(e) \/ AckWaitElapses(e) \/ RetryDelayElapses(e)
    PROVE  SoleInv'
<1>1. /\ stage' = [stage EXCEPT ![e] = "ready"]
      /\ UNCHANGED <<delivered, status, buffer, tasks>>
  BY DEF Emit, AckWaitElapses, RetryDelayElapses, Moves, replicaVars
<1>2. ~Attended(e) \/ stage[e] # "outstanding"
  BY DEF Emit, AckWaitElapses, RetryDelayElapses, Disrupt, Disrupted
<1>3. \A t \in tasks : t.evt # e
  BY <1>2 DEF SoleInv, Current, Attended
<1>4. \A r \in Replicas : status[r] = "up" => \A d \in buffer[r] : d.evt # e
  BY <1>2 DEF SoleInv, Current, Attended
<1>5. \A f \in Events : f # e => stage'[f] = stage[f]
  BY <1>1 DEF TypeInv, TypeOK
<1>6. \A t \in tasks : Current(t)'
  BY <1>1, <1>3, <1>5 DEF SoleInv, Current, TypeInv, TypeOK, Task
<1>7. \A r \in Replicas : status[r] = "up" => \A d \in buffer[r] : Current(d)'
  BY <1>1, <1>4, <1>5 DEF SoleInv, Current, TypeInv, TypeOK, Delivery
<1> QED  BY <1>1, <1>6, <1>7 DEF SoleInv

LEMMA SoleReplica ==
    ASSUME TypeInv, TypeInv', SoleInv, NEW r \in Replicas, ReplicaNext(r),
           disruptions' = disruptions, disruptions = 0
    PROVE  SoleInv'
<1>1. CASE StartReplica(r)
  <2>1. /\ status' = [status EXCEPT ![r] = "up"] /\ buffer[r] = {}
        /\ UNCHANGED <<stage, delivered, buffer, tasks>>
    BY <1>1 DEF StartReplica, TypeInv, BufferInv, brokerVars
  <2>2. \A s \in Replicas : status'[s] = "up" => status[s] = "up" \/ buffer[s] = {}
    BY <2>1 DEF TypeInv, TypeOK
  <2> QED  BY <2>1, <2>2 DEF SoleInv, Current
<1>2. CASE CancelReplica(r)
  <2>1. \A s \in Replicas : status'[s] = "up" => status[s] = "up"
    BY <1>2 DEF CancelReplica, TypeInv, TypeOK
  <2>2. UNCHANGED <<stage, delivered, buffer, tasks>>
    BY <1>2 DEF CancelReplica, brokerVars
  <2> QED  BY <2>1, <2>2 DEF SoleInv, Current
<1>3. CASE Drained(r)
  <2>1. \A s \in Replicas : status'[s] = "up" => status[s] = "up" /\ buffer'[s] = buffer[s]
    BY <1>3 DEF Drained, Abandon, TypeInv, TypeOK
  <2>2. UNCHANGED <<stage, delivered, tasks>>
    BY <1>3 DEF Drained, Abandon, brokerVars
  <2> QED  BY <2>1, <2>2 DEF SoleInv, Current
<1>4. CASE LoopFails(r) \/ Crash(r)
  BY <1>4 DEF LoopFails, Crash, Disrupt, Disrupted
<1>5. ASSUME NEW e \in Events, Deliver(r, e)
      PROVE  SoleInv'
  <2>1. PICK d : d = [evt |-> e, nth |-> delivered'[e]]
    OBVIOUS
  <2>2. /\ stage[e] = "ready" /\ stage'[e] = "outstanding"
        /\ \A f \in Events : f # e =>
              stage'[f] = stage[f] /\ delivered'[f] = delivered[f]
        /\ d.evt = e /\ Current(d)'
        /\ buffer' = [buffer EXCEPT ![r] = @ \cup {d}]
        /\ UNCHANGED <<status, tasks>>
    BY <1>5, <2>1 DEF Deliver, Moves, Again, TypeInv, TypeOK, Current
  <2>3. \A t \in tasks : t.evt # e /\ t.phase # "failed" /\ Current(t)'
    BY <2>2 DEF SoleInv, Current, TypeInv, TypeOK, Task
  <2>4. \A s \in Replicas : status[s] = "up" =>
            \A f \in buffer[s] : f.evt # e /\ Current(f)'
    BY <2>2 DEF SoleInv, Current, TypeInv, TypeOK, Delivery
  <2>5. \A s \in Replicas : \A f \in buffer'[s] :
            f \in buffer[s] \/ (s = r /\ f = d)
    BY <2>2 DEF TypeInv, TypeOK
  <2>6. ASSUME NEW s \in Replicas, status'[s] = "up", NEW f \in buffer'[s]
        PROVE  /\ Current(f)'
               /\ \A t \in tasks' : t.evt # f.evt
               /\ \A q \in Replicas : status'[q] = "up" =>
                    \A g \in buffer'[q] : g.evt = f.evt => q = s
    <3>1. status[s] = "up" /\ status' = status /\ tasks' = tasks
      BY <2>2, <2>6
    <3>2. CASE f \in buffer[s]
      BY <2>2, <2>4, <2>5, <3>1, <3>2 DEF SoleInv
    <3>3. CASE s = r /\ f = d
      BY <2>2, <2>3, <2>4, <2>5, <3>1, <3>3
    <3> QED  BY <2>5, <3>2, <3>3
  <2> QED  BY <2>2, <2>3, <2>6 DEF SoleInv
<1>6. ASSUME NEW d \in buffer[r], Take(r, d)
      PROVE  SoleInv'
  <2> DEFINE u == [rep |-> r, evt |-> d.evt, nth |-> d.nth, phase |-> "claimed"]
  <2>1. /\ u.evt = d.evt /\ u.nth = d.nth /\ u.phase = "claimed"
        /\ tasks' = tasks \cup {u} /\ buffer' = [buffer EXCEPT ![r] = @ \ {d}]
        /\ status[r] = "up" /\ UNCHANGED <<stage, delivered, status>>
    BY <1>6 DEF Take, brokerVars
  <2> HIDE DEF u
  <2>2. \A s \in Replicas : \A f \in buffer'[s] : f \in buffer[s] /\ (s = r => f # d)
    BY <2>1 DEF TypeInv, TypeOK
  <2>3. Current(d) /\ \A t \in tasks : t.evt # d.evt
    BY <2>1 DEF SoleInv
  <2>4. \A s \in Replicas : status[s] = "up" =>
            \A f \in buffer'[s] : f.evt # d.evt
    <3> SUFFICES ASSUME NEW s \in Replicas, status[s] = "up", NEW f \in buffer'[s],
                        f.evt = d.evt
                 PROVE  FALSE
      OBVIOUS
    <3>1. s = r /\ f \in buffer[r] /\ f # d
      BY <2>1, <2>2 DEF SoleInv
    <3>2. f.nth = d.nth
      BY <2>1, <2>3, <3>1 DEF SoleInv, Current
    <3>3. f \in Delivery /\ d \in Delivery
      BY <3>1 DEF TypeInv, TypeOK
    <3> QED  BY <3>1, <3>2, <3>3 DEF Delivery
  <2>5. /\ \A t \in tasks' : t.phase # "failed" /\ Current(t)'
        /\ \A t, v \in tasks' : t.evt = v.evt => t = v
    BY <2>1, <2>3 DEF SoleInv, Current
  <2>6. ASSUME NEW s \in Replicas, status'[s] = "up", NEW f \in buffer'[s]
        PROVE  /\ Current(f)'
               /\ \A t \in tasks' : t.evt # f.evt
               /\ \A q \in Replicas : status'[q] = "up" =>
                    \A g \in buffer'[q] : g.evt = f.evt => q = s
    <3>1. f \in buffer[s] /\ status[s] = "up" /\ f.evt # d.evt
      BY <2>1, <2>2, <2>4, <2>6
    <3> QED  BY <2>1, <2>2, <3>1 DEF SoleInv, Current
  <2> QED  BY <2>5, <2>6 DEF SoleInv
<1> QED  BY <1>1, <1>2, <1>3, <1>4, <1>5, <1>6 DEF ReplicaNext

(* What a quiet step of a task does to its phase, its event and the history. *)
LEMMA TaskAlone ==
    ASSUME TypeInv, SoleInv, NEW t \in tasks
    PROVE  /\ t.evt \in Events /\ stage[t.evt] = "outstanding"
           /\ t.nth = delivered[t.evt]
           /\ \A u \in tasks : u.evt = t.evt => u = t
           /\ Running(t.evt) <=> t.phase = "running"
           /\ Closing(t.evt) <=> t.phase = "settle"
BY DEF TypeInv, TypeOK, Task, SoleInv, Current, Running, Closing

LEMMA SoleTask ==
    ASSUME TypeInv, SoleInv, NEW t \in tasks, TaskNext(t),
           disruptions' = disruptions, disruptions = 0
    PROVE  SoleInv'
<1>1. UNCHANGED <<delivered, status, buffer>>
  BY DEF TaskNext, Discard, Invoke, HandlerSettles, HandlerFails, Bury, BuryFails,
         Answer, AnswerLost, TaskFails, brokerVars, replicaVars
<1>2. ASSUME NEW p, p # "failed", Becomes(t, p), stage' = stage
      PROVE  SoleInv'
  <2>1. \A u \in tasks' : \/ u \in tasks /\ u # t
                          \/ u.evt = t.evt /\ u.nth = t.nth /\ u.phase = p
    BY <1>2 DEF Becomes, TypeInv, TypeOK, Task
  <2>2. \A u, v \in tasks' : u.evt = v.evt => u = v
    BY <1>2 DEF Becomes, TypeInv, TypeOK, Task, SoleInv
  <2> QED  BY <1>1, <1>2, <2>1, <2>2 DEF SoleInv, Current
<1>3. CASE Answer(t)
  <2>1. tasks' = tasks \ {t}
    BY <1>3 DEF Answer, Ends
  <2>2. \A e \in Events : e # t.evt => stage'[e] = stage[e]
    BY <1>3 DEF Answer, ACK, NAK, Moves, TypeInv, TypeOK
  <2>3. \A u \in tasks' : u \in tasks /\ u.phase # "failed" /\ Current(u)'
    BY <1>1, <2>1, <2>2, TaskAlone DEF SoleInv, Current, TypeInv, TypeOK, Task
  <2>4. \A r \in Replicas : status[r] = "up" => \A d \in buffer[r] : Current(d)'
    BY <1>1, <2>2 DEF SoleInv, Current, TypeInv, TypeOK, Delivery
  <2> QED  BY <1>1, <2>1, <2>3, <2>4 DEF SoleInv
<1>4. CASE BuryFails(t) \/ AnswerLost(t) \/ TaskFails(t)
  BY <1>4 DEF BuryFails, AnswerLost, TaskFails, Disrupt, Disrupted
<1>5. CASE Discard(t)  BY <1>5, <1>2 DEF Discard, brokerVars
<1>6. CASE Invoke(t)  BY <1>6, <1>2 DEF Invoke, brokerVars
<1>7. CASE HandlerSettles(t)  BY <1>7, <1>2 DEF HandlerSettles, brokerVars
<1>8. CASE HandlerFails(t)  BY <1>8, <1>2 DEF HandlerFails, brokerVars
<1>9. CASE Bury(t)  BY <1>9, <1>2 DEF Bury, brokerVars
<1> QED  BY <1>3, <1>4, <1>5, <1>6, <1>7, <1>8, <1>9 DEF TaskNext

LEMMA CountTask ==
    ASSUME TypeInv, SoleInv, CountInv, NEW t \in tasks, TaskNext(t),
           disruptions' = disruptions, disruptions = 0
    PROVE  CountInv'
<1> DEFINE e == t.evt
<1>1. /\ e \in Events /\ stage[e] = "outstanding" /\ t.nth = delivered[e]
      /\ \A u \in tasks : u.evt = e => u = t
      /\ Running(e) <=> t.phase = "running"
      /\ Closing(e) <=> t.phase = "settle"
  BY TaskAlone
<1>2. /\ invocations[e] \in Nat /\ failures[e] \in Nat /\ buried[e] \in Nat
      /\ Running(e) => invocations[e] = failures[e] + 1
      /\ ~Running(e) /\ e \notin handled => invocations[e] = failures[e]
      /\ ~Closing(e) => buried[e] = 0 /\ e \notin handled
      /\ buried[e] > 0 => buried[e] = 1 /\ e \notin handled
  BY <1>1 DEF CountInv, TypeInv, TypeOK
<1> DEFINE Counted(f) ==
      /\ Running(f) => invocations[f] = failures[f] + 1
      /\ ~Running(f) /\ f \notin handled => invocations[f] = failures[f]
      /\ ~Closing(f) => buried[f] = 0 /\ f \notin handled
      /\ buried[f] > 0 => buried[f] = 1 /\ f \notin handled
<1>3. ASSUME NEW f \in Events, f # e
      PROVE  Counted(f)'
  <2>1. stage'[f] = stage[f]
    BY <1>1, <1>3 DEF TaskNext, Discard, Invoke, HandlerSettles, HandlerFails, Bury,
       BuryFails, Answer, AnswerLost, TaskFails, brokerVars, ACK, NAK, Moves,
       TypeInv, TypeOK
  <2>2. /\ invocations'[f] = invocations[f] /\ failures'[f] = failures[f]
        /\ f \in handled' <=> f \in handled
        /\ buried'[f] = buried[f]
    BY <1>1, <1>3 DEF TaskNext, Discard, Invoke, HandlerSettles, HandlerFails, Bury,
       BuryFails, Answer, AnswerLost, TaskFails, Disrupt, Disrupted, historyVars,
       Again, TypeInv, TypeOK
  <2>3. \A u : u.evt = f => (u \in tasks' <=> u \in tasks)
    BY <1>1, <1>3 DEF TaskNext, Discard, Invoke, HandlerSettles, HandlerFails, Bury,
       BuryFails, Answer, AnswerLost, TaskFails, Becomes, Ends, TypeInv, TypeOK, Task
  <2>4. Counted(f)
    BY DEF CountInv
  <2> QED  BY <2>1, <2>2, <2>3, <2>4 DEF Running, Closing
<1>4. ASSUME NEW p, Becomes(t, p), stage' = stage
      PROVE  /\ Running(e)' <=> p = "running"
             /\ Closing(e)' <=> p = "settle"
  <2>1. /\ [t EXCEPT !.phase = p] \in tasks' /\ [t EXCEPT !.phase = p].evt = e
        /\ [t EXCEPT !.phase = p].phase = p
        /\ \A u \in tasks' : u.evt = e => u.phase = p
    BY <1>1, <1>4 DEF Becomes, TypeInv, TypeOK, Task
  <2> QED  BY <1>1, <1>4, <2>1 DEF Running, Closing
<1>5. Counted(e)'
  <2> USE DEF TypeInv, TypeOK, brokerVars, historyVars, Again
  <2>1. CASE Discard(t)  BY <1>1, <1>2, <1>4, <2>1 DEF Discard
  <2>2. CASE Invoke(t)  BY <1>1, <1>2, <1>4, <2>2 DEF Invoke
  <2>3. CASE HandlerSettles(t)  BY <1>1, <1>2, <1>4, <2>3 DEF HandlerSettles
  <2>4. CASE HandlerFails(t)
    <3>1. PICK p \in {"nak", "bury", "settle"} : Becomes(t, p)
      BY <2>4 DEF HandlerFails
    <3> QED  BY <1>1, <1>2, <1>4, <2>4, <3>1 DEF HandlerFails
  <2>5. CASE Bury(t)  BY <1>1, <1>2, <1>4, <2>5 DEF Bury
  <2>6. CASE BuryFails(t) \/ AnswerLost(t) \/ TaskFails(t)
    BY <2>6 DEF BuryFails, AnswerLost, TaskFails, Disrupt, Disrupted
  <2>7. CASE Answer(t)
    <3>1. /\ UNCHANGED <<invocations, failures, buried, handled>>
          /\ tasks' = tasks \ {t}
          /\ \/ t.phase = "settle" /\ stage'[e] = "settled"
             \/ t.phase = "nak" /\ stage'[e] # "settled"
      BY <1>1, <2>7 DEF Answer, Ends, ACK, NAK, Moves
    <3>2. ~Running(e)' /\ (Closing(e)' <=> stage'[e] = "settled")
      BY <1>1, <3>1 DEF Running, Closing
    <3> QED  BY <1>1, <1>2, <3>1, <3>2
  <2> QED  BY <2>1, <2>2, <2>3, <2>4, <2>5, <2>6, <2>7 DEF TaskNext
<1> QED  BY <1>3, <1>5 DEF CountInv

(* Steps of JetStream and of the replicas neither run nor settle anything. *)
LEMMA CountElsewhere ==
    ASSUME CountInv, UNCHANGED <<buried, historyVars>>,
           \A e \in Events : stage'[e] = "settled" <=> stage[e] = "settled",
           \A t : t \in tasks' /\ t \notin tasks => t.phase = "claimed",
           tasks \subseteq tasks'
    PROVE  CountInv'
<1>1. \A e \in Events : /\ Running(e)' <=> Running(e)
                        /\ Closing(e)' <=> Closing(e)
  BY DEF Running, Closing
<1> QED  BY <1>1 DEF CountInv, historyVars

LEMMA QuietStep == ASSUME TypeInv, TypeInv', QuietInv, Next PROVE QuietInv'
<1> SUFFICES ASSUME disruptions' = 0
             PROVE  SoleInv' /\ CountInv'
  BY DEF QuietInv
<1>1. disruptions' = disruptions
  BY DEF TypeInv, TypeOK, Next, Emit, AckWaitElapses, RetryDelayElapses, ReplicaNext,
         StartReplica, CancelReplica, Drained, LoopFails, Crash, Deliver, Take, TaskNext,
         Discard, Invoke, HandlerSettles, HandlerFails, Bury, BuryFails, Answer,
         AnswerLost, TaskFails, Disrupt, Disrupted
<1>2. disruptions = 0 /\ SoleInv /\ CountInv
  BY <1>1 DEF QuietInv
<1>3. ASSUME NEW e \in Events, Emit(e) \/ AckWaitElapses(e) \/ RetryDelayElapses(e)
      PROVE  SoleInv' /\ CountInv'
  <2>1. SoleInv'
    BY <1>1, <1>2, <1>3, SoleEvent
  <2>2. CountInv'
    BY <1>2, <1>3, CountElsewhere
    DEF Emit, AckWaitElapses, RetryDelayElapses, Moves, TypeInv, TypeOK
  <2> QED  BY <2>1, <2>2
<1>4. ASSUME NEW r \in Replicas, ReplicaNext(r)
      PROVE  SoleInv' /\ CountInv'
  <2>1. SoleInv'
    BY <1>1, <1>2, <1>4, SoleReplica
  <2>2. CountInv'
    <3> USE <1>2, CountElsewhere DEF TypeInv, TypeOK, brokerVars
    <3>1. CASE StartReplica(r) \/ CancelReplica(r)
      BY <3>1 DEF StartReplica, CancelReplica
    <3>2. CASE Drained(r)  BY <3>2 DEF Drained, Abandon
    <3>3. CASE LoopFails(r) \/ Crash(r)
      BY <3>3, <1>1 DEF LoopFails, Crash, Disrupt, Disrupted
    <3>4. ASSUME NEW e \in Events, Deliver(r, e)
          PROVE  CountInv'
      BY <3>4 DEF Deliver, Moves
    <3>5. ASSUME NEW d \in buffer[r], Take(r, d)
          PROVE  CountInv'
      BY <3>5 DEF Take
    <3> QED  BY <1>4, <3>1, <3>2, <3>3, <3>4, <3>5 DEF ReplicaNext
  <2> QED  BY <2>1, <2>2
<1>5. ASSUME NEW t \in tasks, TaskNext(t)
      PROVE  SoleInv' /\ CountInv'
  BY <1>1, <1>2, <1>5, SoleTask, CountTask
<1> QED  BY <1>3, <1>4, <1>5 DEF Next

LEMMA QuietStutter == ASSUME QuietInv, UNCHANGED vars PROVE QuietInv'
BY DEF QuietInv, SoleInv, CountInv, Current, Running, Closing, vars, brokerVars,
       replicaVars, historyVars

LEMMA QuietInductive == Spec => []QuietInv
<1>1. TypeInv /\ TypeInv' /\ QuietInv /\ [Next]_vars => QuietInv'
  BY QuietStep, QuietStutter
<1> QED  BY <1>1, QuietInit, TypeInductive, PTL DEF Spec

(* A dead letter is an event whose deliveries were used up; undisrupted, it is
   the only copy of an event that its handler refused whenever it was invoked
   and never accepted (process_event, publish_dead_letter). *)
THEOREM DeadLettersAreHonest == Spec => []HonestDeadLetters
<1>1. ASSUME TypeInv, SettleInv, QuietInv
      PROVE  HonestDeadLetters
  <2> SUFFICES ASSUME NEW e \in Events, buried[e] > 0
               PROVE  /\ delivered[e] >= MaxDeliveries
                      /\ disruptions = 0 => /\ buried[e] = 1
                                            /\ failures[e] = invocations[e]
                                            /\ e \notin handled
    BY DEF HonestDeadLetters
  <2>1. delivered[e] >= MaxDeliveries
    BY <1>1 DEF SettleInv, LimitInv
  <2>2. ASSUME disruptions = 0
        PROVE  buried[e] = 1 /\ e \notin handled /\ failures[e] = invocations[e]
    <3>1. SoleInv /\ CountInv /\ Closing(e) /\ buried[e] = 1 /\ e \notin handled
      BY <1>1, <2>2 DEF QuietInv, CountInv
    <3>2. ~Running(e)
      <4>1. ASSUME NEW t \in tasks, t.evt = e, t.phase = "running"
            PROVE  FALSE
        BY <1>1, <3>1, <4>1, TaskAlone
      <4> QED  BY <4>1 DEF Running
    <3> QED  BY <3>1, <3>2 DEF CountInv
  <2> QED  BY <2>1, <2>2
<1> QED  BY <1>1, TypeInductive, SettleInductive, QuietInductive, PTL

-----------------------------------------------------------------------------
(* Every invocation is paid for by a permitted delivery or by a disruption.    *)

(* Whoever may still invoke the handler or ask for another delivery: a task
   that is not through with its last attempt, or a delivery that a replica at
   work is about to take. *)
Hand == [rep: Replicas, evt: Events, nth: Nat,
         phase: {"buffered", "claimed", "running", "nak"}]

InHand(h) ==
    \/ h \in tasks /\ (h.phase = "running" => h.nth < MaxDeliveries)
    \/ /\ h.phase = "buffered"
       /\ status[h.rep] = "up"
       /\ [evt |-> h.evt, nth |-> h.nth] \in buffer[h.rep]

Hands(e) == {h \in Hand : h.evt = e /\ InHand(h)}

(* Those that have not invoked it yet, and may ask for another delivery. *)
Early(e) ==
    {h \in Hands(e) : h.phase \in {"buffered", "claimed"} /\ h.nth < MaxDeliveries}

(* May JetStream deliver the event again although nothing goes wrong? *)
Unheld(e) == stage[e] # "settled" /\ (stage[e] = "outstanding" => ~Attended(e))
Free(e) == IF Unheld(e) THEN 1 ELSE 0

(* Deliveries so far that may be followed by another attempt. *)
Retried(e) == IF delivered[e] < MaxDeliveries THEN delivered[e] ELSE MaxDeliveries - 1

Paid(e) ==
    /\ IsFiniteSet(Hands(e))
    /\ Cardinality(Hands(e)) + Cardinality(Early(e)) + Free(e) + invocations[e]
        <= 1 + disruptions + Retried(e)

PaidInv == \A e \in Events : Paid(e)

LEMMA Fewer ==
    ASSUME NEW S, NEW T, IsFiniteSet(S), T \subseteq S
    PROVE  /\ IsFiniteSet(T) /\ Cardinality(T) \in Nat /\ Cardinality(S) \in Nat
           /\ Cardinality(T) <= Cardinality(S)
BY FS_Subset, FS_CardinalityType

LEMMA OneLess ==
    ASSUME NEW S, NEW T, NEW x \in S, IsFiniteSet(S), T \subseteq S \ {x}
    PROVE  /\ IsFiniteSet(T) /\ Cardinality(T) \in Nat /\ Cardinality(S) \in Nat
           /\ Cardinality(T) <= Cardinality(S) - 1
<1>1. IsFiniteSet(S \ {x}) /\ Cardinality(S \ {x}) = Cardinality(S) - 1
  BY FS_RemoveElement
<1>2. /\ IsFiniteSet(T) /\ Cardinality(T) \in Nat
      /\ Cardinality(T) <= Cardinality(S \ {x})
  BY <1>1, Fewer
<1> QED  BY <1>1, <1>2, FS_CardinalityType

LEMMA OneMore ==
    ASSUME NEW S, NEW T, NEW x, IsFiniteSet(S), T \subseteq S \cup {x}
    PROVE  /\ IsFiniteSet(T) /\ Cardinality(T) \in Nat /\ Cardinality(S) \in Nat
           /\ Cardinality(T) <= Cardinality(S) + 1
<1>1. IsFiniteSet(S \cup {x}) /\ Cardinality(S \cup {x}) <= Cardinality(S) + 1
  BY Added
<1>2. /\ IsFiniteSet(T) /\ Cardinality(T) \in Nat /\ Cardinality(S \cup {x}) \in Nat
      /\ Cardinality(T) <= Cardinality(S \cup {x})
  BY <1>1, Fewer
<1> QED  BY <1>1, <1>2, FS_CardinalityType

LEMMA OneReplaced ==
    ASSUME NEW S, NEW T, NEW x \in S, NEW y, IsFiniteSet(S), T \subseteq (S \ {x}) \cup {y}
    PROVE  /\ IsFiniteSet(T) /\ Cardinality(T) \in Nat /\ Cardinality(S) \in Nat
           /\ Cardinality(T) <= Cardinality(S)
<1>1. /\ IsFiniteSet(S \ {x}) /\ Cardinality(S \ {x}) \in Nat /\ Cardinality(S) \in Nat
      /\ Cardinality(S \ {x}) <= Cardinality(S) - 1
  BY OneLess
<1>2. /\ IsFiniteSet(T) /\ Cardinality(T) \in Nat
      /\ Cardinality(T) <= Cardinality(S \ {x}) + 1
  BY <1>1, OneMore
<1> QED  BY <1>1, <1>2

(* The terms of Paid are numbers. *)
LEMMA PaidTyped ==
    ASSUME TypeInv, NEW e \in Events, IsFiniteSet(Hands(e))
    PROVE  /\ Cardinality(Hands(e)) \in Nat
           /\ IsFiniteSet(Early(e)) /\ Cardinality(Early(e)) \in Nat
           /\ Free(e) \in {0, 1} /\ invocations[e] \in Nat /\ disruptions \in Nat
           /\ Retried(e) \in Nat /\ delivered[e] \in Nat
<1>1. Early(e) \subseteq Hands(e)
  BY DEF Early
<1>2. /\ Cardinality(Hands(e)) \in Nat
      /\ IsFiniteSet(Early(e)) /\ Cardinality(Early(e)) \in Nat
  BY <1>1, Fewer
<1> QED  BY <1>2, LimitsAssumption DEF Free, Retried, TypeInv, TypeOK

(* A step that adds nobody who may invoke the handler, and either makes no new
   delivery possible, or takes somebody away, or is a disruption. *)
LEMMA PaidCalm ==
    ASSUME TypeInv, TypeInv', NEW e \in Events, Paid(e),
           Hands(e)' \subseteq Hands(e),
           invocations'[e] = invocations[e], delivered'[e] = delivered[e],
           \/ disruptions' >= disruptions /\ (Unheld(e)' => Unheld(e))
           \/ disruptions' >= disruptions /\ \E h \in Hands(e) : h \notin Hands(e)'
           \/ disruptions' = disruptions + 1
    PROVE  Paid(e)'
<1>1. Early(e)' \subseteq Early(e)
  BY DEF Early
<1>2. /\ Cardinality(Hands(e)) \in Nat
      /\ IsFiniteSet(Early(e)) /\ Cardinality(Early(e)) \in Nat
      /\ Free(e) \in {0, 1} /\ invocations[e] \in Nat /\ disruptions \in Nat
      /\ Retried(e) \in Nat
  BY PaidTyped DEF Paid
<1>3. /\ IsFiniteSet(Hands(e)') /\ Cardinality(Hands(e)') \in Nat
      /\ Cardinality(Hands(e)') <= Cardinality(Hands(e))
  BY Fewer DEF Paid
<1>4. Cardinality(Early(e)') \in Nat /\ Cardinality(Early(e)') <= Cardinality(Early(e))
  BY <1>1, <1>2, Fewer
<1>5. Free(e)' \in {0, 1} /\ disruptions' \in Nat /\ Retried(e)' = Retried(e)
  BY DEF Free, Retried, TypeInv, TypeOK
<1>6. CASE disruptions' >= disruptions /\ (Unheld(e)' => Unheld(e))
  <2>1. Free(e)' <= Free(e)
    BY <1>6 DEF Free
  <2> QED  BY <1>2, <1>3, <1>4, <1>5, <1>6, <2>1 DEF Paid
<1>7. ASSUME disruptions' >= disruptions, NEW h \in Hands(e), h \notin Hands(e)'
      PROVE  Paid(e)'
  <2>1. Cardinality(Hands(e)') <= Cardinality(Hands(e)) - 1
    BY <1>7, OneLess DEF Paid
  <2> QED  BY <1>2, <1>3, <1>4, <1>5, <1>7, <2>1 DEF Paid
<1>8. CASE disruptions' = disruptions + 1
  BY <1>2, <1>3, <1>4, <1>5, <1>8 DEF Paid
<1> QED  BY <1>6, <1>7, <1>8

LEMMA PaidInit == Init => PaidInv
<1> SUFFICES ASSUME Init, NEW e \in Events
             PROVE  Paid(e)
  BY DEF PaidInv
<1>1. Hands(e) = {} /\ Early(e) = {}
  BY DEF Init, Hands, Early, InHand, Hand
<1>2. /\ IsFiniteSet(Hands(e)) /\ Cardinality(Hands(e)) = 0
      /\ Cardinality(Early(e)) = 0
  BY <1>1, FS_EmptySet
<1>3. Free(e) \in {0, 1} /\ invocations[e] = 0 /\ disruptions = 0
      /\ Retried(e) = 0
  BY LimitsAssumption DEF Init, None, Free, Retried
<1> QED  BY <1>2, <1>3 DEF Paid

LEMMA PaidEvent ==
    ASSUME TypeInv, TypeInv', PaidInv, NEW e \in Events,
           Emit(e) \/ AckWaitElapses(e) \/ RetryDelayElapses(e)
    PROVE  PaidInv'
<1>1. /\ stage' = [stage EXCEPT ![e] = "ready"] /\ disruptions' >= disruptions
      /\ UNCHANGED <<delivered, status, buffer, tasks, invocations>>
      /\ stage[e] # "settled"
      /\ stage[e] # "outstanding" \/ ~Attended(e) \/ disruptions' = disruptions + 1
  BY DEF Emit, AckWaitElapses, RetryDelayElapses, Moves, replicaVars, historyVars,
         Disrupt, Disrupted, TypeInv, TypeOK
<1> SUFFICES ASSUME NEW f \in Events
             PROVE  Paid(f)'
  BY DEF PaidInv
<1>2. Hands(f)' = Hands(f)
  BY <1>1 DEF Hands, InHand
<1>3. Attended(f)' <=> Attended(f)
  BY <1>1 DEF Attended
<1>4. (Unheld(f)' => Unheld(f)) \/ disruptions' = disruptions + 1
  BY <1>1, <1>3 DEF Unheld, TypeInv, TypeOK
<1> QED  BY <1>1, <1>2, <1>4, PaidCalm DEF PaidInv

(* A delivery to a replica that drains stays in nobody's hands. *)
LEMMA PaidDeliver ==
    ASSUME TypeInv, TypeInv', PaidInv, NEW r \in Replicas, NEW e \in Events,
           Deliver(r, e)
    PROVE  PaidInv'
<1>1. PICK n \in Nat : n = delivered[e] + 1
  BY DEF TypeInv, TypeOK
<1>2. /\ stage[e] = "ready" /\ stage'[e] = "outstanding" /\ delivered'[e] = n
      /\ \A f \in Events : f # e =>
            stage'[f] = stage[f] /\ delivered'[f] = delivered[f]
      /\ buffer' = [buffer EXCEPT ![r] = @ \cup {[evt |-> e, nth |-> n]}]
      /\ UNCHANGED <<status, tasks, disruptions, invocations>>
  BY <1>1 DEF Deliver, Moves, Again, TypeInv, TypeOK, historyVars
<1>3. PICK d : d = [evt |-> e, nth |-> n]
  OBVIOUS
<1>4. \A s \in Replicas : \A f \in buffer'[s] : f \in buffer[s] \/ (s = r /\ f = d)
  BY <1>2, <1>3 DEF TypeInv, TypeOK
<1>5. ASSUME NEW f \in Events, f # e
      PROVE  Paid(f)'
  <2>1. Hands(f)' \subseteq Hands(f)
    BY <1>2, <1>3, <1>4, <1>5 DEF Hands, InHand, Hand
  <2>2. Attended(f) => Attended(f)'
    BY <1>2 DEF Attended, TypeInv, TypeOK
  <2>3. Unheld(f)' => Unheld(f)
    BY <1>2, <1>5, <2>2 DEF Unheld
  <2> QED  BY <1>2, <1>5, <2>1, <2>3, PaidCalm DEF PaidInv, TypeInv, TypeOK
<1>6. Paid(e)'
  <2> DEFINE h == [rep |-> r, evt |-> e, nth |-> n, phase |-> "buffered"]
  <2>1. Hands(e)' \subseteq Hands(e) \cup {h}
    BY <1>2, <1>3, <1>4 DEF Hands, InHand, Hand
  <2>2. /\ Early(e)' \subseteq Early(e) \cup {h}
        /\ ~(n < MaxDeliveries) => Early(e)' \subseteq Early(e)
    BY <2>1 DEF Early
  <2> HIDE DEF h
  <2>3. /\ IsFiniteSet(Hands(e)) /\ Free(e) = 1
        /\ Cardinality(Hands(e)) + Cardinality(Early(e)) + 1 + invocations[e]
             <= 1 + disruptions + Retried(e)
    BY <1>2 DEF PaidInv, Paid, Free, Unheld
  <2>4. /\ Cardinality(Hands(e)) \in Nat
        /\ IsFiniteSet(Early(e)) /\ Cardinality(Early(e)) \in Nat
        /\ invocations[e] \in Nat /\ disruptions \in Nat
        /\ Retried(e) \in Nat /\ delivered[e] \in Nat
    BY <2>3, PaidTyped
  <2>5. /\ Retried(e)' >= Retried(e) /\ Retried(e)' \in Nat
        /\ n < MaxDeliveries => Retried(e)' = Retried(e) + 1
    BY <1>1, <1>2, <2>4, LimitsAssumption DEF Retried
  <2>6. /\ IsFiniteSet(Hands(e)') /\ Cardinality(Hands(e)') \in Nat
        /\ Cardinality(Hands(e)') <= Cardinality(Hands(e)) + 1
    BY <2>1, <2>3, OneMore
  <2>7. CASE status[r] = "up"
    <3>1. ~Unheld(e)'
      BY <1>2, <1>3, <2>7 DEF Unheld, Attended, TypeInv, TypeOK
    <3>2. Free(e)' = 0
      BY <3>1 DEF Free
    <3>3. CASE n < MaxDeliveries
      <4>1. Cardinality(Early(e)') \in Nat
            /\ Cardinality(Early(e)') <= Cardinality(Early(e)) + 1
        BY <2>2, <2>4, OneMore
      <4> QED
        BY <1>2, <2>3, <2>4, <2>5, <2>6, <3>2, <3>3, <4>1 DEF Paid
    <3>4. CASE ~(n < MaxDeliveries)
      <4>1. Cardinality(Early(e)') \in Nat
            /\ Cardinality(Early(e)') <= Cardinality(Early(e))
        BY <2>2, <2>4, <3>4, Fewer
      <4> QED
        BY <1>2, <2>3, <2>4, <2>5, <2>6, <3>2, <4>1 DEF Paid
    <3> QED  BY <3>3, <3>4
  <2>8. CASE status[r] # "up"
    <3>1. Hands(e)' \subseteq Hands(e)
      BY <1>2, <1>4, <2>8 DEF Hands, InHand, Hand
    <3>2. Early(e)' \subseteq Early(e)
      BY <3>1 DEF Early
    <3>3. /\ Cardinality(Hands(e)') <= Cardinality(Hands(e))
          /\ Cardinality(Early(e)') \in Nat
          /\ Cardinality(Early(e)') <= Cardinality(Early(e))
      BY <2>3, <2>4, <3>1, <3>2, Fewer
    <3>4. Free(e)' \in {0, 1}
      BY DEF Free
    <3> QED
      BY <1>2, <2>3, <2>4, <2>5, <2>6, <3>3, <3>4 DEF Paid
  <2> QED  BY <2>7, <2>8
<1> QED  BY <1>5, <1>6 DEF PaidInv

LEMMA PaidTake ==
    ASSUME TypeInv, TypeInv', PaidInv, NEW r \in Replicas, NEW d \in buffer[r],
           Take(r, d)
    PROVE  PaidInv'
<1> DEFINE u == [rep |-> r, evt |-> d.evt, nth |-> d.nth, phase |-> "claimed"]
           h == [rep |-> r, evt |-> d.evt, nth |-> d.nth, phase |-> "buffered"]
<1>1. /\ d \in Delivery /\ status[r] = "up"
      /\ tasks' = tasks \cup {u} /\ buffer' = [buffer EXCEPT ![r] = @ \ {d}]
      /\ UNCHANGED <<stage, delivered, status, disruptions, invocations>>
  BY DEF Take, TypeInv, TypeOK, brokerVars, historyVars
<1>2. \A s \in Replicas : \A f : f \in buffer'[s] <=> f \in buffer[s] /\ ~(s = r /\ f = d)
  BY <1>1 DEF TypeInv, TypeOK
<1>3. d.evt \in Events /\ d.nth \in Nat /\ d = [evt |-> d.evt, nth |-> d.nth]
  BY <1>1 DEF Delivery
<1>4. \A f \in Events : Attended(f) => Attended(f)'
  <2> SUFFICES ASSUME NEW f \in Events, Attended(f)
               PROVE  Attended(f)'
    OBVIOUS
  <2>1. u.evt = d.evt /\ u.phase # "failed" /\ u \in tasks'
    BY <1>1
  <2>2. CASE \E t \in tasks : t.evt = f /\ t.phase # "failed"
    BY <1>1, <2>2 DEF Attended
  <2>3. CASE \E s \in Replicas : status[s] = "up" /\ \E g \in buffer[s] : g.evt = f
    <3>1. PICK s \in Replicas : status[s] = "up" /\ \E g \in buffer[s] : g.evt = f
      BY <2>3
    <3>2. PICK g \in buffer[s] : g.evt = f
      BY <3>1
    <3>3. CASE s = r /\ g = d
      BY <2>1, <3>2, <3>3 DEF Attended
    <3>4. CASE ~(s = r /\ g = d)
      BY <1>1, <1>2, <3>1, <3>2, <3>4 DEF Attended
    <3> QED  BY <3>3, <3>4
  <2> QED  BY <2>2, <2>3 DEF Attended
<1>5. \A f \in Events : Unheld(f)' => Unheld(f)
  BY <1>1, <1>4 DEF Unheld
<1>6. ASSUME NEW f \in Events, f # d.evt
      PROVE  Paid(f)'
  <2>1. Hands(f)' \subseteq Hands(f)
    BY <1>1, <1>2, <1>6 DEF Hands, InHand, Hand
  <2> QED  BY <1>1, <1>5, <2>1, PaidCalm DEF PaidInv, TypeInv, TypeOK
<1>7. Paid(d.evt)'
  <2> DEFINE e == d.evt
  <2>1. h \in Hands(e) /\ (h \in Early(e) <=> d.nth < MaxDeliveries)
    BY <1>1, <1>3 DEF Hands, Early, InHand, Hand
  <2>2. Hands(e)' \subseteq (Hands(e) \ {h}) \cup {u}
    <3> SUFFICES ASSUME NEW k \in Hands(e)', k # u
                 PROVE  k \in Hands(e) /\ k # h
      OBVIOUS
    <3>1. k \in Hand /\ k.evt = e /\ h.phase = "buffered"
      BY DEF Hands
    <3>2. CASE k \in tasks' /\ (k.phase = "running" => k.nth < MaxDeliveries)
      <4>1. k \in tasks /\ k.phase # "buffered"
        BY <1>1, <3>2 DEF TypeInv, TypeOK, Task
      <4> QED  BY <3>1, <3>2, <4>1 DEF Hands, InHand
    <3>3. CASE /\ k.phase = "buffered" /\ status[k.rep] = "up"
               /\ [evt |-> k.evt, nth |-> k.nth] \in buffer'[k.rep]
      <4>1. k.rep \in Replicas
        BY <3>1 DEF Hand
      <4>2. /\ [evt |-> k.evt, nth |-> k.nth] \in buffer[k.rep]
            /\ ~(k.rep = r /\ [evt |-> k.evt, nth |-> k.nth] = d)
        BY <1>2, <3>3, <4>1
      <4>3. k # h
        BY <1>3, <4>2
      <4> QED  BY <3>1, <3>3, <4>2, <4>3 DEF Hands, InHand
    <3> QED  BY <1>1, <3>2, <3>3 DEF Hands, InHand
  <2>3. /\ d.nth < MaxDeliveries => Early(e)' \subseteq (Early(e) \ {h}) \cup {u}
        /\ ~(d.nth < MaxDeliveries) => Early(e)' \subseteq Early(e)
    BY <2>2 DEF Early
  <2> HIDE DEF u, h
  <2>4. Paid(e) /\ IsFiniteSet(Hands(e))
    BY <1>3 DEF PaidInv, Paid
  <2>5. /\ Cardinality(Hands(e)) \in Nat
        /\ IsFiniteSet(Early(e)) /\ Cardinality(Early(e)) \in Nat
        /\ Free(e) \in {0, 1} /\ invocations[e] \in Nat /\ disruptions \in Nat
        /\ Retried(e) \in Nat
    BY <1>3, <2>4, PaidTyped
  <2>6. /\ IsFiniteSet(Hands(e)') /\ Cardinality(Hands(e)') \in Nat
        /\ Cardinality(Hands(e)') <= Cardinality(Hands(e))
    BY <2>1, <2>2, <2>4, OneReplaced
  <2>7. Cardinality(Early(e)') \in Nat /\ Cardinality(Early(e)') <= Cardinality(Early(e))
    <3>1. CASE d.nth < MaxDeliveries
      BY <2>1, <2>3, <2>5, <3>1, OneReplaced
    <3>2. CASE ~(d.nth < MaxDeliveries)
      BY <2>3, <2>5, <3>2, Fewer
    <3> QED  BY <3>1, <3>2
  <2>8. Free(e)' \in {0, 1} /\ Free(e)' <= Free(e) /\ Retried(e)' = Retried(e)
    BY <1>1, <1>3, <1>5 DEF Free, Retried
  <2> QED  BY <1>1, <2>4, <2>5, <2>6, <2>7, <2>8 DEF Paid
<1> QED  BY <1>6, <1>7 DEF PaidInv

LEMMA PaidReplica ==
    ASSUME TypeInv, TypeInv', PaidInv, NEW r \in Replicas, ReplicaNext(r)
    PROVE  PaidInv'
<1>1. CASE StartReplica(r)
  <2> SUFFICES ASSUME NEW e \in Events PROVE Paid(e)'
    BY DEF PaidInv
  <2>1. /\ status' = [status EXCEPT ![r] = "up"] /\ buffer[r] = {}
        /\ UNCHANGED <<stage, delivered, buffer, tasks, disruptions, invocations>>
    BY <1>1 DEF StartReplica, TypeInv, BufferInv, brokerVars, historyVars
  <2>2. \A s \in Replicas : /\ status[s] = "up" => status'[s] = "up"
                            /\ status'[s] = "up" => status[s] = "up" \/ buffer[s] = {}
    BY <2>1 DEF TypeInv, TypeOK
  <2>3. Hands(e)' \subseteq Hands(e)
    BY <2>1, <2>2 DEF Hands, InHand, Hand
  <2>4. Unheld(e)' => Unheld(e)
    BY <2>1, <2>2 DEF Unheld, Attended
  <2> QED  BY <2>1, <2>3, <2>4, PaidCalm DEF PaidInv, TypeInv, TypeOK
<1>2. CASE CancelReplica(r)
  <2> SUFFICES ASSUME NEW e \in Events PROVE Paid(e)'
    BY DEF PaidInv
  <2>1. /\ status' = [status EXCEPT ![r] = "draining"] /\ status[r] = "up"
        /\ UNCHANGED <<stage, delivered, buffer, tasks, disruptions, invocations>>
    BY <1>2 DEF CancelReplica, brokerVars, historyVars
  <2>2. \A s \in Replicas : status'[s] = "up" <=> status[s] = "up" /\ s # r
    BY <2>1 DEF TypeInv, TypeOK
  <2>3. Hands(e)' \subseteq Hands(e)
    BY <2>1, <2>2 DEF Hands, InHand, Hand
  <2>4. CASE \E d \in buffer[r] : d.evt = e
    <3>1. PICK d \in buffer[r] : d.evt = e
      BY <2>4
    <3>2. d \in Delivery /\ d = [evt |-> e, nth |-> d.nth] /\ d.nth \in Nat
      BY <3>1 DEF TypeInv, TypeOK, Delivery
    <3> DEFINE h == [rep |-> r, evt |-> e, nth |-> d.nth, phase |-> "buffered"]
    <3>3. h \in Hands(e)
      BY <2>1, <3>1, <3>2 DEF Hands, InHand, Hand
    <3>4. h \notin Hands(e)'
      BY <2>1, <2>2 DEF Hands, InHand, Hand, TypeInv, TypeOK, Task
    <3> QED
      BY <2>1, <2>3, <3>3, <3>4, PaidCalm DEF PaidInv, TypeInv, TypeOK
  <2>5. CASE ~\E d \in buffer[r] : d.evt = e
    <3>1. Unheld(e)' => Unheld(e)
      BY <2>1, <2>2, <2>5 DEF Unheld, Attended
    <3> QED  BY <2>1, <2>3, <3>1, PaidCalm DEF PaidInv, TypeInv, TypeOK
  <2> QED  BY <2>4, <2>5
<1>3. CASE Drained(r) \/ LoopFails(r) \/ Crash(r)
  <2> SUFFICES ASSUME NEW e \in Events PROVE Paid(e)'
    BY DEF PaidInv
  <2>1. /\ status' = [status EXCEPT ![r] = "down"]
        /\ buffer' = [buffer EXCEPT ![r] = {}]
        /\ tasks' = tasks \ TasksOf(r)
        /\ UNCHANGED <<stage, delivered, invocations>>
    BY <1>3 DEF Drained, LoopFails, Crash, Abandon, brokerVars, historyVars
  <2>2. \A s \in Replicas :
            /\ status'[s] = "up" <=> status[s] = "up" /\ s # r
            /\ status'[s] = "up" => buffer'[s] = buffer[s]
    BY <2>1 DEF TypeInv, TypeOK
  <2>3. Hands(e)' \subseteq Hands(e)
    BY <2>1, <2>2 DEF Hands, InHand, Hand
  <2>4. \/ disruptions' = disruptions + 1
        \/ disruptions' = disruptions /\ TasksOf(r) = {} /\ status[r] # "up"
    BY <1>3 DEF Drained, LoopFails, Crash, Disrupt, Disrupted
  <2>5. TasksOf(r) = {} /\ status[r] # "up" => (Unheld(e)' => Unheld(e))
    BY <2>1, <2>2 DEF Unheld, Attended
  <2> QED
    BY <2>1, <2>3, <2>4, <2>5, PaidCalm DEF PaidInv, TypeInv, TypeOK
<1>4. CASE \E e \in Events : Deliver(r, e)
  BY <1>4, PaidDeliver
<1>5. CASE \E d \in buffer[r] : Take(r, d)
  BY <1>5, PaidTake
<1> QED  BY <1>1, <1>2, <1>3, <1>4, <1>5 DEF ReplicaNext

(* A step that does not make a delivery possible balances its account. *)
LEMMA PaidBalance ==
    ASSUME TypeInv, TypeInv', NEW e \in Events, Paid(e), IsFiniteSet(Hands(e)'),
           Cardinality(Hands(e)') + Cardinality(Early(e)') + invocations'[e] + disruptions
             <= Cardinality(Hands(e)) + Cardinality(Early(e)) + invocations[e] + disruptions',
           Unheld(e)' => Unheld(e), Retried(e)' = Retried(e)
    PROVE  Paid(e)'
<1>1. /\ Cardinality(Hands(e)) \in Nat /\ Cardinality(Early(e)) \in Nat
      /\ Free(e) \in {0, 1} /\ invocations[e] \in Nat /\ disruptions \in Nat
      /\ Retried(e) \in Nat
  BY PaidTyped DEF Paid
<1>2. Early(e)' \subseteq Hands(e)'
  BY DEF Early
<1>3. Cardinality(Hands(e)') \in Nat /\ Cardinality(Early(e)') \in Nat
  BY <1>2, Fewer
<1>4. /\ disruptions' \in Nat /\ invocations'[e] \in Nat
      /\ Free(e)' \in {0, 1} /\ Free(e)' <= Free(e)
  BY DEF Free, TypeInv, TypeOK
<1> QED  BY <1>1, <1>3, <1>4 DEF Paid

LEMMA PaidTask ==
    ASSUME TypeInv, TypeInv', PaidInv, NEW t \in tasks, TaskNext(t)
    PROVE  PaidInv'
<1> DEFINE e == t.evt
<1>1. /\ e \in Events /\ t \in Task /\ t.nth \in Nat /\ delivered[e] \in Nat
      /\ t.rep \in Replicas /\ t.phase # "buffered"
  BY DEF TypeInv, TypeOK, Task
<1>2. UNCHANGED <<delivered, status, buffer>> /\ disruptions' >= disruptions
  BY DEF TaskNext, Discard, Invoke, HandlerSettles, HandlerFails, Bury, BuryFails,
         Answer, AnswerLost, TaskFails, brokerVars, replicaVars, Disrupt, Disrupted,
         TypeInv, TypeOK
<1>3. \A f \in Events : f # e => /\ stage'[f] = stage[f]
                                /\ invocations'[f] = invocations[f]
  BY <1>1 DEF TaskNext, Discard, Invoke, HandlerSettles, HandlerFails, Bury,
       BuryFails, Answer, AnswerLost, TaskFails, brokerVars, ACK, NAK, Moves,
       historyVars, Again, TypeInv, TypeOK
<1>4. \A u : u # t /\ u \in tasks => u \in tasks'
  BY DEF TaskNext, Discard, Invoke, HandlerSettles, HandlerFails, Bury, BuryFails,
         Answer, AnswerLost, TaskFails, Becomes, Ends
<1>5. \A u \in tasks' : (u \in tasks /\ u # t) \/ \E p : Becomes(t, p) /\ u = [t EXCEPT !.phase = p]
  BY DEF TaskNext, Discard, Invoke, HandlerSettles, HandlerFails, Bury, BuryFails,
         Answer, AnswerLost, TaskFails, Becomes, Ends
<1>6. \A u \in tasks' : (u \in tasks /\ u # t) \/ u.evt = e
  BY <1>1, <1>5 DEF Task
(* The other events. *)
<1>7. ASSUME NEW f \in Events, f # e
      PROVE  Paid(f)'
  <2>1. Hands(f)' \subseteq Hands(f)
    BY <1>2, <1>6, <1>7 DEF Hands, InHand
  <2>2. Attended(f) => Attended(f)'
    BY <1>2, <1>4, <1>7 DEF Attended
  <2>3. Unheld(f)' => Unheld(f)
    BY <1>3, <1>7, <2>2 DEF Unheld
  <2> QED  BY <1>2, <1>3, <1>7, <2>1, <2>3, PaidCalm DEF PaidInv
(* Its own event. *)
<1>8. ASSUME NEW p, Becomes(t, p)
      PROVE  LET u == [t EXCEPT !.phase = p]
             IN  /\ u.evt = e /\ u.nth = t.nth /\ u.phase = p /\ u.rep = t.rep
                 /\ tasks' = (tasks \ {t}) \cup {u}
                 /\ Hands(e)' \subseteq (Hands(e) \ {t}) \cup {u}
                 /\ (p = "running" => ~(t.nth < MaxDeliveries))
                      /\ p \notin {"claimed", "nak"}
                    => Hands(e)' \subseteq Hands(e) \ {t}
                 /\ p # "failed" /\ stage' = stage => (Unheld(e)' => Unheld(e))
  <2> DEFINE u == [t EXCEPT !.phase = p]
  <2>1. /\ u.evt = e /\ u.nth = t.nth /\ u.phase = p /\ u.rep = t.rep
        /\ tasks' = (tasks \ {t}) \cup {u}
    BY <1>1, <1>8 DEF Task, Becomes
  <2> HIDE DEF u
  <2>2. ASSUME NEW k \in Hands(e)', k # u
        PROVE  k \in Hands(e) \ {t}
    BY <1>1, <1>2, <2>1, <2>2 DEF Hands, InHand
  <2>3. ASSUME p = "running" => ~(t.nth < MaxDeliveries), p \notin {"claimed", "nak"},
               u \in Hands(e)'
        PROVE  u \in Hands(e) \ {t}
    <3>1. u \in tasks' /\ u.phase # "buffered"
      BY <2>1 DEF TypeInv, TypeOK, Task
    <3> QED  BY <2>1, <2>3, <3>1 DEF Hands, InHand, Hand
  <2>4. ASSUME p # "failed"
        PROVE  Attended(e) => Attended(e)'
    BY <1>2, <2>1, <2>4 DEF Attended
  <2>5. p # "failed" /\ stage' = stage => (Unheld(e)' => Unheld(e))
    BY <2>4 DEF Unheld
  <2> QED  BY <2>1, <2>2, <2>3, <2>5 DEF u
<1>9. Paid(e)'
  <2>1. /\ Paid(e) /\ IsFiniteSet(Hands(e)) /\ IsFiniteSet(Early(e))
        /\ Cardinality(Hands(e)) \in Nat /\ Cardinality(Early(e)) \in Nat
        /\ invocations[e] \in Nat /\ disruptions \in Nat /\ disruptions' \in Nat
        /\ Retried(e)' = Retried(e)
    BY <1>1, <1>2, PaidTyped DEF PaidInv, Paid, Retried, TypeInv, TypeOK
  <2>13. ASSUME \/ t.phase \in {"claimed", "nak"}
                \/ t.phase = "running" /\ t.nth < MaxDeliveries
         PROVE  t \in Hands(e)
    BY <1>1, <2>13 DEF Hands, InHand, Hand, Task
  <2>2. ASSUME NEW p \in {"settle", "bury"}, Becomes(t, p), UNCHANGED <<stage, invocations>>
        PROVE  Paid(e)'
    <3>1. Hands(e)' \subseteq Hands(e) /\ (Unheld(e)' => Unheld(e))
      BY <1>8, <2>2
    <3> QED  BY <1>1, <1>2, <2>1, <2>2, <3>1, PaidCalm
  <2>3. ASSUME invocations' = invocations, tasks' \subseteq tasks,
               disruptions' = disruptions + 1
        PROVE  Paid(e)'
    <3>1. Hands(e)' \subseteq Hands(e)
      BY <1>2, <2>3 DEF Hands, InHand
    <3> QED  BY <1>1, <1>2, <2>1, <2>3, <3>1, PaidCalm
  <2>4. CASE Discard(t)  BY <2>2, <2>4 DEF Discard, brokerVars
  <2>5. CASE HandlerSettles(t)  BY <2>2, <2>5 DEF HandlerSettles, brokerVars
  <2>6. CASE Bury(t)  BY <2>2, <2>6 DEF Bury, brokerVars, historyVars
  <2>7. CASE AnswerLost(t)
    BY <2>3, <2>7 DEF AnswerLost, Ends, Disrupt, Disrupted, historyVars
  <2>8. CASE TaskFails(t)
    <3>1. Hands(e)' \subseteq Hands(e) /\ disruptions' = disruptions + 1
          /\ invocations' = invocations
      BY <1>8, <2>8 DEF TaskFails, Disrupt, Disrupted, historyVars
    <3> QED  BY <1>1, <1>2, <2>1, <3>1, PaidCalm
  <2>9. CASE HandlerFails(t)
    <3>1. UNCHANGED <<stage, invocations, disruptions>>
      BY <2>9 DEF HandlerFails, brokerVars
    <3>2. CASE ~(t.nth < MaxDeliveries)
      <4>1. Becomes(t, "bury") \/ Becomes(t, "settle")
        BY <2>9, <3>2 DEF HandlerFails
      <4> QED  BY <2>2, <3>1, <4>1
    <3>3. CASE t.nth < MaxDeliveries
      <4> DEFINE u == [t EXCEPT !.phase = "nak"]
      <4>1. Becomes(t, "nak") /\ t \in Hands(e)
        BY <2>13, <2>9, <3>3 DEF HandlerFails
      <4>2. /\ Hands(e)' \subseteq (Hands(e) \ {t}) \cup {u} /\ u.phase = "nak"
            /\ Unheld(e)' => Unheld(e)
        BY <1>8, <3>1, <4>1
      <4> HIDE DEF u
      <4>3. Early(e)' \subseteq Early(e)
        BY <4>2 DEF Early
      <4>4. /\ IsFiniteSet(Hands(e)') /\ Cardinality(Hands(e)') \in Nat
            /\ Cardinality(Hands(e)') <= Cardinality(Hands(e))
        BY <2>1, <4>1, <4>2, OneReplaced
      <4>5. /\ Cardinality(Early(e)') \in Nat
            /\ Cardinality(Early(e)') <= Cardinality(Early(e))
        BY <2>1, <4>3, Fewer
      <4>6. Cardinality(Hands(e)') + Cardinality(Early(e)') + invocations'[e] + disruptions
              <= Cardinality(Hands(e)) + Cardinality(Early(e)) + invocations[e] + disruptions'
        BY <2>1, <3>1, <4>4, <4>5
      <4> QED
        BY <1>1, <2>1, <4>2, <4>4, <4>6, PaidBalance
    <3> QED  BY <3>2, <3>3
  <2>10. CASE BuryFails(t)
    <3> DEFINE u == [t EXCEPT !.phase = "nak"]
    <3>1. /\ Becomes(t, "nak") /\ disruptions' = disruptions + 1
          /\ UNCHANGED <<stage, invocations>>
      BY <2>10 DEF BuryFails, Disrupt, Disrupted, brokerVars, historyVars
    <3>2. /\ Hands(e)' \subseteq Hands(e) \cup {u} /\ u.phase = "nak"
          /\ Unheld(e)' => Unheld(e)
      BY <1>8, <3>1
    <3> HIDE DEF u
    <3>3. Early(e)' \subseteq Early(e)
      BY <3>2 DEF Early
    <3>4. /\ IsFiniteSet(Hands(e)') /\ Cardinality(Hands(e)') \in Nat
          /\ Cardinality(Hands(e)') <= Cardinality(Hands(e)) + 1
      BY <2>1, <3>2, OneMore
    <3>5. /\ Cardinality(Early(e)') \in Nat
          /\ Cardinality(Early(e)') <= Cardinality(Early(e))
      BY <2>1, <3>3, Fewer
    <3>6. Cardinality(Hands(e)') + Cardinality(Early(e)') + invocations'[e] + disruptions
            <= Cardinality(Hands(e)) + Cardinality(Early(e)) + invocations[e] + disruptions'
      BY <2>1, <3>1, <3>4, <3>5
    <3> QED  BY <1>1, <2>1, <3>2, <3>4, <3>6, PaidBalance
  <2>11. CASE Invoke(t)
    <3> DEFINE u == [t EXCEPT !.phase = "running"]
    <3>1. /\ Becomes(t, "running") /\ t.phase = "claimed"
          /\ invocations'[e] = invocations[e] + 1
          /\ stage' = stage /\ disruptions' = disruptions
      BY <1>1, <2>11 DEF Invoke, Again, brokerVars, TypeInv, TypeOK
    <3>2. t \in Hands(e)
      BY <2>13, <3>1
    <3>3. /\ Hands(e)' \subseteq (Hands(e) \ {t}) \cup {u} /\ u.phase = "running"
          /\ ~(t.nth < MaxDeliveries) => Hands(e)' \subseteq Hands(e) \ {t}
          /\ Unheld(e)' => Unheld(e)
      BY <1>8, <3>1
    <3> HIDE DEF u
    <3>4. CASE t.nth < MaxDeliveries
      <4>1. Early(e)' \subseteq Early(e) \ {t} /\ t \in Early(e)
        BY <3>1, <3>2, <3>3, <3>4 DEF Early
      <4>2. /\ IsFiniteSet(Hands(e)') /\ Cardinality(Hands(e)') \in Nat
            /\ Cardinality(Hands(e)') <= Cardinality(Hands(e))
        BY <2>1, <3>2, <3>3, OneReplaced
      <4>3. /\ Cardinality(Early(e)') \in Nat
            /\ Cardinality(Early(e)') <= Cardinality(Early(e)) - 1
        BY <2>1, <4>1, OneLess
      <4>4. Cardinality(Hands(e)') + Cardinality(Early(e)') + invocations'[e] + disruptions
              <= Cardinality(Hands(e)) + Cardinality(Early(e)) + invocations[e] + disruptions'
        BY <2>1, <3>1, <4>2, <4>3
      <4> QED  BY <1>1, <2>1, <3>3, <4>2, <4>4, PaidBalance
    <3>5. CASE ~(t.nth < MaxDeliveries)
      <4>1. Early(e)' \subseteq Early(e)
        BY <3>3, <3>5 DEF Early
      <4>2. /\ IsFiniteSet(Hands(e)') /\ Cardinality(Hands(e)') \in Nat
            /\ Cardinality(Hands(e)') <= Cardinality(Hands(e)) - 1
        BY <2>1, <3>2, <3>3, <3>5, OneLess
      <4>3. /\ Cardinality(Early(e)') \in Nat
            /\ Cardinality(Early(e)') <= Cardinality(Early(e))
        BY <2>1, <4>1, Fewer
      <4>4. Cardinality(Hands(e)') + Cardinality(Early(e)') + invocations'[e] + disruptions
              <= Cardinality(Hands(e)) + Cardinality(Early(e)) + invocations[e] + disruptions'
        BY <2>1, <3>1, <4>2, <4>3
      <4> QED  BY <1>1, <2>1, <3>3, <4>2, <4>4, PaidBalance
    <3> QED  BY <3>4, <3>5
  <2>12. CASE Answer(t)
    <3>1. tasks' = tasks \ {t} /\ UNCHANGED <<disruptions, invocations>>
      BY <2>12 DEF Answer, Ends, historyVars
    <3>2. Hands(e)' \subseteq Hands(e) /\ t \notin Hands(e)'
      BY <1>1, <1>2, <3>1 DEF Hands, InHand
    <3>3. CASE t.phase = "settle"
      <4>1. ~Unheld(e)'
        BY <1>1, <2>12, <3>3 DEF Answer, ACK, Moves, Unheld, TypeInv, TypeOK
      <4> QED  BY <1>1, <1>2, <2>1, <3>1, <3>2, <4>1, PaidCalm
    <3>4. CASE t.phase = "nak"
      BY <1>1, <1>2, <2>1, <2>13, <3>1, <3>2, <3>4, PaidCalm
    <3> QED  BY <2>12, <3>3, <3>4 DEF Answer
  <2> QED
    BY <2>4, <2>5, <2>6, <2>7, <2>8, <2>9, <2>10, <2>11, <2>12 DEF TaskNext
<1> QED  BY <1>7, <1>9 DEF PaidInv

LEMMA PaidStutter == ASSUME PaidInv, UNCHANGED vars PROVE PaidInv'
BY DEF PaidInv, Paid, Hands, Early, InHand, Free, Unheld, Attended, Retried, vars,
       brokerVars, replicaVars, historyVars

LEMMA PaidInductive == Spec => []PaidInv
<1>1. TypeInv /\ TypeInv' /\ PaidInv /\ [Next]_vars => PaidInv'
  BY PaidEvent, PaidReplica, PaidTask, PaidStutter DEF Next
<1> QED  BY <1>1, PaidInit, TypeInductive, PTL DEF Spec

(* However deliveries are delayed, repeated or overlap, the handler of an event
   is invoked at most max_event_deliveries times, plus once for every
   disruption (process_event). *)
THEOREM InvocationsAreBounded == Spec => []BoundedInvocations
<1>1. ASSUME TypeInv, PaidInv
      PROVE  BoundedInvocations
  <2> SUFFICES ASSUME NEW e \in Events
               PROVE  invocations[e] <= MaxDeliveries + disruptions
    BY DEF BoundedInvocations
  <2>1. Paid(e) /\ IsFiniteSet(Hands(e))
    BY <1>1 DEF PaidInv, Paid
  <2>2. /\ Cardinality(Hands(e)) \in Nat /\ Cardinality(Early(e)) \in Nat
        /\ Free(e) \in {0, 1} /\ invocations[e] \in Nat /\ disruptions \in Nat
        /\ Retried(e) \in Nat /\ delivered[e] \in Nat
    BY <1>1, <2>1, PaidTyped
  <2>3. Retried(e) <= MaxDeliveries - 1
    BY <2>2, LimitsAssumption DEF Retried
  <2> QED  BY <2>1, <2>2, <2>3, LimitsAssumption DEF Paid
<1> QED  BY <1>1, TypeInductive, PaidInductive, PTL
=============================================================================
