------------------------ MODULE NatsRuntime_proofs -------------------------
(* Proofs about NatsRuntime, for any commands, subjects and replicas, and any *)
(* number of disruptions.                                                    *)
EXTENDS NatsRuntime, FiniteSetTheorems, TLAPS

TypeInv == TypeOK /\ IsFiniteSet(tasks)

(* A consumer at work owns every task that is not aborted. *)
LiveInv ==
    /\ \A t \in tasks : ~t.aborted => Subscribed(t.rep, Subject[t.cmd])
    /\ disruptions = 0 => \A t \in tasks : ~t.aborted /\ t.phase # "failed"
    /\ \A r \in Replicas : phase[r] = "stopping" =>
        \A s \in Subjects : consumer[r][s] = "over"

(* A command is in one buffer, then in one task. *)
OnceInv ==
    /\ \A t \in tasks : t.cmd \in taken
    /\ \A t, u \in tasks : t.cmd = u.cmd => t = u
    /\ \A r \in Replicas : \A c \in buffer[r] :
        /\ c \notin taken
        /\ call[c] \notin {"new", "unavailable"}
        /\ \A q \in Replicas : c \in buffer[q] => q = r

(* What the caller and the task of a command know of its handler. *)
AnswerInv ==
    /\ \A c \in Commands :
        /\ invocations[c] <= 1
        /\ c \notin taken => invocations[c] = 0
        /\ call[c] = "result" => c \in returned
        /\ call[c] = "refused" =>
            c \in taken /\ invocations[c] = 0 /\ \A t \in tasks : t.cmd # c
    /\ \A t \in tasks :
        /\ t.phase \in {"claimed", "refused"} => invocations[t.cmd] = 0
        /\ t.phase = "result" => t.cmd \in returned

-----------------------------------------------------------------------------
(* How the set of tasks changes. *)

TaskTyped ==
    /\ tasks \subseteq Task
    /\ IsFiniteSet(tasks)
    /\ \A r \in Replicas, s \in Subjects : Cardinality(InFlight(r, s)) <= Concurrency

Fields(u, t) == u.rep = t.rep /\ u.cmd = t.cmd

LEMMA AbortedFields ==
    ASSUME NEW t \in Task
    PROVE  LET u == [t EXCEPT !.aborted = TRUE]
           IN  u \in Task /\ Fields(u, t) /\ u.aborted /\ u.phase = t.phase
BY DEF Task, Fields

LEMMA BecomesFields ==
    ASSUME NEW t \in Task, NEW p \in {"claimed", "running", "result", "refused", "failed"}
    PROVE  LET u == [t EXCEPT !.phase = p]
           IN  u \in Task /\ Fields(u, t) /\ u.aborted = t.aborted /\ u.phase = p
BY DEF Task, Fields

LEMMA InFlightFinite ==
    ASSUME IsFiniteSet(tasks), NEW r, NEW s
    PROVE  IsFiniteSet(InFlight(r, s)) /\ Cardinality(InFlight(r, s)) \in Nat
<1>1. InFlight(r, s) \subseteq tasks
  BY DEF InFlight, TasksOf
<1> QED  BY <1>1, FS_Subset, FS_CardinalityType

LEMMA FewerTyped ==
    ASSUME TaskTyped, tasks' \subseteq Task, IsFiniteSet(tasks'),
           \A r \in Replicas, s \in Subjects : InFlight(r, s)' \subseteq InFlight(r, s)
    PROVE  TaskTyped'
<1> SUFFICES ASSUME NEW r \in Replicas, NEW s \in Subjects
             PROVE  Cardinality(InFlight(r, s)') <= Concurrency
  BY DEF TaskTyped
<1>1. /\ Cardinality(InFlight(r, s)') <= Cardinality(InFlight(r, s))
      /\ Cardinality(InFlight(r, s)') \in Nat /\ Cardinality(InFlight(r, s)) \in Nat
  BY InFlightFinite, FS_Subset, FS_CardinalityType DEF TaskTyped
<1> QED  BY <1>1, ConcurrencyAssumption DEF TaskTyped

LEMMA AbortTyped ==
    ASSUME TaskTyped, NEW T \in SUBSET tasks, NEW D, tasks' = Aborting(T) \ D
    PROVE  TaskTyped' /\ \A u \in tasks' : u \in tasks \ T
                             \/ \E t \in T : u = [t EXCEPT !.aborted = TRUE]
<1> DEFINE A == {[t EXCEPT !.aborted = TRUE] : t \in T}
<1>1. IsFiniteSet(A)
  <2> DEFINE g == [t \in T |-> [t EXCEPT !.aborted = TRUE]]
  <2>1. g \in Surjection(T, A)
    BY DEF Surjection
  <2>2. IsFiniteSet(T)
    BY FS_Subset DEF TaskTyped
  <2> QED  BY <2>1, <2>2, FS_Surjection
<1>2. tasks' = ((tasks \ T) \cup A) \ D
  BY DEF Aborting
<1>3. \A u \in A : u \in Task /\ u.aborted
  BY AbortedFields DEF TaskTyped
<1>4. \A u \in tasks' : u \in tasks \ T \/ \E t \in T : u = [t EXCEPT !.aborted = TRUE]
  BY <1>2
<1> HIDE DEF A
<1>5. IsFiniteSet(tasks')
  <2>1. IsFiniteSet(tasks \ T)
    BY FS_Difference DEF TaskTyped
  <2>2. IsFiniteSet((tasks \ T) \cup A)
    BY <1>1, <2>1, FS_Union
  <2> QED  BY <1>2, <2>2, FS_Difference
<1>6. tasks' \subseteq Task
  BY <1>2, <1>3 DEF TaskTyped
<1>7. \A r \in Replicas, s \in Subjects : InFlight(r, s)' \subseteq InFlight(r, s)
  BY <1>2, <1>3 DEF InFlight, TasksOf
<1> QED  BY <1>4, <1>5, <1>6, <1>7, FewerTyped

LEMMA DroppedTyped ==
    ASSUME TaskTyped, NEW D, tasks' = tasks \ D
    PROVE  TaskTyped'
<1>1. IsFiniteSet(tasks') /\ tasks' \subseteq Task
  BY FS_Difference DEF TaskTyped
<1>2. \A r \in Replicas, s \in Subjects : InFlight(r, s)' \subseteq InFlight(r, s)
  BY DEF InFlight, TasksOf
<1> QED  BY <1>1, <1>2, FewerTyped

LEMMA BecomesTyped ==
    ASSUME TaskTyped, NEW t \in tasks,
           NEW p \in {"claimed", "running", "result", "refused", "failed"}, Becomes(t, p)
    PROVE  TaskTyped'
<1> DEFINE u == [t EXCEPT !.phase = p]
<1>1. /\ u \in Task /\ Fields(u, t) /\ u.aborted = t.aborted
      /\ tasks' = (tasks \ {t}) \cup {u}
  BY BecomesFields DEF TaskTyped, Becomes
<1> HIDE DEF u
<1>2. IsFiniteSet(tasks') /\ tasks' \subseteq Task
  <2>1. IsFiniteSet(tasks \ {t})
    BY FS_RemoveElement DEF TaskTyped
  <2> QED  BY <1>1, <2>1, FS_AddElement DEF TaskTyped
<1>3. ASSUME NEW r \in Replicas, NEW s \in Subjects
      PROVE  Cardinality(InFlight(r, s)') <= Concurrency
  <2> DEFINE S == InFlight(r, s)
  <2>1. S' \subseteq (S \ {t}) \cup {u}
    BY <1>1 DEF InFlight, TasksOf
  <2>2. IsFiniteSet(S) /\ Cardinality(S) \in Nat /\ Cardinality(S) <= Concurrency
    BY InFlightFinite DEF TaskTyped
  <2>3. CASE t \in S
    <3>1. IsFiniteSet(S \ {t}) /\ Cardinality(S \ {t}) = Cardinality(S) - 1
      BY <2>2, <2>3, FS_RemoveElement
    <3>2. /\ IsFiniteSet((S \ {t}) \cup {u})
          /\ Cardinality((S \ {t}) \cup {u}) =
               IF u \in S \ {t} THEN Cardinality(S \ {t}) ELSE Cardinality(S \ {t}) + 1
      BY <3>1, FS_AddElement
    <3>3. /\ Cardinality(S') <= Cardinality((S \ {t}) \cup {u})
          /\ Cardinality(S') \in Nat
      BY <2>1, <3>2, FS_Subset, FS_CardinalityType
    <3> QED  BY <2>2, <3>1, <3>2, <3>3, ConcurrencyAssumption
  <2>4. CASE t \notin S
    <3>1. S' \subseteq S
      BY <1>1, <2>4 DEF InFlight, TasksOf, Fields
    <3>2. Cardinality(S') <= Cardinality(S) /\ Cardinality(S') \in Nat
      BY <2>2, <3>1, FS_Subset, FS_CardinalityType
    <3> QED  BY <2>2, <3>2, ConcurrencyAssumption
  <2> QED  BY <2>3, <2>4
<1> QED  BY <1>2, <1>3 DEF TaskTyped

LEMMA TakeTyped ==
    ASSUME TaskTyped, NEW r \in Replicas, NEW c \in Commands, Take(r, c)
    PROVE  TaskTyped'
<1> DEFINE u == [rep |-> r, cmd |-> c, aborted |-> FALSE, phase |-> "claimed"]
<1>1. /\ u \in Task /\ u.rep = r /\ u.cmd = c
      /\ tasks' = tasks \cup {u}
      /\ Cardinality(InFlight(r, Subject[c])) < Concurrency
  BY DEF Take, Task
<1> HIDE DEF u
<1>2. IsFiniteSet(tasks') /\ tasks' \subseteq Task
  BY <1>1, FS_AddElement DEF TaskTyped
<1>3. ASSUME NEW q \in Replicas, NEW s \in Subjects
      PROVE  Cardinality(InFlight(q, s)') <= Concurrency
  <2> DEFINE S == InFlight(q, s)
  <2>1. IsFiniteSet(S) /\ Cardinality(S) \in Nat /\ Cardinality(S) <= Concurrency
    BY InFlightFinite DEF TaskTyped
  <2>2. CASE q = r /\ s = Subject[c]
    <3>1. S' \subseteq S \cup {u}
      BY <1>1 DEF InFlight, TasksOf
    <3>2. /\ IsFiniteSet(S \cup {u})
          /\ Cardinality(S \cup {u}) = IF u \in S THEN Cardinality(S) ELSE Cardinality(S) + 1
      BY <2>1, FS_AddElement
    <3>3. Cardinality(S') <= Cardinality(S \cup {u}) /\ Cardinality(S') \in Nat
      BY <3>1, <3>2, FS_Subset, FS_CardinalityType
    <3> QED  BY <1>1, <2>1, <2>2, <3>2, <3>3, ConcurrencyAssumption
  <2>3. CASE ~(q = r /\ s = Subject[c])
    <3>1. S' \subseteq S
      BY <1>1, <2>3 DEF InFlight, TasksOf
    <3>2. Cardinality(S') <= Cardinality(S) /\ Cardinality(S') \in Nat
      BY <2>1, <3>1, FS_Subset, FS_CardinalityType
    <3> QED  BY <2>1, <3>2, ConcurrencyAssumption
  <2> QED  BY <2>2, <2>3
<1> QED  BY <1>2, <1>3 DEF TaskTyped

-----------------------------------------------------------------------------
(* Type correctness. *)

(* The type invariant but for the tasks and what the subscriptions hold. *)
Rest ==
    /\ call \in [Commands -> Calls]
    /\ late \subseteq Commands
    /\ phase \in [Replicas -> Phases]
    /\ disruptions \in Nat
    /\ taken \subseteq {c \in Commands : call[c] \notin {"new", "unavailable"}}
    /\ invocations \in [Commands -> Nat]
    /\ returned \subseteq taken
    /\ replied \subseteq taken

Held ==
    /\ buffer \in [Replicas -> SUBSET Commands]
    /\ \A r \in Replicas : \A c \in buffer[r] : Subscribed(r, Subject[c])
    /\ consumer \in [Replicas -> [Subjects -> {"none", "looping", "draining", "over"}]]

LEMMA TypeParts == TypeInv <=> Rest /\ Held /\ TaskTyped
BY DEF TypeInv, TypeOK, Rest, Held, TaskTyped

LEMMA TypePartsNext == Rest' /\ Held' /\ TaskTyped' => TypeInv'
BY DEF TypeInv, TypeOK, Rest, Held, TaskTyped

LEMMA TypeInit == Init => TypeInv
<1> SUFFICES ASSUME Init PROVE TypeInv
  OBVIOUS
<1>1. Rest /\ Held
  BY DEF Init, Rest, Held, Calls, Phases, Idle
<1>2. IsFiniteSet({}) /\ Cardinality({}) = 0
  BY FS_EmptySet
<1>3. \A r, s : InFlight(r, s) = {}
  BY DEF Init, InFlight, TasksOf
<1>4. TaskTyped
  BY <1>2, <1>3, ConcurrencyAssumption DEF Init, TaskTyped
<1> QED  BY <1>1, <1>4, TypeParts

LEMMA SameTasks == ASSUME TaskTyped, tasks' = tasks PROVE TaskTyped'
BY DEF TaskTyped, InFlight, TasksOf

LEMMA TypeClient ==
    ASSUME TypeInv, NEW c \in Commands, ClientNext(c)
    PROVE  TypeInv'
<1>1. tasks' = tasks /\ UNCHANGED <<phase, consumer>>
  BY DEF ClientNext, Request, NoResponders, RequestLost, DeadlineElapses, TimeOut,
         runtimeVars
<1>2. TaskTyped'
  BY <1>1, SameTasks, TypeParts
<1>3. Rest'
  BY <1>1, TypeParts DEF Rest, ClientNext, Request, NoResponders, RequestLost, DeadlineElapses,
       TimeOut, historyVars, Calls, Disrupt, Disrupted
<1>4. Held'
  <2>1. CASE Request(c)
    <3>1. PICK r \in Replicas :
            /\ Subscribed(r, Subject[c]) /\ buffer' = [buffer EXCEPT ![r] = @ \cup {c}]
      BY <2>1 DEF Request
    <3> QED  BY <1>1, <3>1, TypeParts DEF Held, Subscribed
  <2>2. CASE ~Request(c)
    <3>1. buffer' = buffer
      BY <2>2 DEF ClientNext, NoResponders, RequestLost, DeadlineElapses, TimeOut
    <3> QED  BY <1>1, <3>1, TypeParts DEF Held, Subscribed
  <2> QED  BY <2>1, <2>2
<1> QED  BY <1>2, <1>3, <1>4, TypePartsNext

(* A consumer whose subscription ends drops what that holds. *)
LEMMA HeldOver ==
    ASSUME Held, NEW r \in Replicas, NEW s \in Subjects, Dropping(r, {s}),
           consumer' = [consumer EXCEPT ![r][s] = "over"]
    PROVE  Held'
<1>1. \A q \in Replicas, z \in Subjects :
        Subscribed(q, z) /\ ~(q = r /\ z = s) => Subscribed(q, z)'
  BY DEF Held, Subscribed
<1>2. \A q \in Replicas : \A c \in buffer'[q] :
        c \in buffer[q] /\ ~(q = r /\ Subject[c] = s)
  BY DEF Held, Dropping
<1> QED  BY <1>1, <1>2, SubjectAssumption DEF Held, Dropping

LEMMA HeldOpen ==
    ASSUME Held, NEW r \in Replicas, NEW s \in Subjects, buffer' = buffer,
           NEW v \in {"looping", "draining"}, consumer' = [consumer EXCEPT ![r][s] = v]
    PROVE  Held'
<1>1. \A q \in Replicas, z \in Subjects : Subscribed(q, z) => Subscribed(q, z)'
  BY DEF Held, Subscribed
<1> QED  BY <1>1, SubjectAssumption DEF Held

LEMMA TypeConsumer ==
    ASSUME TypeInv, NEW r \in Replicas, NEW s \in Subjects, ConsumerNext(r, s)
    PROVE  TypeInv'
<1>1. Rest'
  BY TypeParts DEF Rest, ConsumerNext, Subscribe, ConsumerFails, SubscriptionEnds, BeginDrain,
       ConsumerReturns, historyVars, Disrupt, Disrupted
<1>2. InFlight(r, s) \in SUBSET tasks
  BY DEF InFlight, TasksOf
<1>3. TaskTyped'
  <2>1. CASE ConsumerFails(r, s)
    <3>1. PICK D : tasks' = Aborting(InFlight(r, s)) \ D
      BY <2>1 DEF ConsumerFails
    <3> QED  BY <1>2, <3>1, AbortTyped, TypeParts
  <2>2. CASE SubscriptionEnds(r, s)
    <3>1. tasks' = Aborting(InFlight(r, s)) \ {}
      BY <2>2 DEF SubscriptionEnds
    <3> QED  BY <1>2, <3>1, AbortTyped, TypeParts
  <2>3. CASE Subscribe(r, s) \/ BeginDrain(r, s) \/ ConsumerReturns(r, s)
    BY <2>3, SameTasks, TypeParts DEF Subscribe, BeginDrain, ConsumerReturns
  <2> QED  BY <2>1, <2>2, <2>3 DEF ConsumerNext
<1>4. Held'
  BY HeldOver, HeldOpen, TypeParts
  DEF ConsumerNext, Subscribe, ConsumerFails, SubscriptionEnds, BeginDrain, ConsumerReturns
<1> QED  BY <1>1, <1>3, <1>4, TypePartsNext

LEMMA TypeRuntime ==
    ASSUME TypeInv, NEW r \in Replicas, RuntimeNext(r)
    PROVE  TypeInv'
<1>1. Rest'
  BY TypeParts DEF Rest, RuntimeNext, Launch, StartSucceeds, StartFails, Interrupt,
       ConsumerEnded, Drained, DrainTimesOut, Return, Crash, Gone, AbortAll, historyVars,
       Disrupt, Disrupted, Phases
<1>2. CASE UNCHANGED <<buffer, consumer, tasks>>
  BY <1>1, <1>2, SameTasks, TypeParts, TypePartsNext DEF Held, Subscribed
<1>3. CASE AbortAll(r)
  <2>1. tasks' = Aborting(TasksOf(r)) \ {} /\ TasksOf(r) \in SUBSET tasks
    BY <1>3 DEF AbortAll, TasksOf
  <2>2. TaskTyped'
    BY <2>1, AbortTyped, TypeParts
  <2>3. Held'
    <3>1. /\ \A q \in Replicas : buffer'[q] \subseteq buffer[q] /\ q # r => consumer'[q] = consumer[q]
          /\ buffer'[r] = {}
      BY <1>3, TypeParts, SubjectAssumption DEF AbortAll, Dropping, Held
    <3> QED  BY <1>3, <3>1, TypeParts DEF AbortAll, Dropping, Held, Subscribed
  <2> QED  BY <1>1, <2>2, <2>3, TypePartsNext
<1>4. CASE Gone(r)
  <2>1. TaskTyped'
    BY <1>4, DroppedTyped, TypeParts DEF Gone
  <2>2. Held'
    BY <1>4, TypeParts DEF Gone, Held, Subscribed, Idle
  <2> QED  BY <1>1, <2>1, <2>2, TypePartsNext
<1> QED
  BY <1>2, <1>3, <1>4 DEF RuntimeNext, Launch, StartSucceeds, StartFails, Interrupt,
     ConsumerEnded, Drained, DrainTimesOut, Return, Crash

LEMMA TypeTake ==
    ASSUME TypeInv, OnceInv, NEW r \in Replicas, NEW c \in Commands, Take(r, c)
    PROVE  TypeInv'
<1>1. Rest'
  BY TypeParts DEF Rest, OnceInv, Take, runtimeVars
<1>2. TaskTyped'
  BY TakeTyped, TypeParts
<1>3. Held'
  BY TypeParts DEF Take, Held, Subscribed, runtimeVars
<1> QED  BY <1>1, <1>2, <1>3, TypePartsNext

LEMMA TypeTask ==
    ASSUME TypeInv, OnceInv, NEW t \in tasks, TaskNext(t)
    PROVE  TypeInv'
<1>1. t \in Task /\ t.cmd \in Commands /\ t.cmd \in taken
  BY DEF TypeInv, TypeOK, OnceInv, Task
<1>2. Held'
  BY TypeParts DEF Held, Subscribed, runtimeVars, TaskNext, GiveUp, Refuse, Invoke,
       HandlerReturns, ResponseTooLarge, HandlerPanics, Reply, PublishFails, Vanish
<1>3. TaskTyped'
  BY BecomesTyped, DroppedTyped, TypeParts DEF TaskNext, GiveUp, Refuse, Invoke,
       HandlerReturns, ResponseTooLarge, HandlerPanics, Reply, PublishFails, Vanish, Ends
<1>4. Rest'
  <2> USE <1>1, TypeParts DEF Rest, historyVars, runtimeVars
  <2>1. CASE GiveUp(t) \/ Refuse(t) \/ Vanish(t)
    BY <2>1 DEF GiveUp, Refuse, Vanish
  <2>2. CASE Invoke(t)  BY <2>2 DEF Invoke
  <2>3. CASE HandlerReturns(t)  BY <2>3 DEF HandlerReturns
  <2>4. CASE HandlerPanics(t) \/ PublishFails(t)
    BY <2>4 DEF HandlerPanics, PublishFails, Disrupt, Disrupted
  <2>5. CASE Reply(t)  BY <2>5 DEF Reply, Calls
  <2>6. CASE ResponseTooLarge(t)  BY <2>6 DEF ResponseTooLarge
  <2> QED  BY <2>1, <2>2, <2>3, <2>4, <2>5, <2>6 DEF TaskNext
<1> QED  BY <1>2, <1>3, <1>4, TypePartsNext

-----------------------------------------------------------------------------
(* Who owns the tasks. *)

LEMMA LiveInit == Init => LiveInv /\ OnceInv /\ AnswerInv /\ TakenIsAnswered
BY DEF Init, LiveInv, OnceInv, AnswerInv, TakenIsAnswered, Idle

LEMMA LiveClient ==
    ASSUME TypeInv, LiveInv, NEW c \in Commands, ClientNext(c)
    PROVE  LiveInv'
<1>1. UNCHANGED <<tasks, phase, consumer>> /\ (disruptions' = 0 => disruptions = 0)
  BY DEF ClientNext, Request, NoResponders, RequestLost, DeadlineElapses, TimeOut,
         runtimeVars, Disrupt, Disrupted, TypeInv, TypeOK
<1> QED  BY <1>1 DEF LiveInv, Subscribed

LEMMA LiveConsumer ==
    ASSUME TypeInv, LiveInv, NEW r \in Replicas, NEW s \in Subjects, ConsumerNext(r, s)
    PROVE  LiveInv'
<1>1. /\ phase' = phase
      /\ \A q \in Replicas, z \in Subjects : ~(q = r /\ z = s) =>
            consumer'[q][z] = consumer[q][z]
      /\ consumer[r][s] # "over"
      /\ Subscribed(r, s) => consumer'[r][s] \in {"looping", "draining", "over"}
  BY DEF ConsumerNext, Subscribe, ConsumerFails, SubscriptionEnds, BeginDrain,
         ConsumerReturns, TypeInv, TypeOK, runtimeVars, Subscribed
<1>2. \A t \in tasks : t \in Task /\ t.rep \in Replicas /\ Subject[t.cmd] \in Subjects
  BY SubjectAssumption DEF TypeInv, TypeOK, Task
<1>3. \A q \in Replicas : phase'[q] = "stopping" => \A z \in Subjects : consumer'[q][z] = "over"
  BY <1>1 DEF LiveInv
<1>4. CASE tasks' = tasks /\ (consumer'[r][s] = "over" => InFlight(r, s) = {})
              /\ disruptions' = disruptions
  <2>1. \A t \in tasks : ~t.aborted => Subscribed(t.rep, Subject[t.cmd])'
    BY <1>1, <1>2, <1>4 DEF LiveInv, Subscribed, InFlight, TasksOf
  <2> QED  BY <1>3, <1>4, <2>1 DEF LiveInv
<1>5. ASSUME NEW D, tasks' = Aborting(InFlight(r, s)) \ D, disruptions' # 0
      PROVE  LiveInv'
  <2>1. InFlight(r, s) \in SUBSET tasks
    BY DEF InFlight, TasksOf
  <2>2. \A u \in tasks' : \/ u \in tasks \ InFlight(r, s)
                          \/ \E t \in InFlight(r, s) : u = [t EXCEPT !.aborted = TRUE]
    BY <1>5, <2>1, AbortTyped, TypeParts
  <2>3. \A u \in tasks' : u.aborted \/ u \in tasks \ InFlight(r, s)
    BY <1>2, <2>1, <2>2, AbortedFields
  <2>4. \A u \in tasks' : ~u.aborted => Subscribed(u.rep, Subject[u.cmd])'
    <3> SUFFICES ASSUME NEW u \in tasks \ InFlight(r, s), ~u.aborted
                 PROVE  Subscribed(u.rep, Subject[u.cmd])'
      BY <2>3
    <3>1. ~(u.rep = r /\ Subject[u.cmd] = s)
      BY DEF InFlight, TasksOf
    <3>2. consumer'[u.rep][Subject[u.cmd]] = consumer[u.rep][Subject[u.cmd]]
      BY <1>1, <1>2, <3>1
    <3> QED  BY <3>2 DEF LiveInv, Subscribed
  <2> QED  BY <1>3, <1>5, <2>4 DEF LiveInv
<1>6. CASE ConsumerFails(r, s)
  <2>1. PICK D : tasks' = Aborting(InFlight(r, s)) \ D
    BY <1>6 DEF ConsumerFails
  <2>2. disruptions' # 0
    BY <1>6 DEF ConsumerFails, LiveInv, InFlight, TasksOf
  <2> QED  BY <1>5, <2>1, <2>2
<1>7. CASE SubscriptionEnds(r, s)
  <2>1. tasks' = Aborting(InFlight(r, s)) \ {} /\ disruptions' # 0
    BY <1>7 DEF SubscriptionEnds, Disrupt, Disrupted, TypeInv, TypeOK
  <2> QED  BY <1>5, <2>1
<1>8. CASE Subscribe(r, s) \/ BeginDrain(r, s) \/ ConsumerReturns(r, s)
  <2>1. tasks' = tasks /\ disruptions' = disruptions
    BY <1>8 DEF Subscribe, BeginDrain, ConsumerReturns
  <2>2. consumer'[r][s] = "over" => InFlight(r, s) = {}
    BY <1>8 DEF Subscribe, BeginDrain, ConsumerReturns, TypeInv, TypeOK
  <2> QED  BY <1>4, <2>1, <2>2
<1> QED  BY <1>6, <1>7, <1>8 DEF ConsumerNext

LEMMA LiveRuntime ==
    ASSUME TypeInv, LiveInv, NEW r \in Replicas, RuntimeNext(r)
    PROVE  LiveInv'
<1>1. \A q \in Replicas : q # r => phase'[q] = phase[q]
  BY DEF RuntimeNext, Launch, StartSucceeds, StartFails, Interrupt, ConsumerEnded, Drained,
         DrainTimesOut, Return, Crash, Gone, TypeInv, TypeOK
<1>2. \A t \in tasks : t \in Task /\ t.rep \in Replicas /\ Subject[t.cmd] \in Subjects
  BY SubjectAssumption DEF TypeInv, TypeOK, Task
<1>3. CASE /\ UNCHANGED <<consumer, tasks, disruptions>>
           /\ phase'[r] = "stopping" => \A s \in Subjects : consumer[r][s] = "over"
  BY <1>1, <1>3 DEF LiveInv, Subscribed
<1>4. CASE AbortAll(r) /\ disruptions' # 0
  <2>1. tasks' = Aborting(TasksOf(r)) \ {} /\ TasksOf(r) \in SUBSET tasks
    BY <1>4 DEF AbortAll, TasksOf
  <2>2. \A u \in tasks' : \/ u \in tasks \ TasksOf(r)
                          \/ \E t \in TasksOf(r) : u = [t EXCEPT !.aborted = TRUE]
    BY <2>1, AbortTyped, TypeParts
  <2>3. \A u \in tasks' : u.aborted \/ u \in tasks \ TasksOf(r)
    BY <1>2, <2>1, <2>2, AbortedFields
  <2>4. /\ \A q \in Replicas : q # r => consumer'[q] = consumer[q]
        /\ \A s \in Subjects : consumer'[r][s] = "over"
    BY <1>4 DEF AbortAll, TypeInv, TypeOK
  <2>5. \A u \in tasks' : ~u.aborted => Subscribed(u.rep, Subject[u.cmd])'
    BY <1>2, <2>3, <2>4 DEF LiveInv, Subscribed, TasksOf
  <2> QED  BY <1>1, <1>4, <2>4, <2>5 DEF LiveInv
<1>5. CASE Gone(r) /\ (disruptions' = 0 => disruptions = 0)
  <2>1. /\ \A q \in Replicas : q # r => consumer'[q] = consumer[q]
        /\ phase'[r] = "down" /\ tasks' = tasks \ TasksOf(r)
    BY <1>5 DEF Gone, TypeInv, TypeOK
  <2>2. \A u \in tasks' : ~u.aborted => Subscribed(u.rep, Subject[u.cmd])'
    BY <1>2, <2>1 DEF LiveInv, Subscribed, TasksOf
  <2> QED  BY <1>1, <1>5, <2>1, <2>2 DEF LiveInv
<1>6. CASE Launch(r) \/ StartSucceeds(r) \/ Interrupt(r) \/ ConsumerEnded(r) \/ Drained(r)
  BY <1>3, <1>6 DEF Launch, StartSucceeds, Interrupt, ConsumerEnded, Drained, TypeInv, TypeOK
<1>7. CASE StartFails(r) \/ DrainTimesOut(r)
  BY <1>4, <1>7 DEF StartFails, DrainTimesOut, Disrupt, Disrupted, TypeInv, TypeOK
<1>8. CASE Return(r) \/ Crash(r)
  BY <1>5, <1>8 DEF Return, Crash, Disrupt, Disrupted, TypeInv, TypeOK
<1> QED  BY <1>6, <1>7, <1>8 DEF RuntimeNext

LEMMA LiveTake ==
    ASSUME TypeInv, LiveInv, NEW r \in Replicas, NEW c \in Commands, Take(r, c)
    PROVE  LiveInv'
<1> DEFINE u == [rep |-> r, cmd |-> c, aborted |-> FALSE, phase |-> "claimed"]
<1>1. /\ tasks' = tasks \cup {u} /\ u.rep = r /\ u.cmd = c /\ ~u.aborted
      /\ u.phase = "claimed" /\ UNCHANGED <<phase, consumer, disruptions>>
      /\ consumer[r][Subject[c]] = "looping"
  BY DEF Take, runtimeVars
<1> HIDE DEF u
<1> QED  BY <1>1 DEF LiveInv, Subscribed

LEMMA LiveTask ==
    ASSUME TypeInv, LiveInv, NEW t \in tasks, TaskNext(t)
    PROVE  LiveInv'
<1>1. UNCHANGED <<phase, consumer>> /\ t \in Task
  BY DEF TaskNext, GiveUp, Refuse, Invoke, HandlerReturns, ResponseTooLarge,
         HandlerPanics, Reply,
         PublishFails, Vanish, runtimeVars, TypeInv, TypeOK
<1>2. CASE Ends(t) /\ disruptions' = disruptions
  BY <1>1, <1>2 DEF Ends, LiveInv, Subscribed
<1>3. ASSUME NEW p \in {"claimed", "running", "result", "refused", "failed"}, Becomes(t, p),
             disruptions' = 0 => disruptions = 0 /\ p # "failed"
      PROVE  LiveInv'
  <2> DEFINE u == [t EXCEPT !.phase = p]
  <2>1. /\ Fields(u, t) /\ u.aborted = t.aborted /\ u.phase = p
        /\ tasks' = (tasks \ {t}) \cup {u}
    BY <1>1, <1>3, BecomesFields DEF Becomes
  <2> HIDE DEF u
  <2> QED  BY <1>1, <1>3, <2>1 DEF LiveInv, Subscribed, Fields
<1> QED
  BY <1>2, <1>3 DEF TaskNext, GiveUp, Refuse, Invoke, HandlerReturns, ResponseTooLarge,
         HandlerPanics, Reply,
     PublishFails, Vanish, Disrupt, Disrupted, TypeInv, TypeOK

-----------------------------------------------------------------------------
(* One task per command, and what becomes of it. *)

HistoryInv == OnceInv /\ AnswerInv

LEMMA HistoryClient ==
    ASSUME TypeInv, HistoryInv, NEW c \in Commands, ClientNext(c)
    PROVE  HistoryInv'
<1>1. tasks' = tasks /\ UNCHANGED <<taken, invocations, returned>>
  BY DEF ClientNext, Request, NoResponders, RequestLost, DeadlineElapses, TimeOut,
         historyVars
<1>2. AnswerInv'
  BY <1>1 DEF ClientNext, Request, NoResponders, RequestLost, DeadlineElapses, TimeOut,
       HistoryInv, AnswerInv, TypeInv, TypeOK
<1>3. CASE Request(c)
  <2>1. PICK r \in Replicas : buffer' = [buffer EXCEPT ![r] = @ \cup {c}]
    BY <1>3 DEF Request
  <2>2. /\ call[c] = "new" /\ call'[c] = "waiting"
        /\ \A d \in Commands : d # c => call'[d] = call[d]
    BY <1>3 DEF Request, TypeInv, TypeOK
  <2>3. c \notin taken /\ \A q \in Replicas : c \notin buffer[q]
    BY <2>2 DEF HistoryInv, OnceInv, TypeInv, TypeOK
  <2>4. \A q \in Replicas : \A d \in buffer'[q] :
            d \in Commands /\ (d \in buffer[q] \/ (d = c /\ q = r))
    BY <2>1 DEF TypeInv, TypeOK
  <2>5. OnceInv'
    BY <1>1, <2>2, <2>3, <2>4 DEF HistoryInv, OnceInv
  <2> QED  BY <1>2, <2>5 DEF HistoryInv
<1>4. CASE ~Request(c)
  <2>1. /\ buffer' = buffer
        /\ \A d \in Commands : call'[d] = call[d] \/ call[d] = "new"
                                 \/ call'[d] = "timeout"
    BY <1>4 DEF ClientNext, NoResponders, RequestLost, DeadlineElapses, TimeOut, TypeInv,
       TypeOK
  <2>2. OnceInv'
    BY <1>1, <2>1 DEF HistoryInv, OnceInv, TypeInv, TypeOK
  <2> QED  BY <1>2, <2>2 DEF HistoryInv
<1> QED  BY <1>3, <1>4

(* Buffers are dropped; tasks are dropped or aborted. *)
LEMMA HistoryReduced ==
    ASSUME TypeInv, HistoryInv, UNCHANGED <<call, historyVars>>,
           \A r \in Replicas : buffer'[r] \subseteq buffer[r],
           NEW T \in SUBSET tasks, NEW D, tasks' = Aborting(T) \ D
    PROVE  HistoryInv'
<1>1. \A u \in tasks' : \/ u \in tasks \ T
                        \/ \E t \in T : u = [t EXCEPT !.aborted = TRUE]
  BY AbortTyped, TypeParts
<1>2. ASSUME NEW t \in T
      PROVE  /\ [t EXCEPT !.aborted = TRUE].cmd = t.cmd
             /\ [t EXCEPT !.aborted = TRUE].phase = t.phase
  BY AbortedFields DEF Fields, TypeInv, TypeOK
<1>3. ASSUME NEW u \in tasks'
      PROVE  \E t \in tasks : u.cmd = t.cmd /\ u.phase = t.phase
  <2>1. CASE u \in tasks \ T
    BY <2>1
  <2>2. CASE \E t \in T : u = [t EXCEPT !.aborted = TRUE]
    BY <1>2, <2>2
  <2> QED  BY <1>1, <2>1, <2>2
<1>4. ASSUME NEW u \in tasks', NEW v \in tasks', u.cmd = v.cmd
      PROVE  u = v
  <2>1. CASE u \in tasks \ T /\ v \in tasks \ T
    BY <1>4, <2>1 DEF HistoryInv, OnceInv
  <2>2. ASSUME NEW t \in T, u = [t EXCEPT !.aborted = TRUE] PROVE u = v
    <3>1. u.cmd = t.cmd
      BY <1>2, <2>2
    <3>2. CASE v \in tasks \ T
      BY <1>4, <3>1, <3>2 DEF HistoryInv, OnceInv
    <3>3. ASSUME NEW z \in T, v = [z EXCEPT !.aborted = TRUE] PROVE u = v
      <4>1. v.cmd = z.cmd
        BY <1>2, <3>3
      <4>2. z = t
        BY <1>4, <3>1, <4>1 DEF HistoryInv, OnceInv
      <4> QED  BY <2>2, <3>3, <4>2
    <3> QED  BY <1>1, <3>2, <3>3
  <2>3. ASSUME NEW z \in T, v = [z EXCEPT !.aborted = TRUE], u \in tasks \ T PROVE FALSE
    <3>1. v.cmd = z.cmd
      BY <1>2, <2>3
    <3> QED  BY <1>4, <2>3, <3>1 DEF HistoryInv, OnceInv
  <2> QED  BY <1>1, <2>1, <2>2, <2>3
<1>5. OnceInv'
  BY <1>3, <1>4 DEF HistoryInv, OnceInv, historyVars
<1>6. AnswerInv'
  BY <1>3 DEF HistoryInv, AnswerInv, historyVars
<1> QED  BY <1>5, <1>6 DEF HistoryInv

LEMMA HistorySameTasks ==
    ASSUME TypeInv, HistoryInv, UNCHANGED <<call, historyVars>>,
           \A r \in Replicas : buffer'[r] \subseteq buffer[r],
           NEW D, tasks' = tasks \ D
    PROVE  HistoryInv'
BY DEF HistoryInv, OnceInv, AnswerInv, historyVars

LEMMA HistoryConsumer ==
    ASSUME TypeInv, HistoryInv, NEW r \in Replicas, NEW s \in Subjects, ConsumerNext(r, s)
    PROVE  HistoryInv'
<1>1. /\ UNCHANGED <<call, historyVars>>
      /\ \A q \in Replicas : buffer'[q] \subseteq buffer[q]
  BY DEF ConsumerNext, Subscribe, ConsumerFails, SubscriptionEnds, BeginDrain,
         ConsumerReturns, Dropping, TypeInv, TypeOK
<1>2. InFlight(r, s) \in SUBSET tasks
  BY DEF InFlight, TasksOf
<1>3. CASE ConsumerFails(r, s)
  <2>1. PICK D : tasks' = Aborting(InFlight(r, s)) \ D
    BY <1>3 DEF ConsumerFails
  <2> QED  BY <1>1, <1>2, <2>1, HistoryReduced
<1>4. CASE SubscriptionEnds(r, s)
  <2>1. tasks' = Aborting(InFlight(r, s)) \ {}
    BY <1>4 DEF SubscriptionEnds
  <2> QED  BY <1>1, <1>2, <2>1, HistoryReduced
<1>5. CASE Subscribe(r, s) \/ BeginDrain(r, s) \/ ConsumerReturns(r, s)
  <2>1. tasks' = tasks \ {}
    BY <1>5 DEF Subscribe, BeginDrain, ConsumerReturns
  <2> QED  BY <1>1, <2>1, HistorySameTasks
<1> QED  BY <1>3, <1>4, <1>5 DEF ConsumerNext

LEMMA HistoryRuntime ==
    ASSUME TypeInv, HistoryInv, NEW r \in Replicas, RuntimeNext(r)
    PROVE  HistoryInv'
<1>1. /\ UNCHANGED <<call, historyVars>>
      /\ \A q \in Replicas : buffer'[q] \subseteq buffer[q]
  BY DEF RuntimeNext, Launch, StartSucceeds, StartFails, Interrupt, ConsumerEnded, Drained,
         DrainTimesOut, Return, Crash, Gone, AbortAll, Dropping, TypeInv, TypeOK
<1>2. CASE AbortAll(r)
  <2>1. tasks' = Aborting(TasksOf(r)) \ {} /\ TasksOf(r) \in SUBSET tasks
    BY <1>2 DEF AbortAll, TasksOf
  <2> QED  BY <1>1, <2>1, HistoryReduced
<1>3. CASE \E D : tasks' = tasks \ D
  BY <1>1, <1>3, HistorySameTasks
<1>4. tasks' = tasks => tasks' = tasks \ {}
  OBVIOUS
<1> QED
  BY <1>2, <1>3, <1>4 DEF RuntimeNext, Launch, StartSucceeds, StartFails, Interrupt,
     ConsumerEnded, Drained, DrainTimesOut, Return, Crash, Gone

LEMMA HistoryTake ==
    ASSUME TypeInv, HistoryInv, NEW r \in Replicas, NEW c \in Commands, Take(r, c)
    PROVE  HistoryInv'
<1> DEFINE u == [rep |-> r, cmd |-> c, aborted |-> FALSE, phase |-> "claimed"]
<1>1. /\ tasks' = tasks \cup {u} /\ u.cmd = c /\ u.phase = "claimed"
      /\ taken' = taken \cup {c} /\ UNCHANGED <<call, invocations, returned>>
      /\ buffer' = [buffer EXCEPT ![r] = @ \ {c}] /\ c \in buffer[r]
  BY DEF Take
<1> HIDE DEF u
<1>2. c \notin taken /\ \A q \in Replicas : c \in buffer[q] => q = r
  BY <1>1 DEF HistoryInv, OnceInv
<1>3. \A q \in Replicas : buffer'[q] \subseteq buffer[q] /\ c \notin buffer'[q]
  BY <1>1, <1>2 DEF TypeInv, TypeOK
<1>4. \A t \in tasks : t.cmd # c
  BY <1>2 DEF HistoryInv, OnceInv
<1>5. OnceInv'
  BY <1>1, <1>2, <1>3, <1>4 DEF HistoryInv, OnceInv
<1>6. AnswerInv'
  BY <1>1, <1>2, <1>4 DEF HistoryInv, AnswerInv
<1> QED  BY <1>5, <1>6 DEF HistoryInv

LEMMA HistoryTask ==
    ASSUME TypeInv, HistoryInv, NEW t \in tasks, TaskNext(t)
    PROVE  HistoryInv'
<1> DEFINE c == t.cmd
<1>1. /\ t \in Task /\ c \in Commands /\ c \in taken /\ call[c] # "refused"
      /\ \A u \in tasks : u # t => u.cmd # c
      /\ invocations[c] \in Nat /\ invocations[c] <= 1
      /\ t.phase \in {"claimed", "refused"} => invocations[c] = 0
      /\ t.phase = "result" => c \in returned
  BY DEF HistoryInv, OnceInv, AnswerInv, TypeInv, TypeOK, Task
<1>2. buffer' = buffer /\ taken' = taken
  BY DEF TaskNext, GiveUp, Refuse, Invoke, HandlerReturns, ResponseTooLarge,
         HandlerPanics, Reply,
         PublishFails, Vanish, historyVars
<1>3. ASSUME NEW p \in {"claimed", "running", "result", "refused", "failed"}, Becomes(t, p),
             call' = call, returned \subseteq returned',
             \A d \in Commands : d # c => invocations'[d] = invocations[d],
             invocations'[c] <= 1,
             p \in {"claimed", "refused"} => invocations'[c] = 0,
             p = "result" => c \in returned'
      PROVE  HistoryInv'
  <2> DEFINE u == [t EXCEPT !.phase = p]
  <2>1. u.cmd = c /\ u.phase = p /\ tasks' = (tasks \ {t}) \cup {u}
    BY <1>1, <1>3, BecomesFields DEF Becomes, Fields
  <2> HIDE DEF u
  <2>2. OnceInv'
    BY <1>1, <1>2, <1>3, <2>1 DEF HistoryInv, OnceInv
  <2>3. \A d \in Commands : call[d] = "refused" => d # c /\ \A v \in tasks' : v.cmd # d
    BY <1>1, <2>1 DEF HistoryInv, AnswerInv
  <2>4. \A v \in tasks' : v = u \/ (v \in tasks /\ v.cmd # c /\ v.cmd \in Commands)
    BY <1>1, <2>1 DEF TypeInv, TypeOK, Task
  <2>5. AnswerInv'
    BY <1>1, <1>2, <1>3, <2>1, <2>3, <2>4 DEF HistoryInv, AnswerInv
  <2> QED  BY <2>2, <2>5 DEF HistoryInv
<1>4. ASSUME Ends(t), invocations' = invocations, returned \subseteq returned',
             \A d \in Commands : d # c => call'[d] = call[d],
             call'[c] \in {call[c], t.phase} \/ call' = call,
             call'[c] \notin {"new", "unavailable"} \/ call' = call,
             call'[c] = call[c] \/ t.phase \in {"result", "refused"}
      PROVE  HistoryInv'
  <2>1. tasks' = tasks \ {t}
    BY <1>4 DEF Ends
  <2>2. OnceInv'
    BY <1>1, <1>2, <1>4, <2>1 DEF HistoryInv, OnceInv, TypeInv, TypeOK
  <2>3. AnswerInv'
    BY <1>1, <1>2, <1>4, <2>1 DEF HistoryInv, AnswerInv, TypeInv, TypeOK
  <2> QED  BY <2>2, <2>3 DEF HistoryInv
<1>5. CASE GiveUp(t) \/ Vanish(t)
  BY <1>4, <1>5 DEF GiveUp, Vanish, historyVars
<1>6. CASE Refuse(t)
  BY <1>1, <1>3, <1>6 DEF Refuse, historyVars
<1>7. CASE Invoke(t)
  BY <1>1, <1>3, <1>7 DEF Invoke, TypeInv, TypeOK
<1>8. CASE HandlerReturns(t)
  BY <1>1, <1>3, <1>8 DEF HandlerReturns
<1>9. CASE HandlerPanics(t) \/ PublishFails(t)
  BY <1>1, <1>3, <1>9 DEF HandlerPanics, PublishFails, historyVars
<1>10. CASE Reply(t)
  BY <1>1, <1>4, <1>10 DEF Reply, TypeInv, TypeOK
<1>11. CASE ResponseTooLarge(t)
  BY <1>4, <1>11 DEF ResponseTooLarge
<1> QED  BY <1>5, <1>6, <1>7, <1>8, <1>9, <1>10, <1>11 DEF TaskNext

-----------------------------------------------------------------------------
(* Answers. *)

LEMMA NoTaskLeft ==
    ASSUME TypeInv, LiveInv, NEW r \in Replicas, phase[r] = "stopping", disruptions = 0
    PROVE  TasksOf(r) = {}
<1>1. ASSUME NEW t \in tasks, t.rep = r
      PROVE  FALSE
  <2>1. ~t.aborted /\ Subscribed(t.rep, Subject[t.cmd])
    BY DEF LiveInv
  <2>2. Subject[t.cmd] \in Subjects
    BY SubjectAssumption DEF TypeInv, TypeOK, Task
  <2> QED  BY <1>1, <2>1, <2>2 DEF LiveInv, Subscribed
<1> QED  BY <1>1 DEF TasksOf

LEMMA AnsweredStep ==
    ASSUME TypeInv, TypeInv', LiveInv, TakenIsAnswered, [Next]_vars
    PROVE  TakenIsAnswered'
<1> SUFFICES ASSUME disruptions' = 0, NEW c \in taken', c \notin Invalid
             PROVE  Answered(c)'
  BY DEF TakenIsAnswered
<1> DEFINE Grows == /\ replied \subseteq replied' /\ late \subseteq late'
                    /\ returned \subseteq returned'
<1>0. Grows
  <2>1. ASSUME NEW t \in tasks, TaskNext(t) PROVE Grows
    BY <2>1 DEF TaskNext, GiveUp, Refuse, Invoke, HandlerReturns, ResponseTooLarge,
       HandlerPanics, Reply, PublishFails, Vanish, historyVars
  <2>2. ASSUME NEW r \in Replicas, RuntimeNext(r) PROVE Grows
    BY <2>2 DEF RuntimeNext, Launch, StartSucceeds, StartFails, Interrupt, ConsumerEnded,
       Drained, DrainTimesOut, Return, Crash, historyVars
  <2>3. ASSUME NEW r \in Replicas, NEW s \in Subjects, ConsumerNext(r, s) PROVE Grows
    BY <2>3 DEF ConsumerNext, Subscribe, ConsumerFails, SubscriptionEnds, BeginDrain,
       ConsumerReturns, historyVars
  <2>4. ASSUME NEW d \in Commands, ClientNext(d) PROVE Grows
    BY <2>4 DEF ClientNext, Request, NoResponders, RequestLost, DeadlineElapses, TimeOut,
       historyVars
  <2>5. ASSUME NEW r \in Replicas, NEW d \in Commands, Take(r, d) PROVE Grows
    BY <2>5 DEF Take
  <2> QED  BY <2>1, <2>2, <2>3, <2>4, <2>5 DEF Next, vars, historyVars
<1>1. CASE disruptions' = disruptions /\ taken' = taken /\ tasks \subseteq tasks'
  BY <1>0, <1>1 DEF TakenIsAnswered, Answered
<1>2. CASE disruptions' = disruptions + 1
  BY <1>2 DEF TypeInv, TypeOK
<1>3. ASSUME NEW d \in Commands, ClientNext(d)
      PROVE  Answered(c)'
  BY <1>1, <1>2, <1>3 DEF ClientNext, Request, NoResponders, RequestLost, DeadlineElapses,
     TimeOut, Disrupt, Disrupted, historyVars
<1>4. ASSUME NEW r \in Replicas, NEW s \in Subjects, ConsumerNext(r, s)
      PROVE  Answered(c)'
  <2>1. CASE ConsumerFails(r, s)
    BY <2>1 DEF ConsumerFails, LiveInv, InFlight, TasksOf
  <2>2. CASE ~ConsumerFails(r, s)
    BY <1>1, <1>2, <1>4, <2>2 DEF ConsumerNext, Subscribe, SubscriptionEnds, BeginDrain,
       ConsumerReturns, Disrupt, Disrupted, historyVars
  <2> QED  BY <2>1, <2>2
<1>5. ASSUME NEW r \in Replicas, RuntimeNext(r)
      PROVE  Answered(c)'
  <2>1. CASE Return(r)
    <3>1. disruptions = 0 /\ phase[r] = "stopping"
      BY <2>1 DEF Return
    <3>2. tasks' = tasks
      BY <2>1, <3>1, NoTaskLeft DEF Return, Gone
    <3> QED  BY <1>1, <2>1, <3>2 DEF Return, historyVars
  <2>2. CASE ~Return(r)
    BY <1>1, <1>2, <1>5, <2>2 DEF RuntimeNext, Launch, StartSucceeds, StartFails, Interrupt,
       ConsumerEnded, Drained, DrainTimesOut, Crash, Disrupt, Disrupted, historyVars
  <2> QED  BY <2>1, <2>2
<1>6. ASSUME NEW r \in Replicas, NEW d \in Commands, Take(r, d)
      PROVE  Answered(c)'
  <2> DEFINE u == [rep |-> r, cmd |-> d, aborted |-> FALSE, phase |-> "claimed"]
  <2>1. /\ taken' = taken \cup {d} /\ UNCHANGED <<disruptions, replied>>
        /\ tasks' = tasks \cup {u} /\ u.cmd = d
    BY <1>6 DEF Take
  <2> HIDE DEF u
  <2> QED  BY <1>0, <2>1 DEF TakenIsAnswered, Answered
<1>7. ASSUME NEW t \in tasks, TaskNext(t)
      PROVE  Answered(c)'
  <2>1. /\ taken' = taken
        /\ \A u \in tasks : u # t => u \in tasks'
    BY <1>7 DEF TaskNext, GiveUp, Refuse, Invoke, HandlerReturns, ResponseTooLarge,
         HandlerPanics, Reply,
       PublishFails, Vanish, Becomes, Ends, historyVars
  <2>2. CASE disruptions' # disruptions
    BY <1>2, <1>7, <2>2 DEF TaskNext, GiveUp, Refuse, Invoke, HandlerReturns, ResponseTooLarge,
       HandlerPanics,
       Reply, PublishFails, Vanish, Disrupt, Disrupted
  <2>3. CASE disruptions' = disruptions
    <3>1. Answered(c)
      BY <2>1, <2>3 DEF TakenIsAnswered
    <3>2. t.cmd = c => Answered(c)'
      <4>1. CASE \E p \in {"claimed", "running", "result", "refused", "failed"} : Becomes(t, p)
        <5>1. PICK p \in {"claimed", "running", "result", "refused", "failed"} : Becomes(t, p)
          BY <4>1
        <5>2. [t EXCEPT !.phase = p].cmd = t.cmd
          BY BecomesFields DEF Fields, TypeInv, TypeOK
        <5> QED  BY <5>1, <5>2 DEF Becomes, Answered
      <4>2. CASE GiveUp(t)  BY <1>0, <4>2 DEF GiveUp, Answered
      <4>3. CASE Vanish(t)  BY <2>3, <4>3 DEF Vanish, LiveInv
      <4>4. CASE Reply(t)  BY <4>4 DEF Reply, Answered
      <4>5. CASE ResponseTooLarge(t)  BY <4>5 DEF ResponseTooLarge, Answered
      <4> QED
        BY <1>7, <4>1, <4>2, <4>3, <4>4, <4>5 DEF TaskNext, Refuse, Invoke,
           HandlerReturns, HandlerPanics, PublishFails
    <3> QED  BY <1>0, <2>1, <3>1, <3>2 DEF Answered
  <2> QED  BY <2>2, <2>3
<1>8. CASE UNCHANGED vars
  BY <1>1, <1>8 DEF vars, historyVars
<1> QED  BY <1>3, <1>4, <1>5, <1>6, <1>7, <1>8 DEF Next

IInv == TypeInv /\ LiveInv /\ HistoryInv /\ TakenIsAnswered

LEMMA Stutter ==
    ASSUME TypeInv, LiveInv, HistoryInv, UNCHANGED vars
    PROVE  TypeInv' /\ LiveInv' /\ HistoryInv'
<1> USE DEF vars, runtimeVars, historyVars
<1>1. TypeInv'
  BY DEF TypeInv, TypeOK, Subscribed, InFlight, TasksOf
<1>2. LiveInv'
  BY DEF LiveInv, Subscribed
<1>3. HistoryInv'
  BY DEF HistoryInv, OnceInv, AnswerInv
<1> QED  BY <1>1, <1>2, <1>3

LEMMA Inductive == Spec => []IInv
<1>1. Init => IInv
  BY TypeInit, LiveInit DEF IInv, HistoryInv
<1>2. IInv /\ [Next]_vars => IInv'
  <2> SUFFICES ASSUME IInv, [Next]_vars PROVE IInv'
    OBVIOUS
  <2>1. TypeInv'
    BY TypeClient, TypeRuntime, TypeConsumer, TypeTake, TypeTask, Stutter
    DEF IInv, HistoryInv, Next
  <2>2. LiveInv'
    BY LiveClient, LiveRuntime, LiveConsumer, LiveTake, LiveTask, Stutter DEF IInv, Next
  <2>3. HistoryInv'
    BY HistoryClient, HistoryRuntime, HistoryConsumer, HistoryTake, HistoryTask, Stutter
    DEF IInv, Next
  <2>4. TakenIsAnswered'
    BY <2>1, AnsweredStep DEF IInv
  <2> QED  BY <2>1, <2>2, <2>3, <2>4 DEF IInv
<1> QED  BY <1>1, <1>2, PTL DEF Spec

(* The types of the state: a subscription holds commands only while its
   consumer lives, and no consumer has more tasks than max_handler_concurrency
   (consume_command). *)
THEOREM TypeCorrect == Spec => []TypeOK
<1>1. IInv => TypeOK  BY DEF IInv, TypeInv
<1> QED  BY <1>1, Inductive, PTL

(* Undisrupted, the shutdown hooks of a process start only when none of its
   handlers is at work (run, wait_for_handler_tasks). *)
THEOREM ShutdownIsGraceful == Spec => []GracefulShutdown
<1>1. IInv => GracefulShutdown
  BY NoTaskLeft DEF IInv, GracefulShutdown
<1> QED  BY <1>1, Inductive, PTL

(* Undisrupted, every valid command that was taken is answered, or still has
   its task, however the service is interrupted; but for those to which no
   response may fit, and of them each had its handler return or was too late
   (consume_command, process_command). *)
THEOREM CommandsAreAnswered == Spec => []TakenIsAnswered
<1>1. IInv => TakenIsAnswered  BY DEF IInv
<1> QED  BY <1>1, Inductive, PTL

(* Whatever fails, the handler of a command is invoked at most once, a result
   means that it returned, and a refusal that it never runs (process_command,
   dispatch_command). *)
THEOREM RepliesAreTruthful == Spec => []TruthfulReply
<1>1. IInv => TruthfulReply
  BY DEF IInv, TypeInv, TypeOK, HistoryInv, AnswerInv, TruthfulReply
<1> QED  BY <1>1, Inductive, PTL
=============================================================================
