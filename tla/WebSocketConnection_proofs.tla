---------------------- MODULE WebSocketConnection_proofs ----------------------
(***************************************************************************)
(* Theorems about WebSocketConnection, for any application tasks, limits   *)
(* and numbers of frames and calls, on either adapter.                     *)
(***************************************************************************)
EXTENDS WebSocketConnection, FiniteSetTheorems, SequenceTheorems, TLAPS

(* run_connection takes frames from the stream, or will. *)
Active == {"connect", "check", "receive", "handle", "pong"}
ErrorCodes == {"internal", "protocol", "tooBig", "invalidData"}

-----------------------------------------------------------------------------
(* The inductive invariant.  The session and the transport first. *)

SessionTyped ==
    /\ adapter \in Adapters
    /\ peer \in {"up", "gone"}
    /\ phase \in Phases
    /\ reported \in CloseFrames
    /\ open \in BOOLEAN /\ closed \in BOOLEAN /\ receiving \in BOOLEAN
    /\ dropped \subseteq CloseFrames
    /\ slot \in CloseFrames
    /\ budget \in 0..MaxCalls

WireTyped ==
    /\ lock \in Callers \cup {Nobody}
    /\ calls \in [Callers -> [step : {"idle", "waiting", "holding"}, out : OutFrames]]
    /\ queue \in Seq(OutFrames)
    /\ Len(queue) <= QueueLimit
    /\ wire \in Seq(OutFrames)
    /\ accepted \in Seq(OutFrames)

InputTyped ==
    /\ sent \in Seq(FrameKinds)
    /\ read \in 0..Len(sent)
    /\ ready \in Seq(1..Len(sent))
    /\ fragment \in Seq(1..Len(sent))
    /\ delivered \in Seq(Seq(1..Len(sent)))

(* The lock's holder is the call that pushes; the loop's own call is under way
   in two phases only, and an error is reported with the code it ends with. *)
LockInv ==
    /\ \A c \in Callers : calls[c].step = "holding" <=> lock = c
    /\ phase \notin {"pong", "close"} => calls["task"] = Idle
    /\ phase = "error" => reported \in ErrorCodes
    /\ phase \in Active \cup {"lost"} => reported = "none"
    /\ phase = "close" => calls["task"].out = reported

(* Under the lock, closed is the mark of the call that closes: once a Close
   frame is queued, Actix lets nobody push.  So a Close frame is the last, and
   nothing is discarded behind it. *)
CloseInv ==
    /\ Actix /\ Closing => closed /\ lock = Nobody
    /\ Actix /\ lock # Nobody => (closed <=> IsClose(calls[lock].out))
    /\ \A i \in DOMAIN wire : IsClose(wire[i]) => i = Len(wire) /\ queue = <<>>
    /\ \A i \in DOMAIN queue : IsClose(queue[i]) => i = Len(queue)
    /\ peer = "up" => accepted = wire \o queue

(* What on_close may be told has a trace: a frame on its way or one whose
   close call sent nothing. *)
Known == dropped \cup OnTheirWay
KnownInv ==
    peer = "up" =>
        /\ phase \in {"close", "finish", "onClose", "done"} => reported \in {"none"} \cup Known
        /\ Actix => slot \in {"none"} \cup Known

(* While no close call has failed, the Close frames under way, in calls or on
   the wire, are those of the close calls there were.  With none, the loop has
   not ended; with one, the loop and the session speak of that frame. *)
PendingCloses == {c \in Callers : calls[c].step # "idle" /\ IsClose(calls[c].out)}
Undisturbed == Actix /\ peer = "up" /\ dropped = {}

Framed(f) == (\E i \in DOMAIN wire : wire[i] = f) \/ (\E i \in DOMAIN queue : queue[i] = f)
SoleClose(f) ==
    \/ PendingCloses = {} /\ Framed(f)
    \/ ~Closing /\ \E c \in Callers : PendingCloses = {c} /\ calls[c].out = f

Agreed(f) ==
    /\ phase \in Active \cup {"lost", "close", "finish"} =>
        f = IF reported = "none" THEN slot ELSE reported
    /\ phase \in {"onClose", "done"} => f = reported

AgreeInv ==
    Undisturbed =>
        /\ PendingCloses = {} /\ ~Closing =>
            /\ open /\ ~closed /\ receiving /\ slot = "none"
            /\ phase \in Active \cup {"error", "panicked"}
        /\ \A f \in CloseFrames : SoleClose(f) => Agreed(f)

(* The frames up to Taken went to run_connection; what it keeps of them is the
   message in assembly, all of it behind what was delivered. *)
Taken == read - Len(ready)
Ahead == \A j \in 1..Len(ready) : ready[j] = Taken + j
Assembly ==
    fragment # <<>> =>
        /\ sent[fragment[1]] = "first"
        /\ \A j \in 2..Len(fragment) : sent[fragment[j]] = "more"
        /\ \A j \in 1..(Len(fragment) - 1) : fragment[j] < fragment[j + 1]
        /\ \A j \in 1..Len(fragment) : fragment[j] <= Taken
        /\ \A k \in 1..Len(delivered) : End(delivered[k]) < fragment[1]
        /\ Len(fragment) <= MaxSize
InputInv ==
    /\ ~Actix => ready = <<>>
    /\ Len(ready) <= read
    /\ phase \in Active =>
        /\ Ahead
        /\ Assembly
        /\ \A k \in 1..Len(delivered) : End(delivered[k]) <= Taken
        /\ \A i \in 1..Taken : sent[i] \in Fragments \cup {"data"} =>
               i \in Positions \/ \E j \in 1..Len(fragment) : fragment[j] = i

IInv ==
    /\ SessionTyped /\ WireTyped /\ InputTyped
    /\ LockInv /\ CloseInv /\ KnownInv /\ AgreeInv
    /\ InputInv /\ MessagesInOrder

-----------------------------------------------------------------------------
(* What a step of run_connection is for the session and the transport. *)

Goes(from, to) == phase \in from /\ phase' \in to /\ UNCHANGED reported

Walks == Goes({"connect", "check", "receive", "handle"}, {"check", "receive", "handle"})
Errs == phase \in Active \ {"pong"} /\ phase' = "error" /\ reported' \in ErrorCodes
Notices == ~open /\ Goes({"check", "receive"}, {"finish"})
Loses ==
    /\ peer = "gone" \/ (Actix /\ ~receiving)
    /\ Goes({"receive"}, {"lost", "finish"})
Rests == Goes({"lost"}, {"finish"}) \/ Goes({"onClose"}, {"done"})
Pongs == SendStarts("task", "pong") /\ Goes({"receive"}, {"pong"})
SaysClose ==
    /\ phase \in {"receive", "error"} /\ phase' = "close"
    /\ reported' \in {"peer", "none"} \cup ErrorCodes
    /\ CloseStarts("task", reported')

LEMMA ReceiveShape ==
    ASSUME NEW i, Receive(i), phase = "receive"
    PROVE  \/ Silent /\ (Walks \/ Errs \/ Notices)
           \/ Pongs \/ SaysClose
<1>1. CASE sent[i] = "data" /\ Data(i) /\ Handled
  BY <1>1 DEF Data, Deliver, Report, Handled, Walks, Errs, Goes, Active, ErrorCodes
<1>2. CASE sent[i] = "first" /\ StartFragment(i) /\ Handled
  BY <1>2 DEF StartFragment, Report, Handled, Walks, Errs, Goes, Active, ErrorCodes
<1>3. CASE sent[i] \in {"more", "last"} /\ AppendFragment(i) /\ Handled
  BY <1>3 DEF AppendFragment, Deliver, Report, Handled, Walks, Errs, Goes, Active, ErrorCodes
<1>4. CASE sent[i] = "ping" /\ Ping /\ Kept /\ UNCHANGED reported
  BY <1>4 DEF Ping, Pongs, Notices, Goes
<1>5. CASE sent[i] = "close" /\ Closes("peer") /\ reported' = "peer" /\ Kept
  BY <1>5 DEF Closes, SaysClose
<1>6. CASE Closes("none") /\ reported' = "none" /\ Kept
  BY <1>6 DEF Closes, SaysClose
<1>7. CASE sent[i] = "reservedClose" /\ Actix /\ Report("protocol") /\ Kept /\ Handled
  BY <1>7 DEF Report, Handled, Errs, Active, ErrorCodes
<1> QED
  BY <1>1, <1>2, <1>3, <1>4, <1>5, <1>6, <1>7 DEF Receive

TaskMoves ==
    \/ Silent /\ (Walks \/ Errs \/ Notices \/ Loses \/ Rests)
    \/ Pongs \/ SaysClose \/ Finish

LEMMA TaskShape ==
    ASSUME LockInv, TaskNext
    PROVE  taskIdle /\ TaskMoves
<1>1. CASE ConnectReturns \/ HandlerReturns
  BY <1>1 DEF ConnectReturns, HandlerReturns, Report, TaskMoves, Walks, Errs, Goes, Active, ErrorCodes
<1>2. CASE Check
  BY <1>2 DEF Check, TaskMoves, Walks, Notices, Goes
<1>3. CASE ReceiveQueued
  <2>1. phase = "receive" /\ Receive(Head(ready)) /\ taskIdle
    BY <1>3 DEF ReceiveQueued
  <2> QED  BY <2>1, ReceiveShape DEF TaskMoves
<1>4. CASE ReceiveArrived
  <2>1. phase = "receive" /\ taskIdle
    BY <1>4 DEF ReceiveArrived
  <2>2. CASE Receive(read + 1)
    BY <2>1, <2>2, ReceiveShape DEF TaskMoves
  <2>3. CASE \E k : Report(ErrorCode(k)) /\ Handled
    BY <2>1, <2>3 DEF Report, ErrorCode, Handled, TaskMoves, Errs, Active, ErrorCodes
  <2> QED  BY <1>4, <2>2, <2>3 DEF ReceiveArrived
<1>5. CASE ReceiveNext
  <2>1. phase = "receive" /\ taskIdle
    BY <1>5 DEF ReceiveNext
  <2>2. CASE Receive(read')
    BY <2>1, <2>2, ReceiveShape DEF TaskMoves
  <2>3. CASE \E k : Report(ErrorCode(k)) /\ Handled
    BY <2>1, <2>3 DEF Report, ErrorCode, Handled, TaskMoves, Errs, Active, ErrorCodes
  <2> QED  BY <1>5, <2>2, <2>3 DEF ReceiveNext
<1>6. CASE StreamFails
  BY <1>6 DEF StreamFails, Report, TaskMoves, Errs, Active, ErrorCodes
<1>7. CASE StreamEnds
  BY <1>7 DEF StreamEnds, TaskMoves, Loses, Goes
<1>8. CASE LossReported \/ CloseReturns
  BY <1>8 DEF LossReported, CloseReturns, TaskMoves, Rests, Goes
<1>9. CASE ErrorReported
  BY <1>9 DEF ErrorReported, Closes, TaskMoves, SaysClose, LockInv
<1>10. CASE Finish
  BY <1>10 DEF Finish, TaskMoves
<1> QED
  BY <1>1, <1>2, <1>3, <1>4, <1>5, <1>6, <1>7, <1>8, <1>9, <1>10 DEF TaskNext

(* The next-state relation, as far as the session and the transport go. *)
SessionStep ==
    \/ taskIdle /\ TaskMoves
    \/ CallbackPanics
    \/ \E c \in Callers : Acquire(c) \/ Push(c) \/ PushFails(c)
    \/ \E a \in Apps : AppSends(a) \/ AppCloses(a)
    \/ Write \/ PeerSends \/ PeerLeaves
    \/ UNCHANGED vars

LEMMA NextIsSessionStep == LockInv /\ [Next]_vars => SessionStep
  BY TaskShape DEF Next, CallNext, SessionStep

LEMMA Names ==
    /\ "task" \in Callers /\ Apps \subseteq Callers /\ Nobody \notin Callers
    /\ \A a \in Apps : a # "task"
  BY AppsAssumption DEF Callers, Nobody

LEMMA TypedAtFirst == Init => SessionTyped /\ WireTyped /\ InputTyped
<1> SUFFICES ASSUME Init PROVE SessionTyped /\ WireTyped /\ InputTyped
  OBVIOUS
<1>1. SessionTyped
  <2>1. MaxCalls \in 0..MaxCalls
    BY LimitsAssumption
  <2> QED  BY <2>1 DEF Init, SessionTyped, Phases, CloseFrames
<1>2. WireTyped
  BY LimitsAssumption DEF Init, WireTyped, Idle, OutFrames, CloseFrames
<1>3. InputTyped
  BY DEF Init, InputTyped
<1> QED  BY <1>1, <1>2, <1>3

LEMMA ReturnsTyped ==
    ASSUME SessionTyped, WireTyped, NEW c \in Callers, NEW ok, NEW sends, Returns(c, ok, sends)
    PROVE  /\ phase' \in Phases /\ dropped' \subseteq CloseFrames
           /\ calls' \in [Callers -> [step : {"idle", "waiting", "holding"}, out : OutFrames]]
  BY DEF Returns, SessionTyped, WireTyped, Phases, Idle, OutFrames, IsClose, CloseFrames

LEMMA SessionTypedStep ==
    ASSUME SessionTyped, WireTyped, SessionStep
    PROVE  SessionTyped'
<1> USE DEF SessionTyped
<1>1. CASE taskIdle /\ TaskMoves
  <2>1. CASE Silent /\ (Walks \/ Errs \/ Notices \/ Loses \/ Rests)
    BY <1>1, <2>1 DEF taskIdle, Silent, Walks, Errs, Notices, Loses, Rests, Goes, peerVars, outVars,
       sessionVars, Phases, CloseFrames, ErrorCodes
  <2>2. CASE Pongs
    BY <1>1, <2>2 DEF taskIdle, Pongs, Goes, SendStarts, peerVars, outVars, sessionVars, Phases
  <2>3. CASE SaysClose
    BY <1>1, <2>3 DEF taskIdle, SaysClose, CloseStarts, peerVars, outVars, Phases, CloseFrames, ErrorCodes
  <2>4. CASE Finish
    BY <1>1, <2>4 DEF taskIdle, Finish, peerVars, outVars, Phases, CloseFrames
  <2> QED  BY <1>1, <2>1, <2>2, <2>3, <2>4 DEF TaskMoves
<1>2. CASE CallbackPanics
  BY <1>2 DEF CallbackPanics, taskIdle, Silent, peerVars, outVars, sessionVars, Phases
<1>3. ASSUME NEW c \in Callers, Acquire(c) PROVE SessionTyped'
  BY <1>3, ReturnsTyped DEF Acquire, peerVars
<1>4. ASSUME NEW c \in Callers, Push(c) PROVE SessionTyped'
  BY <1>4, ReturnsTyped DEF Push, AxumCloses, peerVars
<1>5. ASSUME NEW c \in Callers, PushFails(c) PROVE SessionTyped'
  BY <1>5, ReturnsTyped DEF PushFails, AxumCloses, peerVars
<1>6. ASSUME NEW a \in Apps, AppSends(a) PROVE SessionTyped'
  BY <1>6, LimitsAssumption DEF AppSends, SendStarts, peerVars, outVars, sessionVars
<1>7. ASSUME NEW a \in Apps, AppCloses(a) PROVE SessionTyped'
  <2>1. PICK f \in {"none", "app", "unsendable"} : CloseStarts(a, f)
    BY <1>7 DEF AppCloses
  <2>2. /\ slot' \in CloseFrames /\ dropped' \subseteq CloseFrames
        /\ open' \in BOOLEAN /\ closed' \in BOOLEAN
    BY <2>1 DEF CloseStarts, CloseFrames
  <2>3. UNCHANGED <<adapter, peer, phase, reported, receiving>> /\ budget' \in 0..MaxCalls
    BY <1>7, LimitsAssumption DEF AppCloses, peerVars, outVars
  <2> QED  BY <2>2, <2>3
<1>8. CASE Write \/ PeerSends \/ PeerLeaves
  BY <1>8 DEF Write, PeerSends, PeerLeaves, peerVars, outVars, sessionVars, Actix
<1>9. CASE UNCHANGED vars
  BY <1>9 DEF vars, peerVars, outVars, sessionVars
<1> QED
  BY <1>1, <1>2, <1>3, <1>4, <1>5, <1>6, <1>7, <1>8, <1>9 DEF SessionStep

LEMMA WireTypedStep ==
    ASSUME SessionTyped, WireTyped, SessionStep
    PROVE  WireTyped'
<1> USE Names DEF WireTyped
<1>1. CASE taskIdle /\ TaskMoves
  <2>1. UNCHANGED <<lock, queue, wire, accepted>>
    BY <1>1 DEF taskIdle, outVars
  <2>2. calls' \in [Callers -> [step : {"idle", "waiting", "holding"}, out : OutFrames]]
    <3>1. CASE Silent \/ Finish
      BY <3>1 DEF Silent, Finish
    <3>2. CASE Pongs
      BY <3>2 DEF Pongs, SendStarts, OutFrames
    <3>3. CASE SaysClose
      BY <3>3 DEF SaysClose, CloseStarts, Sendable, OutFrames, CloseFrames, ErrorCodes
    <3> QED  BY <1>1, <3>1, <3>2, <3>3 DEF TaskMoves
  <2> QED  BY <2>1, <2>2
<1>2. CASE CallbackPanics
  BY <1>2 DEF CallbackPanics, taskIdle, Silent, outVars
<1>3. ASSUME NEW c \in Callers, Acquire(c) PROVE WireTyped'
  <2>1. UNCHANGED <<queue, wire, accepted>> /\ lock' \in Callers \cup {Nobody}
    BY <1>3 DEF Acquire
  <2>2. calls' \in [Callers -> [step : {"idle", "waiting", "holding"}, out : OutFrames]]
    BY <1>3, ReturnsTyped DEF Acquire
  <2> QED  BY <2>1, <2>2
<1>4. ASSUME NEW c \in Callers, Push(c) PROVE WireTyped'
  <2>1. calls' \in [Callers -> [step : {"idle", "waiting", "holding"}, out : OutFrames]]
    BY <1>4, ReturnsTyped DEF Push
  <2>2. lock' = Nobody /\ wire' = wire /\ calls[c].out \in OutFrames
    BY <1>4 DEF Push
  <2>3. CASE UNCHANGED <<queue, accepted>>
    BY <2>1, <2>2, <2>3
  <2>4. CASE /\ Len(queue) < QueueLimit
             /\ queue' = Append(queue, calls[c].out) /\ accepted' = Append(accepted, calls[c].out)
    <3>1. queue' \in Seq(OutFrames) /\ accepted' \in Seq(OutFrames) /\ Len(queue') = Len(queue) + 1
      BY <2>2, <2>4
    <3> QED  BY <2>1, <2>2, <2>4, <3>1, LimitsAssumption
  <2> QED  BY <1>4, <2>3, <2>4 DEF Push
<1>5. ASSUME NEW c \in Callers, PushFails(c) PROVE WireTyped'
  BY <1>5, ReturnsTyped DEF PushFails
<1>6. ASSUME NEW a \in Apps, AppSends(a) PROVE WireTyped'
  BY <1>6 DEF AppSends, SendStarts, outVars, OutFrames
<1>7. ASSUME NEW a \in Apps, AppCloses(a) PROVE WireTyped'
  <2>1. UNCHANGED <<lock, queue, wire, accepted>>
    BY <1>7 DEF AppCloses, outVars
  <2>2. calls' \in [Callers -> [step : {"idle", "waiting", "holding"}, out : OutFrames]]
    <3>1. PICK f \in {"none", "app", "unsendable"} : CloseStarts(a, f)
      BY <1>7 DEF AppCloses
    <3>2. Sendable(f) \in OutFrames
      BY DEF Sendable, OutFrames, CloseFrames
    <3> QED  BY <3>1, <3>2 DEF CloseStarts
  <2> QED  BY <2>1, <2>2
<1>8. CASE Write
  <2>1. queue \in Seq(OutFrames) /\ queue # <<>> /\ UNCHANGED <<lock, calls, accepted>>
        /\ wire' = Append(wire, Head(queue)) /\ queue' \in {Tail(queue), <<>>}
    BY <1>8 DEF Write
  <2>2. /\ Head(queue) \in OutFrames /\ Tail(queue) \in Seq(OutFrames)
        /\ Len(Tail(queue)) = Len(queue) - 1 /\ Len(queue) \in Nat
    BY <2>1
  <2>3. /\ wire' \in Seq(OutFrames) /\ queue' \in Seq(OutFrames)
        /\ Len(queue') <= Len(queue)
    <3>1. CASE queue' = Tail(queue)
      BY <2>1, <2>2, <3>1
    <3>2. CASE queue' = <<>>
      <4>1. Len(<<>>) = 0 /\ <<>> \in Seq(OutFrames)
        OBVIOUS
      <4> QED  BY <2>1, <2>2, <3>2, <4>1
    <3> QED  BY <2>1, <3>1, <3>2
  <2> QED  BY <2>1, <2>2, <2>3, LimitsAssumption
<1>9. CASE PeerSends \/ PeerLeaves
  <2>1. UNCHANGED <<lock, calls, wire, accepted>> /\ queue' \in {queue, <<>>}
    BY <1>9 DEF PeerSends, PeerLeaves, outVars
  <2>2. Len(<<>>) = 0 /\ <<>> \in Seq(OutFrames)
    OBVIOUS
  <2>3. CASE queue' = queue
    BY <2>1, <2>3
  <2>4. CASE queue' = <<>>
    BY <2>1, <2>2, <2>4, LimitsAssumption
  <2> QED  BY <2>1, <2>3, <2>4
<1>10. CASE UNCHANGED vars
  BY <1>10 DEF vars, outVars
<1> QED
  BY <1>1, <1>2, <1>3, <1>4, <1>5, <1>6, <1>7, <1>8, <1>9, <1>10 DEF SessionStep

-----------------------------------------------------------------------------
(* The lock. *)

LEMMA LockStep ==
    ASSUME SessionTyped, WireTyped, LockInv, SessionStep
    PROVE  LockInv'
<1> USE Names DEF LockInv
<1>1. CASE taskIdle /\ TaskMoves
  <2>1. UNCHANGED lock
    BY <1>1 DEF taskIdle, outVars
  <2>2. CASE Silent /\ (Walks \/ Errs \/ Notices \/ Loses \/ Rests)
    BY <2>1, <2>2 DEF Silent, Walks, Errs, Notices, Loses, Rests, Goes, Active, ErrorCodes
  <2>3. CASE Pongs
    <3>1. /\ phase = "receive" /\ phase' = "pong" /\ reported' = reported
          /\ calls' = [calls EXCEPT !["task"] = [step |-> "waiting", out |-> "pong"]]
      BY <2>3 DEF Pongs, SendStarts, Goes
    <3>2. calls["task"].step = "idle"
      BY <3>1 DEF Idle
    <3>3. \A c \in Callers : calls'[c].step = "holding" <=> calls[c].step = "holding"
      BY <3>1, <3>2 DEF WireTyped
    <3> QED  BY <2>1, <3>1, <3>3 DEF Active
  <2>4. CASE SaysClose
    <3>1. /\ phase \in {"receive", "error"} /\ phase' = "close"
          /\ reported' # "unsendable"
          /\ calls' = [calls EXCEPT !["task"] = [step |-> "waiting", out |-> reported']]
      BY <2>4 DEF SaysClose, CloseStarts, Sendable, ErrorCodes
    <3>2. calls["task"].step = "idle"
      BY <3>1 DEF Idle
    <3>3. /\ \A c \in Callers : calls'[c].step = "holding" <=> calls[c].step = "holding"
          /\ calls'["task"].out = reported'
      BY <3>1, <3>2 DEF WireTyped
    <3> QED  BY <2>1, <3>1, <3>3 DEF Active
  <2>5. CASE Finish
    BY <2>1, <2>5 DEF Finish, Active
  <2> QED  BY <1>1, <2>2, <2>3, <2>4, <2>5 DEF TaskMoves
<1>2. CASE CallbackPanics
  BY <1>2 DEF CallbackPanics, taskIdle, Silent, outVars, Active
<1>3. ASSUME NEW c \in Callers, Acquire(c) PROVE LockInv'
  <2>1. calls[c].step = "waiting" /\ lock = Nobody /\ reported' = reported
    BY <1>3 DEF Acquire
  <2>2. CASE Returns(c, FALSE, FALSE) /\ UNCHANGED lock
    BY <2>1, <2>2 DEF Returns, Idle, WireTyped, Active
  <2>3. CASE lock' = c /\ calls' = [calls EXCEPT ![c].step = "holding"] /\ UNCHANGED phase
    BY <2>1, <2>3 DEF Idle, WireTyped
  <2> QED  BY <1>3, <2>2, <2>3 DEF Acquire
<1>4. ASSUME NEW c \in Callers, NEW ok, NEW sends, calls[c].step = "holding",
             Returns(c, ok, sends), lock' = Nobody, UNCHANGED reported
      PROVE  LockInv'
  BY <1>4 DEF Returns, Idle, WireTyped, Active
<1>5. ASSUME NEW c \in Callers, Push(c) PROVE LockInv'
  BY <1>4, <1>5 DEF Push
<1>6. ASSUME NEW c \in Callers, PushFails(c) PROVE LockInv'
  BY <1>4, <1>6 DEF PushFails
<1>7. ASSUME NEW a \in Apps, NEW f,
             calls[a] = Idle, calls' = [calls EXCEPT ![a] = [step |-> "waiting", out |-> f]],
             UNCHANGED <<lock, phase, reported>>
      PROVE  LockInv'
  <2>1. calls'["task"] = calls["task"]
    BY <1>7
  <2>2. \A c \in Callers : calls'[c].step = "holding" <=> calls[c].step = "holding"
    BY <1>7 DEF WireTyped, Idle
  <2> QED  BY <1>7, <2>1, <2>2
<1>8. ASSUME NEW a \in Apps, AppSends(a) PROVE LockInv'
  BY <1>7, <1>8 DEF AppSends, SendStarts, outVars
<1>9. ASSUME NEW a \in Apps, AppCloses(a) PROVE LockInv'
  <2>1. /\ calls[a] = Idle /\ UNCHANGED <<lock, phase, reported>>
        /\ \E f : CloseStarts(a, f)
    BY <1>9 DEF AppCloses, outVars
  <2> QED  BY <1>7, <2>1 DEF CloseStarts
<1>10. CASE Write \/ PeerSends \/ PeerLeaves
  BY <1>10 DEF Write, PeerSends, PeerLeaves, outVars
<1>11. CASE UNCHANGED vars
  BY <1>11 DEF vars, outVars
<1> QED
  BY <1>1, <1>2, <1>3, <1>5, <1>6, <1>8, <1>9, <1>10, <1>11 DEF SessionStep

-----------------------------------------------------------------------------
(* The Close frame is the last. *)

LEMMA Appended ==
    ASSUME NEW S, NEW s \in Seq(S), NEW e \in S
    PROVE  /\ Append(s, e) \in Seq(S) /\ Len(Append(s, e)) = Len(s) + 1
           /\ Len(s) \in Nat /\ Append(s, e)[Len(s) + 1] = e
           /\ \A i \in 1..Len(s) : Append(s, e)[i] = s[i] /\ s[i] \in S
           /\ DOMAIN s = 1..Len(s) /\ DOMAIN Append(s, e) = 1..(Len(s) + 1)
OBVIOUS

LEMMA Headed ==
    ASSUME NEW S, NEW s \in Seq(S), s # <<>>
    PROVE  /\ Head(s) = s[1] /\ Head(s) \in S
           /\ Tail(s) \in Seq(S) /\ Len(Tail(s)) = Len(s) - 1
           /\ Len(s) \in Nat \ {0} /\ DOMAIN s = 1..Len(s) /\ DOMAIN Tail(s) = 1..(Len(s) - 1)
           /\ \A i \in 1..(Len(s) - 1) : Tail(s)[i] = s[i + 1]
OBVIOUS

LEMMA EmptyWhenShort ==
    ASSUME NEW S, NEW s \in Seq(S), Len(s) = 0
    PROVE  s = <<>>
OBVIOUS

LEMMA AppendedBehind ==
    ASSUME NEW S, NEW s \in Seq(S), NEW t \in Seq(S), NEW e \in S
    PROVE  Append(s \o t, e) = s \o Append(t, e)
OBVIOUS

LEMMA HeadMoves ==
    ASSUME NEW S, NEW s \in Seq(S), NEW t \in Seq(S), t # <<>>
    PROVE  Append(s, Head(t)) \o Tail(t) = s \o t
OBVIOUS

(* A Close frame is the queue's only one when it is written, so that Actix
   discards nothing. *)
LEMMA WriteShape ==
    ASSUME WireTyped, CloseInv, Write
    PROVE  /\ queue # <<>> /\ wire' = Append(wire, Head(queue)) /\ queue' = Tail(queue)
           /\ \A i \in DOMAIN wire : ~IsClose(wire[i])
           /\ IsClose(Head(queue)) => queue' = <<>>
<1>1. queue # <<>> /\ wire' = Append(wire, Head(queue))
  BY DEF Write
<1>2. \A i \in DOMAIN wire : ~IsClose(wire[i])
  BY <1>1 DEF CloseInv
<1>3. ASSUME IsClose(Head(queue)) PROVE Tail(queue) = <<>>
  <2>1. 1 \in DOMAIN queue /\ queue[1] = Head(queue)
    BY <1>1, Headed DEF WireTyped
  <2>2. Len(queue) = 1
    BY <1>3, <2>1 DEF CloseInv
  <2>3. Tail(queue) \in Seq(OutFrames) /\ Len(Tail(queue)) = 0
    BY <1>1, <2>2, Headed DEF WireTyped
  <2> QED  BY <2>3, EmptyWhenShort
<1>4. queue' = Tail(queue)
  <2>1. CASE receiving'
    BY <2>1 DEF Write
  <2>2. CASE ~receiving'
    <3>1. IsClose(Head(queue)) /\ queue' = <<>>
      BY <2>2 DEF Write
    <3> QED  BY <3>1, <1>3
  <2> QED  BY <2>1, <2>2
<1> QED  BY <1>1, <1>2, <1>3, <1>4

LEMMA WriteKeepsClosing ==
    ASSUME WireTyped, CloseInv, Write
    PROVE  /\ Closing' <=> Closing
           /\ \A f : Framed(f)' <=> Framed(f)
<1>1. /\ wire' = Append(wire, Head(queue)) /\ queue' = Tail(queue)
      /\ DOMAIN wire = 1..Len(wire) /\ Len(wire) \in Nat
      /\ DOMAIN wire' = 1..(Len(wire) + 1) /\ wire'[Len(wire) + 1] = queue[1]
      /\ \A i \in 1..Len(wire) : wire'[i] = wire[i]
      /\ Len(queue) \in Nat \ {0} /\ DOMAIN queue = 1..Len(queue)
      /\ DOMAIN queue' = 1..(Len(queue) - 1)
      /\ \A i \in 1..(Len(queue) - 1) : queue'[i] = queue[i + 1]
  <2>1. queue # <<>> /\ wire' = Append(wire, Head(queue)) /\ queue' = Tail(queue)
    BY WriteShape
  <2>2. wire \in Seq(OutFrames) /\ queue \in Seq(OutFrames)
    BY DEF WireTyped
  <2>3. Head(queue) = queue[1] /\ Head(queue) \in OutFrames
    BY <2>1, <2>2, Headed
  <2>4. /\ DOMAIN wire = 1..Len(wire) /\ Len(wire) \in Nat
        /\ DOMAIN wire' = 1..(Len(wire) + 1) /\ wire'[Len(wire) + 1] = queue[1]
        /\ \A i \in 1..Len(wire) : wire'[i] = wire[i]
    BY <2>1, <2>2, <2>3, Appended
  <2>5. /\ Len(queue) \in Nat \ {0} /\ DOMAIN queue = 1..Len(queue)
        /\ DOMAIN queue' = 1..(Len(queue) - 1)
        /\ \A i \in 1..(Len(queue) - 1) : queue'[i] = queue[i + 1]
    BY <2>1, <2>2, Headed
  <2> QED  BY <2>1, <2>4, <2>5
<1>2. ASSUME NEW f
      PROVE  Framed(f)' <=> Framed(f)
  <2>1. ASSUME NEW i \in DOMAIN wire', wire'[i] = f
        PROVE  (\E j \in DOMAIN wire : wire[j] = f) \/ (\E j \in DOMAIN queue : queue[j] = f)
    <3>1. i \in 1..Len(wire) \/ i = Len(wire) + 1
      BY <1>1
    <3>2. 1 \in DOMAIN queue
      BY <1>1
    <3> QED  BY <1>1, <2>1, <3>1, <3>2
  <2>2. ASSUME NEW i \in DOMAIN queue', queue'[i] = f
        PROVE  \E j \in DOMAIN queue : queue[j] = f
    <3>1. i + 1 \in DOMAIN queue
      BY <1>1
    <3> QED  BY <1>1, <2>2, <3>1
  <2>3. ASSUME NEW i \in DOMAIN wire, wire[i] = f
        PROVE  \E j \in DOMAIN wire' : wire'[j] = f
    <3>1. i \in DOMAIN wire'
      BY <1>1
    <3> QED  BY <1>1, <2>3, <3>1
  <2>4. ASSUME NEW i \in DOMAIN queue, queue[i] = f
        PROVE  (\E j \in DOMAIN wire' : wire'[j] = f) \/ (\E j \in DOMAIN queue' : queue'[j] = f)
    <3>1. CASE i = 1
      <4>1. Len(wire) + 1 \in DOMAIN wire'
        BY <1>1
      <4> QED  BY <1>1, <2>4, <3>1, <4>1
    <3>2. CASE i # 1
      <4>1. i - 1 \in 1..(Len(queue) - 1) /\ (i - 1) + 1 = i
        BY <1>1, <3>2
      <4>2. queue'[i - 1] = f
        BY <1>1, <2>4, <4>1
      <4> QED  BY <1>1, <4>1, <4>2
    <3> QED  BY <3>1, <3>2
  <2> QED  BY <2>1, <2>2, <2>3, <2>4 DEF Framed
<1>3. Closing' <=> Closing
  BY <1>2 DEF Closing, ClosedOnWire, Framed
<1> QED  BY <1>2, <1>3

LEMMA PushShape ==
    ASSUME WireTyped, NEW c \in Callers, queue' = Append(queue, calls[c].out), UNCHANGED wire
    PROVE  /\ DOMAIN queue = 1..Len(queue) /\ Len(queue) \in Nat /\ calls[c].out \in OutFrames
           /\ DOMAIN queue' = 1..(Len(queue) + 1) /\ queue'[Len(queue) + 1] = calls[c].out
           /\ \A i \in 1..Len(queue) : queue'[i] = queue[i]
           /\ Closing' <=> Closing \/ IsClose(calls[c].out)
           /\ \A f : Framed(f)' <=> Framed(f) \/ f = calls[c].out
<1>1. calls[c].out \in OutFrames
  BY DEF WireTyped
<1>2. /\ DOMAIN queue = 1..Len(queue) /\ Len(queue) \in Nat
      /\ DOMAIN queue' = 1..(Len(queue) + 1) /\ queue'[Len(queue) + 1] = calls[c].out
      /\ \A i \in 1..Len(queue) : queue'[i] = queue[i]
  BY <1>1, Appended DEF WireTyped
<1>3. ASSUME NEW f PROVE Framed(f)' <=> Framed(f) \/ f = calls[c].out
  <2>1. ASSUME NEW i \in DOMAIN queue, queue[i] = f PROVE \E j \in DOMAIN queue' : queue'[j] = f
    <3>1. i \in DOMAIN queue' /\ queue'[i] = f
      BY <1>2, <2>1
    <3> QED  BY <3>1
  <2>2. ASSUME f = calls[c].out PROVE \E j \in DOMAIN queue' : queue'[j] = f
    <3>1. Len(queue) + 1 \in DOMAIN queue'
      BY <1>2
    <3> QED  BY <1>2, <2>2, <3>1
  <2>3. ASSUME NEW i \in DOMAIN queue', queue'[i] = f
        PROVE  (\E j \in DOMAIN queue : queue[j] = f) \/ f = calls[c].out
    <3>1. i \in 1..Len(queue) \/ i = Len(queue) + 1
      BY <1>2
    <3> QED  BY <1>2, <2>3, <3>1
  <2> QED  BY <2>1, <2>2, <2>3 DEF Framed
<1>4. Closing' <=> Closing \/ IsClose(calls[c].out)
  BY <1>3 DEF Closing, ClosedOnWire, Framed
<1> QED  BY <1>1, <1>2, <1>3, <1>4

(* A step that touches neither the lock nor the frames nor its holder's call. *)
LEMMA CalmStep ==
    ASSUME WireTyped, LockInv, CloseInv,
           UNCHANGED <<adapter, lock, queue, wire, accepted, closed, peer>>,
           \A c \in Callers : calls[c].step = "holding" => calls'[c] = calls[c]
    PROVE  CloseInv'
<1>1. Closing' <=> Closing
  BY DEF Closing
<1>2. lock # Nobody => calls'[lock] = calls[lock]
  BY DEF LockInv, WireTyped
<1> QED  BY <1>1, <1>2 DEF CloseInv, Actix

LEMMA BegunCall ==
    ASSUME WireTyped, NEW c \in Callers, NEW f, calls[c].step = "idle",
           calls' = [calls EXCEPT ![c] = [step |-> "waiting", out |-> f]]
    PROVE  \A d \in Callers : calls[d].step = "holding" => calls'[d] = calls[d]
  BY DEF WireTyped

LEMMA CloseStep ==
    ASSUME SessionTyped, WireTyped, LockInv, CloseInv, SessionStep
    PROVE  CloseInv'
<1> USE Names
<1>1. CASE taskIdle /\ TaskMoves
  <2>1. UNCHANGED <<adapter, lock, queue, wire, accepted, peer>>
    BY <1>1 DEF taskIdle, outVars, peerVars
  <2>2. UNCHANGED closed
    BY <1>1 DEF TaskMoves, Silent, sessionVars, Pongs, SendStarts, SaysClose, CloseStarts, Finish
  <2>3. \A d \in Callers : calls[d].step = "holding" => calls'[d] = calls[d]
    <3>1. CASE Silent \/ Finish
      BY <3>1 DEF Silent, Finish
    <3>2. CASE Pongs
      <4>1. calls["task"].step = "idle"
        BY <3>2 DEF LockInv, Pongs, Goes, Idle
      <4> QED  BY <3>2, <4>1, BegunCall DEF Pongs, SendStarts
    <3>3. CASE SaysClose
      <4>1. calls["task"].step = "idle"
        BY <3>3 DEF LockInv, SaysClose, Idle
      <4> QED  BY <3>3, <4>1, BegunCall DEF SaysClose, CloseStarts
    <3> QED  BY <1>1, <3>1, <3>2, <3>3 DEF TaskMoves
  <2> QED  BY <2>1, <2>2, <2>3, CalmStep
<1>2. CASE CallbackPanics
  BY <1>2, CalmStep DEF CallbackPanics, taskIdle, Silent, outVars, peerVars, sessionVars
<1>3. ASSUME NEW c \in Callers, Acquire(c) PROVE CloseInv'
  <2>1. /\ lock = Nobody /\ calls[c].step = "waiting"
        /\ UNCHANGED <<adapter, queue, wire, accepted, peer>>
    BY <1>3 DEF Acquire, peerVars
  <2>2. CASE Actix /\ closed
    <3>1. UNCHANGED <<lock, closed>>
      BY <1>3, <2>2 DEF Acquire
    <3>2. \A d \in Callers : calls[d].step = "holding" => calls'[d] = calls[d]
      BY <2>1 DEF LockInv
    <3> QED  BY <2>1, <3>1, <3>2, CalmStep
  <2>3. CASE ~(Actix /\ closed)
    <3>1. /\ lock' = c /\ calls'[c].out = calls[c].out
          /\ closed' = (closed \/ (Actix /\ IsClose(calls[c].out)))
      BY <1>3, <2>3 DEF Acquire, WireTyped
    <3>2. Closing' <=> Closing
      BY <2>1 DEF Closing
    <3>3. ~(Actix /\ Closing)
      BY <2>3 DEF CloseInv
    <3>4. Actix => (closed' <=> IsClose(calls'[lock'].out))
      BY <2>3, <3>1
    <3> QED  BY <2>1, <3>2, <3>3, <3>4 DEF CloseInv, Actix
  <2> QED  BY <2>2, <2>3
<1>4. ASSUME NEW c \in Callers, Push(c) PROVE CloseInv'
  <2>1. /\ lock = c /\ lock' = Nobody /\ lock # Nobody
        /\ UNCHANGED <<adapter, wire, peer, closed>>
    BY <1>4 DEF Push, LockInv, peerVars
  <2>2. CASE ~Actix /\ Closing
    <3>1. UNCHANGED <<queue, accepted>>
      BY <1>4, <2>2 DEF Push
    <3> QED  BY <2>1, <2>2, <3>1 DEF CloseInv, Actix
  <2>3. CASE ~(~Actix /\ Closing)
    <3>1. queue' = Append(queue, calls[c].out) /\ accepted' = Append(accepted, calls[c].out)
      BY <1>4, <2>3 DEF Push
    <3>2. ~Closing
      BY <2>1, <2>3 DEF CloseInv
    <3>3. /\ \A i \in DOMAIN wire : ~IsClose(wire[i])
          /\ \A i \in DOMAIN queue : ~IsClose(queue[i])
      BY <3>2 DEF Closing, ClosedOnWire
    <3>4. \A i \in DOMAIN queue' : IsClose(queue'[i]) => i = Len(queue')
      <4>1. Len(queue') = Len(queue) + 1
        BY <3>1, <2>1, Appended DEF WireTyped
      <4> QED  BY <2>1, <3>1, <3>3, <4>1, PushShape
    <3>5. Actix /\ Closing' => closed'
      BY <2>1, <3>1, <3>2, PushShape DEF CloseInv
    <3>6. peer' = "up" => accepted' = wire' \o queue'
      <4>1. wire \in Seq(OutFrames) /\ queue \in Seq(OutFrames) /\ calls[c].out \in OutFrames
        BY DEF WireTyped
      <4>2. Append(wire \o queue, calls[c].out) = wire \o Append(queue, calls[c].out)
        <5> DEFINE e == calls[c].out
        <5>1. e \in OutFrames
          BY <4>1
        <5> HIDE DEF e
        <5> SUFFICES Append(wire \o queue, e) = wire \o Append(queue, e)
          BY DEF e
        <5> QED  BY ONLY <4>1, <5>1
      <4>3. peer = "up" => accepted = wire \o queue
        BY DEF CloseInv
      <4> QED  BY <2>1, <3>1, <4>2, <4>3
    <3>7. \A i \in DOMAIN wire' : ~IsClose(wire'[i])
      BY <2>1, <3>3
    <3> QED  BY <2>1, <3>4, <3>5, <3>6, <3>7 DEF CloseInv, Actix
  <2> QED  BY <2>2, <2>3
<1>5. ASSUME NEW c \in Callers, PushFails(c) PROVE CloseInv'
  <2>1. /\ lock = c /\ lock' = Nobody /\ lock # Nobody
        /\ UNCHANGED <<adapter, wire, queue, accepted, peer, closed>>
    BY <1>5 DEF PushFails, LockInv, peerVars
  <2>2. Closing' <=> Closing
    BY <2>1 DEF Closing
  <2> QED  BY <2>1, <2>2 DEF CloseInv, Actix
<1>6. ASSUME NEW a \in Apps, AppSends(a) PROVE CloseInv'
  <2>1. \A d \in Callers : calls[d].step = "holding" => calls'[d] = calls[d]
    BY <1>6, BegunCall DEF AppSends, SendStarts, Idle
  <2> QED  BY <1>6, <2>1, CalmStep DEF AppSends, SendStarts, outVars, peerVars, sessionVars
<1>7. ASSUME NEW a \in Apps, AppCloses(a) PROVE CloseInv'
  <2>1. PICK f \in {"none", "app", "unsendable"} : CloseStarts(a, f)
    BY <1>7 DEF AppCloses
  <2>2. \A d \in Callers : calls[d].step = "holding" => calls'[d] = calls[d]
    BY <1>7, <2>1, BegunCall DEF AppCloses, CloseStarts, Idle
  <2> QED  BY <1>7, <2>1, <2>2, CalmStep DEF AppCloses, CloseStarts, outVars, peerVars
<1>8. CASE Write
  <2>1. UNCHANGED <<adapter, lock, calls, accepted, closed, peer>> /\ peer = "up"
    BY <1>8 DEF Write, peerVars, sessionVars
  <2>2. Closing' <=> Closing
    BY <1>8, WriteKeepsClosing
  <2>3. /\ queue # <<>> /\ wire' = Append(wire, Head(queue)) /\ queue' = Tail(queue)
        /\ \A i \in DOMAIN wire : ~IsClose(wire[i])
        /\ IsClose(Head(queue)) => queue' = <<>>
    BY <1>8, WriteShape
  <2>4. wire \in Seq(OutFrames) /\ queue \in Seq(OutFrames)
    BY DEF WireTyped
  <2>5. \A i \in DOMAIN wire' : IsClose(wire'[i]) => i = Len(wire') /\ queue' = <<>>
    <3>1. Head(queue) \in OutFrames
      BY <2>3, <2>4, Headed
    <3>2. /\ DOMAIN wire = 1..Len(wire) /\ Len(wire) \in Nat
          /\ DOMAIN wire' = 1..(Len(wire) + 1) /\ wire'[Len(wire) + 1] = Head(queue)
          /\ Len(wire') = Len(wire) + 1
          /\ \A i \in 1..Len(wire) : wire'[i] = wire[i]
      BY <2>3, <2>4, <3>1, Appended
    <3> QED  BY <2>3, <3>2
  <2>6. \A i \in DOMAIN queue' : IsClose(queue'[i]) => i = Len(queue')
    <3>1. /\ Len(queue) \in Nat \ {0} /\ DOMAIN queue = 1..Len(queue)
          /\ DOMAIN queue' = 1..(Len(queue) - 1) /\ Len(queue') = Len(queue) - 1
          /\ \A i \in 1..(Len(queue) - 1) : queue'[i] = queue[i + 1]
      BY <2>3, <2>4, Headed
    <3>2. ASSUME NEW i \in 1..(Len(queue) - 1), IsClose(queue[i + 1]) PROVE i = Len(queue) - 1
      <4>1. i + 1 \in DOMAIN queue
        BY <3>1
      <4>2. i + 1 = Len(queue)
        BY <3>2, <4>1 DEF CloseInv
      <4>3. i \in Int /\ Len(queue) \in Int
        BY <3>1
      <4> QED  BY <4>2, <4>3
    <3> QED  BY <3>1, <3>2
  <2>7. peer' = "up" => accepted' = wire' \o queue'
    BY <2>1, <2>3, <2>4, HeadMoves DEF CloseInv
  <2> QED  BY <2>1, <2>2, <2>5, <2>6, <2>7 DEF CloseInv, Actix
<1>9. CASE PeerSends
  <2>1. \A d \in Callers : calls[d].step = "holding" => calls'[d] = calls[d]
    BY <1>9 DEF PeerSends
  <2> QED  BY <1>9, <2>1, CalmStep DEF PeerSends, outVars, sessionVars
<1>10. CASE PeerLeaves
  <2>1. /\ UNCHANGED <<adapter, lock, calls, wire, accepted, closed>>
        /\ queue' = <<>> /\ peer' = "gone"
    BY <1>10 DEF PeerLeaves, sessionVars
  <2>2. DOMAIN queue' = {}
    BY <2>1
  <2>3. Closing' => Closing
    BY <2>1, <2>2 DEF Closing, ClosedOnWire
  <2> QED  BY <2>1, <2>2, <2>3 DEF CloseInv, Actix
<1>11. CASE UNCHANGED vars
  <2>1. \A d \in Callers : calls[d].step = "holding" => calls'[d] = calls[d]
    BY <1>11 DEF vars
  <2> QED  BY <1>11, <2>1, CalmStep DEF vars, outVars, sessionVars, peerVars
<1> QED
  BY <1>1, <1>2, <1>3, <1>4, <1>5, <1>6, <1>7, <1>8, <1>9, <1>10, <1>11 DEF SessionStep

-----------------------------------------------------------------------------
(* What on_close may be told. *)

Calling(c, f) == calls[c].step # "idle" /\ calls[c].out = f

LEMMA KnownMembers ==
    \A f : f \in Known <=> f \in dropped \/ Framed(f) \/ \E c \in Callers : Calling(c, f)
  BY DEF Known, OnTheirWay, Framed, Calling

LEMMA KnownMembersNext ==
    \A f : f \in Known' <=> f \in dropped' \/ Framed(f)' \/ \E c \in Callers : Calling(c, f)'
  BY DEF Known, OnTheirWay, Framed, Calling

(* A call that ends without sending its Close frame has dropped it. *)
LEMMA ReturnsKnown ==
    ASSUME WireTyped, NEW c \in Callers, NEW ok, NEW sends, Returns(c, ok, sends)
    PROVE  /\ dropped \subseteq dropped'
           /\ \A d \in Callers \ {c} : calls'[d] = calls[d]
           /\ calls'[c] = Idle
           /\ IsClose(calls[c].out) /\ ~sends => calls[c].out \in dropped'
           /\ sends \/ ~IsClose(calls[c].out) => dropped' = dropped
  BY DEF Returns, WireTyped

(* What is known stays known while the peer is there. *)
LEMMA KnownKept ==
    ASSUME SessionTyped, WireTyped, LockInv, CloseInv, SessionStep, peer' = "up",
           NEW f \in CloseFrames, f \in Known
    PROVE  f \in Known'
<1> USE Names
<1>1. ASSUME NEW c \in Callers, calls[c].step = "idle", UNCHANGED <<wire, queue>>,
             dropped \subseteq dropped', \A d \in Callers \ {c} : calls'[d] = calls[d]
      PROVE  f \in Known'
  <2>1. Framed(f)' <=> Framed(f)
    BY <1>1 DEF Framed
  <2>2. \A d \in Callers : Calling(d, f) => Calling(d, f)'
    BY <1>1 DEF Calling
  <2> QED  BY <1>1, <2>1, <2>2, KnownMembers, KnownMembersNext
<1>2. ASSUME UNCHANGED <<calls, wire, queue>>, dropped \subseteq dropped' PROVE f \in Known'
  <2>1. Framed(f)' <=> Framed(f)
    BY <1>2 DEF Framed
  <2>2. \A d \in Callers : Calling(d, f) => Calling(d, f)'
    BY <1>2 DEF Calling
  <2> QED  BY <1>2, <2>1, <2>2, KnownMembers, KnownMembersNext
<1>3. ASSUME NEW c \in Callers, NEW ok, Returns(c, ok, FALSE), UNCHANGED <<wire, queue>>
      PROVE  f \in Known'
  <2>1. Framed(f)' <=> Framed(f)
    BY <1>3 DEF Framed
  <2>2. \A d \in Callers : Calling(d, f) => Calling(d, f)' \/ f \in dropped'
    BY <1>3, ReturnsKnown DEF Calling, IsClose
  <2> QED  BY <1>3, <2>1, <2>2, ReturnsKnown, KnownMembers, KnownMembersNext
<1>4. CASE taskIdle /\ TaskMoves
  <2>1. UNCHANGED <<wire, queue>>
    BY <1>4 DEF taskIdle, outVars
  <2>2. CASE Silent \/ Finish
    BY <1>2, <2>1, <2>2 DEF Silent, Finish
  <2>3. CASE Pongs
    BY <1>1, <2>1, <2>3 DEF LockInv, Pongs, SendStarts, Goes, Idle, WireTyped
  <2>4. CASE SaysClose
    BY <1>1, <2>1, <2>4 DEF LockInv, SaysClose, CloseStarts, Idle, WireTyped
  <2> QED  BY <1>4, <2>2, <2>3, <2>4 DEF TaskMoves
<1>5. CASE CallbackPanics \/ PeerSends \/ UNCHANGED vars
  BY <1>2, <1>5 DEF CallbackPanics, taskIdle, Silent, outVars, PeerSends, vars
<1>6. ASSUME NEW c \in Callers, Acquire(c) PROVE f \in Known'
  <2>1. UNCHANGED <<wire, queue>>
    BY <1>6 DEF Acquire
  <2>2. CASE Returns(c, FALSE, FALSE)
    BY <1>3, <2>1, <2>2
  <2>3. CASE calls' = [calls EXCEPT ![c].step = "holding"] /\ UNCHANGED dropped
    <3>1. Framed(f)' <=> Framed(f)
      BY <2>1 DEF Framed
    <3>2. \A d \in Callers : Calling(d, f) => Calling(d, f)'
      BY <2>3 DEF Calling, WireTyped
    <3> QED  BY <2>3, <3>1, <3>2, KnownMembers, KnownMembersNext
  <2> QED  BY <1>6, <2>2, <2>3 DEF Acquire
<1>7. ASSUME NEW c \in Callers, Push(c) PROVE f \in Known'
  <2>1. CASE ~Actix /\ Closing
    BY <1>3, <1>7, <2>1 DEF Push
  <2>2. CASE ~(~Actix /\ Closing)
    <3>1. queue' = Append(queue, calls[c].out) /\ UNCHANGED wire /\ Returns(c, TRUE, TRUE)
      BY <1>7, <2>2 DEF Push
    <3>2. Framed(f)' <=> Framed(f) \/ f = calls[c].out
      BY <3>1, PushShape
    <3>3. \A d \in Callers : Calling(d, f) => Calling(d, f)' \/ f = calls[c].out
      BY <3>1, ReturnsKnown DEF Calling
    <3> QED  BY <3>1, <3>2, <3>3, ReturnsKnown, KnownMembers, KnownMembersNext
  <2> QED  BY <2>1, <2>2
<1>8. ASSUME NEW c \in Callers, PushFails(c) PROVE f \in Known'
  BY <1>3, <1>8 DEF PushFails
<1>9. ASSUME NEW a \in Apps, AppSends(a) PROVE f \in Known'
  BY <1>1, <1>9 DEF AppSends, SendStarts, outVars, Idle, WireTyped
<1>10. ASSUME NEW a \in Apps, AppCloses(a) PROVE f \in Known'
  <2>1. PICK g : CloseStarts(a, g)
    BY <1>10 DEF AppCloses
  <2>2. calls[a].step = "idle" /\ UNCHANGED <<wire, queue>>
    BY <1>10 DEF AppCloses, outVars, Idle
  <2>3. dropped \subseteq dropped' /\ \A d \in Callers \ {a} : calls'[d] = calls[d]
    BY <2>1 DEF CloseStarts, WireTyped
  <2> QED  BY <1>1, <2>2, <2>3
<1>11. CASE Write
  <2>1. Framed(f)' <=> Framed(f)
    BY <1>11, WriteKeepsClosing
  <2>2. UNCHANGED <<calls, dropped>>
    BY <1>11 DEF Write
  <2>3. \A d \in Callers : Calling(d, f) => Calling(d, f)'
    BY <2>2 DEF Calling
  <2> QED  BY <2>1, <2>2, <2>3, KnownMembers, KnownMembersNext
<1>12. CASE PeerLeaves
  BY <1>12 DEF PeerLeaves
<1> QED
  BY <1>4, <1>5, <1>6, <1>7, <1>8, <1>9, <1>10, <1>11, <1>12 DEF SessionStep

(* The frame a close call keeps is known from then on. *)
LEMMA CloseStartsKnown ==
    ASSUME WireTyped, NEW c \in Callers, NEW f \in CloseFrames, CloseStarts(c, f),
           Actix \/ f # "unsendable"
    PROVE  f \in Known'
<1>1. CASE Actix /\ f = "unsendable"
  BY <1>1, KnownMembersNext DEF CloseStarts
<1>2. CASE f # "unsendable"
  <2>1. calls' = [calls EXCEPT ![c] = [step |-> "waiting", out |-> f]]
    BY <1>2 DEF CloseStarts, Sendable
  <2>2. Calling(c, f)'
    BY <2>1 DEF Calling, WireTyped
  <2> QED  BY <2>2, KnownMembersNext
<1> QED  BY <1>1, <1>2

(* When a call of run_connection returns, the loop goes on or finishes. *)
LEMMA ReturnsPhase ==
    ASSUME WireTyped, LockInv, NEW c \in Callers, NEW ok, NEW sends,
           calls[c].step # "idle", Returns(c, ok, sends)
    PROVE  \/ phase' = phase
           \/ phase = "pong" /\ phase' \in {"check", "finish"}
           \/ phase = "close" /\ phase' = "finish"
  BY DEF Returns, LockInv, Idle

LEMMA KnownStep ==
    ASSUME SessionTyped, WireTyped, LockInv, CloseInv, KnownInv, SessionStep
    PROVE  KnownInv'
<1> USE Names
<1> SUFFICES ASSUME peer' = "up"
             PROVE  /\ phase' \in {"close", "finish", "onClose", "done"}
                           => reported' \in {"none"} \cup Known'
                    /\ Actix => slot' \in {"none"} \cup Known'
  <2>1. Actix' <=> Actix
    BY DEF SessionStep, taskIdle, CallbackPanics, Acquire, Push, PushFails, AppSends, AppCloses,
           Write, PeerSends, PeerLeaves, vars, Actix
  <2> QED  BY <2>1 DEF KnownInv
<1>1. peer = "up"
  BY DEF SessionStep, taskIdle, CallbackPanics, Acquire, Push, PushFails, AppSends, AppCloses,
         Write, PeerSends, PeerLeaves, vars, peerVars
<1>2. /\ phase \in {"close", "finish", "onClose", "done"} => reported \in {"none"} \cup Known'
      /\ Actix => slot \in {"none"} \cup Known'
  BY <1>1, KnownKept DEF KnownInv, SessionTyped
<1>3. phase \in Active \cup {"lost"} => reported = "none"
  BY DEF LockInv
<1>4. CASE taskIdle /\ TaskMoves
  <2>1. CASE Silent /\ (Walks \/ Errs \/ Notices \/ Loses \/ Rests)
    BY <2>1, <1>2, <1>3 DEF Silent, sessionVars, Walks, Errs, Notices, Loses, Rests, Goes, Active
  <2>2. CASE Pongs
    BY <2>2, <1>2 DEF Pongs, Goes, SendStarts, sessionVars
  <2>3. CASE SaysClose
    <3>1. reported' \in CloseFrames /\ reported' # "unsendable"
      BY <2>3 DEF SaysClose, ErrorCodes, CloseFrames
    <3>2. reported' \in Known' /\ slot' = reported'
      BY <2>3, <3>1, CloseStartsKnown DEF SaysClose, CloseStarts
    <3> QED  BY <3>2
  <2>4. CASE Finish
    BY <2>4, <1>2 DEF Finish
  <2> QED  BY <1>4, <2>1, <2>2, <2>3, <2>4 DEF TaskMoves
<1>5. CASE CallbackPanics
  BY <1>5, <1>2 DEF CallbackPanics, Silent, sessionVars
<1>6. ASSUME NEW c \in Callers, NEW ok, NEW sends, calls[c].step # "idle", Returns(c, ok, sends),
             UNCHANGED <<reported, slot>>
      PROVE  /\ phase' \in {"close", "finish", "onClose", "done"} => reported' \in {"none"} \cup Known'
             /\ Actix => slot' \in {"none"} \cup Known'
  BY <1>6, <1>2, <1>3, ReturnsPhase DEF Active
<1>7. ASSUME NEW c \in Callers, Acquire(c) \/ Push(c) \/ PushFails(c)
      PROVE  /\ phase' \in {"close", "finish", "onClose", "done"} => reported' \in {"none"} \cup Known'
             /\ Actix => slot' \in {"none"} \cup Known'
  <2>1. calls[c].step # "idle" /\ UNCHANGED <<reported, slot>>
    BY <1>7 DEF Acquire, Push, PushFails
  <2>2. UNCHANGED phase \/ \E ok, sends : Returns(c, ok, sends)
    BY <1>7 DEF Acquire, Push, PushFails
  <2> QED  BY <2>1, <2>2, <1>2, <1>6
<1>8. ASSUME NEW a \in Apps, AppSends(a)
      PROVE  /\ phase' \in {"close", "finish", "onClose", "done"} => reported' \in {"none"} \cup Known'
             /\ Actix => slot' \in {"none"} \cup Known'
  BY <1>8, <1>2 DEF AppSends, SendStarts, sessionVars
<1>9. ASSUME NEW a \in Apps, AppCloses(a)
      PROVE  /\ phase' \in {"close", "finish", "onClose", "done"} => reported' \in {"none"} \cup Known'
             /\ Actix => slot' \in {"none"} \cup Known'
  <2>1. PICK f \in {"none", "app", "unsendable"} : CloseStarts(a, f)
    BY <1>9 DEF AppCloses
  <2>2. UNCHANGED <<phase, reported>> /\ slot' = f /\ f \in CloseFrames
    BY <1>9, <2>1 DEF AppCloses, CloseStarts, CloseFrames
  <2>3. Actix => f \in Known'
    BY <2>1, <2>2, CloseStartsKnown
  <2> QED  BY <1>2, <2>2, <2>3
<1>10. CASE Write \/ PeerSends \/ PeerLeaves \/ UNCHANGED vars
  BY <1>10, <1>2 DEF Write, PeerSends, PeerLeaves, vars, sessionVars
<1> QED
  BY <1>4, <1>5, <1>7, <1>8, <1>9, <1>10 DEF SessionStep

-----------------------------------------------------------------------------
(* On Actix the loop and the session speak of the frame on the wire. *)

LEMMA Sources ==
    /\ \A c : c \in PendingCloses <=> c \in Callers /\ \E f \in CloseFrames : Calling(c, f)
    /\ Closing <=> \E f \in CloseFrames : Framed(f)
    /\ \A c, f : Calling(c, f) => calls[c].out = f
<1>1. \A c : c \in PendingCloses <=> c \in Callers /\ \E f \in CloseFrames : Calling(c, f)
  BY DEF PendingCloses, Calling, IsClose
<1>2. Closing <=> \E f \in CloseFrames : Framed(f)
  BY DEF Closing, ClosedOnWire, Framed, IsClose
<1> QED  BY <1>1, <1>2 DEF Calling

LEMMA SourcesNext ==
    /\ \A c : c \in PendingCloses' <=> c \in Callers /\ \E f \in CloseFrames : Calling(c, f)'
    /\ Closing' <=> \E f \in CloseFrames : Framed(f)'
<1>1. \A c : c \in PendingCloses' <=> c \in Callers /\ \E f \in CloseFrames : Calling(c, f)'
  BY DEF PendingCloses, Calling, IsClose
<1>2. Closing' <=> \E f \in CloseFrames : Framed(f)'
  BY DEF Closing, ClosedOnWire, Framed, IsClose
<1> QED  BY <1>1, <1>2

(* The same calls close, and the same frames are under way. *)
LEMMA SameSources ==
    ASSUME \A d \in Callers : \A f \in CloseFrames : Calling(d, f)' <=> Calling(d, f),
           \A f \in CloseFrames : Framed(f)' <=> Framed(f)
    PROVE  /\ PendingCloses' = PendingCloses
           /\ Closing' <=> Closing
           /\ \A f \in CloseFrames : SoleClose(f)' <=> SoleClose(f)
<1>1. /\ \A c : c \in PendingCloses' <=> c \in PendingCloses
      /\ Closing' <=> Closing
  BY Sources, SourcesNext
<1>2. PendingCloses' = PendingCloses
  BY <1>1
<1>3. ASSUME NEW f \in CloseFrames PROVE SoleClose(f)' <=> SoleClose(f)
  <2>1. \A c : PendingCloses = {c} => (calls[c].out = f <=> Calling(c, f))
    BY DEF PendingCloses, Calling
  <2>2. \A c : PendingCloses' = {c} => (calls'[c].out = f <=> Calling(c, f)')
    BY DEF PendingCloses, Calling
  <2> QED  BY <1>1, <1>2, <2>1, <2>2 DEF SoleClose
<1> QED  BY <1>1, <1>2, <1>3

LEMMA StillUndisturbed ==
    ASSUME SessionTyped, WireTyped, SessionStep, Undisturbed'
    PROVE  Undisturbed
<1>1. adapter' = adapter /\ peer = "up"
  BY DEF SessionStep, taskIdle, CallbackPanics, Acquire, Push, PushFails, AppSends, AppCloses,
         Write, PeerSends, PeerLeaves, vars, peerVars, Undisturbed
<1>2. dropped \subseteq dropped'
  <2>1. ASSUME NEW c \in Callers, Acquire(c) \/ Push(c) \/ PushFails(c) PROVE dropped \subseteq dropped'
    BY <2>1, ReturnsKnown DEF Acquire, Push, PushFails
  <2>2. ASSUME NEW c, NEW f, CloseStarts(c, f) PROVE dropped \subseteq dropped'
    BY <2>2 DEF CloseStarts
  <2>3. CASE taskIdle /\ TaskMoves
    BY <2>2, <2>3 DEF TaskMoves, Silent, Pongs, SendStarts, SaysClose, Finish
  <2>4. ASSUME NEW a \in Apps, AppSends(a) \/ AppCloses(a) PROVE dropped \subseteq dropped'
    BY <2>2, <2>4 DEF AppSends, SendStarts, AppCloses
  <2>5. CASE CallbackPanics \/ Write \/ PeerSends \/ PeerLeaves \/ UNCHANGED vars
    BY <2>5 DEF CallbackPanics, Silent, Write, PeerSends, PeerLeaves, vars
  <2> QED  BY <2>1, <2>3, <2>4, <2>5 DEF SessionStep
<1> QED  BY <1>1, <1>2 DEF Undisturbed, Actix

LEMMA AgreeStep ==
    ASSUME SessionTyped, WireTyped, LockInv, CloseInv, AgreeInv, SessionStep
    PROVE  AgreeInv'
<1> USE Names
<1> DEFINE Quiet == PendingCloses = {} /\ ~Closing =>
               /\ open /\ ~closed /\ receiving /\ slot = "none"
               /\ phase \in Active \cup {"error", "panicked"}
           Agreement == \A f \in CloseFrames : SoleClose(f) => Agreed(f)
<1> SUFFICES ASSUME Undisturbed' PROVE Quiet' /\ Agreement'
  BY DEF AgreeInv
<1>1. Undisturbed /\ Actix /\ peer = "up" /\ dropped' = {} /\ dropped = {}
  BY StillUndisturbed DEF Undisturbed
<1>2. Quiet /\ Agreement
  BY <1>1 DEF AgreeInv
<1>3. phase \in Active \cup {"lost"} => reported = "none"
  BY DEF LockInv
<1>4. ASSUME UNCHANGED <<calls, wire, queue>>
      PROVE  /\ PendingCloses' = PendingCloses /\ (Closing' <=> Closing)
             /\ \A f \in CloseFrames : SoleClose(f)' <=> SoleClose(f)
  <2>1. \A d \in Callers : \A f \in CloseFrames : Calling(d, f)' <=> Calling(d, f)
    BY <1>4 DEF Calling
  <2>2. \A f \in CloseFrames : Framed(f)' <=> Framed(f)
    BY <1>4 DEF Framed
  <2> QED  BY <2>1, <2>2, SameSources
<1>5. ASSUME NEW c \in Callers, NEW f, calls[c].step = "idle", ~IsClose(f), UNCHANGED <<wire, queue>>,
             calls' = [calls EXCEPT ![c] = [step |-> "waiting", out |-> f]]
      PROVE  /\ PendingCloses' = PendingCloses /\ (Closing' <=> Closing)
             /\ \A g \in CloseFrames : SoleClose(g)' <=> SoleClose(g)
  <2>1. \A d \in Callers : \A g \in CloseFrames : Calling(d, g)' <=> Calling(d, g)
    BY <1>5 DEF Calling, WireTyped, IsClose
  <2>2. \A g \in CloseFrames : Framed(g)' <=> Framed(g)
    BY <1>5 DEF Framed
  <2> QED  BY <2>1, <2>2, SameSources
<1>6. ASSUME NEW c \in Callers, NEW f \in CloseFrames, calls[c].step = "idle",
             UNCHANGED <<wire, queue>>,
             calls' = [calls EXCEPT ![c] = [step |-> "waiting", out |-> f]]
      PROVE  /\ PendingCloses' # {}
             /\ \A g \in CloseFrames : SoleClose(g)' => g = f /\ PendingCloses = {} /\ ~Closing
  <2>1. c \in PendingCloses' /\ calls'[c].out = f
    BY <1>6 DEF PendingCloses, WireTyped, IsClose
  <2>2. \A d \in Callers \ {c} : d \in PendingCloses' <=> d \in PendingCloses
    BY <1>6 DEF PendingCloses, WireTyped
  <2>3. c \notin PendingCloses /\ PendingCloses \subseteq Callers
    BY <1>6 DEF PendingCloses
  <2>4. Closing' <=> Closing
    BY <1>6 DEF Closing
  <2>5. ASSUME NEW g \in CloseFrames, SoleClose(g)' PROVE g = f /\ PendingCloses = {} /\ ~Closing
    <3>1. PICK d \in Callers : PendingCloses' = {d} /\ calls'[d].out = g /\ ~Closing'
      BY <2>1, <2>5 DEF SoleClose
    <3>2. d = c
      BY <2>1, <3>1
    <3>3. PendingCloses = {}
      BY <2>2, <2>3, <3>1, <3>2
    <3> QED  BY <2>1, <2>4, <3>1, <3>2, <3>3
  <2> QED  BY <2>1, <2>5
<1> HIDE DEF Agreement, Quiet
<1>7. CASE taskIdle /\ TaskMoves
  <2>1. UNCHANGED <<wire, queue, receiving>>
    BY <1>7 DEF taskIdle, outVars
  <2>2. CASE Silent /\ (Walks \/ Errs \/ Notices \/ Loses \/ Rests)
    <3>1. UNCHANGED <<calls, open, slot, closed>>
      BY <2>2 DEF Silent, sessionVars
    <3>2. Quiet'
      BY <1>1, <1>2, <1>4, <2>1, <2>2, <3>1 DEF Quiet, Walks, Errs, Notices, Loses, Rests, Goes, Active
    <3>3. \A f \in CloseFrames : Agreed(f) => Agreed(f)'
      BY <1>1, <1>3, <2>2, <3>1 DEF Agreed, Walks, Errs, Notices, Loses, Rests, Goes, Active
    <3> QED  BY <1>2, <1>4, <2>1, <3>1, <3>2, <3>3 DEF Agreement
  <2>3. CASE Pongs
    <3>1. /\ calls' = [calls EXCEPT !["task"] = [step |-> "waiting", out |-> "pong"]]
          /\ UNCHANGED <<open, slot, closed, reported>> /\ phase = "receive" /\ phase' = "pong"
      BY <2>3 DEF Pongs, SendStarts, Goes, sessionVars
    <3>2. calls["task"].step = "idle" /\ ~IsClose("pong")
      BY <3>1 DEF LockInv, Idle, IsClose, CloseFrames
    <3>3. /\ PendingCloses' = PendingCloses /\ (Closing' <=> Closing)
          /\ \A g \in CloseFrames : SoleClose(g)' <=> SoleClose(g)
      BY <1>5, <2>1, <3>1, <3>2
    <3>4. Quiet'
      BY <1>2, <2>1, <3>1, <3>3 DEF Quiet, Active
    <3>5. \A f \in CloseFrames : Agreed(f) => Agreed(f)'
      BY <3>1 DEF Agreed, Active
    <3> QED  BY <1>2, <3>3, <3>4, <3>5 DEF Agreement
  <2>4. CASE SaysClose
    <3>1. reported' \in CloseFrames /\ reported' # "unsendable"
      BY <2>4 DEF SaysClose, ErrorCodes, CloseFrames
    <3>2. /\ calls' = [calls EXCEPT !["task"] = [step |-> "waiting", out |-> reported']]
          /\ slot' = reported' /\ phase \in {"receive", "error"} /\ phase' = "close"
      BY <2>4, <3>1 DEF SaysClose, CloseStarts, Sendable
    <3>3. calls["task"].step = "idle"
      BY <3>2 DEF LockInv, Idle
    <3>4. PendingCloses' # {} /\ \A g \in CloseFrames : SoleClose(g)' => g = reported'
      BY <1>6, <2>1, <3>1, <3>2, <3>3
    <3>5. Agreed(reported)'
      BY <3>2 DEF Agreed, Active
    <3> QED  BY <3>4, <3>5 DEF Quiet, Agreement
  <2>5. CASE Finish
    <3>1. /\ UNCHANGED calls /\ phase = "finish" /\ phase' = "onClose"
          /\ reported' = IF reported = "none" THEN slot ELSE reported
      BY <1>1, <2>5 DEF Finish
    <3>2. ~(PendingCloses = {} /\ ~Closing)
      BY <1>2, <3>1 DEF Quiet, Active
    <3>3. Quiet'
      BY <1>4, <2>1, <3>1, <3>2 DEF Quiet
    <3>4. \A f \in CloseFrames : Agreed(f) => Agreed(f)'
      BY <3>1 DEF Agreed, Active
    <3> QED  BY <1>2, <1>4, <2>1, <3>1, <3>3, <3>4 DEF Agreement
  <2> QED  BY <1>7, <2>2, <2>3, <2>4, <2>5 DEF TaskMoves
<1>8. CASE CallbackPanics
  <2>1. UNCHANGED <<calls, wire, queue, receiving, open, slot, closed>> /\ phase' = "panicked"
    BY <1>8 DEF CallbackPanics, taskIdle, Silent, outVars, sessionVars
  <2>2. Quiet' /\ \A f : Agreed(f)'
    BY <1>2, <1>4, <2>1 DEF Quiet, Agreed, Active
  <2> QED  BY <2>2 DEF Agreement
<1>9. ASSUME NEW c \in Callers, NEW ok, NEW sends, calls[c].step # "idle", Returns(c, ok, sends),
             ~IsClose(calls[c].out), UNCHANGED wire,
             UNCHANGED queue \/ queue' = Append(queue, calls[c].out)
      PROVE  /\ PendingCloses' = PendingCloses /\ (Closing' <=> Closing)
             /\ \A g \in CloseFrames : SoleClose(g)' <=> SoleClose(g)
  <2>1. calls'[c].step = "idle" /\ \A d \in Callers \ {c} : calls'[d] = calls[d]
    BY <1>9, ReturnsKnown DEF Idle
  <2>2. \A d \in Callers : \A g \in CloseFrames : Calling(d, g)' <=> Calling(d, g)
    BY <1>9, <2>1 DEF Calling, IsClose
  <2>3. ASSUME UNCHANGED queue PROVE \A g \in CloseFrames : Framed(g)' <=> Framed(g)
    BY <1>9, <2>3 DEF Framed
  <2>4. ASSUME queue' = Append(queue, calls[c].out)
        PROVE  \A g \in CloseFrames : Framed(g)' <=> Framed(g)
    BY <1>9, <2>4, PushShape DEF IsClose
  <2> QED  BY <1>9, <2>2, <2>3, <2>4, SameSources
<1>10. ASSUME NEW c \in Callers, NEW ok, NEW sends, calls[c].step # "idle", Returns(c, ok, sends),
              UNCHANGED <<reported, slot>>
       PROVE  \A f : Agreed(f) => Agreed(f)'
  BY <1>3, <1>10, ReturnsPhase DEF Agreed, Active
<1>11. ASSUME NEW c \in Callers, Acquire(c) PROVE Quiet' /\ Agreement'
  <2>1. /\ calls[c].step = "waiting" /\ calls[c].step # "idle"
        /\ UNCHANGED <<wire, queue, receiving, open, slot, reported>>
    BY <1>11 DEF Acquire
  <2>2. CASE closed
    <3>1. Returns(c, FALSE, FALSE) /\ UNCHANGED closed
      BY <1>1, <1>11, <2>2 DEF Acquire
    <3>2. ~IsClose(calls[c].out)
      BY <1>1, <3>1, ReturnsKnown
    <3>3. /\ PendingCloses' = PendingCloses /\ (Closing' <=> Closing)
          /\ \A g \in CloseFrames : SoleClose(g)' <=> SoleClose(g)
      BY <1>9, <2>1, <3>1, <3>2
    <3>4. Quiet'
      BY <1>2, <2>2, <3>3 DEF Quiet
    <3>5. \A f : Agreed(f) => Agreed(f)'
      BY <1>10, <2>1, <3>1
    <3> QED  BY <1>2, <3>3, <3>4, <3>5 DEF Agreement
  <2>3. CASE ~closed
    <3>1. /\ calls' = [calls EXCEPT ![c].step = "holding"] /\ UNCHANGED phase
          /\ closed' = (closed \/ IsClose(calls[c].out))
      BY <1>1, <1>11, <2>3 DEF Acquire
    <3>2. \A d \in Callers : \A g \in CloseFrames : Calling(d, g)' <=> Calling(d, g)
      BY <2>1, <3>1 DEF Calling, WireTyped
    <3>3. \A g \in CloseFrames : Framed(g)' <=> Framed(g)
      BY <2>1 DEF Framed
    <3>4. /\ PendingCloses' = PendingCloses /\ (Closing' <=> Closing)
          /\ \A g \in CloseFrames : SoleClose(g)' <=> SoleClose(g)
      BY <3>2, <3>3, SameSources
    <3>5. Quiet'
      <4>1. PendingCloses = {} => ~IsClose(calls[c].out)
        BY <2>1 DEF PendingCloses
      <4> QED  BY <1>2, <2>1, <2>3, <3>1, <3>4, <4>1 DEF Quiet
    <3>6. \A f : Agreed(f) => Agreed(f)'
      BY <2>1, <3>1 DEF Agreed
    <3> QED  BY <1>2, <3>4, <3>5, <3>6 DEF Agreement
  <2> QED  BY <2>2, <2>3
<1>12. ASSUME NEW c \in Callers, Push(c) PROVE Quiet' /\ Agreement'
  <2>1. /\ calls[c].step # "idle" /\ lock = c /\ lock # Nobody
        /\ UNCHANGED <<wire, receiving, slot, closed, reported>>
        /\ queue' = Append(queue, calls[c].out) /\ Returns(c, TRUE, TRUE)
        /\ open' = open
    BY <1>1, <1>12 DEF Push, AxumCloses, LockInv, SessionTyped
  <2>2. ~Closing
    BY <1>1, <2>1 DEF CloseInv
  <2>3. \A f : Agreed(f) => Agreed(f)'
    BY <1>10, <2>1
  <2>4. CASE IsClose(calls[c].out)
    <3>1. Closing'
      BY <2>1, <2>4, PushShape
    <3>2. ASSUME NEW f \in CloseFrames, SoleClose(f)' PROVE SoleClose(f)
      <4>1. PendingCloses' = {} /\ Framed(f)'
        BY <3>1, <3>2 DEF SoleClose
      <4>2. f = calls[c].out
        BY <2>1, <2>2, <4>1, PushShape, Sources
      <4>3. \A d \in Callers \ {c} : d \notin PendingCloses
        BY <2>1, <4>1, ReturnsKnown DEF PendingCloses
      <4>4. PendingCloses = {c}
        BY <2>1, <2>4, <4>3 DEF PendingCloses
      <4> QED  BY <2>2, <4>2, <4>4 DEF SoleClose
    <3> QED  BY <1>2, <2>3, <3>1, <3>2 DEF Quiet, Agreement
  <2>5. CASE ~IsClose(calls[c].out)
    <3>1. /\ PendingCloses' = PendingCloses /\ (Closing' <=> Closing)
          /\ \A g \in CloseFrames : SoleClose(g)' <=> SoleClose(g)
      BY <1>9, <2>1, <2>5
    <3>2. phase \in Active \cup {"error", "panicked"} => phase' \in Active \cup {"error", "panicked"}
      BY <2>1 DEF Returns, Active, LockInv, Idle
    <3> QED  BY <1>2, <2>1, <2>3, <3>1, <3>2 DEF Quiet, Agreement
  <2> QED  BY <2>4, <2>5
<1>13. ASSUME NEW c \in Callers, PushFails(c) PROVE Quiet' /\ Agreement'
  <2>1. /\ calls[c].step # "idle" /\ ~receiving
        /\ UNCHANGED <<wire, queue, receiving, slot, reported>> /\ Returns(c, FALSE, FALSE)
    BY <1>13 DEF PushFails
  <2>2. ~IsClose(calls[c].out)
    BY <1>1, <2>1, ReturnsKnown
  <2>3. /\ PendingCloses' = PendingCloses /\ (Closing' <=> Closing)
        /\ \A g \in CloseFrames : SoleClose(g)' <=> SoleClose(g)
    BY <1>9, <2>1, <2>2
  <2>4. \A f : Agreed(f) => Agreed(f)'
    BY <1>10, <2>1
  <2> QED  BY <1>2, <2>1, <2>3, <2>4 DEF Quiet, Agreement
<1>14. ASSUME NEW a \in Apps, AppSends(a) PROVE Quiet' /\ Agreement'
  <2>1. /\ calls[a].step = "idle" /\ ~IsClose("text")
        /\ calls' = [calls EXCEPT ![a] = [step |-> "waiting", out |-> "text"]]
        /\ UNCHANGED <<wire, queue, receiving, open, slot, closed, phase, reported>>
    BY <1>14 DEF AppSends, SendStarts, Idle, IsClose, CloseFrames, outVars, sessionVars
  <2>2. /\ PendingCloses' = PendingCloses /\ (Closing' <=> Closing)
        /\ \A g \in CloseFrames : SoleClose(g)' <=> SoleClose(g)
    BY <1>5, <2>1
  <2>3. \A f : Agreed(f) => Agreed(f)'
    BY <2>1 DEF Agreed
  <2> QED  BY <1>2, <2>1, <2>2, <2>3 DEF Quiet, Agreement
<1>15. ASSUME NEW a \in Apps, AppCloses(a) PROVE Quiet' /\ Agreement'
  <2>1. PICK f \in {"none", "app", "unsendable"} : CloseStarts(a, f)
    BY <1>15 DEF AppCloses
  <2>2. f # "unsendable"
    BY <1>1, <2>1 DEF CloseStarts
  <2>3. /\ calls[a].step = "idle" /\ f \in CloseFrames /\ slot' = f
        /\ calls' = [calls EXCEPT ![a] = [step |-> "waiting", out |-> f]]
        /\ UNCHANGED <<wire, queue, phase, reported>>
    BY <1>15, <2>1, <2>2 DEF AppCloses, CloseStarts, Sendable, Idle, CloseFrames, outVars
  <2>4. /\ PendingCloses' # {}
        /\ \A g \in CloseFrames : SoleClose(g)' => g = f /\ PendingCloses = {} /\ ~Closing
    BY <1>6, <2>3
  <2>5. ASSUME PendingCloses = {} /\ ~Closing PROVE Agreed(f)'
    BY <1>2, <1>3, <2>3, <2>5 DEF Quiet, Agreed, Active
  <2> QED  BY <2>4, <2>5 DEF Quiet, Agreement
<1>16. CASE Write
  <2>1. UNCHANGED <<calls, open, slot, closed, phase, reported>>
    BY <1>16 DEF Write, sessionVars
  <2>2. \A d \in Callers : \A g \in CloseFrames : Calling(d, g)' <=> Calling(d, g)
    BY <2>1 DEF Calling
  <2>3. /\ PendingCloses' = PendingCloses /\ (Closing' <=> Closing)
        /\ \A g \in CloseFrames : SoleClose(g)' <=> SoleClose(g)
    BY <1>16, <2>2, WriteKeepsClosing, SameSources
  <2>4. ~Closing => receiving'
    <3>1. queue # <<>> /\ receiving' = ~(Actix /\ IsClose(Head(queue)))
      BY <1>16 DEF Write
    <3>2. 1 \in DOMAIN queue /\ queue[1] = Head(queue)
      BY <3>1, Headed DEF WireTyped
    <3> QED  BY <3>1, <3>2 DEF Closing, ClosedOnWire
  <2>5. \A f : Agreed(f) => Agreed(f)'
    BY <2>1 DEF Agreed
  <2> QED  BY <1>2, <2>1, <2>3, <2>4, <2>5 DEF Quiet, Agreement
<1>17. CASE PeerSends \/ UNCHANGED vars
  <2>1. UNCHANGED <<calls, wire, queue, receiving, open, slot, closed, phase, reported>>
    BY <1>17 DEF PeerSends, vars, outVars, sessionVars
  <2>2. \A f : Agreed(f) => Agreed(f)'
    BY <2>1 DEF Agreed
  <2> QED  BY <1>2, <1>4, <2>1, <2>2 DEF Quiet, Agreement
<1>18. CASE PeerLeaves
  BY <1>18 DEF PeerLeaves, Undisturbed
<1> QED
  BY <1>7, <1>8, <1>11, <1>12, <1>13, <1>14, <1>15, <1>16, <1>17, <1>18 DEF SessionStep

-----------------------------------------------------------------------------
(* The frames of the peer. *)

(* The order of finite sets of numbers is well-founded, so that the first
   broken frame of those that arrived exists. *)
LEMMA LeastNumber ==
    ASSUME NEW S \in SUBSET Nat, S # {}
    PROVE  \E i \in S : \A j \in S : i <= j
<1> DEFINE Down == {0..i : i \in S}
<1>1. Down \subseteq FiniteSubsetsOf(Nat) /\ Down # {}
  <2>1. \A i \in S : 0..i \in SUBSET Nat /\ IsFiniteSet(0..i)
    BY FS_Interval
  <2> QED  BY <2>1 DEF FiniteSubsetsOf
<1>2. PICK d \in Down : \A e \in Down : <<e, d>> \notin StrictSubsetOrdering(Nat)
  <2> HIDE DEF Down
  <2> QED  BY <1>1, FS_StrictSubsetOrderingWellFounded, WFMin
<1>3. PICK i \in S : d = 0..i
  OBVIOUS
<1>4. ASSUME NEW j \in S, j < i PROVE FALSE
  <2>1. 0..j \subseteq 0..i /\ i \in 0..i /\ i \notin 0..j
    BY <1>4
  <2>2. <<0..j, 0..i>> \in StrictSubsetOrdering(Nat)
    BY <2>1 DEF StrictSubsetOrdering
  <2> QED  BY <1>2, <1>3, <2>2
<1> QED  BY <1>4

LEMMA FirstBrokenArrived ==
    ASSUME InputTyped, NEW n \in (read + 1)..Len(sent), BrokenIn(n) # {}
    PROVE  FirstBroken(n) \in (read + 1)..n
<1>1. read \in Nat /\ Len(sent) \in Nat
  BY DEF InputTyped
<1>2. BrokenIn(n) \in SUBSET Nat /\ BrokenIn(n) \subseteq (read + 1)..n
  BY <1>1 DEF BrokenIn
<1>3. \E i \in BrokenIn(n) : \A j \in BrokenIn(n) : i <= j
  BY <1>2, LeastNumber
<1>4. FirstBroken(n) \in BrokenIn(n)
  BY <1>3 DEF FirstBroken
<1> QED  BY <1>2, <1>4

LEMMA WiderSeq ==
    ASSUME NEW S, NEW T, S \subseteq T, NEW s \in Seq(S)
    PROVE  s \in Seq(T)
OBVIOUS

(* What a step is for the frames of the peer: it leaves them, decodes until it
   has the next one for run_connection, or finds that it cannot. *)
Decoded ==
    /\ ready' \in Seq(1..Len(sent))
    /\ read' \in 0..Len(sent)
    /\ Len(ready') <= read'
    /\ ~Actix => ready' = <<>>
    /\ UNCHANGED <<adapter, sent>>

LeavesInput ==
    /\ UNCHANGED <<adapter, inVars, delivered>>
    /\ UNCHANGED sent \/ \E k \in FrameKinds : sent' = Append(sent, k)
    /\ phase' \in Active => phase \in Active

TakesFrame(i) ==
    /\ phase = "receive"
    /\ i = Taken + 1 /\ i \in 1..Len(sent)
    /\ Decoded
    /\ read' - Len(ready') = i
    /\ \A j \in 1..Len(ready') : ready'[j] = i + j
    /\ Receive(i)

BreaksOff ==
    /\ Decoded
    /\ UNCHANGED <<fragment, delivered>>
    /\ phase' = "error"

LEMMA InputShape ==
    ASSUME InputTyped, InputInv, Next
    PROVE  LeavesInput \/ (\E i : TakesFrame(i)) \/ BreaksOff
<1> USE DEF LeavesInput, taskIdle, peerVars, inVars, Active
<1>1. /\ sent \in Seq(FrameKinds) /\ Len(sent) \in Nat /\ read \in 0..Len(sent)
      /\ ready \in Seq(1..Len(sent)) /\ Len(ready) \in Nat /\ Len(ready) <= read
  BY DEF InputTyped, InputInv
<1>2. CASE ReceiveQueued
  <2>1. /\ phase = "receive" /\ ready # <<>> /\ ready' = Tail(ready) /\ Receive(Head(ready))
        /\ UNCHANGED <<adapter, sent, read>> /\ Actix
    BY <1>2 DEF ReceiveQueued
  <2>2. /\ Head(ready) = ready[1] /\ Tail(ready) \in Seq(1..Len(sent))
        /\ Len(Tail(ready)) = Len(ready) - 1 /\ Len(ready) \in Nat \ {0}
        /\ Head(ready) \in 1..Len(sent)
        /\ \A j \in 1..(Len(ready) - 1) : Tail(ready)[j] = ready[j + 1]
    BY <1>1, <2>1, Headed
  <2>3. \A j \in 1..Len(ready) : ready[j] = read - Len(ready) + j
    BY <2>1 DEF InputInv, Ahead, Taken
  <2>4. Head(ready) = read - Len(ready) + 1
    BY <2>2, <2>3
  <2>5. \A j \in 1..(Len(ready) - 1) : Tail(ready)[j] = Head(ready) + j
    BY <1>1, <2>2, <2>3, <2>4
  <2>6. Decoded
    BY <1>1, <2>1, <2>2 DEF Decoded
  <2>7. TakesFrame(Head(ready))
    BY <1>1, <2>1, <2>2, <2>4, <2>5, <2>6 DEF TakesFrame, Taken
  <2> QED  BY <2>7
<1>3. CASE ReceiveArrived
  <2>1. PICK n \in (read + 1)..Len(sent) :
        IF BrokenIn(n) # {}
        THEN /\ read' = FirstBroken(n)
             /\ ready' = [j \in 1..(FirstBroken(n) - read - 1) |-> read + j]
             /\ Report(ErrorCode(sent[FirstBroken(n)]))
             /\ Kept
        ELSE /\ read' = n
             /\ ready' = [j \in 1..(n - read - 1) |-> read + 1 + j]
             /\ Receive(read + 1)
    BY <1>3 DEF ReceiveArrived
  <2>2. phase = "receive" /\ ready = <<>> /\ UNCHANGED <<adapter, sent>> /\ Actix
    BY <1>3 DEF ReceiveArrived
  <2>3. CASE BrokenIn(n) # {}
    <3> DEFINE b == FirstBroken(n)
    <3>1. b \in (read + 1)..n
      BY <2>3, FirstBrokenArrived
    <3>2. read' = b /\ ready' = [j \in 1..(b - read - 1) |-> read + j] /\ phase' = "error"
          /\ UNCHANGED <<fragment, delivered>>
      BY <2>1, <2>3 DEF Report, Kept
    <3> HIDE DEF b
    <3>3. b - read - 1 \in Nat /\ \A j \in 1..(b - read - 1) : read + j \in 1..Len(sent)
      BY <1>1, <3>1
    <3>4. ready' \in Seq(1..Len(sent)) /\ Len(ready') = b - read - 1
      BY <3>2, <3>3
    <3> QED  BY <1>1, <2>2, <3>1, <3>2, <3>4 DEF BreaksOff, Decoded
  <2>4. CASE BrokenIn(n) = {}
    <3>1. read' = n /\ ready' = [j \in 1..(n - read - 1) |-> read + 1 + j] /\ Receive(read + 1)
      BY <2>1, <2>4
    <3>2. n - read - 1 \in Nat /\ \A j \in 1..(n - read - 1) : read + 1 + j \in 1..Len(sent)
      BY <1>1
    <3>3. ready' \in Seq(1..Len(sent)) /\ Len(ready') = n - read - 1
          /\ \A j \in 1..Len(ready') : ready'[j] = (read + 1) + j
      BY <3>1, <3>2
    <3>4. Decoded
      BY <1>1, <2>2, <3>1, <3>3 DEF Decoded
    <3>5. Taken = read
      BY <1>1, <2>2 DEF Taken
    <3>6. TakesFrame(read + 1)
      BY <1>1, <2>2, <3>1, <3>3, <3>4, <3>5 DEF TakesFrame
    <3> QED  BY <3>6
  <2> QED  BY <2>3, <2>4
<1>4. CASE ReceiveNext
  <2>1. /\ phase = "receive" /\ read < Len(sent) /\ read' = read + 1 /\ ready' = ready /\ ~Actix
        /\ UNCHANGED <<adapter, sent>>
    BY <1>4 DEF ReceiveNext
  <2>2. ready = <<>> /\ Len(<<>>) = 0
    BY <2>1 DEF InputInv
  <2>3. Decoded
    BY <1>1, <2>1, <2>2 DEF Decoded
  <2>4. CASE sent[read'] \in Broken
    BY <1>4, <2>3, <2>4 DEF ReceiveNext, BreaksOff, Report, Kept
  <2>5. CASE Receive(read')
    <3>1. Taken = read
      BY <1>1, <2>2 DEF Taken
    <3>2. TakesFrame(read + 1)
      BY <1>1, <2>1, <2>2, <2>3, <2>5, <3>1 DEF TakesFrame
    <3> QED  BY <3>2
  <2> QED  BY <1>4, <2>4, <2>5 DEF ReceiveNext
<1>5. CASE ConnectReturns \/ HandlerReturns \/ Check \/ StreamFails \/ StreamEnds \/ LossReported
           \/ ErrorReported \/ Finish \/ CloseReturns \/ CallbackPanics
  BY <1>5 DEF ConnectReturns, HandlerReturns, Check, StreamFails, StreamEnds, LossReported, Report,
     ErrorReported, Closes, Finish, CloseReturns, CallbackPanics
<1>6. ASSUME NEW c, CallNext(c) PROVE LeavesInput
  BY <1>6 DEF CallNext, Acquire, Push, PushFails, Returns
<1>7. ASSUME NEW a, AppSends(a) \/ AppCloses(a) PROVE LeavesInput
  BY <1>7 DEF AppSends, AppCloses
<1>8. CASE Write \/ PeerLeaves
  BY <1>8 DEF Write, PeerLeaves
<1>9. CASE PeerSends
  BY <1>9 DEF PeerSends
<1> QED
  BY <1>2, <1>3, <1>4, <1>5, <1>6, <1>7, <1>8, <1>9 DEF Next, TaskNext

(* What run_connection does with the frame at i, as far as messages go. *)
Kinds == Fragments \cup {"data"}
Ignores(i) == Kept /\ (phase' \in Active => sent[i] \notin Kinds)
GivesUp == phase' = "error" /\ fragment' = <<>> /\ UNCHANGED delivered
Starts(i) == sent[i] = "first" /\ fragment = <<>> /\ fragment' = <<i>> /\ UNCHANGED delivered
Grows(i) ==
    /\ sent[i] = "more" /\ fragment # <<>> /\ Len(fragment) + 1 <= MaxSize
    /\ fragment' = Append(fragment, i) /\ UNCHANGED delivered
Completes(i, m) ==
    /\ \/ sent[i] = "data" /\ fragment = <<>> /\ m = <<i>>
       \/ /\ sent[i] = "last" /\ fragment # <<>> /\ Len(fragment) + 1 <= MaxSize
          /\ m = Append(fragment, i)
    /\ fragment' = <<>> /\ delivered' = Append(delivered, m)

LEMMA MessageShape ==
    ASSUME InputTyped, NEW i, Receive(i)
    PROVE  Ignores(i) \/ GivesUp \/ Starts(i) \/ Grows(i) \/ \E m : Completes(i, m)
<1> USE DEF Ignores, GivesUp, Starts, Grows, Completes, Kinds, Fragments, Active
<1>1. CASE sent[i] = "data" /\ Data(i)
  BY <1>1 DEF Data, Report, Kept, Deliver
<1>2. CASE sent[i] = "first" /\ StartFragment(i)
  BY <1>2 DEF StartFragment, Report, Kept
<1>3. CASE sent[i] \in {"more", "last"} /\ AppendFragment(i)
  <2>1. CASE fragment = <<>> \/ Len(fragment) + 1 > MaxSize
    BY <1>3, <2>1 DEF AppendFragment, Report, Kept
  <2>2. CASE fragment # <<>> /\ ~(Len(fragment) + 1 > MaxSize)
    <3>1. Len(fragment) + 1 <= MaxSize
      BY <2>2, LimitsAssumption DEF InputTyped
    <3>2. CASE sent[i] = "more"
      BY <1>3, <2>2, <3>1, <3>2 DEF AppendFragment
    <3>3. CASE sent[i] # "more"
      BY <1>3, <2>2, <3>1, <3>3 DEF AppendFragment, Deliver, Report
    <3> QED  BY <3>2, <3>3
  <2> QED  BY <2>1, <2>2
<1>4. CASE sent[i] \in {"ping"} \cup Closings /\ Kept
  BY <1>4 DEF Closings
<1> QED
  BY <1>1, <1>2, <1>3, <1>4 DEF Receive, Closings

LEMMA InputTypedStep ==
    ASSUME InputTyped, InputInv, Next
    PROVE  InputTyped'
<1>0. /\ sent \in Seq(FrameKinds) /\ read \in 0..Len(sent) /\ Len(sent) \in Nat
      /\ ready \in Seq(1..Len(sent)) /\ fragment \in Seq(1..Len(sent))
      /\ delivered \in Seq(Seq(1..Len(sent)))
  BY DEF InputTyped
<1>1. CASE LeavesInput
  <2>1. sent' \in Seq(FrameKinds) /\ Len(sent) <= Len(sent') /\ Len(sent') \in Nat
    <3>1. ASSUME NEW k \in FrameKinds, sent' = Append(sent, k)
          PROVE  sent' \in Seq(FrameKinds) /\ Len(sent) <= Len(sent') /\ Len(sent') \in Nat
      <4>1. sent' \in Seq(FrameKinds) /\ Len(sent') = Len(sent) + 1
        BY <1>0, <3>1, Appended
      <4> QED  BY <1>0, <4>1
    <3> QED  BY <1>0, <1>1, <3>1 DEF LeavesInput
  <2>2. 1..Len(sent) \subseteq 1..Len(sent') /\ 0..Len(sent) \subseteq 0..Len(sent')
    BY <1>0, <2>1
  <2>3. Seq(1..Len(sent)) \subseteq Seq(1..Len(sent'))
    BY <2>2, WiderSeq
  <2> QED  BY <1>0, <1>1, <2>1, <2>2, <2>3, WiderSeq DEF LeavesInput, inVars, InputTyped
<1>2. ASSUME NEW i, TakesFrame(i) PROVE InputTyped'
  <2>1. /\ i \in 1..Len(sent) /\ UNCHANGED sent /\ Receive(i)
        /\ ready' \in Seq(1..Len(sent)) /\ read' \in 0..Len(sent)
    BY <1>2 DEF TakesFrame, Decoded
  <2>2. Append(fragment, i) \in Seq(1..Len(sent)) /\ <<i>> \in Seq(1..Len(sent))
        /\ <<>> \in Seq(1..Len(sent))
    BY <1>0, <2>1, Appended
  <2>3. fragment' \in Seq(1..Len(sent))
    BY <1>0, <2>1, <2>2, MessageShape DEF Ignores, Kept, GivesUp, Starts, Grows, Completes
  <2>4. delivered' \in Seq(Seq(1..Len(sent)))
    <3>1. ASSUME NEW m, Completes(i, m) PROVE delivered' \in Seq(Seq(1..Len(sent)))
      <4>1. m \in Seq(1..Len(sent)) /\ delivered' = Append(delivered, m)
        BY <2>2, <3>1 DEF Completes
      <4> QED  BY <1>0, <4>1, Appended
    <3> QED  BY <1>0, <2>1, <3>1, MessageShape DEF Ignores, Kept, GivesUp, Starts, Grows
  <2> QED  BY <1>0, <2>1, <2>3, <2>4 DEF InputTyped
<1>3. CASE BreaksOff
  BY <1>3 DEF BreaksOff, Decoded, InputTyped
<1> QED  BY <1>1, <1>2, <1>3, InputShape

(* Facts about a list of messages and what one more message adds. *)
LEMMA MessageAppended ==
    ASSUME NEW S, delivered \in Seq(Seq(S)), NEW m \in Seq(S), delivered' = Append(delivered, m)
    PROVE  /\ Len(delivered) \in Nat /\ Len(delivered') = Len(delivered) + 1
           /\ DOMAIN delivered = 1..Len(delivered) /\ DOMAIN delivered' = 1..(Len(delivered) + 1)
           /\ delivered'[Len(delivered) + 1] = m
           /\ \A k \in 1..Len(delivered) : delivered'[k] = delivered[k]
           /\ \A x : x \in Positions \/ x \in {m[j] : j \in DOMAIN m} => x \in Positions'
           /\ \A e : e \in Ends' => e \in Ends \/ e = End(m)
<1>1. /\ Len(delivered) \in Nat /\ Len(delivered') = Len(delivered) + 1
      /\ DOMAIN delivered = 1..Len(delivered) /\ DOMAIN delivered' = 1..(Len(delivered) + 1)
      /\ delivered'[Len(delivered) + 1] = m
      /\ \A k \in 1..Len(delivered) : delivered'[k] = delivered[k]
  BY Appended
<1>2. ASSUME NEW k \in DOMAIN delivered PROVE k \in DOMAIN delivered' /\ delivered'[k] = delivered[k]
  BY <1>1, <1>2
<1>3. Len(delivered) + 1 \in DOMAIN delivered'
  BY <1>1
<1>4. ASSUME NEW x, x \in Positions \/ x \in {m[j] : j \in DOMAIN m} PROVE x \in Positions'
  BY <1>1, <1>2, <1>3, <1>4 DEF Positions
<1>5. ASSUME NEW e \in Ends' PROVE e \in Ends \/ e = End(m)
  <2>1. PICK k \in DOMAIN delivered' : e = End(delivered'[k])
    BY DEF Ends
  <2>2. k \in DOMAIN delivered \/ k = Len(delivered) + 1
    BY <1>1
  <2> QED  BY <1>1, <1>2, <2>1, <2>2 DEF Ends
<1> QED  BY <1>1, <1>4, <1>5

(* A message that is complete goes behind those delivered before. *)
LEMMA DeliversInOrder ==
    ASSUME InputTyped, InputInv, MessagesInOrder, NEW i, TakesFrame(i), NEW m, Completes(i, m)
    PROVE  /\ m \in Seq(1..Len(sent)) /\ Len(m) \in Nat \ {0} /\ End(m) = i
           /\ WellFormed(m)
           /\ \A k \in 1..Len(delivered) : End(delivered[k]) < m[1]
           /\ \A x \in 1..i : sent[x] \in Kinds => x \in Positions \/ x \in {m[j] : j \in DOMAIN m}
<1>1. /\ phase \in Active /\ Taken = read - Len(ready) /\ i = Taken + 1 /\ i \in 1..Len(sent)
      /\ fragment \in Seq(1..Len(sent)) /\ Taken \in Int /\ Len(sent) \in Nat
  BY DEF TakesFrame, Active, InputTyped, Taken
<1>2. /\ Assembly
      /\ \A k \in 1..Len(delivered) : End(delivered[k]) <= Taken
      /\ \A x \in 1..Taken : sent[x] \in Kinds =>
             x \in Positions \/ \E j \in 1..Len(fragment) : fragment[j] = x
  BY <1>1 DEF InputInv, Kinds
<1>3. \A x \in 1..i : x \in 1..Taken \/ x = i
  BY <1>1
<1>4. \A k \in 1..Len(delivered) : End(delivered[k]) \in Int
  <2> SUFFICES ASSUME NEW k \in 1..Len(delivered) PROVE End(delivered[k]) \in Int
    OBVIOUS
  <2>1. delivered[k] \in Seq(1..Len(sent)) /\ k \in DOMAIN delivered
    BY DEF InputTyped
  <2>2. Len(delivered[k]) >= 1
    BY <2>1, LimitsAssumption DEF MessagesInOrder, WellFormed
  <2> QED  BY <2>1, <2>2 DEF End
<1>5. CASE sent[i] = "data" /\ fragment = <<>> /\ m = <<i>>
  <2>1. m \in Seq(1..Len(sent)) /\ Len(m) = 1 /\ m[1] = i /\ End(m) = i /\ DOMAIN m = {1}
    BY <1>1, <1>5 DEF End
  <2>2. WellFormed(m)
    BY <1>5, <2>1 DEF WellFormed
  <2>3. \A k \in 1..Len(delivered) : End(delivered[k]) < m[1]
    BY <1>1, <1>2, <1>4, <2>1
  <2>4. \A x \in 1..i : sent[x] \in Kinds => x \in Positions \/ x \in {m[j] : j \in DOMAIN m}
    <3>1. 1..Len(fragment) = {}
      BY <1>5
    <3> QED  BY <1>2, <1>3, <2>1, <3>1
  <2> QED  BY <2>1, <2>2, <2>3, <2>4
<1>6. CASE sent[i] = "last" /\ fragment # <<>> /\ Len(fragment) + 1 <= MaxSize /\ m = Append(fragment, i)
  <2>1. /\ sent[fragment[1]] = "first"
        /\ \A j \in 2..Len(fragment) : sent[fragment[j]] = "more"
        /\ \A j \in 1..(Len(fragment) - 1) : fragment[j] < fragment[j + 1]
        /\ \A j \in 1..Len(fragment) : fragment[j] <= Taken
        /\ \A k \in 1..Len(delivered) : End(delivered[k]) < fragment[1]
    BY <1>2, <1>6 DEF Assembly
  <2>2. Len(fragment) \in Nat \ {0}
    BY <1>1, <1>6, Headed
  <2>3. /\ m \in Seq(1..Len(sent)) /\ Len(m) = Len(fragment) + 1
        /\ \A j \in 1..Len(fragment) : m[j] = fragment[j] /\ fragment[j] \in 1..Len(sent)
        /\ m[Len(fragment) + 1] = i /\ DOMAIN m = 1..(Len(fragment) + 1)
    BY <1>1, <1>6, Appended
  <2>4. End(m) = i /\ m[1] = fragment[1]
    BY <2>2, <2>3 DEF End
  <2>5. WellFormed(m)
    <3>1. Len(m) \in 2..MaxSize
      BY <1>6, <2>2, <2>3, LimitsAssumption
    <3>2. \A j \in 2..(Len(m) - 1) : sent[m[j]] = "more"
      BY <2>1, <2>2, <2>3
    <3>3. ASSUME NEW j \in 1..(Len(m) - 1) PROVE m[j] < m[j + 1]
      <4>1. j \in 1..Len(fragment) /\ m[j] = fragment[j] /\ fragment[j] \in Int
        BY <2>2, <2>3
      <4>2. CASE j = Len(fragment)
        BY <1>1, <2>1, <2>3, <4>1, <4>2
      <4>3. CASE j # Len(fragment)
        <5>1. j \in 1..(Len(fragment) - 1) /\ j + 1 \in 1..Len(fragment)
          BY <2>2, <4>1, <4>3
        <5> QED  BY <2>1, <2>3, <4>1, <5>1
      <4> QED  BY <4>2, <4>3
    <3> QED  BY <1>6, <2>1, <2>4, <3>1, <3>2, <3>3 DEF WellFormed
  <2>6. \A x \in 1..i : sent[x] \in Kinds => x \in Positions \/ x \in {m[j] : j \in DOMAIN m}
    <3>1. \A j \in 1..Len(fragment) : j \in DOMAIN m
      BY <2>2, <2>3
    <3>2. Len(fragment) + 1 \in DOMAIN m
      BY <2>2, <2>3
    <3> QED  BY <1>2, <1>3, <2>3, <3>1, <3>2
  <2> QED  BY <2>1, <2>2, <2>3, <2>4, <2>5, <2>6
<1> QED  BY <1>5, <1>6 DEF Completes

LEMMA MessagesStep ==
    ASSUME InputTyped, InputInv, MessagesInOrder, Next
    PROVE  MessagesInOrder'
<1>0. \A k \in DOMAIN delivered :
          /\ delivered[k] \in Seq(1..Len(sent)) /\ Len(delivered[k]) \in Nat \ {0}
          /\ \A j \in 1..Len(delivered[k]) : delivered[k][j] \in 1..Len(sent)
          /\ End(delivered[k]) \in 1..Len(sent)
  <2> SUFFICES ASSUME NEW k \in DOMAIN delivered
               PROVE  /\ delivered[k] \in Seq(1..Len(sent)) /\ Len(delivered[k]) \in Nat \ {0}
                      /\ \A j \in 1..Len(delivered[k]) : delivered[k][j] \in 1..Len(sent)
                      /\ End(delivered[k]) \in 1..Len(sent)
    OBVIOUS
  <2>1. delivered[k] \in Seq(1..Len(sent))
    BY DEF InputTyped
  <2>2. Len(delivered[k]) >= 1
    BY LimitsAssumption DEF MessagesInOrder, WellFormed
  <2> QED  BY <2>1, <2>2 DEF End
<1>1. ASSUME UNCHANGED <<sent, delivered>> PROVE MessagesInOrder'
  BY <1>1 DEF MessagesInOrder, WellFormed, Ends, Positions
<1>2. ASSUME NEW f \in FrameKinds, sent' = Append(sent, f), UNCHANGED delivered PROVE MessagesInOrder'
  <2>1. /\ Len(sent) \in Nat /\ Len(sent') = Len(sent) + 1
        /\ DOMAIN sent = 1..Len(sent) /\ DOMAIN sent' = 1..(Len(sent) + 1)
        /\ \A i \in 1..Len(sent) : sent'[i] = sent[i]
    BY <1>2, Appended DEF InputTyped
  <2>2. ASSUME NEW m \in Seq(1..Len(sent)), Len(m) \in Nat \ {0}, WellFormed(m),
               \A j \in 1..Len(m) : m[j] \in 1..Len(sent)
        PROVE  WellFormed(m)'
    <3>1. \A j \in 1..Len(m) : sent'[m[j]] = sent[m[j]]
      BY <2>1, <2>2
    <3>2. End(m) = m[Len(m)] /\ End(m)' = m[Len(m)]
      BY DEF End
    <3>3. CASE Len(m) = 1 /\ sent[m[1]] = "data"
      BY <3>1, <3>3 DEF WellFormed
    <3>4. CASE /\ Len(m) \in 2..MaxSize
               /\ sent[m[1]] = "first" /\ sent[End(m)] = "last"
               /\ \A j \in 2..(Len(m) - 1) : sent[m[j]] = "more"
               /\ \A j \in 1..(Len(m) - 1) : m[j] < m[j + 1]
      <4>1. 1 \in 1..Len(m) /\ Len(m) \in 1..Len(m) /\ \A j \in 2..(Len(m) - 1) : j \in 1..Len(m)
        BY <2>2
      <4> QED  BY <3>1, <3>2, <3>4, <4>1 DEF WellFormed
    <3> QED  BY <2>2, <3>3, <3>4 DEF WellFormed
  <2>3. \A k \in DOMAIN delivered' : WellFormed(delivered[k])'
    BY <1>0, <1>2, <2>2 DEF MessagesInOrder
  <2>4. \A e \in Ends : e \in 1..Len(sent)
    BY <1>0 DEF Ends
  <2>5. ASSUME NEW i \in DOMAIN sent', NEW e \in Ends, i <= e, sent'[i] \in Kinds PROVE i \in Positions
    <3>1. i \in DOMAIN sent /\ sent'[i] = sent[i]
      BY <2>1, <2>4, <2>5
    <3> QED  BY <2>5, <3>1 DEF MessagesInOrder, Kinds
  <2>6. Ends' = Ends /\ Positions' = Positions
    BY <1>2 DEF Ends, Positions, End
  <2> QED  BY <1>2, <2>3, <2>5, <2>6 DEF MessagesInOrder, Kinds, End
<1>3. ASSUME NEW i, TakesFrame(i), NEW m, Completes(i, m) PROVE MessagesInOrder'
  <2>1. /\ m \in Seq(1..Len(sent)) /\ Len(m) \in Nat \ {0} /\ End(m) = i
        /\ WellFormed(m)
        /\ \A k \in 1..Len(delivered) : End(delivered[k]) < m[1]
        /\ \A x \in 1..i : sent[x] \in Kinds => x \in Positions \/ x \in {m[j] : j \in DOMAIN m}
    BY <1>3, DeliversInOrder
  <2>2. UNCHANGED sent /\ i \in 1..Len(sent) /\ delivered' = Append(delivered, m)
    BY <1>3 DEF TakesFrame, Decoded, Completes
  <2>3. /\ Len(delivered) \in Nat /\ Len(delivered') = Len(delivered) + 1
        /\ DOMAIN delivered = 1..Len(delivered) /\ DOMAIN delivered' = 1..(Len(delivered) + 1)
        /\ delivered'[Len(delivered) + 1] = m
        /\ \A k \in 1..Len(delivered) : delivered'[k] = delivered[k]
        /\ \A x : x \in Positions \/ x \in {m[j] : j \in DOMAIN m} => x \in Positions'
        /\ \A e : e \in Ends' => e \in Ends \/ e = End(m)
    BY <2>1, <2>2, MessageAppended DEF InputTyped
  <2>4. \A n : WellFormed(n)' <=> WellFormed(n)
    BY <2>2 DEF WellFormed
  <2>5. ASSUME NEW k \in DOMAIN delivered' PROVE WellFormed(delivered[k])'
    <3>1. k \in DOMAIN delivered \/ k = Len(delivered) + 1
      BY <2>3
    <3> QED  BY <2>1, <2>3, <2>4, <3>1 DEF MessagesInOrder
  <2>6. ASSUME NEW k \in DOMAIN delivered', NEW l \in DOMAIN delivered', k < l
        PROVE  End(delivered'[k]) < delivered'[l][1]
    <3>1. k \in 1..Len(delivered) /\ (l \in 1..Len(delivered) \/ l = Len(delivered) + 1)
      BY <2>3, <2>6
    <3> QED  BY <2>1, <2>3, <2>6, <3>1 DEF MessagesInOrder
  <2>7. ASSUME NEW x \in DOMAIN sent', NEW e \in Ends', x <= e, sent'[x] \in Kinds PROVE x \in Positions'
    <3>1. CASE e \in Ends
      BY <2>2, <2>3, <2>7, <3>1 DEF MessagesInOrder, Kinds
    <3>2. CASE e = End(m)
      <4>1. x \in 1..i
        BY <2>1, <2>2, <2>7, <3>2 DEF InputTyped
      <4> QED  BY <2>1, <2>2, <2>3, <2>7, <4>1
    <3> QED  BY <2>3, <3>1, <3>2
  <2> QED  BY <2>5, <2>6, <2>7 DEF MessagesInOrder, Kinds, End
<1>4. CASE LeavesInput
  BY <1>1, <1>2, <1>4 DEF LeavesInput
<1>5. ASSUME NEW i, TakesFrame(i) PROVE MessagesInOrder'
  <2>1. UNCHANGED sent /\ Receive(i)
    BY <1>5 DEF TakesFrame, Decoded
  <2>2. CASE Ignores(i) \/ GivesUp \/ Starts(i) \/ Grows(i)
    BY <1>1, <2>1, <2>2 DEF Ignores, Kept, GivesUp, Starts, Grows
  <2> QED  BY <1>3, <1>5, <2>1, <2>2, MessageShape
<1>6. CASE BreaksOff
  BY <1>1, <1>6 DEF BreaksOff, Decoded
<1> QED  BY <1>4, <1>5, <1>6, InputShape

LEMMA InputStep ==
    ASSUME InputTyped, InputInv, MessagesInOrder, Next
    PROVE  InputInv'
<1>0. /\ sent \in Seq(FrameKinds) /\ read \in 0..Len(sent) /\ Len(sent) \in Nat
      /\ ready \in Seq(1..Len(sent)) /\ fragment \in Seq(1..Len(sent)) /\ Len(fragment) \in Nat
      /\ Len(ready) \in Nat
      /\ delivered \in Seq(Seq(1..Len(sent))) /\ Len(delivered) \in Nat
      /\ DOMAIN delivered = 1..Len(delivered)
      /\ DOMAIN sent = 1..Len(sent)
      /\ \A j \in 1..Len(fragment) : fragment[j] \in 1..Len(sent)
      /\ Taken = read - Len(ready)
  BY DEF InputTyped, Taken
<1>1. CASE LeavesInput
  <2>1. /\ UNCHANGED <<read, ready, fragment, delivered>> /\ (Actix' <=> Actix)
        /\ Taken' = Taken /\ Positions' = Positions /\ (phase' \in Active => phase \in Active)
    BY <1>1 DEF LeavesInput, inVars, Taken, Positions, Actix
  <2>2. \A i \in 1..Len(sent) : sent'[i] = sent[i]
    BY <1>0, <1>1, Appended DEF LeavesInput
  <2>3. SUFFICES ASSUME phase' \in Active
                 PROVE  /\ Assembly'
                        /\ \A i \in 1..Taken : sent'[i] \in Kinds =>
                               i \in Positions \/ \E j \in 1..Len(fragment) : fragment[j] = i
    BY <2>1 DEF InputInv, Ahead, End, Kinds
  <2>4. Taken <= Len(sent)
    BY <1>0
  <2>5. Assembly'
    <3> SUFFICES ASSUME fragment # <<>> PROVE Assembly'
      BY <2>1 DEF Assembly
    <3>1. Len(fragment) >= 1
      BY <1>0, Headed
    <3>2. \A j \in 1..Len(fragment) : sent'[fragment[j]] = sent[fragment[j]]
      BY <1>0, <2>2
    <3>3. 1 \in 1..Len(fragment) /\ \A j \in 2..Len(fragment) : j \in 1..Len(fragment)
      BY <1>0, <3>1
    <3>4. Assembly
      BY <2>1, <2>3 DEF InputInv
    <3> QED  BY <2>1, <3>2, <3>3, <3>4 DEF Assembly, End
  <2>6. ASSUME NEW i \in 1..Taken, sent'[i] \in Kinds
        PROVE  i \in Positions \/ \E j \in 1..Len(fragment) : fragment[j] = i
    <3>1. i \in 1..Len(sent)
      BY <1>0, <2>4
    <3> QED  BY <2>1, <2>2, <2>3, <2>6, <3>1 DEF InputInv, Kinds
  <2> QED  BY <2>5, <2>6
<1>2. ASSUME NEW i, TakesFrame(i) PROVE InputInv'
  <2>1. /\ phase \in Active /\ i = Taken + 1 /\ i \in 1..Len(sent) /\ Receive(i)
        /\ Taken' = i /\ Len(ready') <= read' /\ (~Actix => ready' = <<>>)
        /\ UNCHANGED <<adapter, sent>> /\ (Actix' <=> Actix)
        /\ \A j \in 1..Len(ready') : ready'[j] = Taken' + j
    BY <1>2 DEF TakesFrame, Decoded, Active, Taken, Actix
  <2>2. /\ Assembly
        /\ \A k \in 1..Len(delivered) : End(delivered[k]) <= Taken
        /\ \A x \in 1..Taken : sent[x] \in Kinds =>
               x \in Positions \/ \E j \in 1..Len(fragment) : fragment[j] = x
    BY <2>1 DEF InputInv, Kinds
  <2>3. SUFFICES ASSUME phase' \in Active
                 PROVE  /\ Assembly'
                        /\ \A k \in 1..Len(delivered') : End(delivered'[k]) <= i
                        /\ \A x \in 1..i : sent[x] \in Kinds =>
                               x \in Positions' \/ \E j \in 1..Len(fragment') : fragment'[j] = x
    BY <2>1 DEF InputInv, Ahead, End, Kinds
  <2>4. \A x \in 1..i : x \in 1..Taken \/ x = i
    BY <1>0, <2>1
  <2>5. \A k \in 1..Len(delivered) : End(delivered[k]) \in 1..Len(sent)
    <3> SUFFICES ASSUME NEW k \in 1..Len(delivered) PROVE End(delivered[k]) \in 1..Len(sent)
      OBVIOUS
    <3>1. delivered[k] \in Seq(1..Len(sent)) /\ WellFormed(delivered[k])
      <4>1. k \in DOMAIN delivered
        BY <1>0
      <4> QED  BY <1>0, <4>1 DEF MessagesInOrder
    <3>2. Len(delivered[k]) >= 1
      BY <3>1, LimitsAssumption DEF WellFormed
    <3> QED  BY <3>1, <3>2 DEF End
  <2>6. ASSUME UNCHANGED delivered
        PROVE  Positions' = Positions /\ \A k \in 1..Len(delivered') : End(delivered'[k]) <= i
    <3>1. \A k \in 1..Len(delivered) : End(delivered[k]) <= i
      BY <1>0, <2>1, <2>2, <2>5
    <3> QED  BY <2>6, <3>1 DEF Positions
  <2>7. CASE Ignores(i)
    <3>1. UNCHANGED <<fragment, delivered>> /\ sent[i] \notin Kinds
      BY <2>3, <2>7 DEF Ignores, Kept
    <3>2. Assembly'
      <4>1. \A j \in 1..Len(fragment) : fragment[j] <= Taken => fragment[j] <= Taken'
        BY <1>0, <2>1
      <4> QED  BY <2>1, <2>2, <3>1, <4>1 DEF Assembly, End
    <3> QED  BY <2>2, <2>4, <2>6, <3>1, <3>2
  <2>8. CASE GivesUp
    BY <2>3, <2>8 DEF GivesUp, Active
  <2>9. CASE Starts(i)
    <3>1. sent[i] = "first" /\ fragment = <<>> /\ UNCHANGED delivered
          /\ fragment' = <<i>> /\ Len(fragment') = 1 /\ fragment'[1] = i
      BY <2>9 DEF Starts
    <3>2. Assembly'
      <4>1. \A k \in 1..Len(delivered) : End(delivered[k]) < i
        BY <1>0, <2>1, <2>2, <2>5
      <4> QED  BY <2>1, <3>1, <4>1, LimitsAssumption DEF Assembly, End
    <3>3. 1..Len(fragment) = {} /\ 1 \in 1..Len(fragment')
      BY <3>1
    <3> QED  BY <2>2, <2>4, <2>6, <3>1, <3>2, <3>3
  <2>10. CASE Grows(i)
    <3>1. /\ sent[i] = "more" /\ fragment # <<>> /\ Len(fragment) + 1 <= MaxSize
          /\ fragment' = Append(fragment, i) /\ UNCHANGED delivered
      BY <2>10 DEF Grows
    <3>2. /\ Len(fragment') = Len(fragment) + 1 /\ fragment'[Len(fragment) + 1] = i
          /\ \A j \in 1..Len(fragment) : fragment'[j] = fragment[j]
          /\ Len(fragment) >= 1 /\ fragment' # <<>>
      BY <1>0, <2>1, <3>1, Appended, Headed
    <3>3. \A j \in 1..Len(fragment') : j \in 1..Len(fragment) \/ j = Len(fragment) + 1
      BY <1>0, <3>2
    <3>4. /\ sent[fragment[1]] = "first"
          /\ \A j \in 2..Len(fragment) : sent[fragment[j]] = "more"
          /\ \A j \in 1..(Len(fragment) - 1) : fragment[j] < fragment[j + 1]
          /\ \A j \in 1..Len(fragment) : fragment[j] <= Taken
          /\ \A k \in 1..Len(delivered) : End(delivered[k]) < fragment[1]
      BY <2>2, <3>1 DEF Assembly
    <3>5. fragment'[1] = fragment[1]
      BY <1>0, <3>2
    <3>6. ASSUME NEW j \in 2..Len(fragment') PROVE sent[fragment'[j]] = "more"
      <4>1. j \in 2..Len(fragment) \/ j = Len(fragment) + 1
        <5>1. Len(fragment') = Len(fragment) + 1 /\ Len(fragment) \in Nat
          BY <1>0, <3>2
        <5>2. j \in 2..(Len(fragment) + 1)
          BY <5>1
        <5> QED  BY <5>1, <5>2
      <4>2. \A l \in 2..Len(fragment) : l \in 1..Len(fragment)
        BY <1>0
      <4> QED  BY <3>1, <3>2, <3>4, <4>1, <4>2
    <3>7. ASSUME NEW j \in 1..(Len(fragment') - 1) PROVE fragment'[j] < fragment'[j + 1]
      <4>1. j \in 1..Len(fragment) /\ fragment'[j] = fragment[j] /\ fragment[j] \in Int
        BY <1>0, <3>2
      <4>2. CASE j = Len(fragment)
        BY <1>0, <2>1, <3>2, <3>4, <4>1, <4>2
      <4>3. CASE j # Len(fragment)
        <5>1. j \in 1..(Len(fragment) - 1) /\ j + 1 \in 1..Len(fragment)
          BY <1>0, <4>1, <4>3
        <5> QED  BY <3>2, <3>4, <4>1, <5>1
      <4> QED  BY <4>2, <4>3
    <3>8. ASSUME NEW j \in 1..Len(fragment') PROVE fragment'[j] <= i
      <4>1. CASE j \in 1..Len(fragment)
        <5>1. fragment'[j] = fragment[j] /\ fragment[j] <= Taken /\ fragment[j] \in Int
          BY <1>0, <3>2, <3>4, <4>1
        <5> QED  BY <1>0, <2>1, <5>1
      <4>2. CASE j = Len(fragment) + 1
        BY <1>0, <2>1, <3>2, <4>2
      <4> QED  BY <3>3, <4>1, <4>2
    <3>9. Assembly'
      BY <2>1, <3>1, <3>2, <3>4, <3>5, <3>6, <3>7, <3>8 DEF Assembly, End
    <3>10. ASSUME NEW x \in 1..i, sent[x] \in Kinds
           PROVE  x \in Positions \/ \E j \in 1..Len(fragment') : fragment'[j] = x
      <4>1. Len(fragment) + 1 \in 1..Len(fragment') /\ \A j \in 1..Len(fragment) : j \in 1..Len(fragment')
        BY <1>0, <3>2
      <4> QED  BY <2>2, <2>4, <3>2, <3>10, <4>1
    <3> QED  BY <2>6, <3>1, <3>9, <3>10
  <2>11. ASSUME NEW m, Completes(i, m)
         PROVE  /\ Assembly'
                /\ \A k \in 1..Len(delivered') : End(delivered'[k]) <= i
                /\ \A x \in 1..i : sent[x] \in Kinds => x \in Positions'
    <3>1. /\ m \in Seq(1..Len(sent)) /\ End(m) = i
          /\ \A x \in 1..i : sent[x] \in Kinds => x \in Positions \/ x \in {m[j] : j \in DOMAIN m}
      BY <1>2, <2>11, DeliversInOrder
    <3>2. fragment' = <<>> /\ delivered' = Append(delivered, m)
      BY <2>11 DEF Completes
    <3>3. /\ Len(delivered') = Len(delivered) + 1 /\ delivered'[Len(delivered) + 1] = m
          /\ \A k \in 1..Len(delivered) : delivered'[k] = delivered[k]
          /\ \A x : x \in Positions \/ x \in {m[j] : j \in DOMAIN m} => x \in Positions'
      BY <1>0, <3>1, <3>2, MessageAppended
    <3>4. ASSUME NEW k \in 1..Len(delivered') PROVE End(delivered'[k]) <= i
      <4>1. k \in 1..Len(delivered) \/ k = Len(delivered) + 1
        BY <1>0, <3>3
      <4> QED  BY <1>0, <2>1, <2>2, <2>5, <3>1, <3>3, <4>1
    <3> QED  BY <3>1, <3>2, <3>3, <3>4 DEF Assembly
  <2> QED  BY <2>1, <2>7, <2>8, <2>9, <2>10, <2>11, MessageShape
<1>3. CASE BreaksOff
  BY <1>3 DEF BreaksOff, Decoded, InputInv, Active, Actix
<1> QED  BY <1>1, <1>2, <1>3, InputShape

-----------------------------------------------------------------------------
(* The invariant. *)

LEMMA InitIInv == Init => IInv
<1> SUFFICES ASSUME Init PROVE IInv
  OBVIOUS
<1> USE DEF Init
<1>1. SessionTyped /\ WireTyped /\ InputTyped
  BY TypedAtFirst
<1>2. /\ wire = <<>> /\ queue = <<>> /\ Len(<<>>) = 0 /\ DOMAIN <<>> = {}
      /\ \A c \in Callers : calls[c] = Idle
  OBVIOUS
<1>3. LockInv
  BY <1>2, Names DEF LockInv, Idle, Active
<1>4. ~Closing /\ PendingCloses = {}
  BY <1>2 DEF Closing, ClosedOnWire, PendingCloses, Idle
<1>5. CloseInv
  BY <1>2, <1>4 DEF CloseInv
<1>6. KnownInv
  BY DEF KnownInv
<1>7. AgreeInv
  <2>1. \A f : ~SoleClose(f)
    BY <1>2, <1>4 DEF SoleClose, Framed
  <2> QED  BY <2>1 DEF AgreeInv, Active
<1>8. InputInv
  BY <1>2 DEF InputInv, Active, Ahead, Assembly, Taken
<1>9. MessagesInOrder
  BY <1>2 DEF MessagesInOrder, Ends
<1> QED  BY <1>1, <1>3, <1>5, <1>6, <1>7, <1>8, <1>9 DEF IInv

LEMMA StepIInv == IInv /\ [Next]_vars => IInv'
<1> SUFFICES ASSUME IInv, [Next]_vars PROVE IInv'
  OBVIOUS
<1> USE DEF IInv
<1>1. SessionStep
  BY NextIsSessionStep
<1>2. SessionTyped' /\ WireTyped'
  BY <1>1, SessionTypedStep, WireTypedStep
<1>3. LockInv' /\ CloseInv'
  BY <1>1, LockStep, CloseStep
<1>4. KnownInv' /\ AgreeInv'
  BY <1>1, KnownStep, AgreeStep
<1>5. CASE Next
  BY <1>2, <1>3, <1>4, <1>5, InputTypedStep, InputStep, MessagesStep
<1>6. CASE UNCHANGED vars
  <2>1. /\ UNCHANGED <<adapter, sent, read, ready, fragment, phase, delivered>>
    BY <1>6 DEF vars, peerVars, inVars
  <2>2. InputTyped' /\ MessagesInOrder'
    <3>1. InputTyped'
      BY <2>1 DEF InputTyped
    <3>2. /\ \A m : (WellFormed(m)' <=> WellFormed(m)) /\ End(m)' = End(m)
          /\ Ends' = Ends /\ Positions' = Positions
      BY <2>1 DEF WellFormed, End, Ends, Positions
    <3>3. MessagesInOrder'
      BY <2>1, <3>2 DEF MessagesInOrder
    <3> QED  BY <3>1, <3>3
  <2>3. InputInv'
    BY <2>1 DEF InputInv, Ahead, Assembly, Taken, Positions, End, Actix
  <2> QED  BY <1>2, <1>3, <1>4, <2>2, <2>3
<1> QED  BY <1>5, <1>6

(* In every reachable state, the lock's holder is the call that pushes, a Close
   frame is the last and marked, what on_close may be told has a trace, and
   what run_connection took from the stream is delivered or in assembly. *)
THEOREM Invariance == Spec => []IInv
<1>1. Init => IInv
  BY InitIInv
<1>2. IInv /\ [Next]_vars => IInv'
  BY StepIInv
<1> QED  BY <1>1, <1>2, PTL DEF Spec

(* The types of the connection's state, for any limits, on both adapters: the
   bounded queue of the transport never holds more than its limit. *)
THEOREM ConnectionTypeCorrect == Spec => []TypeOK
<1>1. IInv => TypeOK
  BY DEF IInv, SessionTyped, WireTyped, InputTyped, TypeOK
<1> QED  BY <1>1, Invariance, PTL

(* MessageStream::poll_next and the assembly of run_connection: on_text and
   on_binary are given whole messages of the peer, within the limit and in its
   order, with no frame skipped, however its frames arrive. *)
THEOREM CallbacksGetMessagesInOrder == Spec => []MessagesInOrder
<1>1. IInv => MessagesInOrder
  BY DEF IInv
<1> QED  BY <1>1, Invariance, PTL

(* Session::close marks the session under the transport's lock and
   StreamingBody::poll_next ends with the first Close frame: nothing follows a
   Close frame, and no frame is lost for which a call succeeded. *)
THEOREM AcceptedFramesAreSent == Spec => []AcceptedFramesArrive
<1>1. ASSUME IInv, NEW i \in DOMAIN wire, NEW j \in DOMAIN wire, IsClose(wire[i]) PROVE j <= i
  <2>1. i = Len(wire) /\ wire \in Seq(OutFrames)
    BY <1>1 DEF IInv, CloseInv, WireTyped
  <2> QED  BY <2>1
<1>2. IInv => AcceptedFramesArrive
  BY <1>1 DEF IInv, CloseInv, AcceptedFramesArrive
<1> QED  BY <1>2, Invariance, PTL

(* WebSocketSession.close_frame and the loop's own close_frame: on_close is
   told of a frame that was received, was sent or is on its way, or of a close
   call that sent nothing; on Actix it is the frame the peer was sent. *)
THEOREM OnCloseTellsTheTruth == Spec => []OnCloseIsTruthful
<1>1. IInv => OnCloseIsTruthful
  <2> SUFFICES ASSUME IInv, phase \in {"onClose", "done"}, peer = "up" PROVE
        /\ \/ reported \in {"none"} \cup dropped \cup OnTheirWay
           \/ reported = "peer" /\ "close" \in {sent[i] : i \in 1..read}
        /\ Actix /\ dropped = {} /\ (\A c \in Callers : calls[c] = Idle) =>
               \A i \in DOMAIN wire : IsClose(wire[i]) => wire[i] = reported
    BY DEF OnCloseIsTruthful
  <2>1. reported \in {"none"} \cup dropped \cup OnTheirWay
    BY DEF IInv, KnownInv, Known
  <2>2. ASSUME Actix, dropped = {}, \A c \in Callers : calls[c] = Idle,
               NEW i \in DOMAIN wire, IsClose(wire[i])
        PROVE  wire[i] = reported
    <3>1. PendingCloses = {}
      BY <2>2 DEF PendingCloses, Idle
    <3>2. SoleClose(wire[i]) /\ wire[i] \in CloseFrames
      BY <2>2, <3>1 DEF SoleClose, Framed, IsClose
    <3>3. Agreed(wire[i])
      BY <2>2, <3>2 DEF IInv, AgreeInv, Undisturbed
    <3> QED  BY <3>3 DEF Agreed
  <2> QED  BY <2>1, <2>2
<1> QED  BY <1>1, Invariance, PTL
=============================================================================
