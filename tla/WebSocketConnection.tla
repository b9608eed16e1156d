------------------------ MODULE WebSocketConnection ------------------------
(***************************************************************************)
(* One WebSocket connection of a gateway, on either adapter: run_connection *)
(* and its callbacks, the session that the application's tasks share with  *)
(* it, the transport with its lock and bounded queue, and the streams that *)
(* carry frames in both directions (crates/caelix-core/src/websocket.rs,   *)
(* crates/caelix-actix/src/websocket.rs and actix_ws/,                     *)
(* crates/caelix-axum/src/websocket.rs).                                   *)
(*                                                                         *)
(* The peer is external, and so is the library below the Axum adapter: it  *)
(* reassembles fragments, delivers frames and errors in order, and sends   *)
(* nothing after a Close frame.  A frame is what it is for run_connection; *)
(* a message is the sequence of the frames of the peer it is made of.      *)
(***************************************************************************)
EXTENDS Integers, Sequences, FiniteSets

CONSTANTS
    Adapters,     \* adapters of the model, of "actix" and "axum"
    Apps,         \* application tasks that hold the session
    MaxSize,      \* websocket_max_message_size, in fragments
    QueueLimit,   \* frames that wait for the socket
    MaxFrames,    \* bound of the model: frames of the peer
    MaxCalls      \* bound of the model: session calls of the application

ASSUME AdaptersAssumption == Adapters \subseteq {"actix", "axum"}
ASSUME AppsAssumption == IsFiniteSet(Apps) /\ Apps \cap {"task", "nobody"} = {}
ASSUME LimitsAssumption ==
    /\ MaxSize \in Nat \ {0}
    /\ QueueLimit \in Nat \ {0}
    /\ MaxFrames \in Nat
    /\ MaxCalls \in Nat

VARIABLES
    adapter,    \* which adapter serves the connection
    sent,       \* kinds of the frames the peer has sent
    peer,       \* is the peer's end of the connection up or gone
    read,       \* how many of its frames were decoded
    ready,      \* MessageStream.messages: decoded, not yet received
    fragment,   \* frames of the message in assembly
    phase,      \* where run_connection is
    reported,   \* its close_frame
    open,       \* WebSocketSession.open
    slot,       \* WebSocketSession.close_frame
    closed,     \* actix_ws Session.closed
    lock,       \* holder of the transport's Mutex
    calls,      \* session calls under way, of the application and the task
    budget,     \* session calls the application has left
    queue,      \* frames on their way to the socket
    receiving,  \* does the other end of the queue still take frames
    wire,       \* history: frames the peer was sent
    accepted,   \* history: frames that calls were told are sent
    delivered,  \* history: messages given to on_text or on_binary
    dropped     \* history: Close frames of calls that sent nothing

peerVars == <<sent, peer>>
inVars == <<read, ready, fragment>>
sessionVars == <<open, slot, closed>>
outVars == <<lock, queue, receiving, wire, accepted>>
vars == <<adapter, peerVars, inVars, phase, reported, sessionVars, calls, budget,
          outVars, delivered, dropped>>

Callers == Apps \cup {"task"}
Actix == adapter = "actix"

(* What a peer may send: whole messages, fragments, a ping, a Close frame with
   a code, without one or with a reserved one, and what the decoder refuses. *)
Broken == {"malformed", "oversized", "garbled"}
Fragments == {"first", "more", "last"}
Closings == {"close", "bareClose", "reservedClose"}
FrameKinds == {"data", "ping"} \cup Fragments \cup Closings \cup Broken

(* Close frames: the peer's, the application's, one whose code no server may
   send, and those of run_connection; "none" is a Close without a frame. *)
CloseFrames == {"none", "peer", "app", "unsendable", "internal", "protocol", "tooBig", "invalidData"}
OutFrames == {"text", "pong"} \cup CloseFrames
Nobody == "nobody"

Idle == [step |-> "idle", out |-> "none"]
Phases == {"connect", "check", "receive", "handle", "pong", "error", "lost", "close",
           "finish", "onClose", "done", "panicked"}

TypeOK ==
    /\ adapter \in Adapters
    /\ sent \in Seq(FrameKinds)
    /\ peer \in {"up", "gone"}
    /\ read \in 0..Len(sent)
    /\ ready \in Seq(1..Len(sent))
    /\ fragment \in Seq(1..Len(sent))
    /\ phase \in Phases
    /\ reported \in CloseFrames
    /\ open \in BOOLEAN /\ closed \in BOOLEAN /\ receiving \in BOOLEAN
    /\ dropped \subseteq CloseFrames
    /\ slot \in CloseFrames
    /\ lock \in Callers \cup {Nobody}
    /\ calls \in [Callers -> [step : {"idle", "waiting", "holding"}, out : OutFrames]]
    /\ budget \in 0..MaxCalls
    /\ queue \in Seq(OutFrames)
    /\ Len(queue) <= QueueLimit
    /\ wire \in Seq(OutFrames)
    /\ accepted \in Seq(OutFrames)
    /\ delivered \in Seq(Seq(1..Len(sent)))

Init ==
    /\ adapter \in Adapters
    /\ sent = <<>> /\ peer = "up"
    /\ read = 0 /\ ready = <<>> /\ fragment = <<>>
    /\ phase = "connect" /\ reported = "none"
    /\ open = TRUE /\ slot = "none" /\ closed = FALSE
    /\ lock = Nobody
    /\ calls = [c \in Callers |-> Idle]
    /\ budget = MaxCalls
    /\ queue = <<>> /\ receiving = TRUE /\ wire = <<>>
    /\ accepted = <<>>
    /\ delivered = <<>>
    /\ dropped = {}

-----------------------------------------------------------------------------
(* The session and the transport. *)

(* ensure_open, then the transport's lock. *)
SendStarts(c, f) ==
    /\ open
    /\ calls' = [calls EXCEPT ![c] = [step |-> "waiting", out |-> f]]
    /\ UNCHANGED <<sessionVars, dropped>>

(* to_axum_close. *)
Sendable(f) == IF f = "unsendable" THEN "internal" ELSE f

(* session.close keeps the frame before the transport looks at it.  Actix
   refuses a code it may not send, and closes the session before it sends. *)
CloseStarts(c, f) ==
    /\ slot' = f
    /\ IF Actix /\ f = "unsendable"
       THEN /\ dropped' = dropped \cup {f}
            /\ UNCHANGED <<open, calls>>
       ELSE /\ open' = (open /\ ~Actix)
            /\ calls' = [calls EXCEPT ![c] = [step |-> "waiting", out |-> Sendable(f)]]
            /\ UNCHANGED dropped
    /\ UNCHANGED closed

IsClose(f) == f \in CloseFrames

(* What a call of the connection's own task leads to. *)
Returns(c, ok, sends) ==
    /\ calls' = [calls EXCEPT ![c] = Idle]
    /\ phase' = IF c # "task" THEN phase
                ELSE IF phase = "pong" /\ ok THEN "check"
                ELSE "finish"
    /\ dropped' = IF IsClose(calls[c].out) /\ ~sends THEN dropped \cup {calls[c].out} ELSE dropped

(* Mutant: close does not mark the session. *)
Acquire_Unmarked(c) ==
    /\ calls[c].step = "waiting"
    /\ lock = Nobody
    /\ lock' = c
    /\ calls' = [calls EXCEPT ![c].step = "holding"]
    /\ UNCHANGED <<adapter, peerVars, inVars, phase, reported, sessionVars, budget, queue,
                   receiving, wire, accepted, delivered, dropped>>

(* Actix: the session is marked closed under the lock, once. *)
Acquire(c) ==
    /\ calls[c].step = "waiting"
    /\ lock = Nobody
    /\ IF Actix /\ closed
       THEN /\ Returns(c, FALSE, FALSE)
            /\ UNCHANGED <<lock, closed>>
       ELSE /\ lock' = c
            /\ calls' = [calls EXCEPT ![c].step = "holding"]
            /\ closed' = (closed \/ (Actix /\ IsClose(calls[c].out)))
            /\ UNCHANGED <<phase, dropped>>
    /\ UNCHANGED <<adapter, peerVars, inVars, reported, open, slot, budget, queue,
                   receiving, wire, accepted, delivered>>

ClosedOnWire(q) == \E i \in DOMAIN q : IsClose(q[i])
Closing == ClosedOnWire(wire) \/ ClosedOnWire(queue)

(* Axum's transport is open until the call has sent its Close frame. *)
AxumCloses(c) == open' = (open /\ (Actix \/ ~IsClose(calls[c].out)))

(* The queue takes the frame when it has room.  Below Axum, a second Close
   does nothing and other frames are refused after the first. *)
Push(c) ==
    /\ calls[c].step = "holding"
    /\ receiving
    /\ IF ~Actix /\ Closing
       THEN /\ Returns(c, IsClose(calls[c].out), FALSE)
            /\ UNCHANGED <<queue, accepted>>
       ELSE /\ Len(queue) < QueueLimit
            /\ queue' = Append(queue, calls[c].out)
            /\ accepted' = Append(accepted, calls[c].out)
            /\ Returns(c, TRUE, TRUE)
    /\ lock' = Nobody
    /\ AxumCloses(c)
    /\ UNCHANGED <<adapter, peerVars, inVars, reported, slot, closed, budget,
                   receiving, wire, delivered>>

(* The other end of the queue is gone. *)
PushFails(c) ==
    /\ calls[c].step = "holding"
    /\ ~receiving
    /\ Returns(c, FALSE, FALSE)
    /\ lock' = Nobody
    /\ AxumCloses(c)
    /\ UNCHANGED <<adapter, peerVars, inVars, reported, slot, closed, budget, queue,
                   receiving, wire, accepted, delivered>>

(* StreamingBody::poll_next: a Close frame is the last, whatever is queued. *)
Write ==
    /\ peer = "up" /\ receiving
    /\ queue # <<>>
    /\ wire' = Append(wire, Head(queue))
    /\ receiving' = ~(Actix /\ IsClose(Head(queue)))
    /\ queue' = IF receiving' THEN Tail(queue) ELSE <<>>
    /\ UNCHANGED <<adapter, peerVars, inVars, phase, reported, sessionVars, calls, budget,
                   lock, accepted, delivered, dropped>>

(* A task of the application, or a callback, sends or closes. *)
AppSends(a) ==
    /\ budget > 0
    /\ calls[a] = Idle
    /\ SendStarts(a, "text")
    /\ budget' = budget - 1
    /\ UNCHANGED <<adapter, peerVars, inVars, phase, reported, outVars, delivered>>

AppCloses(a) ==
    /\ budget > 0
    /\ calls[a] = Idle
    /\ \E f \in {"none", "app", "unsendable"} : CloseStarts(a, f)
    /\ budget' = budget - 1
    /\ UNCHANGED <<adapter, peerVars, inVars, phase, reported, outVars, delivered>>

-----------------------------------------------------------------------------
(* The peer and the network. *)

(* What follows a Close or a broken frame is never decoded.  Axum's library
   reassembles fragments and checks them. *)
PeerSends ==
    /\ peer = "up"
    /\ Len(sent) < MaxFrames
    /\ \A i \in DOMAIN sent : sent[i] \notin Closings \cup Broken
    /\ \E k \in FrameKinds :
        /\ Actix \/ k \notin Fragments
        /\ sent' = Append(sent, k)
    /\ UNCHANGED <<adapter, peer, inVars, phase, reported, sessionVars, calls, budget,
                   outVars, delivered, dropped>>

PeerLeaves ==
    /\ peer = "up"
    /\ peer' = "gone"
    /\ receiving' = FALSE
    /\ queue' = <<>>
    /\ UNCHANGED <<adapter, sent, inVars, phase, reported, sessionVars, calls, budget,
                   lock, wire, accepted, delivered, dropped>>

-----------------------------------------------------------------------------
(* run_connection. *)

taskIdle == UNCHANGED <<adapter, peerVars, budget, outVars>>
Silent == UNCHANGED <<sessionVars, calls, dropped>>

(* fail_handler, close_with_protocol_error and a broken frame: on_error runs,
   then the session is closed with the same frame. *)
Report(f) == phase' = "error" /\ reported' = f

ConnectReturns ==
    /\ phase = "connect"
    /\ \/ phase' = "check" /\ UNCHANGED reported
       \/ Report("internal")
    /\ taskIdle /\ Silent /\ UNCHANGED <<inVars, delivered>>

HandlerReturns ==
    /\ phase = "handle"
    /\ \/ phase' = "check" /\ UNCHANGED reported
       \/ Report("internal")
    /\ taskIdle /\ Silent /\ UNCHANGED <<inVars, delivered>>

(* while session.is_open(). *)
Check ==
    /\ phase = "check"
    /\ phase' = IF open THEN "receive" ELSE "finish"
    /\ taskIdle /\ Silent /\ UNCHANGED <<inVars, reported, delivered>>

(* A complete message goes to its callback. *)
Deliver(message) ==
    /\ delivered' = Append(delivered, message)
    /\ phase' = "handle"
    /\ UNCHANGED reported

Handled == Silent
Kept == UNCHANGED <<fragment, delivered>>

(* Mutant: a message under way is given up for the next. *)
StartFragment_Anew(i) ==
    /\ fragment' = <<i>>
    /\ phase' = "check"
    /\ UNCHANGED <<reported, delivered>>

StartFragment(i) ==
    IF fragment # <<>>
    THEN Report("protocol") /\ Kept
    ELSE /\ fragment' = <<i>>
         /\ phase' = "check"
         /\ UNCHANGED <<reported, delivered>>

(* A text assembled from fragments may not be UTF-8. *)
AppendFragment(i) ==
    IF fragment = <<>>
    THEN Report("protocol") /\ Kept
    ELSE IF Len(fragment) + 1 > MaxSize
    THEN Report("tooBig") /\ Kept
    ELSE IF sent[i] = "more"
    THEN /\ fragment' = Append(fragment, i)
         /\ phase' = "check"
         /\ UNCHANGED <<reported, delivered>>
    ELSE /\ fragment' = <<>>
         /\ \/ Deliver(Append(fragment, i))
            \/ Report("invalidData") /\ UNCHANGED delivered

Data(i) ==
    IF fragment # <<>>
    THEN Report("protocol") /\ Kept
    ELSE Deliver(<<i>>) /\ UNCHANGED fragment

(* The reply to a ping is a call of the session, which may be closed by now. *)
Ping ==
    IF open
    THEN SendStarts("task", "pong") /\ phase' = "pong"
    ELSE phase' = "finish" /\ Silent

Closes(f) ==
    /\ CloseStarts("task", f)
    /\ phase' = "close"

(* What run_connection does with the frame at i. *)
Receive(i) ==
    \/ /\ sent[i] = "data"
       /\ Data(i) /\ Handled
    \/ /\ sent[i] = "first"
       /\ StartFragment(i) /\ Handled
    \/ /\ sent[i] \in {"more", "last"}
       /\ AppendFragment(i) /\ Handled
    \/ /\ sent[i] = "ping"
       /\ Ping /\ Kept /\ UNCHANGED reported
    \/ /\ sent[i] = "close"
       /\ Closes("peer") /\ reported' = "peer" /\ Kept
    \/ /\ sent[i] = "bareClose" \/ (sent[i] = "reservedClose" /\ ~Actix)
       /\ Closes("none") /\ reported' = "none" /\ Kept
    \/ /\ sent[i] = "reservedClose" /\ Actix
       /\ Report("protocol") /\ Kept /\ Handled

(* protocol_close_code; Axum reports every error of its library alike. *)
ErrorCode(k) ==
    IF ~Actix THEN "protocol"
    ELSE CASE k = "oversized" -> "tooBig"
           [] k = "garbled" -> "invalidData"
           [] OTHER -> "protocol"

BrokenIn(n) == {i \in (read + 1)..n : sent[i] \in Broken}
FirstBroken(n) == CHOOSE i \in BrokenIn(n) : \A j \in BrokenIn(n) : i <= j

(* MessageStream::poll_next decodes all that has arrived before it returns
   the first message.  What it cannot decode it returns at once, and what it
   decoded before that stays in the queue. *)
ReceiveQueued ==
    /\ phase = "receive" /\ Actix
    /\ ready # <<>>
    /\ ready' = Tail(ready)
    /\ Receive(Head(ready))
    /\ taskIdle /\ UNCHANGED read

ReceiveArrived ==
    /\ phase = "receive" /\ Actix
    /\ ready = <<>>
    /\ \E n \in (read + 1)..Len(sent) :
        IF BrokenIn(n) # {}
        THEN /\ read' = FirstBroken(n)
             /\ ready' = [j \in 1..(FirstBroken(n) - read - 1) |-> read + j]
             /\ Report(ErrorCode(sent[FirstBroken(n)]))
             /\ Kept /\ Handled
        ELSE /\ read' = n
             /\ ready' = [j \in 1..(n - read - 1) |-> read + 1 + j]
             /\ Receive(read + 1)
    /\ taskIdle

(* Axum: one frame after another. *)
ReceiveNext ==
    /\ phase = "receive" /\ ~Actix
    /\ read < Len(sent)
    /\ read' = read + 1
    /\ IF sent[read'] \in Broken
       THEN Report(ErrorCode(sent[read'])) /\ Kept /\ Handled
       ELSE Receive(read')
    /\ taskIdle /\ UNCHANGED ready

(* The connection fails: an I/O error, seen before what is still buffered. *)
StreamFails ==
    /\ phase = "receive" /\ ready = <<>>
    /\ peer = "gone"
    /\ Report("protocol")
    /\ taskIdle /\ Silent /\ UNCHANGED <<inVars, delivered>>

(* Mutant: the end of the response body is not noticed. *)
StreamEnds_PeerOnly ==
    /\ phase = "receive" /\ ready = <<>>
    /\ peer = "gone" /\ read = Len(sent)
    /\ phase' = IF Actix /\ open THEN "lost" ELSE "finish"
    /\ taskIdle /\ Silent /\ UNCHANGED <<inVars, reported, delivered>>

(* The stream ends: the peer is gone or, on Actix, the response body ended.
   Actix tells the gateway if the session did not know. *)
StreamEnds ==
    /\ phase = "receive" /\ ready = <<>>
    /\ \/ peer = "gone" /\ read = Len(sent)
       \/ Actix /\ ~receiving
    /\ phase' = IF Actix /\ open THEN "lost" ELSE "finish"
    /\ taskIdle /\ Silent /\ UNCHANGED <<inVars, reported, delivered>>

LossReported ==
    /\ phase = "lost"
    /\ phase' = "finish"
    /\ taskIdle /\ Silent /\ UNCHANGED <<inVars, reported, delivered>>

(* on_error returned. *)
ErrorReported ==
    /\ phase = "error"
    /\ Closes(reported)
    /\ taskIdle /\ UNCHANGED <<inVars, reported, delivered>>

(* Mutant: the application's frame is forgotten. *)
Finish_NoFallback ==
    /\ phase = "finish"
    /\ open' = FALSE
    /\ phase' = "onClose"
    /\ taskIdle /\ UNCHANGED <<inVars, reported, slot, closed, calls, delivered, dropped>>

(* Only Actix falls back on the frame the application closed with. *)
Finish ==
    /\ phase = "finish"
    /\ reported' = IF Actix /\ reported = "none" THEN slot ELSE reported
    /\ slot' = IF Actix /\ reported = "none" THEN "none" ELSE slot
    /\ open' = FALSE
    /\ phase' = "onClose"
    /\ taskIdle /\ UNCHANGED <<inVars, closed, calls, delivered, dropped>>

CloseReturns ==
    /\ phase = "onClose"
    /\ phase' = "done"
    /\ taskIdle /\ Silent /\ UNCHANGED <<inVars, reported, delivered>>

(* A callback panics and takes run_connection with it. *)
CallbackPanics ==
    /\ phase \in {"connect", "handle", "error", "lost", "onClose"}
    /\ phase' = "panicked"
    /\ taskIdle /\ Silent /\ UNCHANGED <<inVars, reported, delivered>>

TaskNext ==
    \/ ConnectReturns \/ HandlerReturns \/ Check
    \/ ReceiveQueued \/ ReceiveArrived \/ ReceiveNext \/ StreamFails \/ StreamEnds
    \/ LossReported \/ ErrorReported \/ Finish \/ CloseReturns

CallNext(c) == Acquire(c) \/ Push(c) \/ PushFails(c)

Next ==
    \/ TaskNext \/ CallbackPanics
    \/ \E c \in Callers : CallNext(c)
    \/ \E a \in Apps : AppSends(a) \/ AppCloses(a)
    \/ Write \/ PeerSends \/ PeerLeaves

Spec == Init /\ [][Next]_vars

(* Callbacks return and the runtime polls the task and the calls; the socket
   takes frames while the peer is there.  Axum moreover depends on the peer: one
   that has a Close frame leaves, as it must by RFC 6455. *)
AnsweredClose == ~Actix /\ ClosedOnWire(wire) /\ PeerLeaves

FairSpec ==
    /\ Spec
    /\ WF_vars(TaskNext)
    /\ \A c \in Callers : WF_vars(CallNext(c))
    /\ WF_vars(Write)
    /\ WF_vars(AnsweredClose)

-----------------------------------------------------------------------------
(* Properties. *)

(* The position of a delivered message's last frame. *)
End(m) == m[Len(m)]
Ends == {End(delivered[k]) : k \in DOMAIN delivered}
Positions == UNION {{delivered[k][j] : j \in DOMAIN delivered[k]} : k \in DOMAIN delivered}

WellFormed(m) ==
    \/ Len(m) = 1 /\ sent[m[1]] = "data"
    \/ /\ Len(m) \in 2..MaxSize
       /\ sent[m[1]] = "first" /\ sent[End(m)] = "last"
       /\ \A j \in 2..(Len(m) - 1) : sent[m[j]] = "more"
       /\ \A j \in 1..(Len(m) - 1) : m[j] < m[j + 1]

(* The callbacks are given whole messages of the peer within the limit, in its
   order, and none of its frames is skipped before one that is delivered: from
   "Fragmented frames are reassembled before on_text or on_binary runs". *)
MessagesInOrder ==
    /\ \A k \in DOMAIN delivered : WellFormed(delivered[k])
    /\ \A k, l \in DOMAIN delivered : k < l => End(delivered[k]) < delivered[l][1]
    /\ \A i \in DOMAIN sent, e \in Ends :
        (i <= e /\ sent[i] \in Fragments \cup {"data"}) => i \in Positions

(* However many tasks send and close at once: the peer is sent nothing after a
   Close frame, and while it is there, every frame whose call succeeded was
   sent or waits to be.  The closed flag is set under the lock, so that no call
   succeeds for a frame that the end of the stream would discard. *)
AcceptedFramesArrive ==
    /\ \A i, j \in DOMAIN wire : IsClose(wire[i]) => j <= i
    /\ peer = "up" => accepted = wire \o queue

(* What on_close is told was received from the peer, or was sent to it or is on
   its way, unless the close call for that frame sent nothing.  On Actix, if
   every close call sent its frame, on_close and the peer agree on it. *)
OnTheirWay ==
    {wire[i] : i \in DOMAIN wire} \cup {queue[i] : i \in DOMAIN queue}
    \cup {calls[c].out : c \in {x \in Callers : calls[x].step # "idle"}}

OnCloseIsTruthful ==
    phase \in {"onClose", "done"} /\ peer = "up" =>
        /\ \/ reported \in {"none"} \cup dropped \cup OnTheirWay
           \/ reported = "peer" /\ "close" \in {sent[i] : i \in 1..read}
        /\ Actix /\ dropped = {} /\ (\A c \in Callers : calls[c] = Idle) =>
               \A i \in DOMAIN wire : IsClose(wire[i]) => wire[i] = reported

(* Once the session is closed, by either side or by a failure, or the peer is
   gone, run_connection comes to its end, whoever holds the lock or the queue
   then. *)
Over == phase \in {"done", "panicked"}
ConnectionEnds == (~open \/ peer = "gone") ~> Over
=============================================================================
