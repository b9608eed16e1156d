------------------------------ MODULE EventBus ------------------------------
(***************************************************************************)
(* The in-process event bus for one type of event: registration, emit and  *)
(* the live streams (crates/caelix-core/src/events.rs).                    *)
(*                                                                         *)
(* The registries are two locks, and emit and subscribe look into them one *)
(* after the other, so a subscription may come between any two looks.      *)
(***************************************************************************)
EXTENDS Integers, FiniteSets, SequencesExt

CONSTANTS
    Handlers,       \* values of RegisterableEventHandler
    Emitters,       \* concurrent callers of emit
    MaxEmits,       \* bound of the model: emits of each
    Subscribers,    \* concurrent callers of subscribe
    BusCapacity     \* EVENT_BROADCAST_CAPACITY

ASSUME BusAssumption == MaxEmits \in Nat /\ BusCapacity \in Nat \ {0}

VARIABLES
    handlers,    \* the registry: handlers in the order they were registered
    channels,    \* what was sent to each channel ever made
    channel,     \* the channel in the registry, 0 when there is none
    emits,       \* per emitter: its event, the handlers still to run, the channel it found
    streams,     \* per subscriber: how far it got, its channel, and its position there
    begun,       \* history: per event, the handlers registered when its emit began
    done,        \* history: the events whose emit returned Ok
    handled      \* history: which handler was done with which event

busVars == <<handlers, channels, channel, emits, streams, begun, done, handled>>

Events == Emitters \X (1..MaxEmits)

BusInit ==
    /\ handlers = <<>>
    /\ channels = <<>>
    /\ channel = 0
    /\ emits = [p \in Emitters |-> [step |-> "idle", event |-> <<p, 0>>]]
    /\ streams = [s \in Subscribers |-> [step |-> "out"]]
    /\ begun = <<>>
    /\ done = {}
    /\ handled = {}

(* A module's handlers are registered one by one as it starts, and emits of
   lifecycle hooks may be under way by then. *)
Register(h) ==
    /\ h \notin ToSet(handlers)
    /\ handlers' = Append(handlers, h)
    /\ UNCHANGED <<channels, channel, emits, streams, begun, done, handled>>

(* emit copies the list of handlers and runs that copy. *)
Emit(p) ==
    /\ emits[p].step = "idle" /\ emits[p].event[2] < MaxEmits
    /\ LET e == <<p, emits[p].event[2] + 1>> IN
        /\ emits' = [emits EXCEPT ![p] = [step |-> "handling", event |-> e, rest |-> handlers]]
        /\ begun' = [d \in DOMAIN begun \cup {e} |-> IF d = e THEN ToSet(handlers) ELSE begun[d]]
    /\ UNCHANGED <<handlers, channels, channel, streams, done, handled>>

(* The first handler that fails ends the emit. *)
Handle(p) ==
    /\ emits[p].step = "handling" /\ emits[p].rest # <<>>
    /\ \/ /\ emits' = [emits EXCEPT ![p].rest = Tail(@)]
          /\ handled' = handled \cup {<<Head(emits[p].rest), emits[p].event>>}
       \/ /\ emits' = [emits EXCEPT ![p] = [step |-> "idle", event |-> @.event]]
          /\ UNCHANGED handled
    /\ UNCHANGED <<handlers, channels, channel, streams, begun, done>>

LookUp(p) ==
    /\ emits[p].step = "handling" /\ emits[p].rest = <<>>
    /\ emits' = [emits EXCEPT ![p] = [step |-> "sending", event |-> @.event, to |-> channel]]
    /\ UNCHANGED <<handlers, channels, channel, streams, begun, done, handled>>

Send(p) ==
    /\ emits[p].step = "sending"
    /\ channels' = IF emits[p].to = 0 THEN channels
                   ELSE [channels EXCEPT ![emits[p].to] = Append(@, emits[p].event)]
    /\ done' = done \cup {emits[p].event}
    /\ emits' = [emits EXCEPT ![p] = [step |-> "idle", event |-> @.event]]
    /\ UNCHANGED <<handlers, channel, streams, begun, handled>>

(* subscribe looks with the read lock, and again with the write lock when it
   found nothing. *)
Find(s) ==
    /\ streams[s].step = "out"
    /\ streams' = [streams EXCEPT ![s] = IF channel = 0 THEN [step |-> "creating"]
                                         ELSE [step |-> "attaching", in |-> channel]]
    /\ UNCHANGED <<handlers, channels, channel, emits, begun, done, handled>>

OpenChannel_Always(s) ==
    /\ streams[s].step = "creating"
    /\ channels' = Append(channels, <<>>)
    /\ channel' = Len(channels')
    /\ streams' = [streams EXCEPT ![s] = [step |-> "attaching", in |-> channel']]
    /\ UNCHANGED <<handlers, emits, begun, done, handled>>

OpenChannel(s) ==
    /\ streams[s].step = "creating"
    /\ IF channel = 0 THEN channels' = Append(channels, <<>>) /\ channel' = Len(channels')
       ELSE UNCHANGED <<channels, channel>>
    /\ streams' = [streams EXCEPT ![s] = [step |-> "attaching", in |-> channel']]
    /\ UNCHANGED <<handlers, emits, begun, done, handled>>

(* The receiver starts at the channel's tail.  "before" is history: the events
   whose emit had begun by then. *)
Attach(s) ==
    /\ streams[s].step = "attaching"
    /\ streams' = [streams EXCEPT ![s] =
        [step |-> "live", in |-> @.in, from |-> Len(channels[@.in]), next |-> Len(channels[@.in]) + 1,
         got |-> <<>>, lagged |-> FALSE, before |-> DOMAIN begun]]
    /\ UNCHANGED <<handlers, channels, channel, emits, begun, done, handled>>

(* A receiver that is more than the capacity behind goes on with the oldest
   event that is left. *)
Position(s) ==
    LET oldest == Len(channels[streams[s].in]) - BusCapacity + 1 IN
    IF streams[s].next < oldest THEN oldest ELSE streams[s].next

Receive(s) ==
    /\ streams[s].step = "live" /\ streams[s].next <= Len(channels[streams[s].in])
    /\ LET at == Position(s) IN
        streams' = [streams EXCEPT
            ![s].next = at + 1,
            ![s].lagged = @ \/ at > streams[s].next,
            ![s].got = Append(@, channels[streams[s].in][at])]
    /\ UNCHANGED <<handlers, channels, channel, emits, begun, done, handled>>

BusNext ==
    \/ \E h \in Handlers : Register(h)
    \/ \E p \in Emitters : Emit(p) \/ Handle(p) \/ LookUp(p) \/ Send(p)
    \/ \E s \in Subscribers : Find(s) \/ OpenChannel(s) \/ Attach(s) \/ Receive(s)

(* What emit and subscribe promise together.  A stream yields an event only
   when every handler that was registered as its emit began has handled it
   without error; and an event whose emit began after the subscription and
   returned Ok is received, or still waits to be, unless the subscriber fell
   behind by more than the capacity.  However the first subscriptions race
   for the channel, none ends up on one nobody sends to. *)
Reached(s) == LET st == streams[s] IN
    ToSet(st.got) \cup {channels[st.in][i] : i \in st.next..Len(channels[st.in])}
BusDelivers ==
    \A s \in {t \in Subscribers : streams[t].step = "live"} :
        /\ \A e \in ToSet(streams[s].got) : \A h \in begun[e] : <<h, e>> \in handled
        /\ \A e \in done \ streams[s].before : e \in Reached(s) \/ streams[s].lagged
=============================================================================
