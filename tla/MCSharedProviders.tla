------------------------- MODULE MCSharedProviders --------------------------
(***************************************************************************)
(* The providers that concurrent requests share.  They have nothing in     *)
(* common but the clock, so a behaviour exercises one of them.             *)
(***************************************************************************)
EXTENDS ThrottleStore, CacheStore, EventBus, AccessLog

VARIABLE part

CONSTANTS
    Parts,      \* what the behaviours exercise: throttle, cache, bus, log
    r1, r2, client, proxy, list, item, h1, h2, p1, p2, s1, s2, t1, t2, t3

vars == <<part, clock, throttleVars, cacheVars, busVars, logVars>>

LimitOfRoutes == [r \in Routes |-> IF r = list THEN 2 ELSE 1]
WindowOfRoutes == [r \in Routes |-> IF r = list THEN 1 ELSE 2]
SomeTraffic ==
    {[peer |-> client, chain |-> Malformed, route |-> list],
     [peer |-> proxy, chain |-> <<client, proxy>>, route |-> item],
     [peer |-> proxy, chain |-> NoHeader, route |-> item],
     [peer |-> proxy, chain |-> Malformed, route |-> item]}

Init ==
    /\ part \in Parts
    /\ ThrottleInit /\ BusInit
    /\ IF part = "cache" THEN CacheInit
       ELSE options = [max |-> 0, ttl |-> NoLifetime] /\ entries = <<>> /\ answer = Miss
            /\ written = [k \in CacheKeys |-> Never]
    /\ LogInit
    /\ part # "throttle" => \A n \in Capacities : capacity <= n
    /\ part # "log" => logging = [own |-> FALSE, onlyErrors |-> FALSE]

ThrottlePart == part = "throttle" /\ ThrottleNext /\ UNCHANGED <<part, cacheVars, busVars, logVars>>
CachePart == part = "cache" /\ CacheNext /\ UNCHANGED <<part, throttleVars, busVars, logVars>>
BusPart == part = "bus" /\ BusNext /\ UNCHANGED <<part, clock, throttleVars, cacheVars, logVars>>
LogPart == part = "log" /\ LogNext /\ UNCHANGED <<part, clock, throttleVars, cacheVars, busVars>>

Next == ThrottlePart \/ CachePart \/ BusPart \/ LogPart

Others == <<part, clock, throttleVars, cacheVars, busVars>>
Spec ==
    /\ Init /\ [][Next]_vars
    /\ part = "log" =>
        /\ WF_vars(WriterNext /\ UNCHANGED Others)
        /\ WF_vars(IntervalPasses /\ UNCHANGED Others)
        /\ \A t \in Threads : WF_vars(ThreadNext(t) /\ UNCHANGED Others)
=============================================================================
