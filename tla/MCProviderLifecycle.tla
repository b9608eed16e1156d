------------------------ MODULE MCProviderLifecycle ------------------------
(* Instances of ProviderLifecycle for TLC: families of applications. *)
EXTENDS ProviderLifecycle, TLC

CONSTANTS a, b, c

None == [t \in Types |-> "none"]
NoDeps == [t \in Types |-> {}]
All == [t \in Types |-> Types]

(* Every override of one type at most. *)
Overrides ==
    {[kinds |-> None, deps |-> NoDeps]} \cup
    {[kinds |-> [None EXCEPT ![t] = "instance"], deps |-> NoDeps] : t \in Types} \cup
    {[kinds |-> [None EXCEPT ![t] = k], deps |-> [NoDeps EXCEPT ![t] = D]] :
        t \in Types, k \in {"factory", "injectable"}, D \in SUBSET Types}

Graphs == [Types -> SUBSET Types]

App(D, W, d, s, o, P, bad) ==
    [declared |-> D, twice |-> W, deps |-> d, sees |-> s, override |-> o.kinds,
     overrideDeps |-> o.deps, preset |-> P, badPaths |-> bad]

Plain == [kinds |-> None, deps |-> NoDeps]

(* Any dependencies, all types declared and visible. *)
AnyGraph ==
    {App(Types, {}, d, All, o, {}, FALSE) : d \in Graphs, o \in Overrides}

(* What else can be wrong with an application: types that are not declared,
   declared twice or not visible, bad gateway paths; and values from setup.
   Two types are declared at most, the third can only be missing. *)
Two == {a, b}
Stars == {[NoDeps EXCEPT ![t] = D] : t \in Two, D \in SUBSET Types}
Sights == {[All EXCEPT ![t] = D] : t \in Two, D \in SUBSET Two}

AnyApplication ==
    {App(D, D \cap W, d, All, o, {}, FALSE) :
        D \in SUBSET Two, W \in {{}, Types}, d \in Stars, o \in Overrides}
    \cup {App(Two, {}, d, s, Plain, {}, bad) :
            d \in Stars, s \in Sights, bad \in BOOLEAN}
    \cup {App(D, {}, d, All, Plain, P, FALSE) :
            D \in SUBSET Two, d \in Stars, P \in SUBSET Types}

Applications == AnyGraph \cup AnyApplication
=============================================================================
