------------------------- MODULE ProviderLifecycle -------------------------
(***************************************************************************)
(* The life of a module's providers, from build_container to               *)
(* shutdown_module (crates/caelix-core/src/module.rs and container.rs):    *)
(* the graph is validated, providers are built and initialised in          *)
(* dependency order, event handlers registered, the graph validated again, *)
(* providers bootstrapped, and in the end shut down; any failure on the way*)
(* rolls back what was initialised.                                        *)
(*                                                                         *)
(* Everything runs in one task, so a hook and the bookkeeping around it are*)
(* one step; what varies is the module graph, the overrides and which hooks*)
(* fail.  The order that preflight returns is any order with dependencies  *)
(* first: DependencyOrder shows that `schedule` returns one of these.      *)
(***************************************************************************)
EXTENDS Integers, Sequences, FiniteSets

CONSTANTS
    Types,       \* provider types
    Configs      \* the applications considered

OverrideKinds == {"none", "instance", "factory", "injectable"}

(* An application: the declared providers, those declared twice, the declared
   dependencies and the declared types its module lets each provider see, the
   overrides with their dependencies, the values that setup registered, and
   whether a gateway path is invalid.  Overrides and setup belong to different
   entry points. *)
Config == [declared: SUBSET Types, twice: SUBSET Types,
           deps: [Types -> SUBSET Types], sees: [Types -> SUBSET Types],
           override: [Types -> OverrideKinds],
           overrideDeps: [Types -> SUBSET Types],
           preset: SUBSET Types, badPaths: BOOLEAN]

ASSUME TypesAssumption == IsFiniteSet(Types)
ASSUME ConfigsAssumption == Configs \subseteq Config

VARIABLES
    config,       \* the application, never changed
    pc,           \* the next part of the startup or the shutdown
    pending,      \* pending_overrides
    applied,      \* applied_overrides
    services,     \* types with a value in the container
    order,        \* what is left of the order preflight returned
    initialized,  \* initialized_providers
    bootstrapped, \* bootstrapped_providers
    teardown,     \* what is left of the providers taken for shutdown
    failure,      \* why startup failed
    hooked,       \* history: types whose on_module_init hook ran and succeeded
    ups,          \* history: production providers in the order they came up
    boots,        \* history: the order of successful on_bootstrap calls
    downs         \* history: the order of on_shutdown calls

containerVars == <<pending, applied, services, initialized, bootstrapped>>
historyVars == <<hooked, ups, boots, downs>>
vars == <<config, pc, containerVars, order, teardown, failure, historyVars>>

Parts == {"validate", "construct", "revalidate", "plan", "bootstrap",
          "running", "rollback", "stopping", "failed", "stopped"}
Failures == {"none", "graph", "build", "init", "handler", "unused", "paths",
             "bootstrap"}

TypeOK ==
    /\ config \in Config
    /\ pc \in Parts
    /\ pending \subseteq Types
    /\ applied \subseteq Types \ pending
    /\ services \subseteq Types
    /\ order \in Seq(Types)
    /\ initialized \in Seq(Types)
    /\ bootstrapped \subseteq Types
    /\ teardown \in Seq(Types)
    /\ failure \in Failures
    /\ hooked \subseteq Types
    /\ ups \in Seq(Types) /\ boots \in Seq(Types) /\ downs \in Seq(Types)

(* Container::new, seed_overrides, and the setup closure. *)
Init ==
    /\ config \in Configs
    /\ pc = "validate"
    /\ pending = {t \in Types : config.override[t] # "none"}
    /\ applied = {}
    /\ services = config.preset
    /\ order = <<>>
    /\ initialized = <<>>
    /\ bootstrapped = {}
    /\ teardown = <<>>
    /\ failure = "none"
    /\ hooked = {}
    /\ ups = <<>> /\ boots = <<>> /\ downs = <<>>

-----------------------------------------------------------------------------
(* preflight. *)

(* The definition in force: an override counts while it is pending. *)
EffectiveDeps(t) ==
    IF t \in pending THEN config.overrideDeps[t] ELSE config.deps[t]

NoDuplicates == config.twice \subseteq pending \cup applied

NothingHidden ==
    \A t \in config.declared :
        EffectiveDeps(t) \cap config.declared \subseteq config.sees[t]

NothingMissing ==
    \A t \in config.declared :
        EffectiveDeps(t) \subseteq config.declared \cup services

(* Orders of the declared providers, dependencies first; none for a cycle. *)
Orders ==
    LET n == Cardinality(config.declared)
    IN  {o \in [1..n -> config.declared] :
            /\ \A t \in config.declared : \E i \in 1..n : o[i] = t
            /\ \A i \in 1..n : \A j \in i..n : o[j] \notin EffectiveDeps(o[i])}

PreflightPasses(o) ==
    NoDuplicates /\ NothingHidden /\ NothingMissing /\ o \in Orders

PreflightFails ==
    ~(NoDuplicates /\ NothingHidden /\ NothingMissing) \/ Orders = {}

-----------------------------------------------------------------------------
(* Failure: rollback_graph, or nothing to roll back. *)

Reversed(s) == [i \in 1..Len(s) |-> s[Len(s) + 1 - i]]

(* Mutant: providers are shut down in startup order. *)
TakeInitialized_Forward ==
    /\ teardown' = initialized
    /\ initialized' = <<>>

TakeInitialized ==
    /\ teardown' = Reversed(initialized)
    /\ initialized' = <<>>

RollBack(why) ==
    /\ failure' = why
    /\ pc' = "rollback"
    /\ TakeInitialized

(* The first preflight returns its error; nothing was initialised yet. *)
Reject ==
    /\ pc = "validate"
    /\ PreflightFails
    /\ failure' = "graph"
    /\ pc' = "failed"
    /\ UNCHANGED <<config, containerVars, order, teardown, historyVars>>

-----------------------------------------------------------------------------
(* initialize_graph. *)

Validate ==
    /\ pc = "validate"
    /\ \E o \in Orders : PreflightPasses(o) /\ order' = o
    /\ pc' = "construct"
    /\ UNCHANGED <<config, containerVars, teardown, failure, historyVars>>

Current == order[1]
HasCurrent == order # <<>>
Overridden(t) == t \in pending
Hooks(t) == ~Overridden(t) \/ config.override[t] = "injectable"

(* A value that is already there is neither built nor initialised. *)
Skip ==
    /\ pc = "construct"
    /\ HasCurrent
    /\ Current \in services \cup applied
    /\ order' = Tail(order)
    /\ UNCHANGED <<config, pc, containerVars, teardown, failure, historyVars>>

(* take_pending_override and mark_override_applied precede the build. *)
TakeOverride(t) ==
    /\ pending' = pending \ {t}
    /\ applied' = IF Overridden(t) THEN applied \cup {t} ELSE applied

Building(t) ==
    /\ pc = "construct"
    /\ HasCurrent
    /\ t = Current
    /\ t \notin services \cup applied
    /\ TakeOverride(t)

(* An override is registered and initialised, but never recorded. *)
Initialize(t) ==
    /\ Building(t)
    /\ services' = services \cup {t}
    /\ initialized' = IF Overridden(t) THEN initialized ELSE Append(initialized, t)
    /\ ups' = IF Overridden(t) THEN ups ELSE Append(ups, t)
    /\ hooked' = IF Hooks(t) THEN hooked \cup {t} ELSE hooked
    /\ order' = Tail(order)
    /\ UNCHANGED <<config, pc, bootstrapped, teardown, failure, boots, downs>>

(* A value override cannot fail to build. *)
BuildFails(t) ==
    /\ Building(t)
    /\ ~(Overridden(t) /\ config.override[t] = "instance")
    /\ RollBack("build")
    /\ UNCHANGED <<config, services, order, bootstrapped, historyVars>>

InitFails(t) ==
    /\ Building(t)
    /\ Hooks(t)
    /\ services' = services \cup {t}
    /\ RollBack("init")
    /\ UNCHANGED <<config, order, bootstrapped, historyVars>>

(* The event handlers of every module, after all providers. *)
RegisterHandlers ==
    /\ pc = "construct"
    /\ ~HasCurrent
    /\ pc' = "revalidate"
    /\ UNCHANGED <<config, containerVars, order, teardown, failure, historyVars>>

(* Only a handwritten register_into can refuse. *)
HandlerRefuses ==
    /\ pc = "construct"
    /\ ~HasCurrent
    /\ RollBack("handler")
    /\ UNCHANGED <<config, pending, applied, services, bootstrapped, order,
                   historyVars>>

-----------------------------------------------------------------------------
(* assert_no_unused_overrides, validate_module_providers (with a preflight of
   its own) and validate_gateway_paths. *)

Sound ==
    /\ pending = {}
    /\ ~PreflightFails
    /\ ~config.badPaths

(* Mutant: an error found here is returned without a rollback. *)
RejectLate_NoRollback ==
    /\ pc = "revalidate"
    /\ ~Sound
    /\ failure' = IF pending # {} THEN "unused"
                  ELSE IF PreflightFails THEN "graph" ELSE "paths"
    /\ pc' = "failed"
    /\ UNCHANGED <<config, containerVars, order, teardown, historyVars>>

RejectLate ==
    /\ pc = "revalidate"
    /\ ~Sound
    /\ RollBack(IF pending # {} THEN "unused"
                ELSE IF PreflightFails THEN "graph" ELSE "paths")
    /\ UNCHANGED <<config, pending, applied, services, bootstrapped, order,
                   historyVars>>

Revalidate ==
    /\ pc = "revalidate"
    /\ Sound
    /\ pc' = "plan"
    /\ UNCHANGED <<config, containerVars, order, teardown, failure, historyVars>>

-----------------------------------------------------------------------------
(* bootstrap_graph. *)

Shuffled == {o \in [1..Cardinality(config.declared) -> config.declared] :
                \A t \in config.declared : \E i \in DOMAIN o : o[i] = t}

Plan ==
    /\ pc = "plan"
    /\ \E o \in Orders : PreflightPasses(o) /\ order' = o
    /\ pc' = "bootstrap"
    /\ UNCHANGED <<config, containerVars, teardown, failure, historyVars>>

Listed(t, s) == \E i \in 1..Len(s) : s[i] = t

Bootstrappable(t) ==
    Listed(t, initialized) /\ t \notin applied /\ t \notin bootstrapped

PassOver ==
    /\ pc = "bootstrap"
    /\ HasCurrent
    /\ ~Bootstrappable(Current)
    /\ order' = Tail(order)
    /\ UNCHANGED <<config, pc, containerVars, teardown, failure, historyVars>>

(* begin_provider_bootstrap, then on_bootstrap. *)
Bootstrap(t) ==
    /\ pc = "bootstrap"
    /\ HasCurrent
    /\ t = Current
    /\ Bootstrappable(t)
    /\ bootstrapped' = bootstrapped \cup {t}
    /\ boots' = Append(boots, t)
    /\ order' = Tail(order)
    /\ UNCHANGED <<config, pc, pending, applied, services, initialized,
                   teardown, failure, hooked, ups, downs>>

BootstrapFails(t) ==
    /\ pc = "bootstrap"
    /\ HasCurrent
    /\ t = Current
    /\ Bootstrappable(t)
    /\ bootstrapped' = bootstrapped \cup {t}
    /\ RollBack("bootstrap")
    /\ UNCHANGED <<config, pending, applied, services, order, historyVars>>

Started ==
    /\ pc = "bootstrap"
    /\ ~HasCurrent
    /\ pc' = "running"
    /\ UNCHANGED <<config, containerVars, order, teardown, failure, historyVars>>

-----------------------------------------------------------------------------
(* shutdown_module, which may be called again, and the loop it shares with
   rollback_graph: a hook that fails does not keep the others from running. *)

Stop ==
    /\ pc \in {"running", "stopped"}
    /\ TakeInitialized
    /\ pc' = "stopping"
    /\ UNCHANGED <<config, pending, applied, services, bootstrapped, order,
                   failure, historyVars>>

ShutDown(t) ==
    /\ pc \in {"rollback", "stopping"}
    /\ teardown # <<>>
    /\ t = teardown[1]
    /\ downs' = Append(downs, t)
    /\ teardown' = Tail(teardown)
    /\ UNCHANGED <<config, pc, containerVars, order, failure, hooked, ups, boots>>

Over ==
    /\ pc \in {"rollback", "stopping"}
    /\ teardown = <<>>
    /\ pc' = IF pc = "rollback" THEN "failed" ELSE "stopped"
    /\ UNCHANGED <<config, containerVars, order, teardown, failure, historyVars>>

-----------------------------------------------------------------------------
Next ==
    \/ Reject \/ Validate \/ Skip \/ RegisterHandlers \/ HandlerRefuses
    \/ RejectLate \/ Revalidate \/ Plan \/ PassOver \/ Started \/ Stop \/ Over
    \/ \E t \in Types :
        \/ Initialize(t) \/ BuildFails(t) \/ InitFails(t)
        \/ Bootstrap(t) \/ BootstrapFails(t) \/ ShutDown(t)

Spec == Init /\ [][Next]_vars

-----------------------------------------------------------------------------
(* Properties. *)

(* Once a startup has failed or a shutdown is over, on_shutdown has been called
   once for every production provider that came up, in reverse order, and for
   nothing else, wherever the startup failed and whichever hooks did (record_
   initialized_provider, rollback_graph, shutdown_module). *)
LastInFirstOut ==
    pc \in {"failed", "stopped"} => downs = Reversed(ups)

(* No provider is ever shut down before one that depends on it, although the
   startup order was planned with the overrides' dependencies. *)
DependentsGoFirst ==
    \A i \in 1..Len(downs), k \in 1..Len(ups) :
        downs[i] \in config.deps[ups[k]] => \E j \in 1..(i - 1) : downs[j] = ups[k]

(* on_bootstrap runs at most once per provider, and after that of each of its
   dependencies that has one to run; the order comes from a third preflight,
   with other dependencies in force than when providers were built. *)
BootstrapOrder ==
    \A i \in 1..Len(boots) :
        /\ \A j \in 1..Len(boots) : boots[i] = boots[j] => i = j
        /\ Listed(boots[i], ups)
        /\ \A t \in config.deps[boots[i]] :
            Listed(t, ups) => \E j \in 1..(i - 1) : boots[j] = t

(* An application that runs has every declared provider in its container, and
   has bootstrapped every one that is neither overridden nor preset. *)
RunningIsComplete ==
    pc = "running" =>
        /\ config.declared \subseteq services
        /\ pending = {}
        /\ \A t \in config.declared \ (applied \cup config.preset) : Listed(t, boots)

(* The documented order of startup: the module graph is validated, and only
   then are providers constructed; so an error of the graph is reported before
   any provider exists. *)
GraphErrorsComeFirst ==
    failure = "graph" => services = config.preset

(* "on_shutdown runs once in reverse successful startup order": whatever ran
   on_module_init is shut down. *)
HooksArePaired ==
    pc \in {"failed", "stopped"} => \A t \in hooked : Listed(t, downs)
=============================================================================
