------------------------- MODULE ApplicationRuntime -------------------------
(***************************************************************************)
(* An Application from Application::new to the end of listen               *)
(* (application.rs of crates/caelix-actix and crates/caelix-axum), and the *)
(* requests it serves meanwhile.                                           *)
(*                                                                         *)
(* actix-server stops gracefully on SIGTERM only: it waits for the         *)
(* requests, for 30 seconds.  On SIGINT and SIGQUIT it waits for nothing,  *)
(* and server.await may return, and the shutdown hooks run, while requests *)
(* are still being handled: the code does not look at them.  axum::serve   *)
(* is started without graceful shutdown: it never returns, and a signal    *)
(* ends the process.                                                       *)
(***************************************************************************)
EXTENDS RequestPipeline

VARIABLES
    backend,        \* actix or axum
    app,            \* what the application is doing
    doctor,         \* whether --doctor is among the arguments
    failed,         \* history: what went wrong: bind, server, hooks
    hooks,          \* history: how often shutdown_module was run
    result          \* what listen returned

runtimeVars == <<backend, app, doctor, failed, hooks, result>>
vars == <<runtimeVars, requestVars>>

RuntimeInit ==
    /\ backend \in {"actix", "axum"}
    /\ app = "new" /\ doctor \in BOOLEAN
    /\ failed = {} /\ hooks = 0 /\ result = "none"

Init == RuntimeInit /\ PipelineInit

(* build_container, which rolls back what it started if it fails. *)
ActixNew ==
    /\ backend = "actix"
    /\ app = "new" /\ app' \in {"built", "gone"}
    /\ UNCHANGED <<backend, doctor, failed, hooks, result, requestVars>>

(* With the handle of Socket.IO among the instances. *)
AxumNew ==
    /\ backend = "axum"
    /\ app = "new" /\ app' \in {"built", "gone"}
    /\ UNCHANGED <<backend, doctor, failed, hooks, result, requestVars>>

(* build_openapi fails, and the application is dropped. *)
WithOpenapiFails ==
    /\ app = "built" /\ app' = "gone"
    /\ UNCHANGED <<backend, doctor, failed, hooks, result, requestVars>>

(* Panics if a gateway is registered twice, or Socket.IO attached twice. *)
WithSocketIoPanics ==
    /\ backend = "axum"
    /\ app = "built" /\ app' = "gone"
    /\ UNCHANGED <<backend, doctor, failed, hooks, result, requestVars>>

(* Mutant: the bind error is returned at once. *)
BindFails_NoShutdown ==
    /\ ~doctor
    /\ app = "built" /\ app' = "returned"
    /\ failed' = failed \cup {"bind"} /\ result' = "bind"
    /\ UNCHANGED <<backend, doctor, hooks, requestVars>>

(* The routes are set up, and nothing is bound. *)
PrepareDoctor ==
    /\ backend = "actix" /\ doctor
    /\ app = "built" /\ app' = "stopped"
    /\ UNCHANGED <<backend, doctor, failed, hooks, result, requestVars>>

ActixBind ==
    /\ backend = "actix" /\ ~doctor
    /\ app = "built" /\ app' = "serving"
    /\ UNCHANGED <<backend, doctor, failed, hooks, result, requestVars>>

(* Axum binds before it sets up the routes. *)
AxumBind ==
    /\ backend = "axum" /\ ~doctor
    /\ app = "built" /\ app' = "bound"
    /\ UNCHANGED <<backend, doctor, failed, hooks, result, requestVars>>

(* into_router, which panics when two routes are the same; the doctor shuts
   down after it. *)
IntoRouter ==
    /\ backend = "axum"
    /\ app = IF doctor THEN "built" ELSE "bound"
    /\ app' \in {IF doctor THEN "stopped" ELSE "serving", "gone"}
    /\ UNCHANGED <<backend, doctor, failed, hooks, result, requestVars>>

BindFails ==
    /\ ~doctor
    /\ app = "built" /\ app' = "stopped"
    /\ failed' = failed \cup {"bind"}
    /\ UNCHANGED <<backend, doctor, hooks, result, requestVars>>

(* A signal, and the process is gone. *)
AxumKilled ==
    /\ backend = "axum"
    /\ app \in {"bound", "serving"} /\ app' = "gone"
    /\ UNCHANGED <<backend, doctor, failed, hooks, result, requestVars>>

(* SIGTERM, or SIGINT or SIGQUIT. *)
ActixSignal ==
    /\ backend = "actix"
    /\ app = "serving" /\ app' \in {"draining", "forcing"}
    /\ UNCHANGED <<backend, doctor, failed, hooks, result, requestVars>>

(* The 30 seconds are over. *)
ForceStop ==
    /\ app = "draining" /\ app' = "forcing"
    /\ UNCHANGED <<backend, doctor, failed, hooks, result, requestVars>>

(* When server.await may return: it may fail at once. *)
ServerIsOver ==
    \/ app = "draining" /\ \A r \in Requests : ~Busy(r)
    \/ app = "forcing"

ServerReturns ==
    /\ backend = "actix"
    /\ \/ app = "serving" /\ failed' = failed \cup {"server"}
       \/ ServerIsOver /\ UNCHANGED failed
    /\ app' = "stopped"
    /\ UNCHANGED <<backend, doctor, hooks, result, requestVars>>

(* The bind error whatever the hooks say, theirs before that of the server. *)
Outcome(failures) ==
    IF failures = {} THEN "ok"
    ELSE IF "bind" \in failures THEN "bind"
    ELSE IF "hooks" \in failures THEN "hooks" ELSE "server"

(* shutdown_module, and listen returns. *)
Shutdown ==
    /\ app = "stopped" /\ app' = "returned"
    /\ hooks' = hooks + 1
    /\ failed' = failed \/ failed' = failed \cup {"hooks"}
    /\ result' = Outcome(failed')
    /\ UNCHANGED <<backend, doctor, requestVars>>

RuntimeNext ==
    \/ ActixNew \/ AxumNew \/ WithOpenapiFails \/ WithSocketIoPanics
    \/ PrepareDoctor \/ ActixBind \/ AxumBind \/ IntoRouter \/ BindFails
    \/ AxumKilled \/ ActixSignal \/ ForceStop \/ ServerReturns \/ Shutdown

(* Requests come until the server is told to stop, and on connections that are
   open until it has.  Those being handled go on; a stop that does not wait
   drops them sooner or later, perhaps after listen has returned. *)
Serve(r) ==
    /\ \/ app \in {"serving", "draining", "forcing"} /\ Arrive(r)
       \/ app \in {"serving", "draining", "forcing", "stopped", "returned"} /\ Progress(r)
    /\ UNCHANGED runtimeVars

Next == RuntimeNext \/ \E r \in Requests : Serve(r)

Spec == Init /\ [][Next]_vars

-----------------------------------------------------------------------------
(* Properties. *)

(* listen returns after the shutdown hooks ran, once, whether binding failed,
   the server failed, stopped or was forced to, or only the doctor asked; and
   it returns Ok only if nothing failed on the way, or else one of the errors. *)
ListenIsTruthful ==
    /\ hooks = IF app = "returned" THEN 1 ELSE 0
    /\ app = "returned" => /\ result = "ok" <=> failed = {}
                           /\ result \in failed \cup {"ok"}
=============================================================================
