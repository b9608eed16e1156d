--------------------------- MODULE MCCommandLine ----------------------------
(***************************************************************************)
(* The commands that change a project, and run --watch.  They share no     *)
(* state, so a behaviour exercises one of the two.                         *)
(***************************************************************************)
EXTENDS ProjectCommands, WatchRun

CONSTANT users \* the one feature, a model value

VARIABLE part

vars == <<part, projectVars, watchVars>>

Init == part \in {"project", "watch"} /\ ProjectInit /\ WatchInit

Next ==
    \/ part = "project" /\ ProjectNext /\ UNCHANGED <<part, watchVars>>
    \/ part = "watch" /\ WatchNext /\ UNCHANGED <<part, projectVars>>

Spec ==
    /\ Init /\ [][Next]_vars
    /\ WF_vars(part = "watch" /\ MainRuns /\ UNCHANGED <<part, projectVars>>)
    /\ WF_vars(part = "watch" /\ HandlerNext /\ UNCHANGED <<part, projectVars>>)
=============================================================================
