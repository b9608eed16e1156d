-------------------------- MODULE DependencyOrder --------------------------
(***************************************************************************)
(* The depth-first search that puts the providers of a module graph into   *)
(* construction order: `schedule` inside ModuleGraph::preflight            *)
(* (crates/caelix-core/src/module.rs).  Discovery of the modules           *)
(* themselves (ModuleGraph::discover_from) is the same search over imports,*)
(* started from the root module alone.                                     *)
(*                                                                         *)
(* The dependencies of a node are a set and are taken in any order, which  *)
(* covers every order in which the source may list them; likewise for the  *)
(* registrations the search starts from.                                   *)
(***************************************************************************)
EXTENDS Integers, Sequences

CONSTANTS
    Nodes,       \* types that have a registration
    Others       \* types a provider may name without any registration

ASSUME NodesAssumption == Nodes \cap Others = {}

VARIABLES
    deps,        \* effective dependencies of every node, never changed
    asked,       \* the registrations to order, never changed
    roots,       \* those the outer loop has yet to visit
    mark,        \* the `states` map: 0 absent, 1 on the stack, 2 done
    stack,       \* the nodes being visited, outermost first
    todo,        \* dependencies each node on the stack has yet to visit
    sorted,      \* the result
    outcome      \* "running", "ok" or "cycle"

orderVars == <<deps, asked, roots, mark, stack, todo, sorted, outcome>>

OrderTypeOK ==
    /\ deps \in [Nodes -> SUBSET (Nodes \cup Others)]
    /\ asked \subseteq Nodes
    /\ roots \subseteq asked
    /\ mark \in [Nodes -> 0..2]
    /\ stack \in Seq(Nodes)
    /\ todo \in [Nodes -> SUBSET Nodes]
    /\ sorted \in Seq(Nodes)
    /\ outcome \in {"running", "ok", "cycle"}

OrderInit ==
    /\ deps \in [Nodes -> SUBSET (Nodes \cup Others)]
    /\ asked \in SUBSET Nodes
    /\ roots = asked
    /\ mark = [n \in Nodes |-> 0]
    /\ stack = <<>>
    /\ todo = [n \in Nodes |-> {}]
    /\ sorted = <<>>
    /\ outcome = "running"

Top == stack[Len(stack)]

(* Mutant: finished nodes are visited again. *)
Visit_Again(n, rest) ==
    \/ /\ mark[n] = 1
       /\ todo' = rest
       /\ outcome' = "cycle"
       /\ UNCHANGED <<mark, stack>>
    \/ /\ mark[n] # 1
       /\ mark' = [mark EXCEPT ![n] = 1]
       /\ stack' = Append(stack, n)
       /\ todo' = [rest EXCEPT ![n] = deps[n] \cap Nodes]
       /\ UNCHANGED outcome

(* The head of `schedule`: nothing for a finished node, an error for one that
   is being visited, otherwise its visit begins.  `rest` is the todo map after
   the caller's step.  by_type.get skips dependencies without registration. *)
Visit(n, rest) ==
    \/ /\ mark[n] = 2
       /\ todo' = rest
       /\ UNCHANGED <<mark, stack, outcome>>
    \/ /\ mark[n] = 1
       /\ todo' = rest
       /\ outcome' = "cycle"
       /\ UNCHANGED <<mark, stack>>
    \/ /\ mark[n] = 0
       /\ mark' = [mark EXCEPT ![n] = 1]
       /\ stack' = Append(stack, n)
       /\ todo' = [rest EXCEPT ![n] = deps[n] \cap Nodes]
       /\ UNCHANGED outcome

(* The outer loop over `definitions`. *)
VisitRoot(n) ==
    /\ outcome = "running"
    /\ stack = <<>>
    /\ n \in roots
    /\ roots' = roots \ {n}
    /\ Visit(n, todo)
    /\ UNCHANGED <<deps, asked, sorted>>

(* The loop over the dependencies of the node on top. *)
VisitDependency(n) ==
    /\ outcome = "running"
    /\ stack # <<>>
    /\ n \in todo[Top]
    /\ Visit(n, [todo EXCEPT ![Top] = @ \ {n}])
    /\ UNCHANGED <<deps, asked, roots, sorted>>

(* Mutant: the mark of a finished node is left at 1. *)
Finish_KeepsMark ==
    /\ outcome = "running"
    /\ stack # <<>>
    /\ todo[Top] = {}
    /\ stack' = SubSeq(stack, 1, Len(stack) - 1)
    /\ sorted' = Append(sorted, Top)
    /\ UNCHANGED <<deps, asked, roots, mark, todo, outcome>>

(* Mutant: a node is finished while dependencies are left. *)
Finish_Early ==
    /\ outcome = "running"
    /\ stack # <<>>
    /\ stack' = SubSeq(stack, 1, Len(stack) - 1)
    /\ mark' = [mark EXCEPT ![Top] = 2]
    /\ sorted' = Append(sorted, Top)
    /\ UNCHANGED <<deps, asked, roots, todo, outcome>>

(* The tail of `schedule`. *)
Finish ==
    /\ outcome = "running"
    /\ stack # <<>>
    /\ todo[Top] = {}
    /\ stack' = SubSeq(stack, 1, Len(stack) - 1)
    /\ mark' = [mark EXCEPT ![Top] = 2]
    /\ sorted' = Append(sorted, Top)
    /\ UNCHANGED <<deps, asked, roots, todo, outcome>>

Return ==
    /\ outcome = "running"
    /\ stack = <<>>
    /\ roots = {}
    /\ outcome' = "ok"
    /\ UNCHANGED <<deps, asked, roots, mark, stack, todo, sorted>>

OrderNext ==
    \/ \E n \in Nodes : VisitRoot(n) \/ VisitDependency(n)
    \/ Finish
    \/ Return

OrderSpec == OrderInit /\ [][OrderNext]_orderVars

-----------------------------------------------------------------------------
(* Properties. *)

Emitted == {sorted[i] : i \in 1..Len(sorted)}

(* Whatever the graph, the order constructs every provider once and after all
   of its registered dependencies (sorted.push comes after the loop). *)
DependenciesFirst ==
    \A i \in 1..Len(sorted) :
        /\ \A j \in 1..Len(sorted) : sorted[i] = sorted[j] => i = j
        /\ \A d \in deps[sorted[i]] \cap Nodes : \E j \in 1..(i - 1) : sorted[j] = d

(* A cycle is reported only where there is one: the nodes on the stack form a
   chain of dependencies, and the last one depends on one of them. *)
HonestCycle ==
    outcome = "cycle" =>
        /\ \A i \in 1..(Len(stack) - 1) : stack[i + 1] \in deps[stack[i]]
        /\ \E i \in 1..Len(stack) : stack[i] \in deps[Top]

(* A search that succeeds has put everything it was asked for, and everything
   that needs, into the order; so no cycle goes unreported. *)
Complete ==
    outcome = "ok" =>
        /\ asked \subseteq Emitted
        /\ \A n \in Emitted : deps[n] \cap Nodes \subseteq Emitted
=============================================================================
