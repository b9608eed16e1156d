-------------------------- MODULE ModuleGraph_proofs --------------------------
(***************************************************************************)
(* Theorems about the module graph: the search that orders the providers,  *)
(* for every dependency graph, and the lifecycle of the providers, for any *)
(* finite set of provider types and any applications built from them.      *)
(***************************************************************************)
EXTENDS DependencyOrder, ProviderLifecycle, FiniteSetTheorems, SequenceTheorems, TLAPS

(* What Append does. *)
LEMMA Pushed ==
    ASSUME NEW S, NEW s \in Seq(S), NEW e \in S
    PROVE  /\ Append(s, e) \in Seq(S) /\ Len(Append(s, e)) = Len(s) + 1
           /\ Len(s) \in Nat /\ Append(s, e)[Len(s) + 1] = e
           /\ \A i \in 1..Len(s) : Append(s, e)[i] = s[i] /\ s[i] \in S
OBVIOUS

-----------------------------------------------------------------------------
(* The order: DependencyOrder. *)

(* The marks say where a node is; neither the stack nor the result repeats
   one; and the stack is a chain of dependencies. *)
MarksInv ==
    /\ \A n \in Nodes : mark[n] = 1 <=> \E i \in 1..Len(stack) : stack[i] = n
    /\ \A n \in Nodes : mark[n] = 2 <=> \E i \in 1..Len(sorted) : sorted[i] = n
    /\ \A i, j \in 1..Len(stack) : stack[i] = stack[j] => i = j
    /\ \A i \in 1..(Len(stack) - 1) : stack[i + 1] \in deps[stack[i]]

(* A dependency that a node on the stack has already visited is finished, or
   it is the next one on the stack. *)
TodoInv ==
    /\ \A i \in 1..Len(stack) : todo[stack[i]] \subseteq deps[stack[i]]
    /\ outcome = "running" =>
        \A i \in 1..Len(stack) :
            \A d \in (deps[stack[i]] \cap Nodes) \ todo[stack[i]] :
                mark[d] = 2 \/ (i < Len(stack) /\ d = stack[i + 1])

(* The same of the registrations the outer loop has visited. *)
RootsInv ==
    /\ outcome = "running" =>
        \A n \in asked \ roots : mark[n] = 2 \/ (stack # <<>> /\ n = stack[1])
    /\ outcome = "ok" => stack = <<>> /\ \A n \in asked : mark[n] = 2

(* The order is well-formed at every step of the search. *)
SearchInv ==
    /\ OrderTypeOK /\ MarksInv /\ TodoInv /\ RootsInv
    /\ DependenciesFirst /\ HonestCycle

LEMMA Popped ==
    ASSUME NEW S, NEW s \in Seq(S), s # <<>>
    PROVE  /\ Len(s) \in Nat /\ Len(s) >= 1 /\ s[Len(s)] \in S
           /\ SubSeq(s, 1, Len(s) - 1) \in Seq(S)
           /\ Len(SubSeq(s, 1, Len(s) - 1)) = Len(s) - 1
           /\ \A i \in 1..(Len(s) - 1) : SubSeq(s, 1, Len(s) - 1)[i] = s[i]
<1>1. Len(s) \in Nat /\ Len(s) >= 1 /\ s[Len(s)] \in S
  OBVIOUS
<1> DEFINE n == Len(s) - 1
<1>2. 1 \in Int /\ n \in Int /\ \A i \in 1..n : s[i] \in S
  BY <1>1
<1>3. /\ SubSeq(s, 1, n) \in Seq(S)
      /\ Len(SubSeq(s, 1, n)) = IF 1 <= n THEN n - 1 + 1 ELSE 0
      /\ \A i \in 1..(n - 1 + 1) : SubSeq(s, 1, n)[i] = s[1 + i - 1]
  <2> HIDE DEF n
  <2> QED  BY <1>2, SubSeqProperties
<1>4. Len(SubSeq(s, 1, n)) = n
  <2>1. n \in Nat
    BY <1>1
  <2> HIDE DEF n
  <2>2. (IF 1 <= n THEN n - 1 + 1 ELSE 0) = n
    BY <2>1
  <2> QED  BY <1>3, <2>2
<1>5. \A i \in 1..n : SubSeq(s, 1, n)[i] = s[i]
  <2> HIDE DEF n
  <2> TAKE i \in 1..n
  <2>1. i \in 1..(n - 1 + 1) /\ 1 + i - 1 = i
    BY <1>2
  <2>2. SubSeq(s, 1, n)[i] = s[1 + i - 1]
    BY <1>3, <2>1
  <2> QED  BY <2>1, <2>2
<1> QED  BY <1>1, <1>3, <1>4, <1>5

LEMMA InitSearchInv == OrderInit => SearchInv
BY NodesAssumption
   DEF OrderInit, SearchInv, OrderTypeOK, MarksInv, TodoInv, RootsInv, DependenciesFirst, HonestCycle

(* Beginning the visit of an unmarked node, from the outer loop or from the
   node on top. *)
LEMMA PushStep ==
    ASSUME SearchInv, NEW n \in Nodes, outcome = "running", mark[n] = 0,
           mark' = [mark EXCEPT ![n] = 1], stack' = Append(stack, n),
           UNCHANGED <<deps, asked, sorted, outcome>>,
           NEW rest \in [Nodes -> SUBSET Nodes],
           todo' = [rest EXCEPT ![n] = deps[n] \cap Nodes],
           \A m \in Nodes : rest[m] \subseteq todo[m],
           \A i \in 1..Len(stack) :
               rest[stack[i]] = todo[stack[i]]
                 \/ (i = Len(stack) /\ rest[stack[i]] = todo[stack[i]] \ {n} /\ n \in todo[Top]),
           stack # <<>> => n \in todo[Top],
           roots' = roots \/ (stack = <<>> /\ roots' = roots \ {n})
    PROVE  SearchInv'
<1> DEFINE L == Len(stack)
<1>1. OrderTypeOK'
  BY DEF SearchInv, OrderTypeOK
<1>2. /\ Len(stack') = L + 1 /\ L \in Nat /\ stack'[L + 1] = n
      /\ \A i \in 1..L : stack'[i] = stack[i] /\ stack[i] \in Nodes /\ stack[i] # n
  <2>1. stack \in Seq(Nodes)
    BY DEF SearchInv, OrderTypeOK
  <2>2. \A i \in 1..L : stack[i] # n
    BY DEF SearchInv, MarksInv
  <2> QED  BY <2>1, <2>2, Pushed
<1>3. MarksInv'
  <2>1. \A m \in Nodes : mark'[m] = 1 <=> \E i \in 1..Len(stack') : stack'[i] = m
    <3> SUFFICES ASSUME NEW m \in Nodes
                 PROVE  mark'[m] = 1 <=> \E i \in 1..(L + 1) : stack'[i] = m
      BY <1>2
    <3>1. CASE m = n
      <4>1. mark'[m] = 1
        BY <3>1 DEF SearchInv, OrderTypeOK
      <4>2. L + 1 \in 1..(L + 1) /\ stack'[L + 1] = m
        BY <3>1, <1>2
      <4> QED  BY <4>1, <4>2
    <3>2. CASE m # n
      <4>1. mark'[m] = mark[m]
        BY <3>2 DEF SearchInv, OrderTypeOK
      <4>2. (\E i \in 1..(L + 1) : stack'[i] = m) <=> \E i \in 1..L : stack[i] = m
        BY <3>2, <1>2
      <4> QED  BY <4>1, <4>2 DEF SearchInv, MarksInv
    <3> QED  BY <3>1, <3>2
  <2>2. \A m \in Nodes : mark'[m] = 2 <=> \E i \in 1..Len(sorted') : sorted'[i] = m
    BY DEF SearchInv, OrderTypeOK, MarksInv
  <2>3. \A i, j \in 1..Len(stack') : stack'[i] = stack'[j] => i = j
    BY <1>2 DEF SearchInv, MarksInv
  <2>4. \A i \in 1..(Len(stack') - 1) : stack'[i + 1] \in deps'[stack'[i]]
    <3> SUFFICES ASSUME NEW i \in 1..L  PROVE stack'[i + 1] \in deps[stack[i]]
      BY <1>2
    <3>1. CASE i = L
      <4>1. stack # <<>> /\ L \in 1..L /\ Top = stack[L]
        BY <3>1, <1>2 DEF Top
      <4>2. todo[Top] \subseteq deps[Top]
        BY <4>1 DEF SearchInv, TodoInv
      <4> QED  BY <4>1, <4>2, <3>1, <1>2
    <3>2. CASE i # L
      BY <3>2, <1>2 DEF SearchInv, MarksInv
    <3> QED  BY <3>1, <3>2
  <2> QED  BY <2>1, <2>2, <2>3, <2>4 DEF MarksInv
<1>4. todo'[n] = deps[n] \cap Nodes
      /\ \A i \in 1..L : todo'[stack'[i]] = rest[stack[i]]
  BY <1>2 DEF SearchInv, OrderTypeOK
<1>5. TodoInv'
  <2>1. \A i \in 1..Len(stack') : todo'[stack'[i]] \subseteq deps'[stack'[i]]
    <3> SUFFICES ASSUME NEW i \in 1..(L + 1)
                 PROVE  todo'[stack'[i]] \subseteq deps[stack'[i]]
      BY <1>2
    <3>1. CASE i = L + 1  BY <3>1, <1>2, <1>4
    <3>2. CASE i # L + 1
      BY SMTT(30), <3>2, <1>2, <1>4 DEF SearchInv, TodoInv
    <3> QED  BY <3>1, <3>2
  <2>2. ASSUME NEW i \in 1..Len(stack'),
               NEW d \in (deps'[stack'[i]] \cap Nodes) \ todo'[stack'[i]]
        PROVE  mark'[d] = 2 \/ (i < Len(stack') /\ d = stack'[i + 1])
    <3>1. i # L + 1
      BY <2>2, <1>2, <1>4
    <3>2. i \in 1..L /\ d \in (deps[stack[i]] \cap Nodes) \ rest[stack[i]]
      BY <2>2, <3>1, <1>2, <1>4
    <3>3. CASE d \notin todo[stack[i]]
      <4>1. mark[d] = 2 \/ (i < L /\ d = stack[i + 1])
        BY <3>2, <3>3 DEF SearchInv, TodoInv
      <4>2. mark[d] = 2 => mark'[d] = 2
        BY <3>2 DEF SearchInv, OrderTypeOK
      <4> QED  BY <4>1, <4>2, <3>2, <1>2
    <3>4. CASE d \in todo[stack[i]]
      BY <3>2, <3>4, <1>2
    <3> QED  BY <3>3, <3>4
  <2> QED  BY <2>1, <2>2 DEF TodoInv
<1>6. RootsInv'
  <2> SUFFICES ASSUME NEW m \in asked \ roots'
               PROVE  mark'[m] = 2 \/ (stack' # <<>> /\ m = stack'[1])
    BY DEF RootsInv
  <2>1. stack' # <<>> /\ (stack = <<>> => stack'[1] = n)
    BY <1>2
  <2>2. CASE m = n /\ stack = <<>>
    BY <2>1, <2>2
  <2>3. CASE ~(m = n /\ stack = <<>>)
    <3>1. m \in asked \ roots
      BY <2>3
    <3>2. mark[m] = 2 \/ (stack # <<>> /\ m = stack[1])
      BY <3>1 DEF SearchInv, RootsInv
    <3>3. mark[m] = 2 => mark'[m] = 2
      BY <3>1 DEF SearchInv, OrderTypeOK
    <3>4. stack # <<>> => stack'[1] = stack[1]
      BY <1>2 DEF SearchInv, OrderTypeOK
    <3> QED  BY <3>2, <3>3, <3>4, <2>1
  <2> QED  BY <2>2, <2>3
<1>7. DependenciesFirst' /\ HonestCycle'
  BY DEF SearchInv, DependenciesFirst, HonestCycle
<1> QED  BY <1>1, <1>3, <1>5, <1>6, <1>7 DEF SearchInv

(* Meeting a finished node, or one on the stack. *)
LEMMA RootStep ==
    ASSUME SearchInv, NEW n \in Nodes, VisitRoot(n)
    PROVE  SearchInv'
<1> USE DEF VisitRoot
<1>1. mark[n] # 1
  BY DEF SearchInv, MarksInv
<1>2. CASE mark[n] = 2
  <2>1. UNCHANGED <<deps, asked, mark, stack, todo, sorted, outcome>>
    BY <1>2 DEF Visit
  <2>2. OrderTypeOK'  BY <2>1 DEF SearchInv, OrderTypeOK
  <2>3. MarksInv' /\ TodoInv' /\ DependenciesFirst' /\ HonestCycle'
    BY <2>1 DEF SearchInv, MarksInv, TodoInv, DependenciesFirst, HonestCycle, Top
  <2>4. RootsInv'
    BY <2>1, <1>2 DEF SearchInv, RootsInv
  <2> QED  BY <2>2, <2>3, <2>4 DEF SearchInv
<1>3. CASE mark[n] = 0
  <2>1. todo \in [Nodes -> SUBSET Nodes] /\ stack \in Seq(Nodes)
    BY DEF SearchInv, OrderTypeOK
  <2>2. \A i \in 1..Len(stack) : todo[stack[i]] = todo[stack[i]]
    OBVIOUS
  <2>3. /\ mark' = [mark EXCEPT ![n] = 1] /\ stack' = Append(stack, n)
        /\ todo' = [todo EXCEPT ![n] = deps[n] \cap Nodes]
        /\ UNCHANGED <<deps, asked, sorted, outcome>>
        /\ stack = <<>> /\ roots' = roots \ {n} /\ outcome = "running"
    BY <1>3 DEF Visit
  <2> QED  BY <1>3, <2>1, <2>2, <2>3, PushStep
<1> QED  BY <1>1, <1>2, <1>3 DEF SearchInv, OrderTypeOK

LEMMA DependencyStep ==
    ASSUME SearchInv, NEW n \in Nodes, VisitDependency(n)
    PROVE  SearchInv'
<1> DEFINE L == Len(stack)
           rest == [todo EXCEPT ![Top] = @ \ {n}]
<1>1. /\ L \in Nat /\ L >= 1 /\ Top = stack[L] /\ Top \in Nodes
      /\ rest \in [Nodes -> SUBSET Nodes]
      /\ \A m \in Nodes : rest[m] = IF m = Top THEN todo[m] \ {n} ELSE todo[m]
      /\ n \in todo[Top] /\ outcome = "running" /\ stack # <<>>
      /\ UNCHANGED <<deps, asked, roots, sorted>> /\ Visit(n, rest)
  <2>1. /\ n \in todo[Top] /\ outcome = "running" /\ stack # <<>>
        /\ UNCHANGED <<deps, asked, roots, sorted>> /\ Visit(n, rest)
    BY DEF VisitDependency
  <2>2. stack \in Seq(Nodes) /\ todo \in [Nodes -> SUBSET Nodes]
    BY DEF SearchInv, OrderTypeOK
  <2>3. L \in Nat /\ L >= 1 /\ Top = stack[L] /\ Top \in Nodes
    BY <2>1, <2>2, Popped DEF Top
  <2>4. /\ rest \in [Nodes -> SUBSET Nodes]
        /\ \A m \in Nodes : rest[m] = IF m = Top THEN todo[m] \ {n} ELSE todo[m]
    BY <2>2, <2>3
  <2> QED  BY <2>1, <2>3, <2>4
<1>2. \A i \in 1..L : stack[i] \in Nodes /\ (stack[i] = Top => i = L)
  BY <1>1 DEF SearchInv, OrderTypeOK, MarksInv
<1>3. \A i \in 1..L : \/ rest[stack[i]] = todo[stack[i]]
                      \/ i = L /\ rest[stack[i]] = todo[stack[i]] \ {n} /\ n \in todo[Top]
  BY <1>1, <1>2
<1>4. CASE mark[n] = 0
  <2>1. /\ mark' = [mark EXCEPT ![n] = 1] /\ stack' = Append(stack, n)
        /\ todo' = [rest EXCEPT ![n] = deps[n] \cap Nodes]
        /\ outcome' = outcome
    BY <1>1, <1>4 DEF Visit
  <2>2. \A m \in Nodes : rest[m] \subseteq todo[m]
    BY <1>1
  <2>3. UNCHANGED <<deps, asked, sorted, outcome>> /\ roots' = roots
    BY <1>1, <2>1
  <2> HIDE DEF rest
  <2> QED  BY <1>1, <1>3, <1>4, <2>1, <2>2, <2>3, PushStep
<1>5. CASE mark[n] \in {1, 2}
  <2>1. /\ UNCHANGED <<mark, stack>> /\ todo' = rest
        /\ mark[n] = 2 => outcome' = "running"
        /\ mark[n] = 1 => outcome' = "cycle"
    BY <1>1, <1>5 DEF Visit
  <2>2. OrderTypeOK'
    BY <1>1, <1>5, <2>1 DEF SearchInv, OrderTypeOK
  <2>3. MarksInv' /\ DependenciesFirst'
    BY <1>1, <2>1 DEF SearchInv, MarksInv, DependenciesFirst
  <2>4. TodoInv'
    <3>1. \A i \in 1..L : todo'[stack'[i]] \subseteq deps'[stack'[i]]
      BY <1>1, <1>2, <2>1 DEF SearchInv, TodoInv
    <3>2. ASSUME outcome' = "running", NEW i \in 1..L,
                 NEW d \in (deps[stack[i]] \cap Nodes) \ rest[stack[i]]
          PROVE  mark[d] = 2 \/ (i < L /\ d = stack[i + 1])
      <4>1. mark[n] = 2
        BY <1>5, <2>1, <3>2
      <4>2. CASE d \in todo[stack[i]]
        BY <4>1, <4>2, <3>2, <1>3
      <4>3. CASE d \notin todo[stack[i]]
        BY <4>3, <3>2, <1>1 DEF SearchInv, TodoInv
      <4> QED  BY <4>2, <4>3
    <3> QED  BY <3>1, <3>2, <1>1, <2>1 DEF TodoInv
  <2>5. RootsInv'
    BY <1>1, <1>5, <2>1 DEF SearchInv, RootsInv
  <2>6. HonestCycle'
    <3> SUFFICES ASSUME outcome' = "cycle"
                 PROVE  /\ \A i \in 1..(L - 1) : stack[i + 1] \in deps[stack[i]]
                        /\ \E i \in 1..L : stack[i] \in deps[Top]
      BY <1>1, <2>1 DEF HonestCycle, Top
    <3>1. mark[n] = 1
      BY <1>5, <2>1
    <3>2. n \in deps[Top]
      BY <1>1 DEF SearchInv, TodoInv
    <3> QED  BY <3>1, <3>2 DEF SearchInv, MarksInv
  <2> QED  BY <2>2, <2>3, <2>4, <2>5, <2>6 DEF SearchInv
<1> QED  BY <1>4, <1>5 DEF SearchInv, OrderTypeOK

(* The node on top is finished: it follows its dependencies in the result. *)
LEMMA FinishStep == ASSUME SearchInv, Finish PROVE SearchInv'
<1> DEFINE L == Len(stack)
           K == Len(sorted)
<1>1. /\ L \in Nat /\ L >= 1 /\ Top = stack[L] /\ Top \in Nodes /\ K \in Nat
      /\ todo[Top] = {} /\ outcome = "running" /\ mark[Top] = 1
      /\ UNCHANGED <<deps, asked, roots, todo, outcome>>
  BY DEF SearchInv, OrderTypeOK, MarksInv, Top, Finish
<1>2. /\ stack' \in Seq(Nodes) /\ Len(stack') = L - 1
      /\ \A i \in 1..(L - 1) : stack'[i] = stack[i] /\ stack[i] # Top
  <2>1. stack' = SubSeq(stack, 1, L - 1)
    BY DEF Finish
  <2>2. stack' \in Seq(Nodes) /\ Len(stack') = L - 1
        /\ \A i \in 1..(L - 1) : stack'[i] = stack[i]
    BY <2>1, Popped DEF SearchInv, OrderTypeOK, Finish
  <2>3. \A i \in 1..(L - 1) : stack[i] # Top
    BY <1>1 DEF SearchInv, MarksInv
  <2> QED  BY <2>2, <2>3
<1>3. /\ sorted' \in Seq(Nodes) /\ Len(sorted') = K + 1 /\ sorted'[K + 1] = Top
      /\ \A i \in 1..K : sorted'[i] = sorted[i] /\ sorted[i] \in Nodes /\ sorted[i] # Top
  <2>1. sorted' = Append(sorted, Top)
    BY DEF Finish
  <2>2. \A i \in 1..K : sorted[i] # Top
    BY <1>1 DEF SearchInv, MarksInv
  <2> QED  BY <1>1, <2>1, <2>2 DEF SearchInv, OrderTypeOK
<1>4. /\ mark' \in [Nodes -> 0..2]
      /\ \A n \in Nodes : mark'[n] = IF n = Top THEN 2 ELSE mark[n]
  BY <1>1 DEF SearchInv, OrderTypeOK, Finish
<1>5. OrderTypeOK'
  BY <1>1, <1>2, <1>3, <1>4 DEF SearchInv, OrderTypeOK
<1>6. MarksInv'
  <2>1. \A n \in Nodes : mark'[n] = 1 <=> \E i \in 1..Len(stack') : stack'[i] = n
    <3> SUFFICES ASSUME NEW n \in Nodes
                 PROVE  mark'[n] = 1 <=> \E i \in 1..(L - 1) : stack[i] = n
      BY <1>2
    <3>1. mark[n] = 1 <=> \E i \in 1..L : stack[i] = n
      BY DEF SearchInv, MarksInv
    <3> QED  BY <1>1, <1>2, <1>4, <3>1
  <2>2. \A n \in Nodes : mark'[n] = 2 <=> \E i \in 1..Len(sorted') : sorted'[i] = n
    <3> SUFFICES ASSUME NEW n \in Nodes
                 PROVE  mark'[n] = 2 <=> \E i \in 1..(K + 1) : sorted'[i] = n
      BY <1>3
    <3>1. mark[n] = 2 <=> \E i \in 1..K : sorted[i] = n
      BY DEF SearchInv, MarksInv
    <3>2. CASE n = Top
      <4>1. K + 1 \in 1..(K + 1)  BY <1>1
      <4> QED  BY <1>3, <1>4, <3>2, <4>1
    <3>3. CASE n # Top
      BY <1>1, <1>3, <1>4, <3>1, <3>3
    <3> QED  BY <3>2, <3>3
  <2>3. /\ \A i, j \in 1..Len(stack') : stack'[i] = stack'[j] => i = j
        /\ \A i \in 1..(Len(stack') - 1) : stack'[i + 1] \in deps'[stack'[i]]
    BY SMTT(30), <1>1, <1>2 DEF SearchInv, MarksInv
  <2> QED  BY <2>1, <2>2, <2>3 DEF MarksInv
<1>7. TodoInv'
  <2>1. \A i \in 1..(L - 1) : todo[stack[i]] \subseteq deps[stack[i]]
    BY <1>1 DEF SearchInv, TodoInv
  <2>2. ASSUME NEW i \in 1..(L - 1),
               NEW d \in (deps[stack[i]] \cap Nodes) \ todo[stack[i]]
        PROVE  mark'[d] = 2 \/ (i < L - 1 /\ d = stack'[i + 1])
    <3>1. mark[d] = 2 \/ d = stack[i + 1]
      BY <1>1, <2>2 DEF SearchInv, TodoInv
    <3>2. CASE i = L - 1
      BY <3>1, <3>2, <1>1, <1>4
    <3>3. CASE i < L - 1
      BY <3>1, <3>3, <1>1, <1>2, <1>4, <2>2
    <3> QED  BY <3>2, <3>3, <1>1
  <2>3. \A i \in 1..(L - 1) : stack'[i] = stack[i] /\ todo' = todo /\ deps' = deps
    BY <1>1, <1>2
  <2>4. Len(stack') = L - 1
    BY <1>2
  <2> QED  BY <2>1, <2>2, <2>3, <2>4 DEF TodoInv
<1>8. RootsInv'
  <2> SUFFICES ASSUME NEW n \in asked \ roots
               PROVE  mark'[n] = 2 \/ (stack' # <<>> /\ n = stack'[1])
    BY <1>1 DEF RootsInv
  <2>1. n \in Nodes /\ (mark[n] = 2 \/ n = stack[1])
    BY <1>1 DEF SearchInv, RootsInv, OrderTypeOK
  <2>2. CASE L = 1
    BY <2>1, <2>2, <1>1, <1>4
  <2>3. CASE L > 1
    <3>1. stack' # <<>> /\ stack'[1] = stack[1]
      <4>1. 1 \in 1..(L - 1) /\ Len(stack') # 0
        BY <2>3, <1>1, <1>2
      <4> QED  BY <4>1, <1>2
    <3> QED  BY <3>1, <2>1, <1>4
  <2>4. L = 1 \/ L > 1
    <3> HIDE DEF L
    <3> QED  BY <1>1
  <2> QED  BY <2>2, <2>3, <2>4
<1>9. DependenciesFirst'
  <2>1. \A d \in deps[Top] \cap Nodes : \E j \in 1..K : sorted[j] = d
    <3> TAKE d \in deps[Top] \cap Nodes
    <3>1. d \in (deps[stack[L]] \cap Nodes) \ todo[stack[L]] /\ L \in 1..L
      BY <1>1
    <3>2. mark[d] = 2
      BY <1>1, <3>1 DEF SearchInv, TodoInv
    <3> QED  BY <3>2 DEF SearchInv, MarksInv
  <2>2. ASSUME NEW i \in 1..(K + 1), NEW j \in 1..(K + 1), sorted'[i] = sorted'[j]
        PROVE  i = j
    BY <1>1, <1>3, <2>2 DEF SearchInv, DependenciesFirst
  <2>3. ASSUME NEW i \in 1..(K + 1), NEW d \in deps[sorted'[i]] \cap Nodes
        PROVE  \E j \in 1..(i - 1) : sorted'[j] = d
    <3>1. CASE i = K + 1
      BY <3>1, <2>1, <2>3, <1>1, <1>3
    <3>2. CASE i \in 1..K
      <4>1. PICK j \in 1..(i - 1) : sorted[j] = d
        BY <3>2, <2>3, <1>3 DEF SearchInv, DependenciesFirst
      <4> QED  BY <4>1, <3>2, <1>1, <1>3
    <3> QED  BY <3>1, <3>2, <1>1
  <2> QED  BY <2>2, <2>3, <1>1, <1>3 DEF DependenciesFirst
<1>10. HonestCycle'
  BY <1>1 DEF HonestCycle
<1> QED  BY <1>5, <1>6, <1>7, <1>8, <1>9, <1>10 DEF SearchInv

LEMMA ReturnStep == ASSUME SearchInv, Return PROVE SearchInv'
<1> USE DEF Return
<1>1. OrderTypeOK' /\ MarksInv' /\ DependenciesFirst' /\ HonestCycle'
  BY DEF SearchInv, OrderTypeOK, MarksInv, DependenciesFirst, HonestCycle
<1>2. TodoInv' /\ RootsInv'
  BY DEF SearchInv, OrderTypeOK, TodoInv, RootsInv
<1> QED  BY <1>1, <1>2 DEF SearchInv

LEMMA SearchStutterStep == ASSUME SearchInv, UNCHANGED orderVars PROVE SearchInv'
BY DEF orderVars, SearchInv, OrderTypeOK, MarksInv, TodoInv, RootsInv, DependenciesFirst,
       HonestCycle, Top

LEMMA Inductive == OrderSpec => []SearchInv
<1>1. SearchInv /\ [OrderNext]_orderVars => SearchInv'
  BY RootStep, DependencyStep, FinishStep, ReturnStep, SearchStutterStep DEF OrderNext
<1> QED  BY <1>1, InitSearchInv, PTL DEF OrderSpec

(* The marks, the stack and the result keep their types: only registered nodes
   are ever pushed or emitted. *)
THEOREM OrderTypeCorrect == OrderSpec => []OrderTypeOK
<1>1. SearchInv => OrderTypeOK  BY DEF SearchInv
<1> QED  BY <1>1, Inductive, PTL

(* The order that `schedule` builds constructs every provider once, after all
   of its registered dependencies, whatever the graph. *)
THEOREM OrderIsTopological == OrderSpec => []DependenciesFirst
<1>1. SearchInv => DependenciesFirst  BY DEF SearchInv
<1> QED  BY <1>1, Inductive, PTL

(* "provider dependency cycle" is reported only where there is one. *)
THEOREM CyclesAreReal == OrderSpec => []HonestCycle
<1>1. SearchInv => HonestCycle  BY DEF SearchInv
<1> QED  BY <1>1, Inductive, PTL

(* A successful search has ordered everything it was asked for and everything
   that needs. *)
THEOREM OrderIsComplete == OrderSpec => []Complete
<1>1. SearchInv => Complete
  <2> SUFFICES ASSUME SearchInv, outcome = "ok"
               PROVE  /\ asked \subseteq Emitted
                      /\ \A n \in Emitted : deps[n] \cap Nodes \subseteq Emitted
    BY DEF Complete
  <2>1. asked \subseteq Emitted
    BY DEF SearchInv, RootsInv, MarksInv, OrderTypeOK, Emitted
  <2>2. ASSUME NEW n \in Emitted, NEW d \in deps[n] \cap Nodes
        PROVE  d \in Emitted
    <3>1. PICK i \in 1..Len(sorted) : sorted[i] = n
      BY <2>2 DEF Emitted
    <3>2. PICK j \in 1..(i - 1) : sorted[j] = d
      BY <3>1, <2>2 DEF SearchInv, DependenciesFirst
    <3>3. j \in 1..Len(sorted)
      BY DEF SearchInv, OrderTypeOK
    <3> QED  BY <3>2, <3>3 DEF Emitted
  <2> QED  BY <2>1, <2>2
<1> QED  BY <1>1, Inductive, PTL

-----------------------------------------------------------------------------
(* The lifecycle: ProviderLifecycle. *)

Early == {"validate", "construct", "revalidate", "plan"}
Startup == Early \cup {"bootstrap", "running"}

(* While the application starts and runs, what is recorded is what came up;
   afterwards, what was shut down and what is left mirror it. *)
UndoneInv ==
    /\ pc \in Startup =>
        initialized = ups /\ downs = <<>> /\ teardown = <<>>
    /\ pc \notin Startup =>
        /\ initialized = <<>>
        /\ Len(downs) + Len(teardown) = Len(ups)
        /\ \A i \in 1..Len(downs) : downs[i] = ups[Len(ups) + 1 - i]
        /\ \A i \in 1..Len(teardown) : teardown[i] = ups[Len(teardown) + 1 - i]
    /\ pc \in {"failed", "stopped"} => teardown = <<>>

(* Production providers come up dependencies first. *)
UpsInv ==
    \A m, k \in 1..Len(ups) : ups[m] \in config.deps[ups[k]] => m < k

(* Where the values in the container come from. *)
ServicesInv ==
    /\ pc \in Startup =>
        /\ applied \subseteq services
        /\ \A t \in services \ config.preset : t \in applied \/ Listed(t, ups)
        /\ \A k \in 1..Len(ups) :
            ups[k] \in services \ applied /\ ups[k] \in config.declared
    /\ pc \in {"revalidate", "plan", "bootstrap", "running"} =>
        config.declared \subseteq services
    /\ pc \in {"plan", "bootstrap", "running"} => pending = {}
    /\ pc = "validate" => ups = <<>>

(* What is left of the construction order depends on nothing that comes later,
   and nothing that came up depends on it. *)
ConstructInv ==
    pc = "construct" =>
        /\ \A t \in config.declared : t \in services \/ Listed(t, order)
        /\ \A i \in 1..Len(order) : order[i] \in config.declared
        /\ \A i \in 1..Len(order) : \A j \in i..Len(order) :
            order[i] \in services \cup applied \/ order[j] \notin EffectiveDeps(order[i])
        /\ \A k \in 1..Len(ups), j \in 1..Len(order) :
            order[j] \notin config.deps[ups[k]]

(* The same of the order of bootstrap. *)
BootstrapInv ==
    /\ pc \in Early => boots = <<>> /\ bootstrapped = {}
    /\ pc = "bootstrap" =>
        /\ \A t \in Types : t \in bootstrapped <=> Listed(t, boots)
        /\ \A k \in 1..Len(ups) : Listed(ups[k], boots) \/ Listed(ups[k], order)
        /\ \A i \in 1..Len(order) : \A j \in i..Len(order) :
            order[j] \notin config.deps[order[i]]

IInv ==
    /\ TypeOK /\ UndoneInv /\ UpsInv /\ ServicesInv /\ ConstructInv
    /\ BootstrapInv /\ BootstrapOrder /\ RunningIsComplete

-----------------------------------------------------------------------------
(* Sequences. *)

LEMMA Tailed ==
    ASSUME NEW S, NEW s \in Seq(S), s # <<>>
    PROVE  /\ Tail(s) \in Seq(S) /\ Len(Tail(s)) = Len(s) - 1
           /\ Len(s) \in Nat /\ Len(s) >= 1 /\ s[1] \in S
           /\ \A i \in 1..(Len(s) - 1) : Tail(s)[i] = s[i + 1]
BY HeadTailProperties

LEMMA ReversedSeq ==
    ASSUME NEW S, NEW s \in Seq(S)
    PROVE  /\ Reversed(s) \in Seq(S) /\ Len(Reversed(s)) = Len(s)
           /\ \A i \in 1..Len(s) : Reversed(s)[i] = s[Len(s) + 1 - i]
<1>1. Len(s) \in Nat /\ \A i \in 1..Len(s) : s[Len(s) + 1 - i] \in S
  OBVIOUS
<1>2. Reversed(s) \in [1..Len(s) -> S]
  BY <1>1 DEF Reversed
<1>3. Reversed(s) \in Seq(S) /\ Len(Reversed(s)) = Len(s)
  BY <1>1, <1>2, IsASeq
<1> QED  BY <1>3 DEF Reversed

LEMMA EmptyLen == \A S : \A s \in Seq(S) : Len(s) = 0 <=> s = <<>>
BY EmptySeq

(* The orders that preflight may return. *)
LEMMA OrdersAreSequences ==
    ASSUME TypeOK, NEW o \in Orders
    PROVE  /\ o \in Seq(Types)
           /\ \A i \in 1..Len(o) : o[i] \in config.declared
           /\ \A t \in config.declared : Listed(t, o)
           /\ \A i \in 1..Len(o) : \A j \in i..Len(o) : o[j] \notin EffectiveDeps(o[i])
<1>1. config.declared \subseteq Types
  BY DEF TypeOK, Config
<1>2. Cardinality(config.declared) \in Nat
  BY <1>1, TypesAssumption, FS_Subset, FS_CardinalityType
<1> DEFINE n == Cardinality(config.declared)
<1>3. o \in [1..n -> config.declared]
  BY DEF Orders
<1>4. o \in Seq(config.declared) /\ Len(o) = n
  <2> HIDE DEF n
  <2> QED  BY <1>2, <1>3, IsASeq DEF n
<1>5. o \in Seq(Types)
  BY <1>1, <1>4, SeqMonotonic
<1> QED  BY <1>3, <1>4, <1>5 DEF Orders, Listed

-----------------------------------------------------------------------------
(* The invariant. *)

LEMMA InitIInv == Init => IInv
<1> SUFFICES ASSUME Init PROVE IInv
  OBVIOUS
<1>1. config \in Config
  BY ConfigsAssumption DEF Init
<1>2. TypeOK
  <2>1. <<>> \in Seq(Types)
    BY EmptySeq
  <2> QED  BY <1>1, <2>1 DEF Init, TypeOK, Parts, Failures, Config
<1>3. Len(ups) = 0 /\ Len(boots) = 0 /\ Len(downs) = 0 /\ Len(teardown) = 0
  BY DEF Init
<1>4. UndoneInv /\ UpsInv /\ ServicesInv /\ ConstructInv /\ BootstrapInv
  BY <1>3 DEF Init, UndoneInv, UpsInv, ServicesInv, ConstructInv, BootstrapInv,
              Startup, Early, Listed
<1>5. BootstrapOrder /\ RunningIsComplete
  BY <1>3 DEF Init, BootstrapOrder, RunningIsComplete
<1> QED  BY <1>2, <1>4, <1>5 DEF IInv

(* What a step that leaves the histories alone cannot disturb. *)
LEMMA HistoriesKept ==
    ASSUME IInv, UNCHANGED <<config, ups, boots>>
    PROVE  UpsInv' /\ BootstrapOrder'
BY DEF IInv, UpsInv, BootstrapOrder, Listed

(* Any failure on the way: what is recorded is now to be undone. *)
LEMMA RollBackStep ==
    ASSUME IInv, pc \in Startup, NEW why \in Failures, RollBack(why),
           pending' \subseteq Types, applied' \subseteq Types \ pending',
           services' \subseteq Types, bootstrapped' \subseteq Types,
           UNCHANGED <<config, order, historyVars>>
    PROVE  IInv'
<1>1. /\ teardown' = Reversed(ups) /\ initialized' = <<>>
      /\ downs' = <<>> /\ ups' = ups /\ pc' = "rollback" /\ ups \in Seq(Types)
  BY DEF IInv, TypeOK, UndoneInv, RollBack, TakeInitialized, historyVars
<1>2. /\ teardown' \in Seq(Types) /\ Len(teardown') = Len(ups)
      /\ \A i \in 1..Len(ups) : teardown'[i] = ups[Len(ups) + 1 - i]
  BY <1>1, ReversedSeq
<1>3. <<>> \in Seq(Types) /\ Len(<<>>) = 0 /\ Len(ups) \in Nat
  BY <1>1, EmptySeq
<1>4. TypeOK'
  BY <1>1, <1>2, <1>3 DEF IInv, TypeOK, RollBack, Parts, historyVars
<1>5. UndoneInv'
  BY <1>1, <1>2, <1>3 DEF UndoneInv, Startup, Early
<1>6. UpsInv' /\ BootstrapOrder'
  BY HistoriesKept DEF historyVars
<1>7. ServicesInv' /\ ConstructInv' /\ BootstrapInv' /\ RunningIsComplete'
  BY <1>1 DEF ServicesInv, ConstructInv, BootstrapInv, RunningIsComplete, Startup, Early
<1> QED  BY <1>4, <1>5, <1>6, <1>7 DEF IInv

LEMMA BuildFailsStep ==
    ASSUME IInv, NEW t \in Types, BuildFails(t) PROVE IInv'
BY RollBackStep
   DEF IInv, TypeOK, BuildFails, Building, TakeOverride, Failures, Startup, Early, containerVars

LEMMA InitFailsStep ==
    ASSUME IInv, NEW t \in Types, InitFails(t) PROVE IInv'
BY RollBackStep
   DEF IInv, TypeOK, InitFails, Building, TakeOverride, Failures, Startup, Early, containerVars

LEMMA HandlerRefusesStep == ASSUME IInv, HandlerRefuses PROVE IInv'
BY RollBackStep DEF IInv, TypeOK, HandlerRefuses, Failures, Startup, Early

LEMMA RejectLateStep == ASSUME IInv, RejectLate PROVE IInv'
BY RollBackStep DEF IInv, TypeOK, RejectLate, Failures, Startup, Early

LEMMA BootstrapFailsStep ==
    ASSUME IInv, NEW t \in Types, BootstrapFails(t) PROVE IInv'
BY RollBackStep DEF IInv, TypeOK, BootstrapFails, Failures, Startup, Early

(* Steps that change nothing but pc and failure. *)
LEMMA RejectStep == ASSUME IInv, Reject PROVE IInv'
<1>1. /\ pc = "validate" /\ pc' = "failed" /\ ups = <<>> /\ downs = <<>>
      /\ teardown = <<>> /\ initialized = <<>> /\ Len(<<>>) = 0
  BY EmptySeq DEF IInv, Reject, UndoneInv, ServicesInv, Startup, Early
<1>2. TypeOK'
  BY DEF IInv, TypeOK, Reject, Parts, Failures, containerVars, historyVars
<1>3. UndoneInv'
  BY <1>1 DEF Reject, UndoneInv, Startup, Early, containerVars, historyVars
<1>4. UpsInv' /\ BootstrapOrder'
  BY HistoriesKept DEF Reject, historyVars
<1>5. ServicesInv' /\ ConstructInv' /\ BootstrapInv' /\ RunningIsComplete'
  BY <1>1 DEF ServicesInv, ConstructInv, BootstrapInv, RunningIsComplete, Startup, Early
<1> QED  BY <1>2, <1>3, <1>4, <1>5 DEF IInv

LEMMA ValidateStep == ASSUME IInv, Validate PROVE IInv'
<1>1. PICK o \in Orders : PreflightPasses(o) /\ order' = o
  BY DEF Validate
<1>2. /\ pc = "validate" /\ pc' = "construct"
      /\ UNCHANGED <<config, containerVars, teardown, failure, historyVars>>
  BY DEF Validate
<1>3. /\ order' \in Seq(Types)
      /\ \A i \in 1..Len(order') : order'[i] \in config.declared
      /\ \A t \in config.declared : Listed(t, order')
      /\ \A i \in 1..Len(order') : \A j \in i..Len(order') :
            order'[j] \notin EffectiveDeps(order'[i])
  BY <1>1, OrdersAreSequences DEF IInv
<1>4. ups = <<>> /\ Len(ups) = 0
  BY <1>2, EmptySeq DEF IInv, ServicesInv
<1>5. TypeOK'
  BY <1>2, <1>3 DEF IInv, TypeOK, Parts, containerVars, historyVars
<1>6. UndoneInv' /\ ServicesInv' /\ BootstrapInv' /\ RunningIsComplete'
  BY <1>2 DEF IInv, UndoneInv, ServicesInv, BootstrapInv, RunningIsComplete,
              Startup, Early, containerVars, historyVars, Listed
<1>7. UpsInv' /\ BootstrapOrder'
  BY <1>2, HistoriesKept DEF historyVars
<1>8. ConstructInv'
  BY <1>2, <1>3, <1>4 DEF ConstructInv, EffectiveDeps, containerVars, historyVars
<1> QED  BY <1>5, <1>6, <1>7, <1>8 DEF IInv

LEMMA RegisterHandlersStep == ASSUME IInv, RegisterHandlers PROVE IInv'
<1>1. /\ pc = "construct" /\ pc' = "revalidate" /\ order = <<>>
      /\ UNCHANGED <<config, containerVars, order, teardown, failure, historyVars>>
  BY DEF RegisterHandlers, HasCurrent
<1>2. \A t \in config.declared : ~Listed(t, order)
  BY <1>1, EmptySeq DEF Listed
<1>3. TypeOK' /\ UndoneInv' /\ BootstrapInv' /\ ConstructInv' /\ RunningIsComplete'
  BY <1>1 DEF IInv, TypeOK, Parts, UndoneInv, BootstrapInv, ConstructInv,
              RunningIsComplete, Startup, Early, containerVars, historyVars
<1>4. UpsInv' /\ BootstrapOrder'
  BY <1>1, HistoriesKept DEF historyVars
<1>5. ServicesInv'
  BY <1>1, <1>2 DEF IInv, ServicesInv, ConstructInv, Startup, Early, containerVars,
                    historyVars, Listed
<1> QED  BY <1>3, <1>4, <1>5 DEF IInv

LEMMA RevalidateStep == ASSUME IInv, Revalidate PROVE IInv'
<1>1. /\ pc = "revalidate" /\ pc' = "plan" /\ pending = {}
      /\ UNCHANGED <<config, containerVars, order, teardown, failure, historyVars>>
  BY DEF Revalidate, Sound
<1>2. TypeOK' /\ UndoneInv' /\ BootstrapInv' /\ ConstructInv' /\ RunningIsComplete'
  BY <1>1 DEF IInv, TypeOK, Parts, UndoneInv, BootstrapInv, ConstructInv,
              RunningIsComplete, Startup, Early, containerVars, historyVars
<1>3. UpsInv' /\ BootstrapOrder'
  BY <1>1, HistoriesKept DEF historyVars
<1>4. ServicesInv'
  BY <1>1 DEF IInv, ServicesInv, Startup, Early, containerVars, historyVars, Listed
<1> QED  BY <1>2, <1>3, <1>4 DEF IInv

LEMMA PlanStep == ASSUME IInv, Plan PROVE IInv'
<1>1. PICK o \in Orders : PreflightPasses(o) /\ order' = o
  BY DEF Plan
<1>2. /\ pc = "plan" /\ pc' = "bootstrap"
      /\ UNCHANGED <<config, containerVars, teardown, failure, historyVars>>
  BY DEF Plan
<1>3. /\ order' \in Seq(Types)
      /\ \A t \in config.declared : Listed(t, order')
      /\ \A i \in 1..Len(order') : \A j \in i..Len(order') :
            order'[j] \notin EffectiveDeps(order'[i])
  BY <1>1, OrdersAreSequences DEF IInv
<1>4. pending = {} /\ boots = <<>> /\ bootstrapped = {} /\ Len(boots) = 0
  BY <1>2, EmptySeq DEF IInv, ServicesInv, BootstrapInv, Early
<1>5. TypeOK'
  BY <1>2, <1>3 DEF IInv, TypeOK, Parts, containerVars, historyVars
<1>6. UndoneInv' /\ ServicesInv' /\ ConstructInv' /\ RunningIsComplete'
  BY <1>2 DEF IInv, UndoneInv, ServicesInv, ConstructInv, RunningIsComplete,
              Startup, Early, containerVars, historyVars, Listed
<1>7. UpsInv' /\ BootstrapOrder'
  BY <1>2, HistoriesKept DEF historyVars
<1>8. BootstrapInv'
  <2>1. \A k \in 1..Len(ups) : ups[k] \in config.declared
    BY <1>2 DEF IInv, ServicesInv, Startup, Early
  <2> QED
    BY <1>2, <1>3, <1>4, <2>1
       DEF BootstrapInv, EffectiveDeps, Early, containerVars, historyVars, Listed
<1> QED  BY <1>5, <1>6, <1>7, <1>8 DEF IInv

(* Taking the head of an order. *)
LEMMA TailListed ==
    ASSUME NEW s \in Seq(Types), s # <<>>
    PROVE  \A t : Listed(t, s) => t = s[1] \/ Listed(t, Tail(s))
<1> SUFFICES ASSUME NEW t, NEW i \in 1..Len(s), s[i] = t, t # s[1]
             PROVE  Listed(t, Tail(s))
  BY DEF Listed
<1>1. /\ Len(Tail(s)) = Len(s) - 1 /\ Len(s) \in Nat
      /\ \A k \in 1..(Len(s) - 1) : Tail(s)[k] = s[k + 1]
  BY Tailed
<1>2. i - 1 \in 1..(Len(s) - 1) /\ (i - 1) + 1 = i
  BY <1>1
<1> QED  BY <1>1, <1>2 DEF Listed

LEMMA SkipStep == ASSUME IInv, Skip PROVE IInv'
<1>1. /\ pc = "construct" /\ order # <<>> /\ order[1] \in services \cup applied
      /\ order' = Tail(order)
      /\ UNCHANGED <<config, pc, containerVars, teardown, failure, historyVars>>
  BY DEF Skip, HasCurrent, Current
<1>2. /\ order' \in Seq(Types) /\ Len(order') = Len(order) - 1
      /\ \A i \in 1..(Len(order) - 1) : order'[i] = order[i + 1]
      /\ \A t : Listed(t, order) => t = order[1] \/ Listed(t, order')
      /\ Len(order) \in Nat
  BY <1>1, Tailed, TailListed DEF IInv, TypeOK
<1>3. TypeOK' /\ UndoneInv' /\ ServicesInv' /\ BootstrapInv' /\ RunningIsComplete'
  BY <1>1, <1>2 DEF IInv, TypeOK, UndoneInv, ServicesInv, BootstrapInv,
                    RunningIsComplete, Startup, Early, containerVars, historyVars, Listed
<1>4. UpsInv' /\ BootstrapOrder'
  BY <1>1, HistoriesKept DEF historyVars
<1>5. ConstructInv'
  <2>1. order[1] \in services
    BY <1>1 DEF IInv, ServicesInv, Startup, Early
  <2>2. \A t \in config.declared : t \in services \/ Listed(t, order')
    BY <1>1, <1>2, <2>1 DEF IInv, ConstructInv
  <2>3. \A i \in 1..Len(order') : \A j \in i..Len(order') :
            /\ i + 1 \in 1..Len(order) /\ j + 1 \in (i + 1)..Len(order)
            /\ order'[i] = order[i + 1] /\ order'[j] = order[j + 1]
    BY <1>2
  <2> QED
    BY <1>1, <1>2, <2>2, <2>3
       DEF IInv, ConstructInv, EffectiveDeps, containerVars, historyVars
<1> QED  BY <1>3, <1>4, <1>5 DEF IInv

LEMMA InitializeStep == ASSUME IInv, NEW t \in Types, Initialize(t) PROVE IInv'
<1>1. /\ pc = "construct" /\ order # <<>> /\ t = order[1] /\ t \notin services \cup applied
      /\ pending' = pending \ {t}
      /\ applied' = IF t \in pending THEN applied \cup {t} ELSE applied
      /\ services' = services \cup {t}
      /\ initialized' = IF t \in pending THEN initialized ELSE Append(initialized, t)
      /\ ups' = IF t \in pending THEN ups ELSE Append(ups, t)
      /\ order' = Tail(order)
      /\ UNCHANGED <<config, pc, bootstrapped, teardown, failure, boots, downs>>
  BY DEF Initialize, Building, TakeOverride, Overridden, HasCurrent, Current
<1>2. /\ order' \in Seq(Types) /\ Len(order') = Len(order) - 1
      /\ \A i \in 1..(Len(order) - 1) : order'[i] = order[i + 1]
      /\ \A u : Listed(u, order) => u = order[1] \/ Listed(u, order')
      /\ Len(order) \in Nat /\ Len(order) >= 1
  BY <1>1, Tailed, TailListed DEF IInv, TypeOK
<1>3. initialized = ups /\ ups \in Seq(Types)
  BY <1>1 DEF IInv, TypeOK, UndoneInv, Startup, Early
<1>4. /\ Append(ups, t) \in Seq(Types) /\ Len(Append(ups, t)) = Len(ups) + 1
      /\ Len(ups) \in Nat /\ Append(ups, t)[Len(ups) + 1] = t
      /\ \A k \in 1..Len(ups) : Append(ups, t)[k] = ups[k]
  BY <1>3, Pushed
<1>5. TypeOK'
  <2>1. initialized' \in Seq(Types) /\ ups' \in Seq(Types)
    BY <1>1, <1>3, <1>4
  <2>2. hooked' \subseteq Types
    BY DEF IInv, TypeOK, Initialize
  <2>3. pending' \subseteq Types /\ applied' \subseteq Types \ pending' /\ services' \subseteq Types
    BY <1>1 DEF IInv, TypeOK
  <2> QED  BY <1>1, <1>2, <2>1, <2>2, <2>3 DEF IInv, TypeOK
<1>6. UndoneInv'
  BY <1>1, <1>3 DEF IInv, UndoneInv, Startup, Early
(* A type that came up is declared and in the container already, so it is not t. *)
<1>7. \A k \in 1..Len(ups) :
        ups[k] \in services \ applied /\ ups[k] \in config.declared /\ ups[k] # t
  BY <1>1 DEF IInv, ServicesInv, Startup, Early
<1>8. t \in config.declared
  <2>1. 1 \in 1..Len(order)
    BY <1>2
  <2> QED  BY <1>1, <2>1 DEF IInv, ConstructInv
<1>9. ServicesInv'
  <2>1. applied' \subseteq services'
    BY <1>1 DEF IInv, ServicesInv, Startup, Early
  <2>2. \A k \in 1..Len(ups') : ups'[k] \in services' \ applied' /\ ups'[k] \in config.declared
    <3>1. CASE t \in pending
      BY <3>1, <1>1, <1>7
    <3>2. CASE t \notin pending
      <4>1. \A k \in 1..Len(ups') : k \in 1..Len(ups) \/ k = Len(ups) + 1
        BY <3>2, <1>1, <1>4
      <4> QED  BY <3>2, <4>1, <1>1, <1>4, <1>7, <1>8
    <3> QED  BY <3>1, <3>2
  <2>3. \A u \in services' \ config.preset : u \in applied' \/ Listed(u, ups')
    <3> SUFFICES ASSUME NEW u \in services' \ config.preset, u \notin applied'
                 PROVE  Listed(u, ups')
      OBVIOUS
    <3>1. CASE t \in pending
      BY <3>1, <1>1 DEF IInv, ServicesInv, Startup, Early
    <3>2. CASE t \notin pending
      <4>1. CASE u = t
        <5>1. Len(ups) + 1 \in 1..Len(ups') /\ ups'[Len(ups) + 1] = t
          BY <3>2, <1>1, <1>4
        <5> QED  BY <4>1, <5>1 DEF Listed
      <4>2. CASE u # t
        <5>1. Listed(u, ups)
          BY <3>2, <4>2, <1>1 DEF IInv, ServicesInv, Startup, Early
        <5>2. PICK k \in 1..Len(ups) : ups[k] = u
          BY <5>1 DEF Listed
        <5>3. k \in 1..Len(ups') /\ ups'[k] = u
          BY <3>2, <5>2, <1>1, <1>4
        <5> QED  BY <5>3 DEF Listed
      <4> QED  BY <4>1, <4>2
    <3> QED  BY <3>1, <3>2
  <2> QED  BY <1>1, <2>1, <2>2, <2>3 DEF ServicesInv
(* t depends on nothing that is still in the order, and nothing up on t. *)
<1>10. \A j \in 1..Len(order) : t \notin pending => order[j] \notin config.deps[t]
  <2>1. 1 \in 1..Len(order)
    BY <1>2
  <2> QED  BY <1>1, <2>1 DEF IInv, ConstructInv, EffectiveDeps
<1>11. \A k \in 1..Len(ups), j \in 1..Len(order) : order[j] \notin config.deps[ups[k]]
  BY <1>1 DEF IInv, ConstructInv
<1>12. \A k \in 1..Len(ups) : t \notin config.deps[ups[k]]
  <2>1. 1 \in 1..Len(order)
    BY <1>2
  <2> QED  BY <1>1, <1>11, <2>1
<1>13. t \notin pending => t \notin config.deps[t]
  <2>1. 1 \in 1..Len(order)
    BY <1>2
  <2> QED  BY <1>1, <1>10, <2>1
<1>14. UpsInv'
  <2>1. CASE t \in pending
    BY <2>1, <1>1 DEF IInv, UpsInv
  <2>2. CASE t \notin pending
    <3> SUFFICES ASSUME NEW m \in 1..(Len(ups) + 1), NEW k \in 1..(Len(ups) + 1),
                        ups'[m] \in config.deps[ups'[k]]
                 PROVE  m < k
      BY <2>2, <1>1, <1>4 DEF UpsInv
    <3>1. CASE k = Len(ups) + 1
      <4>1. m # Len(ups) + 1
        BY <3>1, <2>2, <1>1, <1>4, <1>13
      <4> QED  BY <3>1, <4>1, <1>4
    <3>2. CASE k # Len(ups) + 1
      <4>1. k \in 1..Len(ups) /\ ups'[k] = ups[k]
        BY <3>2, <2>2, <1>1, <1>4
      <4>2. m # Len(ups) + 1
        BY <4>1, <2>2, <1>1, <1>4, <1>12
      <4>3. m \in 1..Len(ups) /\ ups'[m] = ups[m]
        BY <4>2, <2>2, <1>1, <1>4
      <4> QED  BY <4>1, <4>3 DEF IInv, UpsInv
    <3> QED  BY <3>1, <3>2
  <2> QED  BY <2>1, <2>2
<1>15. ConstructInv'
  <2>1. \A u \in config.declared : u \in services' \/ Listed(u, order')
    BY <1>1, <1>2 DEF IInv, ConstructInv
  <2>2. \A i \in 1..Len(order') : \A j \in i..Len(order') :
            /\ i + 1 \in 1..Len(order) /\ j + 1 \in (i + 1)..Len(order)
            /\ order'[i] = order[i + 1] /\ order'[j] = order[j + 1]
    BY <1>2
  <2>3. \A i \in 1..Len(order') : order'[i] \in config.declared
    <3>1. \A i \in 1..Len(order') : i + 1 \in 1..Len(order) /\ order'[i] = order[i + 1]
      BY <1>2
    <3> QED  BY <1>1, <3>1 DEF IInv, ConstructInv
  <2>4. \A i \in 1..Len(order') : \A j \in i..Len(order') :
            order'[i] \in services' \cup applied'
              \/ order'[j] \notin EffectiveDeps(order[i])'
    <3> SUFFICES ASSUME NEW i \in 1..Len(order'), NEW j \in i..Len(order'),
                        order'[i] \notin services' \cup applied'
                 PROVE  order'[j] \notin EffectiveDeps(order[i])'
      OBVIOUS
    <3>1. order'[i] # t /\ order'[i] \notin services \cup applied
      BY <1>1
    <3>2. order'[j] \notin EffectiveDeps(order'[i])
      BY <1>1, <2>2, <3>1 DEF IInv, ConstructInv
    <3> QED  BY <1>1, <3>1, <3>2 DEF EffectiveDeps
  <2>5. \A k \in 1..Len(ups'), j \in 1..Len(order') : order'[j] \notin config.deps[ups'[k]]
    <3> SUFFICES ASSUME NEW k \in 1..Len(ups'), NEW j \in 1..Len(order')
                 PROVE  order'[j] \notin config.deps[ups'[k]]
      OBVIOUS
    <3>1. j + 1 \in 1..Len(order) /\ order'[j] = order[j + 1]
      BY <1>2
    <3>2. CASE t \in pending
      BY <3>1, <3>2, <1>1, <1>11
    <3>3. CASE t \notin pending
      <4>1. (k \in 1..Len(ups) /\ ups'[k] = ups[k]) \/ ups'[k] = t
        BY <3>3, <1>1, <1>4
      <4> QED  BY <4>1, <3>1, <3>3, <1>10, <1>11
    <3> QED  BY <3>2, <3>3
  <2> QED  BY <1>1, <2>1, <2>3, <2>4, <2>5 DEF ConstructInv
<1>16. boots = <<>> /\ bootstrapped = {} /\ Len(boots) = 0
  BY <1>1, EmptySeq DEF IInv, BootstrapInv, Early
<1>17. BootstrapInv' /\ BootstrapOrder' /\ RunningIsComplete'
  BY <1>1, <1>16 DEF BootstrapInv, BootstrapOrder, RunningIsComplete, Early
<1> QED  BY <1>5, <1>6, <1>9, <1>14, <1>15, <1>17 DEF IInv

LEMMA PassOverStep == ASSUME IInv, PassOver PROVE IInv'
<1>1. /\ pc = "bootstrap" /\ order # <<>> /\ order' = Tail(order)
      /\ ~Bootstrappable(order[1])
      /\ UNCHANGED <<config, pc, containerVars, teardown, failure, historyVars>>
  BY DEF PassOver, HasCurrent, Current
<1>2. /\ order' \in Seq(Types) /\ Len(order') = Len(order) - 1 /\ order[1] \in Types
      /\ \A i \in 1..(Len(order) - 1) : order'[i] = order[i + 1]
      /\ \A t : Listed(t, order) => t = order[1] \/ Listed(t, order')
      /\ Len(order) \in Nat
  BY <1>1, Tailed, TailListed DEF IInv, TypeOK
<1>3. TypeOK' /\ UndoneInv' /\ ServicesInv' /\ ConstructInv' /\ RunningIsComplete'
  BY <1>1, <1>2 DEF IInv, TypeOK, UndoneInv, ServicesInv, ConstructInv,
                    RunningIsComplete, Startup, Early, containerVars, historyVars, Listed
<1>4. UpsInv' /\ BootstrapOrder'
  BY <1>1, HistoriesKept DEF historyVars
<1>5. BootstrapInv'
  <2>1. \A k \in 1..Len(ups) : Listed(ups[k], boots) \/ Listed(ups[k], order')
    <3> SUFFICES ASSUME NEW k \in 1..Len(ups), ~Listed(ups[k], boots)
                 PROVE  Listed(ups[k], order')
      OBVIOUS
    <3>1. Listed(ups[k], order)
      BY <1>1 DEF IInv, BootstrapInv
    <3>2. CASE ups[k] = order[1]
      <4>1. Listed(ups[k], initialized) /\ ups[k] \notin applied
        BY <1>1 DEF IInv, UndoneInv, ServicesInv, Startup, Early, Listed
      <4>2. ups[k] \notin bootstrapped
        BY <1>1, <1>2, <3>2 DEF IInv, BootstrapInv
      <4> QED  BY <1>1, <3>2, <4>1, <4>2 DEF Bootstrappable
    <3>3. CASE ups[k] # order[1]
      BY <1>2, <3>1, <3>3
    <3> QED  BY <3>2, <3>3
  <2>2. \A i \in 1..Len(order') : \A j \in i..Len(order') :
            /\ i + 1 \in 1..Len(order) /\ j + 1 \in (i + 1)..Len(order)
            /\ order'[i] = order[i + 1] /\ order'[j] = order[j + 1]
    BY <1>2
  <2>3. \A i \in 1..Len(order') : \A j \in i..Len(order') :
            order'[j] \notin config.deps[order'[i]]
    BY <1>1, <2>2 DEF IInv, BootstrapInv
  <2>4. \A t \in Types : t \in bootstrapped <=> Listed(t, boots)
    BY <1>1 DEF IInv, BootstrapInv
  <2> QED
    BY <1>1, <2>1, <2>3, <2>4
       DEF BootstrapInv, Early, containerVars, historyVars, Listed
<1> QED  BY <1>3, <1>4, <1>5 DEF IInv

LEMMA BootstrapStep == ASSUME IInv, NEW t \in Types, Bootstrap(t) PROVE IInv'
<1>1. /\ pc = "bootstrap" /\ order # <<>> /\ order' = Tail(order) /\ t = order[1]
      /\ Listed(t, initialized) /\ t \notin bootstrapped
      /\ bootstrapped' = bootstrapped \cup {t}
      /\ boots' = Append(boots, t)
      /\ UNCHANGED <<config, pc, pending, applied, services, initialized,
                     teardown, failure, hooked, ups, downs>>
  BY DEF Bootstrap, Bootstrappable, HasCurrent, Current
<1>2. /\ order' \in Seq(Types) /\ Len(order') = Len(order) - 1
      /\ \A i \in 1..(Len(order) - 1) : order'[i] = order[i + 1]
      /\ \A u : Listed(u, order) => u = order[1] \/ Listed(u, order')
      /\ Len(order) \in Nat /\ Len(order) >= 1
  BY <1>1, Tailed, TailListed DEF IInv, TypeOK
<1>3. /\ boots' \in Seq(Types) /\ Len(boots') = Len(boots) + 1 /\ Len(boots) \in Nat
      /\ boots'[Len(boots) + 1] = t
      /\ \A i \in 1..Len(boots) : boots'[i] = boots[i]
  BY <1>1, Pushed DEF IInv, TypeOK
<1>4. \A u : Listed(u, boots') <=> u = t \/ Listed(u, boots)
  <2> SUFFICES ASSUME NEW u PROVE Listed(u, boots') <=> u = t \/ Listed(u, boots)
    OBVIOUS
  <2>1. \A i : i \in 1..Len(boots') <=> i \in 1..Len(boots) \/ i = Len(boots) + 1
    BY <1>3
  <2> QED  BY <1>3, <2>1 DEF Listed
<1>5. TypeOK' /\ UndoneInv' /\ UpsInv' /\ ServicesInv' /\ ConstructInv' /\ RunningIsComplete'
  BY <1>1, <1>2, <1>3
     DEF IInv, TypeOK, UndoneInv, UpsInv, ServicesInv, ConstructInv,
         RunningIsComplete, Startup, Early, Listed
<1>6. BootstrapInv'
  <2>1. \A k \in 1..Len(ups) : Listed(ups[k], boots') \/ Listed(ups[k], order')
    BY <1>1, <1>2, <1>4 DEF IInv, BootstrapInv
  <2>2. \A i \in 1..Len(order') : \A j \in i..Len(order') :
            /\ i + 1 \in 1..Len(order) /\ j + 1 \in (i + 1)..Len(order)
            /\ order'[i] = order[i + 1] /\ order'[j] = order[j + 1]
    BY <1>2
  <2>3. \A i \in 1..Len(order') : \A j \in i..Len(order') :
            order'[j] \notin config.deps[order'[i]]
    BY <1>1, <2>2 DEF IInv, BootstrapInv
  <2>4. \A u \in Types : u \in bootstrapped' <=> Listed(u, boots')
    BY <1>1, <1>4 DEF IInv, BootstrapInv
  <2> QED  BY <1>1, <2>1, <2>3, <2>4 DEF BootstrapInv, Early
(* What t depends on and has to be bootstrapped is not in the order any more. *)
<1>7. \A d \in config.deps[t] : Listed(d, ups) => Listed(d, boots)
  <2> SUFFICES ASSUME NEW d \in config.deps[t], Listed(d, ups), ~Listed(d, boots)
               PROVE  FALSE
    OBVIOUS
  <2>1. Listed(d, order)
    BY <1>1 DEF IInv, BootstrapInv, Listed
  <2>2. PICK j \in 1..Len(order) : order[j] = d
    BY <2>1 DEF Listed
  <2>3. 1 \in 1..Len(order) /\ j \in 1..Len(order)
    BY <1>2
  <2> QED  BY <1>1, <2>2, <2>3 DEF IInv, BootstrapInv
<1>8. \A i \in 1..Len(boots) : boots[i] # t
  BY <1>1 DEF IInv, BootstrapInv, Listed
<1>9. BootstrapOrder'
  <2> SUFFICES ASSUME NEW i \in 1..(Len(boots) + 1)
               PROVE  /\ \A j \in 1..(Len(boots) + 1) : boots'[i] = boots'[j] => i = j
                      /\ Listed(boots'[i], ups)
                      /\ \A d \in config.deps[boots'[i]] :
                          Listed(d, ups) => \E j \in 1..(i - 1) : boots'[j] = d
    BY <1>1, <1>3 DEF BootstrapOrder
  <2>1. \A j \in 1..(Len(boots) + 1) :
            (j \in 1..Len(boots) /\ boots'[j] = boots[j]) \/ (j = Len(boots) + 1 /\ boots'[j] = t)
    BY <1>3
  <2>2. CASE i = Len(boots) + 1
    <3>1. boots'[i] = t /\ i - 1 = Len(boots)
      BY <2>2, <1>3
    <3>2. Listed(t, ups)
      BY <1>1 DEF IInv, UndoneInv, Startup
    <3>3. \A j \in 1..(Len(boots) + 1) : boots'[i] = boots'[j] => i = j
      BY <2>1, <2>2, <3>1, <1>8
    <3>4. \A d \in config.deps[t] : Listed(d, ups) => \E j \in 1..Len(boots) : boots'[j] = d
      BY <1>3, <1>7 DEF Listed
    <3> QED  BY <3>1, <3>2, <3>3, <3>4
  <2>3. CASE i # Len(boots) + 1
    <3>1. i \in 1..Len(boots) /\ boots'[i] = boots[i]
      BY <2>1, <2>3
    <3>2. \A j \in 1..(Len(boots) + 1) : boots'[i] = boots'[j] => i = j
      BY <2>1, <3>1, <1>8 DEF IInv, BootstrapOrder
    <3>3. \A j \in 1..(i - 1) : boots'[j] = boots[j]
      BY <1>3, <3>1
    <3> QED  BY <3>1, <3>2, <3>3 DEF IInv, BootstrapOrder
  <2> QED  BY <2>2, <2>3
<1> QED  BY <1>5, <1>6, <1>9 DEF IInv

LEMMA StartedStep == ASSUME IInv, Started PROVE IInv'
<1>1. /\ pc = "bootstrap" /\ pc' = "running" /\ order = <<>>
      /\ UNCHANGED <<config, containerVars, order, teardown, failure, historyVars>>
  BY DEF Started, HasCurrent
<1>2. \A t : ~Listed(t, order)
  BY <1>1, EmptySeq DEF Listed
<1>3. TypeOK' /\ UndoneInv' /\ ServicesInv' /\ BootstrapInv' /\ ConstructInv'
  BY <1>1 DEF IInv, TypeOK, Parts, UndoneInv, ServicesInv, BootstrapInv,
              ConstructInv, Startup, Early, containerVars, historyVars, Listed
<1>4. UpsInv' /\ BootstrapOrder'
  BY <1>1, HistoriesKept DEF historyVars
<1>5. RunningIsComplete'
  <2>1. config.declared \subseteq services /\ pending = {}
    BY <1>1 DEF IInv, ServicesInv
  <2>2. ASSUME NEW t \in config.declared \ (applied \cup config.preset)
        PROVE  Listed(t, boots)
    <3>1. Listed(t, ups)
      BY <1>1, <2>1, <2>2 DEF IInv, ServicesInv, Startup
    <3>2. PICK k \in 1..Len(ups) : ups[k] = t
      BY <3>1 DEF Listed
    <3> QED  BY <1>1, <1>2, <3>2 DEF IInv, BootstrapInv
  <2> QED  BY <1>1, <2>1, <2>2 DEF RunningIsComplete, containerVars, historyVars
<1> QED  BY <1>3, <1>4, <1>5 DEF IInv

LEMMA StopStep == ASSUME IInv, Stop PROVE IInv'
<1>1. /\ pc \in {"running", "stopped"} /\ pc' = "stopping"
      /\ teardown' = Reversed(initialized) /\ initialized' = <<>>
      /\ UNCHANGED <<config, pending, applied, services, bootstrapped, order,
                     failure, historyVars>>
  BY DEF Stop, TakeInitialized
<1>2. /\ teardown' \in Seq(Types) /\ Len(teardown') = Len(initialized)
      /\ \A i \in 1..Len(initialized) : teardown'[i] = initialized[Len(initialized) + 1 - i]
      /\ initialized' \in Seq(Types) /\ Len(<<>>) = 0 /\ Len(ups) \in Nat
  <2>1. initialized \in Seq(Types) /\ Len(ups) \in Nat
    BY DEF IInv, TypeOK
  <2>2. /\ Reversed(initialized) \in Seq(Types)
        /\ Len(Reversed(initialized)) = Len(initialized)
        /\ \A i \in 1..Len(initialized) :
               Reversed(initialized)[i] = initialized[Len(initialized) + 1 - i]
    BY <2>1, ReversedSeq
  <2> QED
    BY <1>1, <2>1, <2>2, EmptySeq
<1>3. TypeOK'
  BY <1>1, <1>2 DEF IInv, TypeOK, Parts, historyVars
<1>4. UndoneInv'
  <2>1. CASE pc = "running"
    BY <2>1, <1>1, <1>2 DEF IInv, UndoneInv, Startup, Early, historyVars
  <2>2. CASE pc = "stopped"
    <3>1. initialized = <<>> /\ teardown = <<>> /\ teardown' = <<>>
      BY <2>2, <1>1, <1>2, EmptyLen DEF IInv, UndoneInv, Startup, Early
    <3> QED  BY <2>2, <3>1, <1>1, <1>2 DEF IInv, UndoneInv, Startup, Early, historyVars
  <2> QED  BY <1>1, <2>1, <2>2
<1>5. UpsInv' /\ BootstrapOrder'
  BY <1>1, HistoriesKept DEF historyVars
<1>6. ServicesInv' /\ ConstructInv' /\ BootstrapInv' /\ RunningIsComplete'
  BY <1>1 DEF ServicesInv, ConstructInv, BootstrapInv, RunningIsComplete, Startup, Early
<1> QED  BY <1>3, <1>4, <1>5, <1>6 DEF IInv

LEMMA ShutDownStep == ASSUME IInv, NEW t \in Types, ShutDown(t) PROVE IInv'
<1>1. /\ pc \in {"rollback", "stopping"} /\ teardown # <<>> /\ t = teardown[1]
      /\ downs' = Append(downs, t) /\ teardown' = Tail(teardown)
      /\ UNCHANGED <<config, pc, containerVars, order, failure, hooked, ups, boots>>
  BY DEF ShutDown
<1>2. /\ downs' \in Seq(Types) /\ Len(downs') = Len(downs) + 1 /\ Len(downs) \in Nat
      /\ downs'[Len(downs) + 1] = t
      /\ \A i \in 1..Len(downs) : downs'[i] = downs[i]
  BY <1>1, Pushed DEF IInv, TypeOK
<1>3. /\ teardown' \in Seq(Types) /\ Len(teardown') = Len(teardown) - 1
      /\ Len(teardown) \in Nat /\ Len(teardown) >= 1
      /\ \A i \in 1..(Len(teardown) - 1) : teardown'[i] = teardown[i + 1]
  BY <1>1, Tailed DEF IInv, TypeOK
<1>4. TypeOK'
  BY <1>1, <1>2, <1>3 DEF IInv, TypeOK, containerVars
<1>5. UndoneInv'
  <2>1. /\ initialized = <<>> /\ Len(downs) + Len(teardown) = Len(ups)
        /\ \A i \in 1..Len(downs) : downs[i] = ups[Len(ups) + 1 - i]
        /\ \A i \in 1..Len(teardown) : teardown[i] = ups[Len(teardown) + 1 - i]
    BY <1>1 DEF IInv, UndoneInv, Startup, Early
  <2>2. Len(downs') + Len(teardown') = Len(ups)
    <3>1. Len(downs) + Len(teardown) = Len(ups)
      BY <2>1
    <3>2. /\ Len(downs) \in Nat /\ Len(downs') = Len(downs) + 1
          /\ Len(teardown) \in Nat /\ Len(teardown') = Len(teardown) - 1
      BY <1>2, <1>3
    <3> QED  BY <3>1, <3>2
  <2>3. ASSUME NEW i \in 1..Len(downs') PROVE downs'[i] = ups[Len(ups) + 1 - i]
    <3>1. CASE i = Len(downs) + 1
      <4>1. 1 \in 1..Len(teardown) /\ Len(teardown) + 1 - 1 = Len(ups) + 1 - i
        BY <3>1, <1>2, <1>3, <2>1
      <4> QED  BY <3>1, <4>1, <1>1, <1>2, <2>1
    <3>2. CASE i # Len(downs) + 1
      <4>1. i \in 1..Len(downs)
        BY <3>2, <2>3, <1>2
      <4> QED  BY <4>1, <1>2, <2>1
    <3> QED  BY <3>1, <3>2
  <2>4. ASSUME NEW i \in 1..Len(teardown')
        PROVE  teardown'[i] = ups[Len(teardown') + 1 - i]
    <3>1. /\ i + 1 \in 1..Len(teardown)
          /\ Len(teardown') + 1 - i = Len(teardown) + 1 - (i + 1)
      <4>1. Len(teardown) \in Nat /\ Len(teardown') = Len(teardown) - 1
        BY <1>3
      <4>2. i \in 1..(Len(teardown) - 1)
        BY <4>1, <2>4
      <4>3. \A n \in Nat : \A k \in 1..(n - 1) :
              k + 1 \in 1..n /\ (n - 1) + 1 - k = n + 1 - (k + 1)
        OBVIOUS
      <4> QED  BY <4>1, <4>2, <4>3
    <3>2. i \in 1..(Len(teardown) - 1)
      BY <2>4, <1>3
    <3>3. teardown[i + 1] = ups[Len(teardown) + 1 - (i + 1)]
      BY <2>1, <3>1
    <3> QED  BY <1>3, <3>1, <3>2, <3>3
  <2> QED
    BY <1>1, <2>1, <2>2, <2>3, <2>4 DEF UndoneInv, Startup, Early, containerVars
<1>6. UpsInv' /\ BootstrapOrder'
  BY <1>1, HistoriesKept
<1>7. ServicesInv' /\ ConstructInv' /\ BootstrapInv' /\ RunningIsComplete'
  BY <1>1 DEF ServicesInv, ConstructInv, BootstrapInv, RunningIsComplete, Startup, Early
<1> QED  BY <1>4, <1>5, <1>6, <1>7 DEF IInv

LEMMA OverStep == ASSUME IInv, Over PROVE IInv'
<1>1. /\ pc \in {"rollback", "stopping"} /\ pc' \in {"failed", "stopped"}
      /\ teardown = <<>>
      /\ UNCHANGED <<config, containerVars, order, teardown, failure, historyVars>>
  BY DEF Over
<1>2. TypeOK' /\ UndoneInv'
  BY <1>1 DEF IInv, TypeOK, Parts, UndoneInv, Startup, Early, containerVars, historyVars
<1>3. UpsInv' /\ BootstrapOrder'
  BY <1>1, HistoriesKept DEF historyVars
<1>4. ServicesInv' /\ ConstructInv' /\ BootstrapInv' /\ RunningIsComplete'
  BY <1>1 DEF ServicesInv, ConstructInv, BootstrapInv, RunningIsComplete, Startup, Early
<1> QED  BY <1>2, <1>3, <1>4 DEF IInv

LEMMA StutterStep == ASSUME IInv, UNCHANGED vars PROVE IInv'
BY DEF IInv, vars, containerVars, historyVars, TypeOK, UndoneInv, UpsInv,
       ServicesInv, ConstructInv, BootstrapInv, BootstrapOrder,
       RunningIsComplete, EffectiveDeps, Listed

LEMMA Invariance == Spec => []IInv
<1>1. IInv /\ [Next]_vars => IInv'
  <2> SUFFICES ASSUME IInv, [Next]_vars PROVE IInv'
    OBVIOUS
  <2>1. CASE Reject  BY <2>1, RejectStep
  <2>2. CASE Validate  BY <2>2, ValidateStep
  <2>3. CASE Skip  BY <2>3, SkipStep
  <2>4. CASE RegisterHandlers  BY <2>4, RegisterHandlersStep
  <2>5. CASE HandlerRefuses  BY <2>5, HandlerRefusesStep
  <2>6. CASE RejectLate  BY <2>6, RejectLateStep
  <2>7. CASE Revalidate  BY <2>7, RevalidateStep
  <2>8. CASE Plan  BY <2>8, PlanStep
  <2>9. CASE PassOver  BY <2>9, PassOverStep
  <2>10. CASE Started  BY <2>10, StartedStep
  <2>11. CASE Stop  BY <2>11, StopStep
  <2>12. CASE Over  BY <2>12, OverStep
  <2>13. ASSUME NEW t \in Types, Initialize(t) PROVE IInv'
    BY <2>13, InitializeStep
  <2>14. ASSUME NEW t \in Types, BuildFails(t) PROVE IInv'
    BY <2>14, BuildFailsStep
  <2>15. ASSUME NEW t \in Types, InitFails(t) PROVE IInv'
    BY <2>15, InitFailsStep
  <2>16. ASSUME NEW t \in Types, Bootstrap(t) PROVE IInv'
    BY <2>16, BootstrapStep
  <2>17. ASSUME NEW t \in Types, BootstrapFails(t) PROVE IInv'
    BY <2>17, BootstrapFailsStep
  <2>18. ASSUME NEW t \in Types, ShutDown(t) PROVE IInv'
    BY <2>18, ShutDownStep
  <2>19. CASE UNCHANGED vars  BY <2>19, StutterStep
  <2> QED
    BY <2>1, <2>2, <2>3, <2>4, <2>5, <2>6, <2>7, <2>8, <2>9, <2>10, <2>11,
       <2>12, <2>13, <2>14, <2>15, <2>16, <2>17, <2>18, <2>19 DEF Next
<1> QED  BY <1>1, InitIInv, PTL DEF Spec

-----------------------------------------------------------------------------
(* Theorems. *)

(* Overrides are pending or applied, never both, whatever fails. *)
THEOREM TypeCorrect == Spec => []TypeOK
<1>1. IInv => TypeOK
  BY DEF IInv
<1> QED  BY <1>1, Invariance, PTL

(* rollback_graph and shutdown_module undo what came up, in reverse. *)
THEOREM LastInIsFirstOut == Spec => []LastInFirstOut
<1>1. IInv => LastInFirstOut
  <2> SUFFICES ASSUME IInv, pc \in {"failed", "stopped"} PROVE downs = Reversed(ups)
    BY DEF LastInFirstOut
  <2>1. /\ downs \in Seq(Types) /\ ups \in Seq(Types) /\ Len(teardown) = 0
        /\ Len(downs) \in Nat /\ Len(downs) + Len(teardown) = Len(ups)
        /\ \A i \in 1..Len(downs) : downs[i] = ups[Len(ups) + 1 - i]
    BY EmptySeq DEF IInv, TypeOK, UndoneInv, Startup, Early
  <2>2. /\ Reversed(ups) \in Seq(Types) /\ Len(Reversed(ups)) = Len(ups)
        /\ \A i \in 1..Len(ups) : Reversed(ups)[i] = ups[Len(ups) + 1 - i]
    BY <2>1, ReversedSeq
  <2>3. Len(downs) = Len(Reversed(ups)) /\ \A i \in 1..Len(downs) : downs[i] = Reversed(ups)[i]
    BY <2>1, <2>2
  <2> QED  BY <2>1, <2>2, <2>3, SeqEqual
<1> QED  BY <1>1, Invariance, PTL

(* Nothing is shut down under a provider that still needs it. *)
THEOREM DependentsAreFirst == Spec => []DependentsGoFirst
<1>1. IInv => DependentsGoFirst
  <2> SUFFICES ASSUME IInv, NEW i \in 1..Len(downs), NEW k \in 1..Len(ups),
                      downs[i] \in config.deps[ups[k]]
               PROVE  \E j \in 1..(i - 1) : downs[j] = ups[k]
    BY DEF DependentsGoFirst
  <2>1. pc \notin Startup
    BY EmptySeq DEF IInv, UndoneInv
  <2>2. /\ Len(downs) \in Nat /\ Len(teardown) \in Nat /\ Len(ups) \in Nat
        /\ Len(downs) + Len(teardown) = Len(ups)
        /\ \A j \in 1..Len(downs) : downs[j] = ups[Len(ups) + 1 - j]
    BY <2>1 DEF IInv, TypeOK, UndoneInv
  <2>3. Len(ups) + 1 - i \in 1..Len(ups) /\ downs[i] = ups[Len(ups) + 1 - i]
    BY <2>2
  <2>4. Len(ups) + 1 - i < k
    BY <2>3 DEF IInv, UpsInv
  <2> DEFINE j == Len(ups) + 1 - k
  <2>5. j \in 1..(i - 1) /\ j \in 1..Len(downs) /\ Len(ups) + 1 - j = k
    BY <2>2, <2>4
  <2> QED  BY <2>2, <2>5
<1> QED  BY <1>1, Invariance, PTL

(* bootstrap_graph calls on_bootstrap once, dependencies first. *)
THEOREM BootstrapIsOrdered == Spec => []BootstrapOrder
<1>1. IInv => BootstrapOrder
  BY DEF IInv
<1> QED  BY <1>1, Invariance, PTL

(* A startup that succeeds left nothing out. *)
THEOREM StartedIsComplete == Spec => []RunningIsComplete
<1>1. IInv => RunningIsComplete
  BY DEF IInv
<1> QED  BY <1>1, Invariance, PTL

-----------------------------------------------------------------------------
(* The order that the lifecycle follows is the one the search finds. *)

(* The order of finite sets of numbers is well-founded, so a set of numbers
   has a least one. *)
LEMMA LeastNumber ==
    ASSUME NEW S \in SUBSET Nat, S # {}
    PROVE  \E i \in S : \A j \in S : i <= j
<1> DEFINE Down == {0..i : i \in S}
<1>1. Down \subseteq FiniteSubsetsOf(Nat) /\ Down # {}
  <2>1. \A i \in S : 0..i \in SUBSET Nat /\ IsFiniteSet(0..i)
    BY FS_Interval
  <2> QED  BY <2>1 DEF FiniteSubsetsOf
<1>2. PICK d \in Down : \A e \in Down : <<e, d>> \notin StrictSubsetOrdering(Nat)
  <2> HIDE DEF Down
  <2> QED  BY <1>1, FS_StrictSubsetOrderingWellFounded, WFMin
<1>3. PICK i \in S : d = 0..i
  OBVIOUS
<1>4. ASSUME NEW j \in S, j < i PROVE FALSE
  <2>1. 0..j \subseteq 0..i /\ i \in 0..i /\ i \notin 0..j
    BY <1>4
  <2>2. <<0..j, 0..i>> \in StrictSubsetOrdering(Nat)
    BY <2>1 DEF StrictSubsetOrdering
  <2> QED  BY <1>2, <1>3, <2>2
<1> QED  BY <1>4

(* The search runs over the declared providers with the dependencies that are
   in force as preflight is called. *)
SameGraph ==
    /\ Nodes = config.declared /\ asked = Nodes
    /\ \A t \in Nodes : deps[t] = EffectiveDeps(t)

SearchAgrees ==
    SameGraph =>
        /\ outcome = "ok" => sorted \in Orders
        /\ outcome = "cycle" => Orders = {}

LEMMA FoundIsOrder ==
    ASSUME SearchInv, SameGraph, outcome = "ok"
    PROVE  sorted \in Orders
<1>1. /\ sorted \in Seq(Nodes) /\ Len(sorted) \in Nat
      /\ \A i, j \in 1..Len(sorted) : sorted[i] = sorted[j] => i = j
  BY DEF SearchInv, OrderTypeOK, DependenciesFirst
<1>2. \A t \in Nodes : \E i \in 1..Len(sorted) : sorted[i] = t
  BY DEF SearchInv, RootsInv, MarksInv, SameGraph
<1>3. sorted \in Bijection(1..Len(sorted), Nodes)
  BY <1>1, <1>2 DEF Bijection, Injection, Surjection, IsInjective
<1>4. Cardinality(Nodes) = Len(sorted)
  BY <1>1, <1>3, FS_CountingElements DEF ExistsBijection
<1>5. ASSUME NEW i \in 1..Len(sorted), NEW j \in i..Len(sorted), sorted[j] \in deps[sorted[i]]
      PROVE  FALSE
  <2>1. j \in 1..Len(sorted) /\ sorted[j] \in Nodes
    BY <1>1
  <2>2. PICK k \in 1..(i - 1) : sorted[k] = sorted[j]
    BY <1>5, <2>1 DEF SearchInv, DependenciesFirst
  <2>3. k \in 1..Len(sorted) /\ k < i /\ i <= j
    BY <1>1
  <2> QED  BY <1>1, <2>1, <2>2, <2>3
<1>6. \A i \in 1..Len(sorted) : \A j \in i..Len(sorted) : sorted[j] \notin EffectiveDeps(sorted[i])
  BY <1>1, <1>5 DEF SameGraph
<1> QED  BY <1>1, <1>2, <1>4, <1>6 DEF SameGraph, Orders

(* Of the providers on a cycle none can come first in an order: each depends
   on another of them. *)
LEMMA CycleHasNoOrder ==
    ASSUME SearchInv, SameGraph, outcome = "cycle", IsFiniteSet(Nodes)
    PROVE  Orders = {}
<1> SUFFICES ASSUME NEW o \in Orders PROVE FALSE
  OBVIOUS
<1> DEFINE n == Cardinality(Nodes)
<1>1. /\ n \in Nat
      /\ \A t \in Nodes : \E i \in 1..n : o[i] = t
      /\ \A i \in 1..n : o[i] \in Nodes /\ \A j \in i..n : o[j] \notin EffectiveDeps(o[i])
  BY FS_CardinalityType DEF Orders, SameGraph
<1> HIDE DEF n
<1>2. /\ Len(stack) \in Nat /\ \A i \in 1..Len(stack) : stack[i] \in Nodes
      /\ \A i \in 1..(Len(stack) - 1) : stack[i + 1] \in deps[stack[i]]
  BY DEF SearchInv, OrderTypeOK, HonestCycle
<1>3. PICK c \in 1..Len(stack) : stack[c] \in deps[stack[Len(stack)]]
  BY DEF SearchInv, HonestCycle, Top
<1> DEFINE places == {p \in 1..n : \E k \in c..Len(stack) : o[p] = stack[k]}
<1>4. places \in SUBSET Nat /\ places # {}
  <2>1. PICK q \in 1..n : o[q] = stack[c]
    BY <1>1, <1>2
  <2>2. c \in c..Len(stack)
    BY <1>2
  <2>3. q \in places
    BY <2>1, <2>2
  <2>4. \A q1 \in 1..n : q1 \in Nat
    BY <1>1
  <2> QED  BY <2>3, <2>4
<1>5. PICK p \in places : \A q \in places : p <= q
  <2> HIDE DEF places
  <2> QED  BY <1>4, LeastNumber
<1>6. PICK k \in c..Len(stack) : o[p] = stack[k]
  BY <1>5
<1>7. PICK m \in c..Len(stack) : stack[m] \in deps[stack[k]]
  <2>1. CASE k = Len(stack)
    BY <1>2, <1>3, <2>1
  <2>2. CASE k # Len(stack)
    <3>1. k \in 1..(Len(stack) - 1) /\ k + 1 \in c..Len(stack)
      BY <1>2, <2>2
    <3> QED  BY <1>2, <3>1
  <2> QED  BY <2>1, <2>2
<1>8. PICK q \in 1..n : o[q] = stack[m]
  <2>1. m \in 1..Len(stack)
    BY <1>2
  <2> QED  BY <1>1, <1>2, <2>1
<1>9. q \in p..n /\ p \in 1..n
  BY <1>1, <1>5, <1>8
<1>10. stack[m] \in EffectiveDeps(o[p])
  <2>1. o[p] \in Nodes
    BY <1>1, <1>9
  <2> QED  BY <1>6, <1>7, <2>1 DEF SameGraph
<1> QED  BY <1>1, <1>8, <1>9, <1>10

(* preflight and schedule: whenever the graph in force is the one the search
   was given, a search that succeeds yields one of the orders from which the
   lifecycle takes its own, and one that reports a cycle leaves it none. *)
THEOREM SearchIsPreflight == Spec /\ OrderSpec => []SearchAgrees
<1>1. IInv /\ SearchInv => SearchAgrees
  <2> SUFFICES ASSUME IInv, SearchInv, SameGraph
               PROVE  (outcome = "ok" => sorted \in Orders) /\ (outcome = "cycle" => Orders = {})
    BY DEF SearchAgrees
  <2>1. IsFiniteSet(Nodes)
    <3>1. config.declared \subseteq Types
      BY DEF IInv, TypeOK, Config
    <3> QED  BY <3>1, TypesAssumption, FS_Subset DEF SameGraph
  <2> QED  BY <2>1, FoundIsOrder, CycleHasNoOrder
<1> QED  BY <1>1, Inductive, Invariance, PTL
=============================================================================
