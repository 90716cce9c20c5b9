------------------------ MODULE CalculateDepth_proofs ------------------------
(***************************************************************************)
(* The depth-first search computes depths or finds a cycle, for every      *)
(* closed graph on any finite set of templates.                            *)
(***************************************************************************)
EXTENDS CalculateDepth, FiniteSetTheorems, SequenceTheorems, WellFoundedInduction, TLAPS

(* A set of templates each of which depends on another one of the set      *)
(* leaves no way to assign depths: the one of least depth has no           *)
(* dependency below it.                                                    *)
LEMMA LoopHasNoDepths ==
  ASSUME NEW g, NEW C \in SUBSET DOMAIN g, C # {},
         \A t \in C : \E p \in g[t] : p \in C,
         NEW d \in [DOMAIN g -> Nat]
  PROVE  ~IsDepth(g, d)
<1> DEFINE depths == {d[t] : t \in C}
           less == OpToRel(<, Nat)
<1>1. depths \subseteq Nat /\ depths # {}
  OBVIOUS
<1>2. \E n \in depths : \A m \in depths : <<m, n>> \notin less
  BY <1>1, NatLessThanWellFounded, WFMin
<1>3. PICK t \in C : \A m \in depths : <<m, d[t]>> \notin less
  BY <1>2
<1>4. PICK p \in g[t] : p \in C
  BY <1>3
<1>5. d[p] \in Nat /\ d[t] \in Nat /\ d[p] \in depths
  BY <1>3, <1>4
<1>6. ~(d[p] < d[t])
  BY <1>3, <1>5 DEF OpToRel
<1> QED BY <1>3, <1>4, <1>6 DEF IsDepth

(* So a graph with a cycle has none. *)
LEMMA CycleMeansNoDepths ==
  ASSUME NEW g, IsFiniteSet(DOMAIN g), NEW c, Outcome!IsCycle(g, c)
  PROVE  ~Acyclic(g)
<1> SUFFICES ASSUME NEW d \in DepthFunctions(g) PROVE ~IsDepth(g, d)
  BY DEF Acyclic
<1> DEFINE C == {c[i] : i \in 1 .. Len(c) - 1}
<1>1. /\ c \in Seq(DOMAIN g) /\ Len(c) > 1 /\ c[1] = c[Len(c)]
      /\ \A i \in 1 .. Len(c) - 1 : c[i + 1] \in g[c[i]]
  BY DEF Outcome!IsCycle
<1>2. Len(c) \in Nat /\ \A i \in 1 .. Len(c) : c[i] \in DOMAIN g
  BY <1>1, LenProperties, ElementOfSeq
<1>3. C \in SUBSET DOMAIN g /\ C # {}
  <2>1. 1 \in 1 .. Len(c) - 1
    BY <1>1, <1>2
  <2> QED BY <1>2, <2>1
<1>4. ASSUME NEW t \in C PROVE \E p \in g[t] : p \in C
  <2>1. PICK i \in 1 .. Len(c) - 1 : t = c[i]
    OBVIOUS
  <2>2. c[i + 1] \in g[t]
    BY <1>1, <2>1
  <2>3. CASE i + 1 = Len(c)
    <3>1. c[i + 1] = c[1] /\ 1 \in 1 .. Len(c) - 1
      BY <1>1, <1>2, <2>3
    <3> QED BY <2>2, <3>1
  <2>4. CASE i + 1 # Len(c)
    <3>1. i + 1 \in 1 .. Len(c) - 1
      BY <1>2, <2>1, <2>4
    <3> QED BY <2>2, <3>1
  <2> QED BY <2>3, <2>4
<1>5. d \in [DOMAIN g -> Nat]
  BY FS_CardinalityType DEF DepthFunctions
<1> HIDE DEF C
<1> QED BY <1>3, <1>4, <1>5, LoopHasNoDepths

------------------------------------------------------------------------------
(* The invariant of the search. *)

(* The graph is finite, closed and has sets of its templates as values. *)
LEMMA GraphFacts ==
  ASSUME NEW g \in Outcome!ClosedGraphs
  PROVE  /\ IsFiniteSet(DOMAIN g) /\ DOMAIN g \subseteq Templates
         /\ g \in [DOMAIN g -> SUBSET DOMAIN g]
<1>1. PICK S \in SUBSET Templates : g \in [S -> SUBSET Templates]
  BY DEF Outcome!ClosedGraphs
<1>2. Closed(g)
  BY DEF Outcome!ClosedGraphs, Outcome!Closed, Closed
<1>3. IsFiniteSet(S)
  BY FiniteTemplates, FS_Subset
<1> QED BY <1>1, <1>2, <1>3 DEF Closed

(* The visited templates are finitely many. *)
LEMMA VisitedFinite ==
  ASSUME TypeOK
  PROVE  IsFiniteSet(Visited) /\ Cardinality(Visited) \in Nat
<1>1. IsFiniteSet(DOMAIN graph)
  BY GraphFacts DEF TypeOK
<1> QED BY <1>1, FS_Subset, FS_CardinalityType DEF Visited

(* The search starts with the invariant.                                   *)
LEMMA InitSearch == Init => SearchOK
<1> SUFFICES ASSUME Init PROVE SearchOK
  OBVIOUS
<1>1. TypeOK
  <2>1. <<>> \in Seq(DOMAIN graph)
    BY EmptySeq
  <2>2. stack \in Seq(DOMAIN graph) /\ cycle \in Seq(DOMAIN graph)
    BY <2>1 DEF Init
  <2>3. /\ state \in [DOMAIN graph -> {"unvisited", "visiting", "visited"}]
        /\ rest \in [DOMAIN graph -> SUBSET DOMAIN graph]
        /\ depth \in [DOMAIN graph -> Nat]
    BY DEF Init
  <2> QED BY <2>2, <2>3 DEF Init, TypeOK
<1>2. StackOK
  BY DEF Init, StackOK
<1>3. DepthOK
  BY <1>1, VisitedFinite DEF Init, DepthOK, Done
<1>4. OutcomeOK
  BY DEF Init, OutcomeOK
<1> QED BY <1>1, <1>2, <1>3, <1>4 DEF SearchOK

(* Facts about the top of a stack that is not empty. *)
LEMMA TopFacts ==
  ASSUME TypeOK, StackOK, stack # <<>>
  PROVE  /\ Len(stack) \in Nat \ {0}
         /\ Top \in DOMAIN graph /\ state[Top] = "visiting"
         /\ \A i \in 1 .. Len(stack) : stack[i] \in DOMAIN graph
<1>1. stack \in Seq(DOMAIN graph)
  BY DEF TypeOK
<1>2. Len(stack) \in Nat \ {0}
  BY <1>1, EmptySeq
<1>3. Len(stack) \in 1 .. Len(stack)
  BY <1>2
<1>4. \A i \in 1 .. Len(stack) : stack[i] \in DOMAIN graph
  BY <1>1, ElementOfSeq
<1> QED BY <1>2, <1>3, <1>4 DEF StackOK, Top

(* Opening a frame for a root, or for a dependency of the top frame.       *)
LEMMA EnterSearch ==
  ASSUME SearchOK, outcome = "running", NEW t \in DOMAIN graph, Enter(t),
         stack = <<>> \/ t \in rest[Top]
  PROVE  SearchOK'
<1>1. TypeOK /\ StackOK /\ DepthOK /\ OutcomeOK
  BY DEF SearchOK
<1>2. /\ state[t] = "unvisited"
      /\ state' = [state EXCEPT ![t] = "visiting"]
      /\ stack' = Append(stack, t)
      /\ rest' = [rest EXCEPT ![t] = graph[t]]
      /\ depth' = [depth EXCEPT ![t] = 0]
      /\ graph' = graph /\ outcome' = outcome /\ cycle' = cycle
  BY DEF Enter
<1>3. graph \in [DOMAIN graph -> SUBSET DOMAIN graph]
  BY <1>1, GraphFacts DEF TypeOK
<1>4. stack \in Seq(DOMAIN graph) /\ Len(stack) \in Nat
  BY <1>1, LenProperties DEF TypeOK
<1>5. /\ stack' \in Seq(DOMAIN graph)
      /\ Len(stack') = Len(stack) + 1
      /\ \A i \in 1 .. Len(stack) : stack'[i] = stack[i]
      /\ stack'[Len(stack) + 1] = t
  BY <1>2, <1>4, AppendProperties
<1>6. TypeOK'
  BY <1>1, <1>2, <1>3, <1>5 DEF TypeOK
<1>7. \A i \in 1 .. Len(stack) : stack[i] # t
  BY <1>1, <1>2 DEF StackOK
<1>8. StackOK'
  <2>1. \A i, j \in 1 .. Len(stack') : stack'[i] = stack'[j] => i = j
    BY <1>1, <1>4, <1>5, <1>7 DEF StackOK
  <2>2. ASSUME NEW u \in DOMAIN graph
        PROVE  state'[u] = "visiting" <=> \E i \in 1 .. Len(stack') : stack'[i] = u
    <3>1. CASE u = t
      <4>1. state'[u] = "visiting"
        BY <1>1, <1>2, <3>1 DEF TypeOK
      <4>2. Len(stack) + 1 \in 1 .. Len(stack') /\ stack'[Len(stack) + 1] = u
        BY <1>4, <1>5, <3>1
      <4> QED BY <4>1, <4>2
    <3>2. CASE u # t
      <4>1. state'[u] = state[u]
        BY <1>1, <1>2, <3>2 DEF TypeOK
      <4>2. (\E i \in 1 .. Len(stack') : stack'[i] = u)
              <=> (\E i \in 1 .. Len(stack) : stack[i] = u)
        BY <1>4, <1>5, <3>2
      <4> QED BY <1>1, <4>1, <4>2 DEF StackOK
    <3> QED BY <3>1, <3>2
  <2>3. ASSUME NEW i \in 1 .. Len(stack') - 1
        PROVE  stack'[i + 1] \in rest'[stack'[i]]
    <3>1. i \in 1 .. Len(stack) /\ stack'[i] = stack[i] /\ stack[i] # t /\ stack[i] \in DOMAIN graph
      BY <1>4, <1>5, <1>7, ElementOfSeq
    <3>2. rest'[stack'[i]] = rest[stack[i]]
      BY <1>1, <1>2, <3>1 DEF TypeOK
    <3>3. CASE i = Len(stack)
      <4>1. stack # <<>>
        BY <3>1, <3>3
      <4>2. t \in rest[stack[i]]
        BY <3>3, <4>1 DEF Top
      <4> QED BY <1>5, <3>2, <3>3, <4>2
    <3>4. CASE i # Len(stack)
      <4>1. i \in 1 .. Len(stack) - 1 /\ i + 1 \in 1 .. Len(stack)
        BY <1>4, <3>1, <3>4
      <4> QED BY <1>1, <1>5, <3>2, <4>1 DEF StackOK
    <3> QED BY <3>3, <3>4
  <2> QED BY <1>2, <2>1, <2>2, <2>3 DEF StackOK
<1>9. Visited' = Visited
  BY <1>1, <1>2 DEF TypeOK, Visited
<1>10. DepthOK'
  <2> SUFFICES ASSUME NEW u \in DOMAIN graph
      PROVE  /\ rest'[u] \subseteq graph[u]
             /\ state'[u] = "visited" => rest'[u] = {}
             /\ \A p \in Done(u)' : state'[p] = "visited" /\ depth'[p] < depth'[u]
             /\ depth'[u] = 0 \/ \E p \in Done(u)' : depth'[u] = depth'[p] + 1
             /\ IF state'[u] = "visited" THEN depth'[u] < Cardinality(Visited')
                                         ELSE depth'[u] <= Cardinality(Visited')
    BY <1>2 DEF DepthOK
  <2>1. CASE u = t
    <3>1. state'[u] = "visiting" /\ rest'[u] = graph[u] /\ depth'[u] = 0
      BY <1>1, <1>2, <2>1 DEF TypeOK
    <3>2. Done(u)' = {}
      BY <1>2, <3>1 DEF Done
    <3>3. depth'[u] <= Cardinality(Visited')
      BY <1>1, <1>9, <3>1, VisitedFinite
    <3> QED BY <3>1, <3>2, <3>3
  <2>2. CASE u # t
    <3>1. state'[u] = state[u] /\ rest'[u] = rest[u] /\ depth'[u] = depth[u]
      BY <1>1, <1>2, <2>2 DEF TypeOK
    <3>2. Done(u)' = Done(u)
      BY <1>2, <3>1 DEF Done
    <3>3. \A p \in Done(u) : p \in DOMAIN graph /\ p # t
      BY <1>1, <1>2, <1>3 DEF DepthOK, Done
    <3>4. \A p \in Done(u) : state'[p] = state[p] /\ depth'[p] = depth[p]
      BY <1>1, <1>2, <3>3 DEF TypeOK
    <3> QED BY <1>1, <1>9, <3>1, <3>2, <3>4 DEF DepthOK
  <2> QED BY <2>1, <2>2
<1>11. OutcomeOK'
  BY <1>1, <1>2 DEF OutcomeOK
<1> QED BY <1>6, <1>8, <1>10, <1>11 DEF SearchOK

(* Accounting for a visited dependency of the top frame. *)
LEMMA AskVisitedSearch ==
  ASSUME SearchOK, AskVisited
  PROVE  SearchOK'
<1>1. TypeOK /\ StackOK /\ DepthOK /\ OutcomeOK
  BY DEF SearchOK
<1>2. PICK d \in rest[Top] :
        /\ state[d] = "visited"
        /\ depth' = [depth EXCEPT ![Top] = Larger(@, depth[d] + 1)]
        /\ rest' = [rest EXCEPT ![Top] = @ \ {d}]
  BY DEF AskVisited
<1>3. UNCHANGED <<graph, state, stack, outcome, cycle>> /\ stack # <<>>
  BY DEF AskVisited
<1>4. Top \in DOMAIN graph /\ state[Top] = "visiting" /\ Len(stack) \in Nat \ {0}
      /\ \A i \in 1 .. Len(stack) : stack[i] \in DOMAIN graph
  BY <1>1, <1>3, TopFacts
<1> DEFINE top == Top
<1>5. /\ d \in DOMAIN graph /\ d \in graph[top] /\ d # top
      /\ depth[d] \in Nat /\ depth[top] \in Nat
  BY <1>1, <1>2, <1>4 DEF TypeOK, DepthOK
<1>6. /\ depth'[top] = Larger(depth[top], depth[d] + 1)
      /\ rest'[top] = rest[top] \ {d}
      /\ \A u \in DOMAIN graph : u # top => depth'[u] = depth[u] /\ rest'[u] = rest[u]
  BY <1>1, <1>2, <1>4 DEF TypeOK
<1>7. /\ depth'[top] \in Nat /\ depth[d] < depth'[top] /\ depth[top] <= depth'[top]
      /\ depth'[top] = depth[top] \/ depth'[top] = depth[d] + 1
  BY <1>5, <1>6 DEF Larger
<1>8. TypeOK'
  BY <1>1, <1>2, <1>3, <1>4, <1>6, <1>7 DEF TypeOK
<1>9. StackOK'
  <2>1. ASSUME NEW i \in 1 .. Len(stack) - 1
        PROVE  stack[i + 1] \in rest'[stack[i]]
    <3>1. stack[i] \in DOMAIN graph /\ i \in 1 .. Len(stack) /\ i # Len(stack)
      BY <1>4
    <3>2. stack[i] # top
      BY <1>1, <1>4, <3>1 DEF StackOK, Top
    <3> QED BY <1>1, <1>6, <3>1, <3>2 DEF StackOK
  <2> QED BY <1>1, <1>3, <2>1 DEF StackOK
<1>10. Visited' = Visited /\ IsFiniteSet(Visited) /\ Cardinality(Visited) \in Nat
  BY <1>1, <1>3, VisitedFinite DEF Visited
<1>11. DepthOK'
  <2> SUFFICES ASSUME NEW u \in DOMAIN graph
      PROVE  /\ rest'[u] \subseteq graph[u]
             /\ state'[u] = "visited" => rest'[u] = {}
             /\ \A p \in Done(u)' : state'[p] = "visited" /\ depth'[p] < depth'[u]
             /\ depth'[u] = 0 \/ \E p \in Done(u)' : depth'[u] = depth'[p] + 1
             /\ IF state'[u] = "visited" THEN depth'[u] < Cardinality(Visited')
                                         ELSE depth'[u] <= Cardinality(Visited')
    BY <1>3 DEF DepthOK
  <2>1. \A p \in Done(u) : state[p] = "visited" /\ p # top /\ p \in DOMAIN graph
                           /\ depth'[p] = depth[p] /\ depth[p] < depth[u]
    <3>1. graph \in [DOMAIN graph -> SUBSET DOMAIN graph]
      BY <1>1, GraphFacts DEF TypeOK
    <3>2. \A p \in Done(u) : state[p] = "visited" /\ p \in DOMAIN graph /\ depth[p] < depth[u]
      BY <1>1, <3>1 DEF DepthOK, Done
    <3> QED BY <1>4, <1>6, <3>2
  <2>2. CASE u = top
    <3>1. Done(u)' = Done(u) \cup {d}
      BY <1>3, <1>4, <1>5, <1>6, <2>2 DEF Done
    <3>2. depth'[d] = depth[d]
      BY <1>5, <1>6
    <3>3. \A p \in Done(u)' : state'[p] = "visited" /\ depth'[p] < depth'[u]
      <4>1. \A p \in Done(u) : depth[p] \in Nat
        BY <1>1, <2>1 DEF TypeOK
      <4> QED BY <1>2, <1>3, <1>5, <1>7, <2>1, <2>2, <3>1, <3>2, <4>1
    <3>4. depth'[u] = 0 \/ \E p \in Done(u)' : depth'[u] = depth'[p] + 1
      <4>1. CASE depth'[top] = depth[d] + 1
        BY <2>2, <3>1, <3>2, <4>1
      <4>2. CASE depth'[top] = depth[top]
        BY <1>1, <1>4, <2>1, <2>2, <3>1, <4>2 DEF DepthOK
      <4> QED BY <1>7, <4>1, <4>2
    <3>5. depth'[u] <= Cardinality(Visited)
      <4>1. depth[d] < Cardinality(Visited) /\ depth[top] <= Cardinality(Visited)
        BY <1>1, <1>2, <1>4, <1>5 DEF DepthOK
      <4> QED BY <1>5, <1>7, <1>10, <2>2, <4>1
    <3>6. rest'[u] \subseteq graph[u] /\ state'[u] # "visited"
      BY <1>1, <1>3, <1>4, <1>6, <2>2 DEF DepthOK
    <3> QED BY <1>10, <3>3, <3>4, <3>5, <3>6
  <2>3. CASE u # top
    <3>1. Done(u)' = Done(u) /\ depth'[u] = depth[u] /\ rest'[u] = rest[u]
      BY <1>3, <1>6, <2>3 DEF Done
    <3> QED BY <1>1, <1>3, <1>10, <2>1, <3>1 DEF DepthOK
  <2> QED BY <2>2, <2>3
<1>12. OutcomeOK'
  BY <1>1, <1>3 DEF OutcomeOK
<1> QED BY <1>8, <1>9, <1>11, <1>12 DEF SearchOK

(* Meeting a template that is still being visited finds a cycle. *)
LEMMA AskVisitingSearch ==
  ASSUME SearchOK, AskVisiting
  PROVE  SearchOK'
<1>1. TypeOK /\ StackOK /\ DepthOK /\ OutcomeOK
  BY DEF SearchOK
<1>2. PICK d \in rest[Top], start \in 1 .. Len(stack) :
        /\ stack[start] = d
        /\ cycle' = Append(SubSeq(stack, start, Len(stack)), d)
  BY DEF AskVisiting
<1>3. /\ UNCHANGED <<graph, state, stack, rest, depth>> /\ stack # <<>>
      /\ outcome' = "cycle"
  BY DEF AskVisiting
<1>4. Len(stack) \in Nat \ {0} /\ \A i \in 1 .. Len(stack) : stack[i] \in DOMAIN graph
  BY <1>1, <1>3, TopFacts
<1> DEFINE walk == SubSeq(stack, start, Len(stack))
           n == Len(stack) - start + 1
<1>5. /\ walk \in Seq(DOMAIN graph) /\ Len(walk) = n
      /\ \A i \in 1 .. n : walk[i] = stack[start + i - 1]
  <2>1. \A i \in start .. Len(stack) : stack[i] \in DOMAIN graph
    BY <1>4
  <2> QED BY <1>4, <2>1, SubSeqProperties
<1> HIDE DEF walk
<1>6. n \in Nat \ {0} /\ d \in DOMAIN graph
  BY <1>2, <1>4
<1>7. /\ cycle' \in Seq(DOMAIN graph) /\ Len(cycle') = n + 1
      /\ \A i \in 1 .. n : cycle'[i] = stack[start + i - 1]
      /\ cycle'[n + 1] = d
  BY <1>2, <1>5, <1>6, AppendProperties DEF walk
<1>8. ASSUME NEW i \in 1 .. n PROVE cycle'[i + 1] \in graph[cycle'[i]]
  <2>1. \A u \in DOMAIN graph : rest[u] \subseteq graph[u]
    BY <1>1 DEF DepthOK
  <2>2. start + i - 1 \in 1 .. Len(stack) /\ cycle'[i] = stack[start + i - 1]
    BY <1>4, <1>7
  <2>3. CASE i = n
    <3>1. cycle'[i] = Top /\ cycle'[i + 1] = d
      BY <1>2, <1>4, <1>6, <1>7, <2>2, <2>3 DEF Top
    <3> QED BY <1>2, <1>4, <2>1, <2>2, <3>1
  <2>4. CASE i # n
    <3>1. i + 1 \in 1 .. n /\ start + i - 1 \in 1 .. Len(stack) - 1
      BY <1>4, <2>4
    <3>2. cycle'[i + 1] = stack[start + i - 1 + 1]
      BY <1>4, <1>7, <3>1
    <3>3. stack[start + i - 1 + 1] \in rest[stack[start + i - 1]]
      BY <1>1, <3>1 DEF StackOK
    <3> QED BY <1>4, <2>1, <2>2, <3>2, <3>3
  <2> QED BY <2>3, <2>4
<1>9. \A i, j \in 1 .. n : cycle'[i] = cycle'[j] => i = j
  <2> SUFFICES ASSUME NEW i \in 1 .. n, NEW j \in 1 .. n, cycle'[i] = cycle'[j] PROVE i = j
    OBVIOUS
  <2>1. start + i - 1 \in 1 .. Len(stack) /\ start + j - 1 \in 1 .. Len(stack)
    BY <1>4
  <2>2. stack[start + i - 1] = stack[start + j - 1]
    BY <1>7
  <2>3. start + i - 1 = start + j - 1
    BY <1>1, <2>1, <2>2 DEF StackOK
  <2> QED BY <1>4, <2>3
<1>10. cycle'[1] = cycle'[Len(cycle')]
  BY <1>2, <1>4, <1>6, <1>7
<1>11. Outcome!IsCycle(graph', cycle')
  <2>1. Len(cycle') - 1 = n /\ Len(cycle') > 1
    BY <1>6, <1>7
  <2> QED BY <1>3, <1>7, <1>8, <1>9, <1>10, <2>1 DEF Outcome!IsCycle
<1>12. TypeOK'
  BY <1>1, <1>3, <1>7 DEF TypeOK
<1>13. StackOK'
  BY <1>1, <1>3 DEF StackOK
<1>14. DepthOK'
  BY <1>1, <1>3 DEF DepthOK, Done, Visited
<1>15. OutcomeOK'
  BY <1>3, <1>11 DEF OutcomeOK
<1> QED BY <1>12, <1>13, <1>14, <1>15 DEF SearchOK

(* A stack has one frame or a caller below its top.                        *)
LEMMA PositiveCases == \A n \in Nat \ {0} : n = 1 \/ (n > 1 /\ 1 <= n - 1)
OBVIOUS

(* Closing the top frame, with or without a caller to report to. *)
LEMMA ReturnSearch ==
  ASSUME SearchOK, Return
  PROVE  SearchOK'
<1>1. TypeOK /\ StackOK /\ DepthOK /\ OutcomeOK
  BY DEF SearchOK
<1> DEFINE top == Top
           n == Len(stack)
           caller == stack[n - 1]
<1>2. /\ stack # <<>> /\ rest[top] = {}
      /\ state' = [state EXCEPT ![top] = "visited"]
      /\ stack' = SubSeq(stack, 1, n - 1)
      /\ graph' = graph /\ outcome' = outcome /\ cycle' = cycle
  BY DEF Return
<1>3. /\ n \in Nat \ {0} /\ top \in DOMAIN graph /\ state[top] = "visiting"
      /\ \A i \in 1 .. n : stack[i] \in DOMAIN graph
      /\ top = stack[n] /\ stack \in Seq(DOMAIN graph)
  BY <1>1, <1>2, TopFacts DEF Top, TypeOK
<1>4. /\ stack' \in Seq(DOMAIN graph) /\ Len(stack') = n - 1
      /\ \A i \in 1 .. n - 1 : stack'[i] = stack[i] /\ stack[i] # top
  <2>1. \A i \in 1 .. n - 1 : stack[i] \in DOMAIN graph
    BY <1>3
  <2>2. \A i \in 1 .. n - 1 : stack[i] # top
    <3> SUFFICES ASSUME NEW i \in 1 .. n - 1, stack[i] = top PROVE FALSE
      OBVIOUS
    <3>1. i \in 1 .. n /\ n \in 1 .. n /\ i # n /\ stack[i] = stack[n]
      BY <1>3
    <3> QED BY <1>1, <3>1 DEF StackOK
  <2>3. 1 \in Int /\ n - 1 \in Int
    BY <1>3
  <2>4. /\ SubSeq(stack, 1, n - 1) \in Seq(DOMAIN graph)
        /\ Len(SubSeq(stack, 1, n - 1)) = IF 1 <= n - 1 THEN n - 1 - 1 + 1 ELSE 0
        /\ \A i \in 1 .. n - 1 - 1 + 1 : SubSeq(stack, 1, n - 1)[i] = stack[1 + i - 1]
    BY ONLY <2>1, <2>3, SubSeqProperties
  <2>5. Len(SubSeq(stack, 1, n - 1)) = n - 1
    <3>1. n = 1 \/ 1 <= n - 1
      BY <1>3, PositiveCases
    <3> QED BY <1>3, <2>4, <3>1
  <2>6. \A i \in 1 .. n - 1 : SubSeq(stack, 1, n - 1)[i] = stack[i]
    BY <1>3, <2>4
  <2> QED BY <1>2, <2>2, <2>4, <2>5, <2>6
<1>5. n > 1 => caller \in DOMAIN graph /\ caller # top /\ state[caller] = "visiting"
               /\ top \in rest[caller]
  <2> SUFFICES ASSUME n > 1
               PROVE  caller \in DOMAIN graph /\ caller # top /\ state[caller] = "visiting"
                      /\ top \in rest[caller]
    OBVIOUS
  <2>1. n - 1 \in 1 .. n - 1 /\ n - 1 \in 1 .. n
    BY <1>3
  <2>2. stack[n - 1 + 1] \in rest[stack[n - 1]]
    BY <1>1, <2>1 DEF StackOK
  <2>3. n - 1 + 1 = n
    BY <1>3
  <2> QED BY <1>1, <1>3, <1>4, <2>1, <2>2, <2>3 DEF StackOK
<1>6. ASSUME n = 1 PROVE rest' = rest /\ depth' = depth
  BY <1>6 DEF Return
<1>7. ASSUME n > 1
      PROVE  /\ rest' = [rest EXCEPT ![caller] = @ \ {top}]
             /\ depth' = [depth EXCEPT ![caller] = Larger(@, depth[top] + 1)]
  <2>1. Len(stack) # 1
    BY <1>3, <1>7
  <2> QED BY <2>1 DEF Return
<1>8. \A u \in DOMAIN graph : depth[u] \in Nat /\ rest[u] \in SUBSET DOMAIN graph
  BY <1>1 DEF TypeOK
<1>9. ASSUME n > 1
      PROVE  /\ depth'[caller] \in Nat /\ depth[top] < depth'[caller]
             /\ depth[caller] <= depth'[caller]
             /\ depth'[caller] = depth[caller] \/ depth'[caller] = depth[top] + 1
             /\ rest'[caller] = rest[caller] \ {top}
             /\ depth' \in [DOMAIN graph -> Nat] /\ rest' \in [DOMAIN graph -> SUBSET DOMAIN graph]
             /\ caller \in DOMAIN graph /\ caller # top /\ state[caller] = "visiting"
             /\ top \in rest[caller]
  <2>1. caller \in DOMAIN graph /\ caller # top /\ state[caller] = "visiting" /\ top \in rest[caller]
    BY <1>5, <1>9
  <2>2. depth'[caller] = Larger(depth[caller], depth[top] + 1) /\ rest'[caller] = rest[caller] \ {top}
    BY <1>1, <1>7, <1>9, <2>1 DEF TypeOK
  <2>3. /\ depth'[caller] \in Nat /\ depth[top] < depth'[caller]
        /\ depth[caller] <= depth'[caller]
        /\ depth'[caller] = depth[caller] \/ depth'[caller] = depth[top] + 1
    BY <1>3, <1>8, <2>1, <2>2 DEF Larger
  <2>4. Larger(depth[caller], depth[top] + 1) \in Nat
    BY <2>2, <2>3
  <2>5. depth' \in [DOMAIN graph -> Nat]
    BY <1>1, <1>7, <1>9, <2>1, <2>4 DEF TypeOK
  <2>6. rest' \in [DOMAIN graph -> SUBSET DOMAIN graph]
    <3>1. rest[caller] \ {top} \in SUBSET DOMAIN graph
      BY <1>8, <2>1
    <3>2. rest \in [DOMAIN graph -> SUBSET DOMAIN graph] /\ rest' = [rest EXCEPT ![caller] = rest[caller] \ {top}]
      BY <1>1, <1>7, <1>9 DEF TypeOK
    <3> QED BY <2>1, <3>1, <3>2
  <2> QED BY <2>1, <2>2, <2>3, <2>5, <2>6
<1>10. \A u \in DOMAIN graph : (n = 1 \/ u # caller) => depth'[u] = depth[u] /\ rest'[u] = rest[u]
  <2>1. n = 1 \/ n > 1
    BY <1>3, PositiveCases
  <2> QED BY <1>1, <1>5, <1>6, <1>7, <2>1 DEF TypeOK
<1>11. TypeOK'
  <2>1. depth' \in [DOMAIN graph -> Nat] /\ rest' \in [DOMAIN graph -> SUBSET DOMAIN graph]
    <3>1. n = 1 \/ n > 1
      BY <1>3, PositiveCases
    <3> QED BY <1>1, <1>6, <1>9, <3>1 DEF TypeOK
  <2> QED BY <1>1, <1>2, <1>4, <2>1 DEF TypeOK
<1>12. StackOK'
  <2>1. \A i, j \in 1 .. Len(stack') : stack'[i] = stack'[j] => i = j
    BY <1>1, <1>3, <1>4 DEF StackOK
  <2>2. ASSUME NEW u \in DOMAIN graph
        PROVE  state'[u] = "visiting" <=> \E i \in 1 .. Len(stack') : stack'[i] = u
    <3>1. CASE u = top
      <4>1. state'[u] = "visited"
        BY <1>1, <1>2, <1>3, <3>1 DEF TypeOK
      <4> QED BY <1>4, <3>1, <4>1
    <3>2. CASE u # top
      <4>1. state'[u] = state[u]
        BY <1>1, <1>2, <3>2 DEF TypeOK
      <4>2. (\E i \in 1 .. n : stack[i] = u) <=> (\E i \in 1 .. n - 1 : stack[i] = u)
        BY <1>3, <3>2
      <4> QED BY <1>1, <1>4, <4>1, <4>2 DEF StackOK
    <3> QED BY <3>1, <3>2
  <2>3. ASSUME NEW i \in 1 .. Len(stack') - 1
        PROVE  stack'[i + 1] \in rest'[stack'[i]]
    <3>1. /\ i \in 1 .. n - 1 /\ i + 1 \in 1 .. n - 1 /\ i \in 1 .. n /\ n - 1 \in 1 .. n
          /\ i # n - 1
      BY <1>3, <1>4
    <3>2. stack'[i] = stack[i] /\ stack'[i + 1] = stack[i + 1] /\ stack[i] \in DOMAIN graph
      BY <1>3, <1>4, <3>1
    <3>3. stack[i] # caller
      BY <1>1, <3>1 DEF StackOK
    <3>4. stack[i + 1] \in rest[stack[i]]
      BY <1>1, <3>1 DEF StackOK
    <3> QED BY <1>10, <3>2, <3>3, <3>4
  <2> QED BY <1>2, <2>1, <2>2, <2>3 DEF StackOK
<1>13. Cardinality(Visited') = Cardinality(Visited) + 1 /\ Cardinality(Visited) \in Nat
  <2>1. Visited' = Visited \cup {top} /\ top \notin Visited
    BY <1>1, <1>2, <1>3 DEF TypeOK, Visited
  <2>2. IsFiniteSet(Visited) /\ Cardinality(Visited) \in Nat
    BY <1>1, VisitedFinite
  <2> QED BY <2>1, <2>2, FS_AddElement
<1>14. DepthOK'
  <2> SUFFICES ASSUME NEW u \in DOMAIN graph
      PROVE  /\ rest'[u] \subseteq graph[u]
             /\ state'[u] = "visited" => rest'[u] = {}
             /\ \A p \in Done(u)' : state'[p] = "visited" /\ depth'[p] < depth'[u]
             /\ depth'[u] = 0 \/ \E p \in Done(u)' : depth'[u] = depth'[p] + 1
             /\ IF state'[u] = "visited" THEN depth'[u] < Cardinality(Visited')
                                         ELSE depth'[u] <= Cardinality(Visited')
    BY <1>2 DEF DepthOK
  <2>1. graph \in [DOMAIN graph -> SUBSET DOMAIN graph]
    BY <1>1, GraphFacts DEF TypeOK
  <2>2. \A p \in Done(u) : p \in DOMAIN graph /\ state[p] = "visited" /\ depth[p] < depth[u]
    BY <1>1, <2>1 DEF DepthOK, Done
  <2>0. n = 1 \/ n > 1
    BY <1>3, PositiveCases
  <2>3. \A p \in DOMAIN graph : state[p] = "visited" =>
          state'[p] = "visited" /\ depth'[p] = depth[p]
    BY <1>1, <1>2, <1>9, <1>10, <2>0 DEF TypeOK
  <2>4. state'[top] = "visited" /\ (u # top => state'[u] = state[u])
    BY <1>1, <1>2, <1>3 DEF TypeOK
  <2>5. CASE n > 1 /\ u = caller
    <3>1. Done(u)' = Done(u) \cup {top}
      BY <1>1, <1>2, <1>9, <2>4, <2>5 DEF Done, DepthOK
    <3>2. depth'[top] = depth[top]
      BY <1>3, <1>9, <1>10, <2>5
    <3>3. \A p \in Done(u)' : state'[p] = "visited" /\ depth'[p] < depth'[u]
      <4>1. \A p \in Done(u) : depth[p] < depth[u] /\ depth[p] \in Nat /\ depth[u] \in Nat
        BY <1>8, <2>2
      <4>2. \A p \in Done(u) : state'[p] = "visited" /\ depth'[p] = depth[p]
        BY <2>2, <2>3
      <4> QED BY <1>8, <1>9, <2>4, <2>5, <3>1, <3>2, <4>1, <4>2
    <3>4. depth'[u] = 0 \/ \E p \in Done(u)' : depth'[u] = depth'[p] + 1
      <4>1. CASE depth'[caller] = depth[top] + 1
        BY <2>5, <3>1, <3>2, <4>1
      <4>2. CASE depth'[caller] = depth[caller]
        <5>1. depth[u] = 0 \/ \E p \in Done(u) : depth[u] = depth[p] + 1
          BY <1>1 DEF DepthOK
        <5> QED BY <2>2, <2>3, <2>5, <3>1, <4>2, <5>1
      <4> QED BY <1>9, <2>5, <4>1, <4>2
    <3>5. depth'[u] <= Cardinality(Visited')
      <4>1. depth[top] <= Cardinality(Visited) /\ depth[caller] <= Cardinality(Visited)
        BY <1>1, <1>3, <1>9, <2>5 DEF DepthOK
      <4> QED BY <1>3, <1>8, <1>9, <1>13, <2>5, <4>1
    <3>6. rest'[u] \subseteq graph[u] /\ state'[u] # "visited"
      BY <1>1, <1>9, <2>4, <2>5 DEF DepthOK
    <3> QED BY <3>3, <3>4, <3>5, <3>6
  <2>6. CASE n = 1 \/ u # caller
    <3>1. depth'[u] = depth[u] /\ rest'[u] = rest[u]
      BY <1>10, <2>6
    <3>2. Done(u)' = Done(u)
      <4>1. CASE u = top
        BY <1>2, <1>3, <2>4, <3>1, <4>1 DEF Done
      <4>2. CASE u # top
        BY <1>2, <2>4, <3>1, <4>2 DEF Done
      <4> QED BY <4>1, <4>2
    <3>3. /\ \A p \in Done(u)' : state'[p] = "visited" /\ depth'[p] < depth'[u]
          /\ depth'[u] = 0 \/ \E p \in Done(u)' : depth'[u] = depth'[p] + 1
      <4>1. depth[u] = 0 \/ \E p \in Done(u) : depth[u] = depth[p] + 1
        BY <1>1 DEF DepthOK
      <4> QED BY <2>2, <2>3, <3>1, <3>2, <4>1
    <3>4. /\ rest'[u] \subseteq graph[u]
          /\ state'[u] = "visited" => rest'[u] = {}
      BY <1>1, <1>2, <2>4, <3>1 DEF DepthOK
    <3>5. IF state'[u] = "visited" THEN depth'[u] < Cardinality(Visited')
                                   ELSE depth'[u] <= Cardinality(Visited')
      <4>1. IF state[u] = "visited" THEN depth[u] < Cardinality(Visited)
                                    ELSE depth[u] <= Cardinality(Visited)
        BY <1>1 DEF DepthOK
      <4> QED BY <1>3, <1>8, <1>13, <2>4, <3>1, <4>1
    <3> QED BY <3>3, <3>4, <3>5
  <2> QED BY <2>0, <2>5, <2>6
<1>15. OutcomeOK'
  <2>1. outcome = "running"
    BY DEF Return
  <2> QED BY <1>2, <2>1 DEF OutcomeOK
<1> QED BY <1>11, <1>12, <1>14, <1>15 DEF SearchOK

(* Every step of the search keeps the invariant.                           *)
LEMMA StepSearch == SearchOK /\ [Next]_vars => SearchOK'
<1> SUFFICES ASSUME SearchOK, [Next]_vars PROVE SearchOK'
  OBVIOUS
<1>1. CASE CallRoot
  BY <1>1, EnterSearch DEF CallRoot
<1>2. CASE CallDependency
  <2>1. Top \in DOMAIN graph
    BY <1>2, TopFacts DEF CallDependency, SearchOK
  <2>2. rest[Top] \subseteq DOMAIN graph
    BY <2>1 DEF SearchOK, TypeOK
  <2> QED BY <1>2, <2>2, EnterSearch DEF CallDependency
<1>3. CASE AskVisited
  BY <1>3, AskVisitedSearch
<1>4. CASE AskVisiting
  BY <1>4, AskVisitingSearch
<1>5. CASE Return
  BY <1>5, ReturnSearch
<1>6. CASE Finish
  <2>1. /\ UNCHANGED <<graph, state, stack, rest, depth, cycle>> /\ outcome' = "resolved"
        /\ \A t \in DOMAIN graph : state[t] = "visited"
    BY <1>6 DEF Finish
  <2>2. TypeOK'
    BY <2>1 DEF SearchOK, TypeOK
  <2>3. StackOK'
    BY <2>1 DEF SearchOK, StackOK
  <2>4. DepthOK'
    BY <2>1 DEF SearchOK, DepthOK, Done, Visited
  <2>5. OutcomeOK'
    BY <2>1 DEF OutcomeOK
  <2> QED BY <2>2, <2>3, <2>4, <2>5 DEF SearchOK
<1>7. CASE UNCHANGED vars
  <2>1. UNCHANGED <<graph, state, stack, rest, depth, outcome, cycle>>
    BY <1>7 DEF vars
  <2>2. TypeOK'
    BY <2>1 DEF SearchOK, TypeOK
  <2>3. StackOK'
    BY <2>1 DEF SearchOK, StackOK
  <2>4. DepthOK'
    BY <2>1 DEF SearchOK, DepthOK, Done, Visited
  <2>5. OutcomeOK'
    BY <2>1 DEF SearchOK, OutcomeOK
  <2> QED BY <2>2, <2>3, <2>4, <2>5 DEF SearchOK
<1> QED BY <1>1, <1>2, <1>3, <1>4, <1>5, <1>6, <1>7 DEF Next

(* The search keeps its stack, its marks and its depths consistent. *)
THEOREM SearchStaysOK == Spec => []SearchOK
BY InitSearch, StepSearch, PTL DEF Spec

(* The abstract module and the search speak of the same depths. *)
LEMMA SameGraphs ==
  ASSUME NEW g
  PROVE  /\ Outcome!DepthFunctions(g) = DepthFunctions(g)
         /\ \A d : Outcome!IsDepth(g, d) <=> IsDepth(g, d)
<1>1. Outcome!Cardinality(DOMAIN g) = Cardinality(DOMAIN g)
  BY DEF Outcome!Cardinality, Cardinality
<1>2. Outcome!DepthFunctions(g) = DepthFunctions(g)
  BY <1>1 DEF Outcome!DepthFunctions, DepthFunctions
<1>3. \A d : Outcome!IsDepth(g, d) <=> IsDepth(g, d)
  BY DEF Outcome!IsDepth, IsDepth
<1> QED BY <1>2, <1>3

(* The search implements what resolving a graph promises. *)
THEOREM SearchImplements == Spec => ImplementsOutcome
<1>1. Init => Outcome!Init
  BY DEF Init, Outcome!Init, Outcome!Unresolved
<1>2. ASSUME SearchOK, [Next]_vars
      PROVE  [Outcome!Next]_Outcome!vars
  <2>1. CASE AskVisiting
    <3>1. SearchOK' /\ outcome' = "cycle" /\ outcome = "running" /\ graph' = graph
      BY <1>2, <2>1, AskVisitingSearch DEF AskVisiting
    <3>2. Outcome!IsCycle(graph, cycle')
      BY <3>1 DEF SearchOK, OutcomeOK
    <3>3. ~Outcome!Acyclic(graph)
      <4>1. ~Acyclic(graph)
        BY <1>2, <3>2, CycleMeansNoDepths, GraphFacts DEF SearchOK, TypeOK
      <4> QED BY <4>1, SameGraphs DEF Acyclic, Outcome!Acyclic
    <3> QED BY <3>1, <3>2, <3>3 DEF Outcome!Next, Outcome!ReportCycle
  <2>2. CASE Finish
    <3>1. /\ outcome = "running" /\ outcome' = "resolved"
          /\ graph' = graph /\ depth' = depth /\ cycle' = cycle
          /\ \A t \in DOMAIN graph : state[t] = "visited"
      BY <2>2 DEF Finish
    <3>2. /\ TypeOK /\ DepthOK
      BY <1>2 DEF SearchOK
    <3>3. \A t \in DOMAIN graph : Done(t) = graph[t]
      BY <3>1, <3>2 DEF Done, DepthOK
    <3>4. IsDepth(graph, depth)
      BY <3>2, <3>3 DEF IsDepth, DepthOK
    <3>5. depth \in DepthFunctions(graph)
      <4>1. Visited = DOMAIN graph
        BY <3>1 DEF Visited
      <4>2. Cardinality(DOMAIN graph) \in Nat
        BY <3>2, <4>1, VisitedFinite
      <4>3. \A t \in DOMAIN graph : depth[t] \in Nat /\ depth[t] < Cardinality(DOMAIN graph)
        BY <3>1, <3>2, <4>1 DEF DepthOK, TypeOK
      <4>4. \A t \in DOMAIN graph : depth[t] \in 0 .. Cardinality(DOMAIN graph)
        BY <4>2, <4>3
      <4> QED BY <3>2, <4>4 DEF DepthFunctions, TypeOK
    <3>6. /\ (IF outcome' = "resolved" THEN depth' ELSE [t \in DOMAIN graph' |-> 0]) = depth
          /\ outcome # "resolved"
      BY <3>1
    <3>7. Outcome!Resolve
      BY <3>1, <3>4, <3>5, <3>6, SameGraphs DEF Outcome!Resolve
    <3> QED BY <3>7 DEF Outcome!Next
  <2>3. CASE CallRoot \/ CallDependency \/ AskVisited \/ Return \/ UNCHANGED vars
    <3>1. /\ graph' = graph /\ outcome' = outcome /\ cycle' = cycle
          /\ outcome = "resolved" => depth' = depth
      BY <2>3 DEF CallRoot, CallDependency, Enter, AskVisited, Return, vars
    <3> QED BY <3>1 DEF Outcome!vars
  <2> QED BY <1>2, <2>1, <2>2, <2>3 DEF Next
<1> QED BY <1>1, <1>2, SearchStaysOK, PTL DEF Spec, Outcome!Spec, ImplementsOutcome

------------------------------------------------------------------------------
(* The search ends. *)

(* A subset of a finite set has fewer elements unless it is the whole set. *)
LEMMA Fewer ==
  ASSUME NEW S, NEW T, IsFiniteSet(T), S \subseteq T
  PROVE  /\ Cardinality(S) \in Nat /\ Cardinality(T) \in Nat
         /\ Cardinality(S) <= Cardinality(T)
         /\ S # T => Cardinality(S) < Cardinality(T)
<1>1. IsFiniteSet(S) /\ Cardinality(S) <= Cardinality(T)
      /\ (Cardinality(S) = Cardinality(T) => S = T)
  BY FS_Subset
<1>2. Cardinality(S) \in Nat /\ Cardinality(T) \in Nat
  BY <1>1, FS_CardinalityType
<1> QED BY <1>1, <1>2

(* What is left is finite. *)
LEMMA WorkFinite ==
  ASSUME TypeOK
  PROVE  IsFiniteSet(Unvisited) /\ IsFiniteSet(DOMAIN graph \ Visited) /\ IsFiniteSet(Unaccounted)
<1>1. IsFiniteSet(DOMAIN graph)
  BY GraphFacts DEF TypeOK
<1>2. IsFiniteSet((DOMAIN graph) \X (DOMAIN graph))
  BY <1>1, FS_Product
<1> QED BY <1>1, <1>2, FS_Subset DEF Unvisited, Unaccounted

(* Every step only takes work off, and some.                               *)
LEMMA StepTakesWork ==
  ASSUME SearchOK, Next
  PROVE  /\ Unvisited' \subseteq Unvisited
         /\ (DOMAIN graph \ Visited)' \subseteq DOMAIN graph \ Visited
         /\ Unaccounted' \subseteq Unaccounted
         /\ outcome' = "running" => outcome = "running"
         /\ \/ Unvisited' # Unvisited
            \/ (DOMAIN graph \ Visited)' # DOMAIN graph \ Visited
            \/ Unaccounted' # Unaccounted
            \/ outcome = "running" /\ outcome' # "running"
<1>0. TypeOK /\ StackOK /\ DepthOK
  BY DEF SearchOK
<1>1. ASSUME NEW t \in DOMAIN graph, Enter(t)
      PROVE  /\ Unvisited' \subseteq Unvisited /\ Unvisited' # Unvisited
             /\ UNCHANGED <<DOMAIN graph \ Visited, Unaccounted, outcome>>
  <2>1. /\ state[t] = "unvisited" /\ state' = [state EXCEPT ![t] = "visiting"]
        /\ rest' = [rest EXCEPT ![t] = graph[t]] /\ UNCHANGED <<graph, outcome>>
    BY <1>1 DEF Enter
  <2>2. state \in [DOMAIN graph -> {"unvisited", "visiting", "visited"}]
        /\ rest \in [DOMAIN graph -> SUBSET DOMAIN graph]
    BY <1>0 DEF TypeOK
  <2>3. \A u \in DOMAIN graph : Done(u)' = Done(u)
    <3> SUFFICES ASSUME NEW u \in DOMAIN graph  PROVE Done(u)' = Done(u)
      OBVIOUS
    <3>1. CASE u = t
      BY <2>1, <2>2, <3>1 DEF Done
    <3>2. CASE u # t
      BY <2>1, <2>2, <3>2 DEF Done
    <3> QED BY <3>1, <3>2
  <2>4. Unaccounted' = Unaccounted
    BY <2>1, <2>3 DEF Unaccounted
  <2>5. Visited' = Visited
    BY <2>1, <2>2 DEF Visited
  <2>6. t \in Unvisited /\ Unvisited' = Unvisited \ {t}
    BY <2>1, <2>2 DEF Unvisited
  <2> QED BY <2>1, <2>4, <2>5, <2>6
<1>2. CASE CallRoot
  BY <1>1, <1>2 DEF CallRoot
<1>3. CASE CallDependency
  <2>1. Top \in DOMAIN graph
    BY <1>0, <1>3, TopFacts DEF CallDependency
  <2>2. rest[Top] \subseteq DOMAIN graph
    BY <1>0, <2>1 DEF TypeOK
  <2> QED BY <1>1, <1>3, <2>2 DEF CallDependency
<1>4. CASE AskVisited
  <2>1. Top \in DOMAIN graph /\ state[Top] = "visiting"
    BY <1>0, <1>4, TopFacts DEF AskVisited
  <2>a. PICK top \in DOMAIN graph : top = Top
    BY <2>1
  <2>2. PICK d \in rest[top] : rest' = [rest EXCEPT ![top] = @ \ {d}]
    BY <1>4, <2>a DEF AskVisited
  <2>3. UNCHANGED <<graph, state, outcome>> /\ state[top] = "visiting"
    BY <1>4, <2>1, <2>a DEF AskVisited
  <2>4. rest \in [DOMAIN graph -> SUBSET DOMAIN graph] /\ d \in graph[top]
    BY <1>0, <2>2, <2>3 DEF TypeOK, DepthOK
  <2>5. rest'[top] = rest[top] \ {d} /\ \A u \in (DOMAIN graph) \ {top} : rest'[u] = rest[u]
    BY <2>2, <2>3, <2>4
  <2>6. \A u \in DOMAIN graph : Done(u) \subseteq Done(u)'
    BY <2>3, <2>5 DEF Done
  <2>7. d \in Done(top)' /\ d \notin Done(top) /\ d \in DOMAIN graph
    BY <2>2, <2>3, <2>4, <2>5 DEF Done
  <2>8. <<top, d>> \in Unaccounted /\ <<top, d>> \notin Unaccounted'
    BY <2>3, <2>4, <2>7 DEF Unaccounted
  <2>9. Unaccounted' \subseteq Unaccounted
    BY <2>3, <2>6 DEF Unaccounted
  <2> QED BY <2>3, <2>8, <2>9 DEF Unvisited, Visited
<1>5. CASE AskVisiting \/ Finish
  BY <1>5 DEF AskVisiting, Finish, Unvisited, Visited, Unaccounted, Done
<1>6. CASE Return
  <2>1. Top \in DOMAIN graph /\ state[Top] = "visiting" /\ Len(stack) \in Nat \ {0}
    BY <1>0, <1>6, TopFacts DEF Return
  <2>a. PICK top \in DOMAIN graph : top = Top
    BY <2>1
  <2>2. state' = [state EXCEPT ![top] = "visited"] /\ UNCHANGED <<graph, outcome>>
    BY <1>6, <2>a DEF Return
  <2>3. \A u \in DOMAIN graph : rest'[u] \subseteq rest[u]
    <3>1. rest \in [DOMAIN graph -> SUBSET DOMAIN graph]
      BY <1>0 DEF TypeOK
    <3>2. CASE UNCHANGED rest
      BY <3>2
    <3>3. CASE rest' = [rest EXCEPT ![stack[Len(stack) - 1]] = @ \ {Top}]
      BY <3>1, <3>3
    <3> QED BY <1>6, <3>2, <3>3 DEF Return
  <2>4. state[top] = "visiting"
    BY <2>1, <2>a
  <2>5. state \in [DOMAIN graph -> {"unvisited", "visiting", "visited"}]
    BY <1>0 DEF TypeOK
  <2>6. Visited' = Visited \cup {top} /\ top \notin Visited /\ Unvisited' = Unvisited
    BY <2>2, <2>4, <2>5 DEF Visited, Unvisited
  <2>7. \A u \in DOMAIN graph : Done(u) \subseteq Done(u)'
    BY <2>2, <2>3, <2>4, <2>5 DEF Done
  <2>8. Unaccounted' \subseteq Unaccounted
    BY <2>2, <2>7 DEF Unaccounted
  <2> QED BY <2>2, <2>4, <2>6, <2>8
<1> QED BY <1>2, <1>3, <1>4, <1>5, <1>6 DEF Next

(* Every step of the search leaves less to do, so it returns within as     *)
(* many steps as there were things to do, on any graph (calculateDepth's   *)
(* marks keep it from entering a template twice).                          *)
THEOREM SearchRunsOut == Spec => [](WorkLeft \in Nat) /\ WorkShrinks
<1>1. SearchOK => WorkLeft \in Nat
  <2> SUFFICES ASSUME SearchOK  PROVE WorkLeft \in Nat
    OBVIOUS
  <2>1. /\ Cardinality(Unvisited) \in Nat /\ Cardinality(DOMAIN graph \ Visited) \in Nat
        /\ Cardinality(Unaccounted) \in Nat
    BY WorkFinite, FS_CardinalityType DEF SearchOK
  <2> QED BY <2>1 DEF WorkLeft
<1>2. SearchOK /\ [Next]_vars => [WorkLeft' < WorkLeft]_vars
  <2> SUFFICES ASSUME SearchOK, Next  PROVE WorkLeft' < WorkLeft
    OBVIOUS
  <2> DEFINE A == Unvisited
             B == DOMAIN graph \ Visited
             C == Unaccounted
             running == outcome = "running"
  <2>1. IsFiniteSet(A) /\ IsFiniteSet(B) /\ IsFiniteSet(C)
    BY WorkFinite DEF SearchOK
  <2>2. A' \subseteq A /\ B' \subseteq B /\ C' \subseteq C /\ (running' => running)
        /\ (A' # A \/ B' # B \/ C' # C \/ (running /\ ~running'))
    BY StepTakesWork
  <2>3. WorkLeft = Cardinality(A) + Cardinality(B) + Cardinality(C) + (IF running THEN 1 ELSE 0)
    BY DEF WorkLeft
  <2>4. WorkLeft' = Cardinality(A') + Cardinality(B') + Cardinality(C')
                      + (IF running' THEN 1 ELSE 0)
    BY DEF WorkLeft
  <2> HIDE DEF A, B, C, running
  <2>5. /\ Cardinality(A') \in Nat /\ Cardinality(A) \in Nat /\ Cardinality(A') <= Cardinality(A)
        /\ A' # A => Cardinality(A') < Cardinality(A)
    BY <2>1, <2>2, Fewer
  <2>6. /\ Cardinality(B') \in Nat /\ Cardinality(B) \in Nat /\ Cardinality(B') <= Cardinality(B)
        /\ B' # B => Cardinality(B') < Cardinality(B)
    BY <2>1, <2>2, Fewer
  <2>7. /\ Cardinality(C') \in Nat /\ Cardinality(C) \in Nat /\ Cardinality(C') <= Cardinality(C)
        /\ C' # C => Cardinality(C') < Cardinality(C)
    BY <2>1, <2>2, Fewer
  <2> QED BY <2>2, <2>3, <2>4, <2>5, <2>6, <2>7
<1> QED BY <1>1, <1>2, SearchStaysOK, PTL DEF Spec, WorkShrinks
==============================================================================
