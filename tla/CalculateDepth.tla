---------------------------- MODULE CalculateDepth ----------------------------
(***************************************************************************)
(* The depth-first search of resolveApplications (bindings.go): a          *)
(* recursive function over closed graphs with cycles, one stack frame per  *)
(* template being visited.  The order in which roots and dependencies are  *)
(* visited is the order of the lists they came from, here any order.       *)
(***************************************************************************)
EXTENDS DependencyGraph, Sequences

CONSTANT Templates

ASSUME FiniteTemplates == IsFiniteSet(Templates)

VARIABLES
  graph,    \* applications, with their DependsOn: never changes
  state,    \* of each template: unvisited, visiting or visited
  stack,    \* the names being visited, outermost first
  rest,     \* of each template: the dependencies its loop has yet to finish
  depth,    \* of each template: its depth, or the local it is gathered in
  outcome,  \* "running", "resolved" or "cycle"
  cycle     \* the cycle the error names

vars == <<graph, state, stack, rest, depth, outcome, cycle>>

Outcome == INSTANCE GraphOutcome
  WITH depth <- IF outcome = "resolved" THEN depth ELSE [t \in DOMAIN graph |-> 0]

Top == stack[Len(stack)]

Larger(m, n) == IF m < n THEN n ELSE m

Init ==
  /\ graph \in Outcome!ClosedGraphs
  /\ state = [t \in DOMAIN graph |-> "unvisited"]
  /\ stack = <<>>
  /\ rest = [t \in DOMAIN graph |-> {}]
  /\ depth = [t \in DOMAIN graph |-> 0]
  /\ outcome = "running"
  /\ cycle = <<>>

(* A call for a template nobody has visited opens a frame. *)
Enter(t) ==
  /\ state[t] = "unvisited"
  /\ state' = [state EXCEPT ![t] = "visiting"]
  /\ stack' = Append(stack, t)
  /\ rest' = [rest EXCEPT ![t] = graph[t]]
  /\ depth' = [depth EXCEPT ![t] = 0]
  /\ UNCHANGED <<graph, outcome, cycle>>

(* The loop over the templates calls it for each; visited ones return.     *)
CallRoot ==
  /\ outcome = "running"
  /\ stack = <<>>
  /\ \E t \in DOMAIN graph : Enter(t)

CallDependency ==
  /\ outcome = "running"
  /\ stack # <<>>
  /\ \E d \in rest[Top] : Enter(d)

(* A dependency visited before answers at once. *)
AskVisited ==
  /\ outcome = "running"
  /\ stack # <<>>
  /\ \E d \in rest[Top] :
       /\ state[d] = "visited"
       /\ depth' = [depth EXCEPT ![Top] = Larger(@, depth[d] + 1)]
       /\ rest' = [rest EXCEPT ![Top] = @ \ {d}]
  /\ UNCHANGED <<graph, state, stack, outcome, cycle>>

(* A bug, for the sensitivity of ImplementsOutcome: the whole stack is reported. *)
AskVisitingWholeStack ==
  /\ outcome = "running"
  /\ stack # <<>>
  /\ \E d \in rest[Top] : state[d] = "visiting" /\ cycle' = Append(stack, d)
  /\ outcome' = "cycle"
  /\ UNCHANGED <<graph, state, stack, rest, depth>>

(* A bug, for the sensitivity of Terminates: a template visited is entered again. *)
AskVisitingAgain ==
  /\ outcome = "running"
  /\ stack # <<>>
  /\ \E d \in rest[Top] : state[d] = "visiting" /\ rest' = [rest EXCEPT ![d] = graph[d]]
  /\ UNCHANGED <<graph, state, stack, depth, outcome, cycle>>

(* A dependency still being visited closes a cycle: the part of the stack  *)
(* from it on, and itself again.  The error unwinds every frame.           *)
AskVisiting ==
  /\ outcome = "running"
  /\ stack # <<>>
  /\ \E d \in rest[Top] :
       /\ state[d] = "visiting"
       /\ \E start \in 1 .. Len(stack) :
            /\ stack[start] = d
            /\ cycle' = Append(SubSeq(stack, start, Len(stack)), d)
  /\ outcome' = "cycle"
  /\ UNCHANGED <<graph, state, stack, rest, depth>>

(* A bug, for the sensitivity of SearchOK: the caller is not one deeper. *)
ReturnSameDepth ==
  /\ outcome = "running"
  /\ stack # <<>>
  /\ rest[Top] = {}
  /\ state' = [state EXCEPT ![Top] = "visited"]
  /\ stack' = SubSeq(stack, 1, Len(stack) - 1)
  /\ IF Len(stack) = 1
     THEN UNCHANGED <<rest, depth>>
     ELSE LET caller == stack[Len(stack) - 1]
          IN  /\ rest' = [rest EXCEPT ![caller] = @ \ {Top}]
              /\ depth' = [depth EXCEPT ![caller] = Larger(@, depth[Top])]
  /\ UNCHANGED <<graph, outcome, cycle>>

(* A frame without dependencies left returns its depth to its caller.      *)
Return ==
  /\ outcome = "running"
  /\ stack # <<>>
  /\ rest[Top] = {}
  /\ state' = [state EXCEPT ![Top] = "visited"]
  /\ stack' = SubSeq(stack, 1, Len(stack) - 1)
  /\ IF Len(stack) = 1
     THEN UNCHANGED <<rest, depth>>
     ELSE LET caller == stack[Len(stack) - 1]
          IN  /\ rest' = [rest EXCEPT ![caller] = @ \ {Top}]
              /\ depth' = [depth EXCEPT ![caller] = Larger(@, depth[Top] + 1)]
  /\ UNCHANGED <<graph, outcome, cycle>>

Finish ==
  /\ outcome = "running"
  /\ stack = <<>>
  /\ \A t \in DOMAIN graph : state[t] = "visited"
  /\ outcome' = "resolved"
  /\ UNCHANGED <<graph, state, stack, rest, depth, cycle>>

Next ==
  \/ CallRoot
  \/ CallDependency
  \/ AskVisited
  \/ AskVisiting
  \/ Return
  \/ Finish

Spec == Init /\ [][Next]_vars

(* The function runs until it returns. *)
FairSpec == Spec /\ WF_vars(Next)

------------------------------------------------------------------------------
(* Types, and the stack against the state of each template: the frames on  *)
(* it are exactly the templates being visited, each once.                  *)
TypeOK ==
  /\ graph \in Outcome!ClosedGraphs
  /\ state \in [DOMAIN graph -> {"unvisited", "visiting", "visited"}]
  /\ stack \in Seq(DOMAIN graph)
  /\ rest \in [DOMAIN graph -> SUBSET DOMAIN graph]
  /\ depth \in [DOMAIN graph -> Nat]
  /\ outcome \in {"running", "resolved", "cycle"}
  /\ cycle \in Seq(DOMAIN graph)

StackOK ==
  /\ \A i, j \in 1 .. Len(stack) : stack[i] = stack[j] => i = j
  /\ \A t \in DOMAIN graph :
       state[t] = "visiting" <=> \E i \in 1 .. Len(stack) : stack[i] = t
  /\ \A i \in 1 .. Len(stack) - 1 : stack[i + 1] \in rest[stack[i]]

Visited == {t \in DOMAIN graph : state[t] = "visited"}

(* The dependencies a template has accounted for so far. *)
Done(t) == IF state[t] = "unvisited" THEN {} ELSE graph[t] \ rest[t]

(* Every depth, final or in the making, is one more than the largest of    *)
(* the dependencies accounted for, all of which are visited.               *)
DepthOK ==
  \A t \in DOMAIN graph :
    /\ rest[t] \subseteq graph[t]
    /\ state[t] = "visited" => rest[t] = {}
    /\ \A p \in Done(t) : state[p] = "visited" /\ depth[p] < depth[t]
    /\ depth[t] = 0 \/ \E p \in Done(t) : depth[t] = depth[p] + 1
    /\ IF state[t] = "visited" THEN depth[t] < Cardinality(Visited)
                               ELSE depth[t] <= Cardinality(Visited)

OutcomeOK ==
  /\ outcome = "resolved" => \A t \in DOMAIN graph : state[t] = "visited"
  /\ outcome = "cycle" => Outcome!IsCycle(graph, cycle)

(* The inductive invariant of the search (bindings.go:203-253). *)
SearchOK == TypeOK /\ StackOK /\ DepthOK /\ OutcomeOK

(* The search computes what GraphOutcome promises: the depths it returns   *)
(* are those of the graph, the cycle it names is in the graph, and it      *)
(* reports one only where no depths exist (bindings.go:211-251).           *)
ImplementsOutcome == Outcome!Spec

(* It returns on every graph, cyclic ones included: the search never       *)
(* enters a template twice (bindings.go:212-225).                          *)
Terminates == <>(outcome # "running")

(* ... as every step takes something off what is left: templates to enter  *)
(* and to return from, dependencies to account for, and the answer.        *)
Unvisited == {t \in DOMAIN graph : state[t] = "unvisited"}
Unaccounted ==
  {x \in (DOMAIN graph) \X (DOMAIN graph) : x[2] \in graph[x[1]] \ Done(x[1])}
WorkLeft ==
  Cardinality(Unvisited) + Cardinality(DOMAIN graph \ Visited)
    + Cardinality(Unaccounted) + (IF outcome = "running" THEN 1 ELSE 0)
WorkShrinks == [][WorkLeft' < WorkLeft]_vars
==============================================================================
