----------------------------- MODULE GraphOutcome -----------------------------
(***************************************************************************)
(* What resolving a closed dependency graph promises: in one step, either  *)
(* a depth for every template or a cycle that is really in the graph, and  *)
(* the cycle only if there are no depths.                                  *)
(***************************************************************************)
EXTENDS DependencyGraph, Sequences

CONSTANT Templates

VARIABLES
  graph,    \* the combined graph, which never changes
  outcome,  \* "running", "resolved" or "cycle"
  depth,    \* the depths, once resolved
  cycle     \* the reported cycle, its first template repeated at the end

vars == <<graph, outcome, depth, cycle>>

ClosedGraphs ==
  {g \in UNION {[S -> SUBSET Templates] : S \in SUBSET Templates} : Closed(g)}

Unresolved(g) == [t \in DOMAIN g |-> 0]

(* A walk along dependencies that comes back to where it started and meets *)
(* no other template twice.                                                *)
IsCycle(g, c) ==
  /\ c \in Seq(DOMAIN g) /\ Len(c) > 1
  /\ c[1] = c[Len(c)]
  /\ \A i \in 1 .. Len(c) - 1 : c[i + 1] \in g[c[i]]
  /\ \A i, j \in 1 .. Len(c) - 1 : c[i] = c[j] => i = j

Init ==
  /\ graph \in ClosedGraphs
  /\ outcome = "running"
  /\ depth = Unresolved(graph)
  /\ cycle = <<>>

Resolve ==
  /\ outcome = "running"
  /\ outcome' = "resolved"
  /\ depth' \in DepthFunctions(graph)
  /\ IsDepth(graph, depth')
  /\ UNCHANGED <<graph, cycle>>

ReportCycle ==
  /\ outcome = "running"
  /\ ~Acyclic(graph)
  /\ outcome' = "cycle"
  /\ IsCycle(graph, cycle')
  /\ UNCHANGED <<graph, depth>>

Next == Resolve \/ ReportCycle

Spec == Init /\ [][Next]_vars
==============================================================================
