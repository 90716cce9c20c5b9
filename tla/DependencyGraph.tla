--------------------------- MODULE DependencyGraph ---------------------------
(***************************************************************************)
(* The dependency graph the binding controller resolves for one target     *)
(* (bindings.go, resolveApplications).  A FleetProfile is a function from  *)
(* the templates it lists to the set of templates each one depends on: the *)
(* CRD makes spec.applications a map keyed by name and dependsOn a set.    *)
(* The graph of a target has the same form.  The order in which templates  *)
(* are first seen is not told apart: it decides only the order of a list   *)
(* the controller reads back into a map.                                   *)
(*                                                                         *)
(* Every operator here is a constant expression and none is RECURSIVE.     *)
(***************************************************************************)
EXTENDS Integers, FiniteSets

(***************************************************************************)
(* The graph of the selected profiles, the extra templates and the skipped *)
(* ones.  Dependencies of a template that several profiles list are        *)
(* merged, an extra template adds none, and a skipped template disappears  *)
(* although others may still depend on it.                                 *)
(***************************************************************************)
Combine(profileNames, profiles, extra, skip) ==
  LET listed == UNION {DOMAIN profiles[p] : p \in profileNames}
  IN  [t \in (listed \cup extra) \ skip |->
         UNION {profiles[p][t] : p \in {q \in profileNames : t \in DOMAIN profiles[q]}}]

(* Every dependency of a template is in the graph. *)
Closed(g) == \A t \in DOMAIN g : g[t] \subseteq DOMAIN g

(* d gives each template one more than the largest depth it depends on. *)
IsDepth(g, d) ==
  \A t \in DOMAIN g :
    /\ \A p \in g[t] : d[p] < d[t]
    /\ d[t] = 0 \/ \E p \in g[t] : d[t] = d[p] + 1

DepthFunctions(g) == [DOMAIN g -> 0 .. Cardinality(DOMAIN g)]

(* A graph without a cycle is one whose templates have depths. *)
Acyclic(g) == \E d \in DepthFunctions(g) : IsDepth(g, d)

Depths(g) == CHOOSE d \in DepthFunctions(g) : IsDepth(g, d)

(* resolveApplications returns the graph rather than an error. *)
Resolves(profileNames, profiles, extra, skip) ==
  /\ profileNames \subseteq DOMAIN profiles
  /\ LET g == Combine(profileNames, profiles, extra, skip)
     IN  Closed(g) /\ Acyclic(g)
==============================================================================
