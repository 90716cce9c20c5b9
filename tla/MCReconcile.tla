----------------------------- MODULE MCReconcile -----------------------------
(* Small instances of Reconcile for TLC. *)
EXTENDS Reconcile

MCNames == Templates \X Targets
MCBindingName == [x \in Templates \X Targets |-> x]

(* Function from some templates to their dependencies, written as a set of *)
(* <<template, dependencies>> pairs.                                       *)
Listing(pairs) ==
  [t \in {x[1] : x \in pairs} |-> UNION {x[2] : x \in {y \in pairs : y[1] = t}}]

Cluster(selected, profiles, extra, skip) ==
  [selected |-> selected, argoCD |-> TRUE, profiles |-> profiles,
   extra |-> extra, skip |-> skip]

Instance(disabled, values, override, skip) ==
  [disabled |-> disabled, values |-> values, override |-> override,
   profiles |-> {}, extra |-> {}, skip |-> skip]

------------------------------------------------------------------------------
(* One instance and a chain a -> b -> c whose depths never change.  The    *)
(* instance may opt out, or skip what others need, which is invalid.       *)
ChainProfiles ==
  {Listing({<<"a", {"b"}>>, <<"b", {"c"}>>, <<"c", {}>>}),
   Listing({<<"b", {"c"}>>, <<"c", {}>>})}
ChainInstances ==
  {Instance(FALSE, "shared", None, {}), Instance(TRUE, "shared", None, {}),
   Instance(FALSE, "private", "default", {"c"})}
NoClusters == {}
NoInstances == {}
ASSUME ChainStable ==
  ProfileSpecs = ChainProfiles => NamesDistinct /\ StableDepths
ChainHandMade ==
  {[managed |-> FALSE, target |-> "v1", template |-> "b", dependsOn |-> {},
    depth |-> 0, ready |-> TRUE, deleting |-> FALSE]}

------------------------------------------------------------------------------
(* The same cluster with a profile edit that moves b from depth 0 to 1.    *)
DriftProfiles ==
  {Listing({<<"a", {"b"}>>, <<"b", {}>>}),
   Listing({<<"b", {"c"}>>, <<"c", {}>>})}
ASSUME DriftUnstable == ProfileSpecs = DriftProfiles => ~StableDepths
DriftClusters == {Cluster(TRUE, {}, {}, {}), Cluster(FALSE, {}, {}, {})}
NothingByHand == {}

------------------------------------------------------------------------------
(* A cluster and an instance.  The instance has private nodes and with it  *)
(* another profile than the cluster, may have malformed rendered values or *)
(* opt out before it has any.  A profile may turn its dependency round:    *)
(* what is there must be patched.                                          *)
TurnedProfiles ==
  {Listing({<<"a", {"b"}>>, <<"b", {}>>}), Listing({<<"b", {"a"}>>, <<"a", {}>>})}
PairClusters == {Cluster(TRUE, {"shared"}, {}, {})}
PairInstances ==
  {Instance(FALSE, "malformed", None, {}), Instance(FALSE, "private", None, {}),
   Instance(TRUE, "pending", None, {})}

==============================================================================
