------------------------------ MODULE Reconcile ------------------------------
(***************************************************************************)
(* The binding controller's reconciliation pass (reconcile.go,             *)
(* reconcileOnce) against the Kubernetes API.  A pass reads FleetProfiles, *)
(* Clusters, VirtualClusterInstances and ArgoCDApplications in four        *)
(* separate list requests, computes the bindings it wants from those       *)
(* snapshots, settles the instances' writer credentials where those are    *)
(* enabled (WriterCredential has the requests, here is what they decide),  *)
(* then creates, patches and prunes one request at a time.  Between any    *)
(* two requests users edit targets and profiles and the Platform reports   *)
(* health or completes a deletion.                                         *)
(*                                                                         *)
(* The computation between two requests touches process memory only, so    *)
(* it is part of the action of the request before it.                      *)
(***************************************************************************)
EXTENDS DependencyGraph

CONSTANTS
  Clusters,             \* names of Cluster objects
  Instances,            \* VirtualClusterInstances; {} is the feature disabled
  Templates,            \* ArgoCDApplicationTemplate names
  ProfileNames,         \* FleetProfile names
  Names,                \* namespace/name keys of ArgoCDApplications
  None,                 \* an absent object
  BindingName,          \* <<template, target>> -> Names
  ProfileSpecs,         \* the contents a FleetProfile may have
  ClusterSpecs,         \* the selection-relevant states of a Cluster
  InstanceSpecs,        \* those of a VirtualClusterInstance
  DefaultProfiles,      \* profiles of a Cluster without the annotation
  SharedNodesProfile, PrivateNodesProfile,
  Credentials,          \* whether instances get writer credentials
  HandMade,             \* applications a user may create without the label
  MaxEdits,             \* bound: edits of targets and profiles
  MaxHands,             \* bound: interference with applications by others
  MaxFaults             \* bound: failed requests, restarts, empty answers

Targets == Clusters \cup Instances

NoProfiles == [p \in {} |-> {}]
FleetProfiles == UNION {[S -> ProfileSpecs] : S \in SUBSET ProfileNames}

Profile == UNION {[S -> SUBSET Templates] : S \in SUBSET Templates}
ClusterSpec == [selected : BOOLEAN, argoCD : BOOLEAN,
                profiles : SUBSET ProfileNames,
                extra : SUBSET Templates, skip : SUBSET Templates]
InstanceSpec == [disabled : BOOLEAN,
                 values : {"pending", "malformed", "shared", "private"},
                 override : ProfileNames \cup {None},
                 profiles : SUBSET ProfileNames,
                 extra : SUBSET Templates, skip : SUBSET Templates]

(* The states the object of a target may be in; None: there is no object.  *)
SpecsOf(t) == (IF t \in Clusters THEN ClusterSpecs ELSE InstanceSpecs) \cup {None}

DepthBound == 0 .. Cardinality(Templates)

(* What the controller writes of an ArgoCDApplication. *)
Binding == [target : Targets, template : Templates,
            dependsOn : SUBSET Templates, depth : DepthBound]

(* An ArgoCDApplication.  managed: it carries the generated-by label;      *)
(* depth: its depth annotation, 0 when absent or malformed; ready: Healthy *)
(* and Synced; deleting: a deletion is accepted, its finalizer pending.    *)
Application == [managed : BOOLEAN, target : Targets, template : Templates,
                dependsOn : SUBSET Templates, depth : DepthBound,
                ready : BOOLEAN, deleting : BOOLEAN]

ASSUME TargetsAssumption == Clusters \cap Instances = {}
ASSUME TemplatesAssumption == IsFiniteSet(Templates)
ASSUME NamesAssumption == BindingName \in [Templates \X Targets -> Names]
ASSUME NoneAssumption ==
  /\ None \notin Application
  /\ None \notin Binding
  /\ None \notin ClusterSpec
  /\ None \notin InstanceSpec
  /\ None \notin ProfileNames
ASSUME SpecsAssumption ==
  /\ ProfileSpecs \subseteq Profile
  /\ ClusterSpecs \subseteq ClusterSpec
  /\ InstanceSpecs \subseteq InstanceSpec
  /\ DefaultProfiles \subseteq ProfileNames
  /\ {SharedNodesProfile, PrivateNodesProfile} \subseteq ProfileNames
  /\ HandMade \subseteq {a \in Application : ~a.managed /\ ~a.deleting}
ASSUME CredentialsAssumption ==
  Credentials \in BOOLEAN /\ (Credentials => Instances # {})
ASSUME BoundsAssumption == {MaxEdits, MaxHands, MaxFaults} \subseteq Nat

VARIABLES
  fleetProfiles,  \* API: the FleetProfiles, a function on the existing names
  targets,        \* API: the state of each Cluster and instance, or None
  apps,           \* API: the ArgoCDApplication of each name, or None
  pc,             \* controller: where the pass is
  seenProfiles,   \* controller: the FleetProfiles it listed
  seenTargets,    \* controller: the Clusters and instances it listed
  existing,       \* controller: the ArgoCDApplications it listed
  desired,        \* controller: the bindings it wants, by name
  todo,           \* controller: names left to create or patch
  stale,          \* controller: names left to delete
  edits, hands, faults  \* how much of each bound is used

api == <<fleetProfiles, targets, apps>>
locals == <<seenProfiles, seenTargets, existing, desired, todo, stale>>
budget == <<edits, hands, faults>>
vars == <<api, pc, locals, budget>>

------------------------------------------------------------------------------
(* What a pass computes from its snapshots. *)

(* Whether the target takes part at all.  A Cluster must match the selector *)
(* and have Argo CD enabled; an instance takes part unless it opts out.     *)
Enrolled(t, s) ==
  IF t \in Clusters THEN s.selected /\ s.argoCD ELSE ~s.disabled

(* An instance can be classified once its rendered values parse. *)
Classified(t, s) == t \in Instances => s.values \in {"shared", "private"}

ObservabilityProfile(s) ==
  IF s.override # None THEN s.override
  ELSE IF s.values = "private" THEN PrivateNodesProfile ELSE SharedNodesProfile

SelectedProfiles(t, s) ==
  IF t \in Instances THEN {ObservabilityProfile(s)} \cup s.profiles
  ELSE IF s.profiles = {} THEN DefaultProfiles ELSE s.profiles

Graph(t, s, profiles) ==
  Combine(SelectedProfiles(t, s), profiles, s.extra, s.skip)

Valid(t, s, profiles) ==
  /\ Classified(t, s)
  /\ Resolves(SelectedProfiles(t, s), profiles, s.extra, s.skip)

(* The targets whose bindings a pass computes, and those it preserves. *)
Resolved(specs, profiles) ==
  {t \in Targets : /\ specs[t] # None
                   /\ Enrolled(t, specs[t])
                   /\ Valid(t, specs[t], profiles)}
Preserved(specs, profiles) ==
  {t \in Targets : /\ specs[t] # None
                   /\ Enrolled(t, specs[t])
                   /\ ~Valid(t, specs[t], profiles)}

(* A bug, for the sensitivity of GatedCreation: present is ready enough. *)
UnblockedIfListed(t, g, a, store) ==
  \A p \in g[a] : store[BindingName[<<p, t>>]] # None

(* Another one: a prerequisite that is ready on any target will do. *)
UnblockedElsewhere(t, g, a, store) ==
  \/ store[BindingName[<<a, t>>]] # None
  \/ \A p \in g[a] : \E u \in Targets : /\ store[BindingName[<<p, u>>]] # None
                                       /\ store[BindingName[<<p, u>>]].ready

(* A binding that does not exist waits until everything it depends on is   *)
(* there, Healthy and Synced; one that exists is wanted whatever they do.  *)
Unblocked(t, g, a, store) ==
  \/ store[BindingName[<<a, t>>]] # None
  \/ \A p \in g[a] : /\ store[BindingName[<<p, t>>]] # None
                     /\ store[BindingName[<<p, t>>]].ready

BindingsFor(t, g, store) ==
  LET depth == Depths(g)
  IN  {[target |-> t, template |-> a, dependsOn |-> g[a], depth |-> depth[a]] :
         a \in {x \in DOMAIN g : Unblocked(t, g, x, store)}}

BindingsOf(specs, profiles, store) ==
  UNION {BindingsFor(t, Graph(t, specs[t], profiles), store) :
           t \in Resolved(specs, profiles)}

NameOf(b) == BindingName[<<b.template, b.target>>]

(* Distinct bindings have distinct names.  The code does not ensure it: a  *)
(* name joins template and target with dashes and is cut at 63 characters. *)
NamesDistinct ==
  \A x, y \in Templates \X Targets : BindingName[x] = BindingName[y] => x = y

(* The graphs a pass may compute bindings from, for any specifications of  *)
(* the targets and any FleetProfiles.                                      *)
ResolvedGraphs ==
  {Graph(x[1], x[2], x[3]) :
     x \in {y \in Targets \X (ClusterSpecs \cup InstanceSpecs) \X FleetProfiles :
              y[2] \in SpecsOf(y[1]) /\ Valid(y[1], y[2], y[3])}}

(* A template is always deeper than what it depends on, even if the two    *)
(* depths were recorded at different times.                                *)
StableDepths ==
  \A g, h \in ResolvedGraphs : \A a \in DOMAIN g : \A p \in g[a] \cap DOMAIN h :
    Depths(h)[p] < Depths(g)[a]

(* Two bindings with one name: the map keeps the one written last. *)
ByName(bindings) ==
  [k \in Names |-> IF \E b \in bindings : NameOf(b) = k
                   THEN CHOOSE b \in bindings : NameOf(b) = k
                   ELSE None]

Created(b) ==
  [managed |-> TRUE, target |-> b.target, template |-> b.template,
   dependsOn |-> b.dependsOn, depth |-> b.depth,
   ready |-> FALSE, deleting |-> FALSE]

(* A bug, for the sensitivity of PassSound: annotations are not patched. *)
PatchedSpecOnly(a, b) ==
  [a EXCEPT !.managed = TRUE, !.target = b.target, !.template = b.template]

(* A merge patch leaves status and deletion alone. *)
Patched(a, b) ==
  [Created(b) EXCEPT !.ready = a.ready, !.deleting = a.deleting]

(* A bug, for the sensitivity of EventuallyConverged: only creates. *)
OutstandingMissing(store, wanted) ==
  {k \in Names : wanted[k] # None /\ store[k] = None}

Outstanding(store, wanted) ==
  {k \in Names : /\ wanted[k] # None
                 /\ store[k] = None \/ Patched(store[k], wanted[k]) # store[k]}

(* A bug, for the sensitivity of TypeOK: what is wanted is not kept. *)
UndesiredThoughWanted(store, wanted, preserved) ==
  {k \in Names : store[k] # None /\ store[k].managed /\ store[k].target \notin preserved}

(* A bug, for the sensitivity of StaysSettled: invalid targets lose theirs.*)
UndesiredUnprotected(store, wanted, preserved) ==
  {k \in Names : store[k] # None /\ store[k].managed /\ wanted[k] = None}

(* Managed applications that are neither wanted nor preserved ... *)
Undesired(store, wanted, preserved) ==
  {k \in Names : /\ store[k] # None
                 /\ store[k].managed
                 /\ wanted[k] = None
                 /\ store[k].target \notin preserved}

(* A bug, for the sensitivity of DependentsGoFirst: all depths in one pass. *)
AtAnyDepth(store, names) == {k \in names : store[k].depth >= 0}

(* ... of which one pass deletes those of the largest recorded depth. *)
AtHighestDepth(store, names) ==
  {k \in names : \A j \in names : store[j].depth <= store[k].depth}

------------------------------------------------------------------------------
(* The controller.  Every request that returns an error ends the pass; the *)
(* locals of a pass do not outlive it, and the process keeps no other state*)
(* here, so an error and a restart are the same step.                      *)

EndPass ==
  /\ pc' = "idle"
  /\ seenProfiles' = NoProfiles
  /\ seenTargets' = [t \in Targets |-> None]
  /\ existing' = [k \in Names |-> None]
  /\ desired' = [k \in Names |-> None]
  /\ todo' = {}
  /\ stale' = {}

(* A list request returns what is there.  A 404, which the client reads as *)
(* success without content, is a list of nothing.                          *)
Listed(answer, content, nothing) ==
  \/ answer = content /\ UNCHANGED faults
  \/ answer = nothing /\ faults < MaxFaults /\ faults' = faults + 1

ListFleetProfiles ==
  /\ pc = "idle"
  /\ pc' = "clusters"
  /\ \E answer \in {fleetProfiles, NoProfiles} :
       /\ Listed(answer, fleetProfiles, NoProfiles)
       /\ seenProfiles' = answer
  /\ UNCHANGED <<api, seenTargets, existing, desired, todo, stale, edits, hands>>

ListTargets(kind, next) ==
  LET content == [t \in Targets |-> IF t \in kind THEN targets[t] ELSE seenTargets[t]]
  IN  /\ pc' = next
      /\ \E answer \in {content, seenTargets} :
           /\ Listed(answer, content, seenTargets)
           /\ seenTargets' = answer
      /\ UNCHANGED <<api, seenProfiles, existing, desired, todo, stale, edits, hands>>

ListClusters ==
  /\ pc = "clusters"
  /\ ListTargets(Clusters, IF Instances = {} THEN "applications" ELSE "instances")

ListInstances ==
  /\ pc = "instances"
  /\ ListTargets(Instances, "applications")

(* A bug, for the sensitivity of WantedBindingsKept: a target whose        *)
(* credential failed is not preserved.                                     *)
DecideUnkept(store, failed) ==
  LET wanted == ByName({b \in BindingsOf(seenTargets, seenProfiles, store) :
                          b.target \notin failed})
  IN  /\ pc' = "apply"
      /\ desired' = wanted
      /\ todo' = Outstanding(store, wanted)
      /\ stale' = AtHighestDepth(store, Undesired(store, wanted,
                     Preserved(seenTargets, seenProfiles)))

(* What the pass writes and prunes.  A target whose credential failed is   *)
(* neither patched nor pruned, one that opted out included.                *)
Decide(store, failed) ==
  LET wanted == ByName({b \in BindingsOf(seenTargets, seenProfiles, store) :
                          b.target \notin failed})
      kept   == Preserved(seenTargets, seenProfiles) \cup failed
  IN  /\ pc' = "apply"
      /\ desired' = wanted
      /\ todo' = Outstanding(store, wanted)
      /\ stale' = AtHighestDepth(store, Undesired(store, wanted, kept))

ListApplications ==
  /\ pc = "applications"
  /\ \E answer \in {apps, [k \in Names |-> None]} :
       /\ Listed(answer, apps, [k \in Names |-> None])
       /\ existing' = answer
       /\ IF Credentials
          THEN pc' = "credentials" /\ UNCHANGED <<desired, todo, stale>>
          ELSE Decide(answer, {})
  /\ UNCHANGED <<api, seenProfiles, seenTargets, edits, hands>>

(* The instances a pass has a credential to make or to remove for.         *)
Credentialed ==
  {t \in Instances : /\ seenTargets[t] # None
                     /\ \/ ~Enrolled(t, seenTargets[t])
                        \/ t \in Resolved(seenTargets, seenProfiles)}

SettleCredentials ==
  /\ pc = "credentials"
  /\ \/ Decide(existing, {}) /\ UNCHANGED faults
     \/ /\ faults < MaxFaults
        /\ faults' = faults + 1
        /\ \E failed \in (SUBSET Credentialed) \ {{}} : Decide(existing, failed)
  /\ UNCHANGED <<api, seenProfiles, seenTargets, existing, edits, hands>>

(* Creating a name that someone took since it was listed is a conflict. *)
CreateApplication(k) ==
  /\ pc = "apply"
  /\ k \in todo
  /\ existing[k] = None
  /\ IF apps[k] = None
     THEN /\ apps' = [apps EXCEPT ![k] = Created(desired[k])]
          /\ todo' = todo \ {k}
          /\ UNCHANGED <<pc, seenProfiles, seenTargets, existing, desired, stale>>
     ELSE EndPass /\ UNCHANGED apps
  /\ UNCHANGED <<fleetProfiles, targets, budget>>

(* Patching or deleting a name that is gone counts as done. *)
PatchApplication(k) ==
  /\ pc = "apply"
  /\ k \in todo
  /\ existing[k] # None
  /\ apps' = IF apps[k] = None THEN apps
             ELSE [apps EXCEPT ![k] = Patched(@, desired[k])]
  /\ todo' = todo \ {k}
  /\ UNCHANGED <<fleetProfiles, targets, pc, seenProfiles, seenTargets,
                 existing, desired, stale, budget>>

PruneApplication(k) ==
  /\ pc = "apply"
  /\ todo = {}
  /\ k \in stale
  /\ apps' = IF apps[k] = None THEN apps
             ELSE [apps EXCEPT ![k].deleting = TRUE]
  /\ stale' = stale \ {k}
  /\ UNCHANGED <<fleetProfiles, targets, pc, seenProfiles, seenTargets,
                 existing, desired, todo, budget>>

FinishPass ==
  /\ pc = "apply"
  /\ todo = {}
  /\ stale = {}
  /\ EndPass
  /\ UNCHANGED <<api, budget>>

(* A request fails, or the process is killed and restarted.  After a       *)
(* request took effect this is also an answer that was lost on its way.    *)
Abort ==
  /\ pc # "idle"
  /\ faults < MaxFaults
  /\ faults' = faults + 1
  /\ EndPass
  /\ UNCHANGED <<api, edits, hands>>

Step ==
  \/ ListFleetProfiles
  \/ ListClusters
  \/ ListInstances
  \/ ListApplications
  \/ SettleCredentials
  \/ \E k \in Names : \/ CreateApplication(k)
                      \/ PatchApplication(k)
                      \/ PruneApplication(k)
  \/ FinishPass

------------------------------------------------------------------------------
(* Everyone else. *)

EditTarget(t) ==
  /\ edits < MaxEdits
  /\ edits' = edits + 1
  /\ \E s \in SpecsOf(t) \ {targets[t]} : targets' = [targets EXCEPT ![t] = s]
  /\ UNCHANGED <<fleetProfiles, apps, pc, locals, hands, faults>>

SetProfile(p) ==
  /\ edits < MaxEdits
  /\ edits' = edits + 1
  /\ \E s \in ProfileSpecs :
       fleetProfiles' = [q \in DOMAIN fleetProfiles \cup {p} |->
                           IF q = p THEN s ELSE fleetProfiles[q]]
  /\ UNCHANGED <<targets, apps, pc, locals, hands, faults>>

RemoveProfile(p) ==
  /\ edits < MaxEdits
  /\ edits' = edits + 1
  /\ fleetProfiles' = [q \in DOMAIN fleetProfiles \ {p} |-> fleetProfiles[q]]
  /\ UNCHANGED <<targets, apps, pc, locals, hands, faults>>

(* Argo CD syncs the application and reports it Healthy, or no longer so. *)
BecomeReady(k) ==
  /\ apps[k] # None
  /\ ~apps[k].ready
  /\ apps' = [apps EXCEPT ![k].ready = TRUE]
  /\ UNCHANGED <<fleetProfiles, targets, pc, locals, budget>>

Degrade(k) ==
  /\ hands < MaxHands
  /\ apps[k] # None
  /\ apps[k].ready
  /\ apps' = [apps EXCEPT ![k].ready = FALSE]
  /\ hands' = hands + 1
  /\ UNCHANGED <<fleetProfiles, targets, pc, locals, edits, faults>>

(* The Platform finishes a deletion it accepted. *)
FinishDelete(k) ==
  /\ apps[k] # None
  /\ apps[k].deleting
  /\ apps' = [apps EXCEPT ![k] = None]
  /\ UNCHANGED <<fleetProfiles, targets, pc, locals, budget>>

CreateByHand(k) ==
  /\ hands < MaxHands
  /\ apps[k] = None
  /\ \E a \in HandMade : apps' = [apps EXCEPT ![k] = a]
  /\ hands' = hands + 1
  /\ UNCHANGED <<fleetProfiles, targets, pc, locals, edits, faults>>

DeleteByHand(k) ==
  /\ hands < MaxHands
  /\ apps[k] # None
  /\ apps' = [apps EXCEPT ![k].deleting = TRUE]
  /\ hands' = hands + 1
  /\ UNCHANGED <<fleetProfiles, targets, pc, locals, edits, faults>>

(* Removing the label takes an application out of the controller's hands. *)
Detach(k) ==
  /\ hands < MaxHands
  /\ apps[k] # None
  /\ apps[k].managed
  /\ apps' = [apps EXCEPT ![k].managed = FALSE]
  /\ hands' = hands + 1
  /\ UNCHANGED <<fleetProfiles, targets, pc, locals, edits, faults>>

Platform(k) == BecomeReady(k) \/ FinishDelete(k)

Environment ==
  \/ \E t \in Targets : EditTarget(t)
  \/ \E p \in ProfileNames : SetProfile(p) \/ RemoveProfile(p)
  \/ \E k \in Names : \/ Platform(k)
                      \/ Degrade(k)
                      \/ CreateByHand(k)
                      \/ DeleteByHand(k)
                      \/ Detach(k)

------------------------------------------------------------------------------
Init ==
  /\ fleetProfiles \in FleetProfiles
  /\ targets \in {f \in [Targets -> ClusterSpecs \cup InstanceSpecs \cup {None}] :
                    \A t \in Targets : f[t] \in SpecsOf(t)}
  /\ apps = [k \in Names |-> None]
  /\ pc = "idle"
  /\ seenProfiles = NoProfiles
  /\ seenTargets = [t \in Targets |-> None]
  /\ existing = [k \in Names |-> None]
  /\ desired = [k \in Names |-> None]
  /\ todo = {}
  /\ stale = {}
  /\ edits = 0
  /\ hands = 0
  /\ faults = 0

Next == Step \/ Abort \/ Environment

Spec == Init /\ [][Next]_vars

(* The controller runs its loop for ever and the Platform eventually does  *)
(* its part; nobody has to edit, interfere or fail.                        *)
Fairness ==
  /\ WF_vars(Step)
  /\ \A k \in Names : WF_vars(BecomeReady(k)) /\ WF_vars(FinishDelete(k))

FairSpec == Spec /\ Fairness

------------------------------------------------------------------------------
(* Properties. *)

(* Types.  It also says that what a pass works on lies in its snapshots:   *)
(* only listed names are deleted, only unlisted or listed-and-wanted names *)
(* are written (reconcile.go:128-150), and nothing is before all is        *)
(* decided.                                                                *)
TypeOK ==
  /\ fleetProfiles \in FleetProfiles
  /\ targets \in [Targets -> ClusterSpecs \cup InstanceSpecs \cup {None}]
  /\ \A t \in Targets : targets[t] \in SpecsOf(t)
  /\ apps \in [Names -> Application \cup {None}]
  /\ pc \in {"idle", "clusters", "instances", "applications", "credentials", "apply"}
  /\ seenProfiles \in FleetProfiles
  /\ seenTargets \in [Targets -> ClusterSpecs \cup InstanceSpecs \cup {None}]
  /\ \A t \in Targets : seenTargets[t] \in SpecsOf(t)
  /\ existing \in [Names -> Application \cup {None}]
  /\ desired \in [Names -> Binding \cup {None}]
  /\ todo \subseteq {k \in Names : desired[k] # None}
  /\ stale \subseteq {k \in Names : existing[k] # None /\ desired[k] = None}
  /\ pc # "apply" => todo = {} /\ stale = {} /\ desired = [k \in Names |-> None]
  /\ edits \in 0 .. MaxEdits /\ hands \in 0 .. MaxHands /\ faults \in 0 .. MaxFaults

(* The controller writes a new application under the name k. *)
Creates(k) == apps[k] = None /\ apps'[k] # None /\ apps'[k].managed

(* The controller, not a user, has a live application deleted. *)
Prunes(k) ==
  /\ apps[k] # None /\ ~apps[k].deleting
  /\ apps'[k] # None /\ apps'[k].deleting
  /\ hands' = hands

(* a depends, by its own record, on the binding of the name k. *)
DependsOnName(a, k) ==
  \E p \in a.dependsOn : BindingName[<<p, a.target>>] = k

(* A binding is created only on prerequisites that were listed Healthy and *)
(* Synced and that the same pass keeps: none of them is about to be pruned,*)
(* whatever the order of the writes (bindings.go:458-479 against           *)
(* reconcile.go:128-158).                                                  *)
GatedCreation ==
  [][\A k \in Names : Creates(k) =>
       \A q \in Names : DependsOnName(apps'[k], q) =>
         existing[q] # None /\ existing[q].ready /\ desired[q] # None]_vars

(* A binding is never deleted while a managed binding that records it as a *)
(* dependency is still there: "This lets Platform finish deleting          *)
(* dependents before their prerequisites are removed" (reconcile.go:223).  *)
DependentsGoFirst ==
  [][\A k, j \in Names :
       /\ Prunes(k) /\ apps[k].managed
       /\ apps[j] # None /\ apps[j].managed
       => ~DependsOnName(apps[j], k)]_vars

(* What a managed application or a wanted binding says of itself was       *)
(* computed, at some time, from one resolved graph.                        *)
Recorded(b) ==
  \E g \in ResolvedGraphs :
    /\ b.template \in DOMAIN g
    /\ b.dependsOn = g[b.template]
    /\ b.depth = Depths(g)[b.template]

StoreSound(store) ==
  \A k \in Names : store[k] # None /\ store[k].managed =>
    Recorded(store[k]) /\ NameOf(store[k]) = k

(* What is about to be written waits for nothing ...                       *)
WritesSound ==
  \A k \in Names : desired[k] # None =>
    /\ Recorded(desired[k]) /\ NameOf(desired[k]) = k
    /\ existing[k] = None =>
         \A q \in Names : DependsOnName(desired[k], q) =>
           existing[q] # None /\ existing[q].ready /\ desired[q] # None

(* ... and once it is written, nothing managed depends on what is pruned.  *)
PrunesSound ==
  \A k \in stale, j \in Names :
    /\ desired[j] # None => ~DependsOnName(desired[j], k)
    /\ apps[j] # None /\ apps[j].managed /\ DependsOnName(apps[j], k) => j \in todo

(* Until the credentials are settled, nothing managed is there but what    *)
(* was listed, if anything was.                                            *)
SameRecord(a, b) ==
  /\ a.managed = b.managed /\ a.target = b.target /\ a.template = b.template
  /\ a.dependsOn = b.dependsOn /\ a.depth = b.depth

ListingCurrent ==
  pc = "credentials" =>
    \/ \A k \in Names : existing[k] = None
    \/ \A k \in Names : apps[k] # None /\ apps[k].managed =>
         existing[k] # None /\ SameRecord(existing[k], apps[k])

(* The inductive invariant of a pass, the store it works on included: the  *)
(* decisions it made at its last listing stay sound while it carries them  *)
(* out and everyone else moves on (reconcile.go:128-158).                  *)
PassSound ==
  /\ StoreSound(apps) /\ StoreSound(existing)
  /\ ListingCurrent /\ WritesSound /\ PrunesSound

(* The application of a binding once it is Healthy and Synced.             *)
Healthy(b) == [Created(b) EXCEPT !.ready = TRUE]

(* Everything a valid target needs is there as its profiles say, healthy   *)
(* and not on its way out, and no managed application is left over except  *)
(* for targets whose configuration is invalid.                             *)
ConvergedIn(store) ==
  LET live == Resolved(targets, fleetProfiles)
      graph(t) == Graph(t, targets[t], fleetProfiles)
  IN  /\ \A t \in live : \A b \in BindingsFor(t, graph(t), store) :
           store[NameOf(b)] = Healthy(b)
      /\ \A t \in live : \A a \in DOMAIN graph(t) : store[BindingName[<<a, t>>]] # None
      /\ \A k \in Names : store[k] # None /\ store[k].managed =>
           \/ store[k].target \in Preserved(targets, fleetProfiles)
           \/ \E t \in live : \E a \in DOMAIN graph(t) : BindingName[<<a, t>>] = k

Converged == ConvergedIn(apps)

(* Once edits, interference and failures stop, the passes reach that state *)
(* and stay there, although a pass prunes one depth only and creates only  *)
(* what the last listing unblocked.                                        *)
EventuallyConverged == <>[]Converged

(* The pass has listed what is there and found nothing to write.           *)
UpToDate ==
  /\ pc # "idle" => seenProfiles = fleetProfiles
  /\ pc \notin {"idle", "clusters"} => \A t \in Clusters : seenTargets[t] = targets[t]
  /\ pc \notin {"idle", "clusters", "instances"} => seenTargets = targets
  /\ pc = "credentials" => ConvergedIn(existing)
  /\ todo = {} /\ stale = {}

(* From then on, and in every pass that starts there, the controller       *)
(* leaves the applications alone until somebody edits or interferes or a   *)
(* request fails, whatever Platform and Argo CD finish meanwhile: what the *)
(* gate, the patches and the pruning of a pass look for is never undone by *)
(* one another (reconcile.go:128-158).                                     *)
Settled == Converged /\ UpToDate
StaysSettled ==
  [][Settled /\ UNCHANGED budget => Settled' /\ (Step => UNCHANGED apps)]_vars
==============================================================================
