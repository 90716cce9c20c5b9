--------------------------- MODULE Reconcile_proofs ---------------------------
(***************************************************************************)
(* Theorems about Reconcile, for every set of targets, templates, profiles *)
(* and specifications.                                                     *)
(***************************************************************************)
EXTENDS Reconcile, FiniteSetTheorems, TLAPS

------------------------------------------------------------------------------
(* Graphs. *)

(* The templates of a combined graph are templates. *)
LEMMA CombineDomain ==
  ASSUME NEW profiles \in FleetProfiles,
         NEW names \in SUBSET DOMAIN profiles,
         NEW extra \in SUBSET Templates, NEW skip
  PROVE  DOMAIN Combine(names, profiles, extra, skip) \subseteq Templates
<1>1. \A p \in names : DOMAIN profiles[p] \subseteq Templates
  BY SpecsAssumption DEF FleetProfiles, Profile
<1> QED BY <1>1 DEF Combine

(* A graph without a cycle has a depth function, and Depths picks it. *)
LEMMA DepthsOf ==
  ASSUME NEW g, Acyclic(g)
  PROVE  Depths(g) \in DepthFunctions(g) /\ IsDepth(g, Depths(g))
BY DEF Acyclic, Depths

(* Depths of templates lie in the bound a binding records. *)
LEMMA DepthRange ==
  ASSUME NEW g, Acyclic(g), DOMAIN g \subseteq Templates, NEW t \in DOMAIN g
  PROVE  Depths(g)[t] \in DepthBound
<1>1. /\ IsFiniteSet(DOMAIN g)
      /\ Cardinality(DOMAIN g) <= Cardinality(Templates)
  BY FS_Subset, TemplatesAssumption
<1>2. Cardinality(DOMAIN g) \in Nat /\ Cardinality(Templates) \in Nat
  BY <1>1, FS_CardinalityType, TemplatesAssumption
<1>3. Depths(g)[t] \in 0 .. Cardinality(DOMAIN g)
  BY DepthsOf DEF DepthFunctions
<1> QED BY <1>1, <1>2, <1>3 DEF DepthBound

------------------------------------------------------------------------------
(* What a pass computes. *)

(* The graph of a resolved target is closed, acyclic and about templates. *)
LEMMA GraphOfResolved ==
  ASSUME NEW specs, NEW profiles \in FleetProfiles,
         \A t \in Targets : specs[t] \in SpecsOf(t),
         NEW t \in Resolved(specs, profiles)
  PROVE  LET g == Graph(t, specs[t], profiles)
         IN  /\ Closed(g) /\ Acyclic(g)
             /\ DOMAIN g \subseteq Templates
             /\ g \in ResolvedGraphs
<1> DEFINE s == specs[t]
           g == Graph(t, s, profiles)
<1>1. /\ t \in Targets /\ s # None /\ Valid(t, s, profiles) /\ s \in SpecsOf(t)
  BY DEF Resolved
<1>2. s \in ClusterSpecs \cup InstanceSpecs
  BY <1>1 DEF SpecsOf
<1>3. s.extra \in SUBSET Templates
  BY <1>2, SpecsAssumption DEF ClusterSpec, InstanceSpec
<1>4. SelectedProfiles(t, s) \in SUBSET DOMAIN profiles /\ Closed(g) /\ Acyclic(g)
  BY <1>1 DEF Valid, Resolves, Graph
<1>5. DOMAIN g \subseteq Templates
  BY <1>3, <1>4, CombineDomain DEF Graph
<1>6. g \in ResolvedGraphs
  <2>1. <<t, s, profiles>> \in
          {y \in Targets \X (ClusterSpecs \cup InstanceSpecs) \X FleetProfiles :
             y[2] \in SpecsOf(y[1]) /\ Valid(y[1], y[2], y[3])}
    BY <1>1, <1>2
  <2> QED BY <2>1 DEF ResolvedGraphs
<1> QED BY <1>4, <1>5, <1>6

(* Every binding a pass computes is one, and is recorded from a resolved   *)
(* graph.                                                                  *)
LEMMA BindingsRecorded ==
  ASSUME NEW specs, NEW profiles \in FleetProfiles, NEW store,
         \A t \in Targets : specs[t] \in SpecsOf(t),
         NEW b \in BindingsOf(specs, profiles, store)
  PROVE  b \in Binding /\ Recorded(b)
<1>1. PICK t \in Resolved(specs, profiles) :
        b \in BindingsFor(t, Graph(t, specs[t], profiles), store)
  BY DEF BindingsOf
<1> DEFINE g == Graph(t, specs[t], profiles)
<1>2. Closed(g) /\ Acyclic(g) /\ DOMAIN g \subseteq Templates /\ g \in ResolvedGraphs
  BY GraphOfResolved
<1> HIDE DEF g
<1>3. PICK a \in DOMAIN g :
        b = [target |-> t, template |-> a, dependsOn |-> g[a], depth |-> Depths(g)[a]]
  BY <1>1 DEF BindingsFor, g
<1>4. t \in Targets /\ g[a] \subseteq Templates /\ Depths(g)[a] \in DepthBound
  BY <1>2, DepthRange DEF Closed, Resolved
<1>5. b \in Binding
  BY <1>2, <1>3, <1>4 DEF Binding
<1>6. Recorded(b)
  BY <1>2, <1>3 DEF Recorded
<1> QED BY <1>5, <1>6

(* The map of wanted bindings holds them under their names. *)
LEMMA ByNameOf ==
  ASSUME NEW B, B \subseteq Binding, NEW k \in Names
  PROVE  /\ ByName(B)[k] # None => ByName(B)[k] \in B /\ NameOf(ByName(B)[k]) = k
         /\ (\E b \in B : NameOf(b) = k) => ByName(B)[k] # None
BY NoneAssumption DEF ByName

(* What a pass wants exists or waits for nothing, and what it wants of an  *)
(* existing name includes everything the others depend on.                 *)
LEMMA WantedIsClosed ==
  ASSUME NEW specs, NEW profiles \in FleetProfiles, NEW store,
         \A t \in Targets : specs[t] \in SpecsOf(t),
         NEW b \in BindingsOf(specs, profiles, store),
         NEW p \in b.dependsOn
  PROVE  LET q == BindingName[<<p, b.target>>]
         IN  /\ store[NameOf(b)] = None => store[q] # None /\ store[q].ready
             /\ store[q] # None =>
                  \E c \in BindingsOf(specs, profiles, store) :
                    c.target = b.target /\ NameOf(c) = q
<1> DEFINE B == BindingsOf(specs, profiles, store)
           q == BindingName[<<p, b.target>>]
<1>1. PICK t \in Resolved(specs, profiles) :
        b \in BindingsFor(t, Graph(t, specs[t], profiles), store)
  BY DEF BindingsOf
<1> DEFINE g == Graph(t, specs[t], profiles)
<1>2. Closed(g) /\ DOMAIN g \subseteq Templates
  BY GraphOfResolved
<1> HIDE DEF g
<1>3. PICK a \in DOMAIN g :
        /\ Unblocked(t, g, a, store)
        /\ b = [target |-> t, template |-> a, dependsOn |-> g[a], depth |-> Depths(g)[a]]
  BY <1>1 DEF BindingsFor, g
<1>4. p \in g[a] /\ b.target = t /\ NameOf(b) = BindingName[<<a, t>>] /\ q = BindingName[<<p, t>>]
  BY <1>3 DEF NameOf
<1>5. store[NameOf(b)] = None => store[q] # None /\ store[q].ready
  BY <1>3, <1>4 DEF Unblocked
<1>6. ASSUME store[q] # None PROVE \E c \in B : c.target = b.target /\ NameOf(c) = q
  <2> DEFINE c == [target |-> t, template |-> p, dependsOn |-> g[p], depth |-> Depths(g)[p]]
  <2>1. p \in DOMAIN g /\ p \in Templates /\ t \in Targets
    BY <1>2, <1>4 DEF Closed, Resolved
  <2>2. c \in BindingsFor(t, g, store)
    BY <2>1, <1>4, <1>6 DEF BindingsFor, Unblocked
  <2>3. c \in B /\ NameOf(c) = q
    BY <2>2, <1>4 DEF BindingsOf, NameOf, g
  <2> QED BY <1>4, <2>3
<1> QED BY <1>5, <1>6

------------------------------------------------------------------------------
(* Types. *)

(* Ending a pass leaves well-typed locals. *)
LEMMA EndPassType ==
  ASSUME EndPass
  PROVE  /\ pc' = "idle"
         /\ seenProfiles' \in FleetProfiles
         /\ seenTargets' \in [Targets -> ClusterSpecs \cup InstanceSpecs \cup {None}]
         /\ \A t \in Targets : seenTargets'[t] \in SpecsOf(t)
         /\ existing' \in [Names -> Application \cup {None}]
         /\ desired' \in [Names -> Binding \cup {None}]
         /\ todo' = {} /\ stale' = {} /\ desired' = [k \in Names |-> None]
<1>1. NoProfiles \in FleetProfiles
  <2>1. NoProfiles \in [{} -> ProfileSpecs] /\ {} \in SUBSET ProfileNames
    BY DEF NoProfiles
  <2> QED BY <2>1 DEF FleetProfiles
<1> QED BY <1>1 DEF EndPass, SpecsOf

(* A created or patched application is one. *)
LEMMA WrittenType ==
  ASSUME NEW b \in Binding
  PROVE  /\ Created(b) \in Application
         /\ \A a \in Application : Patched(a, b) \in Application
BY DEF Binding, Application, Created, Patched

(* Changing one flag of an application in the store, removing it or        *)
(* putting one there keeps the store well typed.                           *)
LEMMA FlagType ==
  ASSUME NEW a \in Application, NEW x \in BOOLEAN
  PROVE  /\ [a EXCEPT !.managed = x] \in Application
         /\ [a EXCEPT !.ready = x] \in Application
         /\ [a EXCEPT !.deleting = x] \in Application
BY DEF Application

(* Applications the environment writes keep their type.                    *)
LEMMA StoreType ==
  ASSUME apps \in [Names -> Application \cup {None}],
         NEW k \in Names, NEW a \in Application \cup {None},
         apps' = [apps EXCEPT ![k] = a]
  PROVE  apps' \in [Names -> Application \cup {None}]
OBVIOUS

(* What a pass decides on is well typed. *)
LEMMA DecideType ==
  ASSUME TypeOK, NEW failed, Decide(existing', failed)
  PROVE  /\ pc' = "apply" /\ desired' \in [Names -> Binding \cup {None}]
         /\ todo' \subseteq {k \in Names : desired'[k] # None}
         /\ stale' \subseteq {k \in Names : existing'[k] # None /\ desired'[k] = None}
<1> DEFINE B == {b \in BindingsOf(seenTargets, seenProfiles, existing') : b.target \notin failed}
<1>1. /\ desired' = ByName(B) /\ pc' = "apply"
      /\ todo' = Outstanding(existing', desired')
      /\ stale' = AtHighestDepth(existing', Undesired(existing', desired',
                    Preserved(seenTargets, seenProfiles) \cup failed))
  BY DEF Decide
<1>2. B \subseteq Binding
  BY BindingsRecorded DEF TypeOK
<1>3. desired' \in [Names -> Binding \cup {None}]
  <2>1. \A k \in Names : desired'[k] \in Binding \cup {None}
    BY <1>1, <1>2, ByNameOf
  <2> QED BY <1>1, <2>1 DEF ByName
<1>4. todo' \subseteq {k \in Names : desired'[k] # None}
  BY <1>1 DEF Outstanding
<1>5. stale' \subseteq {k \in Names : existing'[k] # None /\ desired'[k] = None}
  BY <1>1 DEF Undesired, AtHighestDepth
<1> QED BY <1>1, <1>3, <1>4, <1>5

(* The initial state is well typed. *)
LEMMA InitType == Init => TypeOK
<1>1. NoProfiles \in FleetProfiles
  <2>1. NoProfiles \in [{} -> ProfileSpecs] /\ {} \in SUBSET ProfileNames
    BY DEF NoProfiles
  <2> QED BY <2>1 DEF FleetProfiles
<1> QED BY <1>1, BoundsAssumption DEF Init, TypeOK, SpecsOf

(* Every step keeps the state well typed. *)
LEMMA StepType == TypeOK /\ [Next]_vars => TypeOK'
<1> SUFFICES ASSUME TypeOK, [Next]_vars PROVE TypeOK'
  OBVIOUS
<1> USE BoundsAssumption
<1>1. CASE ListFleetProfiles
  <2>1. NoProfiles \in FleetProfiles
    <3>1. NoProfiles \in [{} -> ProfileSpecs] /\ {} \in SUBSET ProfileNames
      BY DEF NoProfiles
    <3> QED BY <3>1 DEF FleetProfiles
  <2>2. seenProfiles' \in FleetProfiles /\ faults' \in 0 .. MaxFaults
    BY <1>1, <2>1 DEF ListFleetProfiles, TypeOK, Listed
  <2> QED BY <1>1, <2>2 DEF ListFleetProfiles, TypeOK, api
<1>2. ASSUME NEW kind, NEW next \in {"instances", "applications"},
             pc # "apply", ListTargets(kind, next)
      PROVE  TypeOK'
  <2> DEFINE content == [t \in Targets |-> IF t \in kind THEN targets[t] ELSE seenTargets[t]]
  <2>1. /\ content \in [Targets -> ClusterSpecs \cup InstanceSpecs \cup {None}]
        /\ \A t \in Targets : content[t] \in SpecsOf(t)
    BY DEF TypeOK
  <2>2. seenTargets' \in {content, seenTargets} /\ faults' \in 0 .. MaxFaults
    BY <1>2 DEF ListTargets, Listed, TypeOK
  <2>3. /\ seenTargets' \in [Targets -> ClusterSpecs \cup InstanceSpecs \cup {None}]
        /\ \A t \in Targets : seenTargets'[t] \in SpecsOf(t)
    BY <2>1, <2>2 DEF TypeOK
  <2> HIDE DEF content
  <2> QED BY <1>2, <2>2, <2>3 DEF ListTargets, TypeOK, api
<1>3. CASE ListApplications
  <2>1. PICK answer \in {apps, [k \in Names |-> None]} :
          /\ Listed(answer, apps, [k \in Names |-> None])
          /\ existing' = answer
          /\ IF Credentials
             THEN pc' = "credentials" /\ UNCHANGED <<desired, todo, stale>>
             ELSE Decide(answer, {})
    BY <1>3 DEF ListApplications
  <2>2. existing' \in [Names -> Application \cup {None}] /\ faults' \in 0 .. MaxFaults
    BY <2>1 DEF Listed, TypeOK
  <2>3. CASE Credentials
    <3>1. todo = {} /\ stale = {}
      BY <1>3 DEF ListApplications, TypeOK
    <3> QED BY <1>3, <2>1, <2>2, <2>3, <3>1 DEF ListApplications, TypeOK, api
  <2>4. CASE ~Credentials
    <3>1. Decide(existing', {})
      BY <2>1, <2>4
    <3>2. /\ pc' = "apply" /\ desired' \in [Names -> Binding \cup {None}]
          /\ todo' \subseteq {k \in Names : desired'[k] # None}
          /\ stale' \subseteq {k \in Names : existing'[k] # None /\ desired'[k] = None}
      BY <3>1, DecideType
    <3> QED BY <1>3, <2>2, <3>2 DEF ListApplications, TypeOK, api
  <2> QED BY <2>3, <2>4
<1>3a. CASE SettleCredentials
  <2>1. /\ faults' \in 0 .. MaxFaults
        /\ \E failed : Decide(existing, failed)
    BY <1>3a DEF SettleCredentials, TypeOK
  <2>2. existing' = existing
    BY <1>3a DEF SettleCredentials
  <2>3. /\ pc' = "apply" /\ desired' \in [Names -> Binding \cup {None}]
        /\ todo' \subseteq {k \in Names : desired'[k] # None}
        /\ stale' \subseteq {k \in Names : existing'[k] # None /\ desired'[k] = None}
    BY <2>1, <2>2, DecideType
  <2> QED BY <1>3a, <2>1, <2>2, <2>3 DEF SettleCredentials, TypeOK, api
<1>4. ASSUME NEW k \in Names, CreateApplication(k) PROVE TypeOK'
  <2>1. CASE apps[k] = None
    <3>1. desired[k] \in Binding
      BY <1>4 DEF CreateApplication, TypeOK
    <3>2. apps' \in [Names -> Application \cup {None}]
      BY <1>4, <2>1, <3>1, WrittenType DEF CreateApplication, TypeOK
    <3> QED BY <1>4, <2>1, <3>2 DEF CreateApplication, TypeOK, budget
  <2>2. CASE apps[k] # None
    BY <1>4, <2>2, EndPassType DEF CreateApplication, TypeOK, budget
  <2> QED BY <2>1, <2>2
<1>5. ASSUME NEW k \in Names, PatchApplication(k) PROVE TypeOK'
  <2>1. desired[k] \in Binding
    BY <1>5 DEF PatchApplication, TypeOK
  <2>2. apps' \in [Names -> Application \cup {None}]
    BY <1>5, <2>1, WrittenType DEF PatchApplication, TypeOK
  <2> QED BY <1>5, <2>2 DEF PatchApplication, TypeOK, budget
<1>6. ASSUME NEW k \in Names, PruneApplication(k) PROVE TypeOK'
  <2>1. CASE apps[k] = None
    BY <1>6, <2>1 DEF PruneApplication, TypeOK, budget
  <2>2. CASE apps[k] # None
    <3>1. [apps[k] EXCEPT !.deleting = TRUE] \in Application
      BY <2>2, FlagType DEF TypeOK
    <3>2. apps' \in [Names -> Application \cup {None}]
      BY <1>6, <2>2, <3>1 DEF PruneApplication, TypeOK
    <3> QED BY <1>6, <3>2 DEF PruneApplication, TypeOK, budget
  <2> QED BY <2>1, <2>2
<1>7. CASE FinishPass
  BY <1>7, EndPassType DEF FinishPass, TypeOK, api, budget
<1>8. CASE Abort
  BY <1>8, EndPassType DEF Abort, TypeOK, api
<1>9. ASSUME NEW t \in Targets, EditTarget(t) PROVE TypeOK'
  <2>1. /\ targets' \in [Targets -> ClusterSpecs \cup InstanceSpecs \cup {None}]
        /\ \A u \in Targets : targets'[u] \in SpecsOf(u)
    BY <1>9 DEF EditTarget, TypeOK, SpecsOf
  <2> QED BY <1>9, <2>1 DEF EditTarget, TypeOK, locals
<1>10. ASSUME NEW p \in ProfileNames, SetProfile(p) PROVE TypeOK'
  <2>1. PICK S \in SUBSET ProfileNames : fleetProfiles \in [S -> ProfileSpecs]
    BY DEF TypeOK, FleetProfiles
  <2>2. fleetProfiles' \in [S \cup {p} -> ProfileSpecs] /\ S \cup {p} \in SUBSET ProfileNames
    BY <1>10, <2>1 DEF SetProfile
  <2>3. fleetProfiles' \in FleetProfiles
    BY <2>2 DEF FleetProfiles
  <2> QED BY <1>10, <2>3 DEF SetProfile, TypeOK, locals
<1>11. ASSUME NEW p \in ProfileNames, RemoveProfile(p) PROVE TypeOK'
  <2>1. PICK S \in SUBSET ProfileNames : fleetProfiles \in [S -> ProfileSpecs]
    BY DEF TypeOK, FleetProfiles
  <2>2. fleetProfiles' \in [S \ {p} -> ProfileSpecs] /\ S \ {p} \in SUBSET ProfileNames
    BY <1>11, <2>1 DEF RemoveProfile
  <2>3. fleetProfiles' \in FleetProfiles
    BY <2>2 DEF FleetProfiles
  <2> QED BY <1>11, <2>3 DEF RemoveProfile, TypeOK, locals
<1>12. ASSUME NEW k \in Names,
              \/ BecomeReady(k) \/ Degrade(k) \/ FinishDelete(k)
              \/ CreateByHand(k) \/ DeleteByHand(k) \/ Detach(k)
       PROVE  TypeOK'
  <2>1. PICK a \in Application \cup {None} : apps' = [apps EXCEPT ![k] = a]
    <3>1. CASE FinishDelete(k) \/ CreateByHand(k)
      BY <3>1, SpecsAssumption DEF FinishDelete, CreateByHand
    <3>2. CASE BecomeReady(k) \/ Degrade(k) \/ DeleteByHand(k) \/ Detach(k)
      <4>1. apps[k] \in Application
        BY <3>2 DEF BecomeReady, Degrade, DeleteByHand, Detach, TypeOK
      <4> QED BY <3>2, <4>1, FlagType DEF BecomeReady, Degrade, DeleteByHand, Detach
    <3> QED BY <1>12, <3>1, <3>2
  <2>2. apps' \in [Names -> Application \cup {None}]
    BY <2>1, StoreType DEF TypeOK
  <2>3. hands' \in 0 .. MaxHands
    BY <1>12 DEF BecomeReady, Degrade, FinishDelete, CreateByHand, DeleteByHand, Detach,
       TypeOK, budget
  <2> QED BY <1>12, <2>2, <2>3 DEF BecomeReady, Degrade, FinishDelete, CreateByHand,
       DeleteByHand, Detach, TypeOK, locals, budget
<1>13. CASE UNCHANGED vars
  BY <1>13 DEF vars, api, locals, budget, TypeOK
<1> QED
  BY <1>1, <1>2, <1>3, <1>3a, <1>4, <1>5, <1>6, <1>7, <1>8, <1>9, <1>10, <1>11, <1>12, <1>13
  DEF Next, Step, Environment, Platform, ListClusters, ListInstances

(* Type correctness. *)
THEOREM TypeCorrect == Spec => []TypeOK
BY InitType, StepType, PTL DEF Spec

------------------------------------------------------------------------------
(* What a pass decided stays sound. *)

(* The record of a written application is that of its binding. *)
LEMMA WrittenRecord ==
  ASSUME NEW b, NEW w, w = Created(b) \/ \E a : w = Patched(a, b)
  PROVE  /\ w.managed = TRUE /\ w.target = b.target /\ w.template = b.template
         /\ w.dependsOn = b.dependsOn /\ w.depth = b.depth
<1>1. CASE w = Created(b)
  BY <1>1 DEF Created
<1>2. CASE \E a : w = Patched(a, b)
  <2>1. PICK a : w = [Created(b) EXCEPT !.ready = a.ready, !.deleting = a.deleting]
    BY <1>2 DEF Patched
  <2>2. w = [managed |-> TRUE, target |-> b.target, template |-> b.template,
             dependsOn |-> b.dependsOn, depth |-> b.depth,
             ready |-> a.ready, deleting |-> a.deleting]
    BY <2>1 DEF Created
  <2> QED BY <2>2
<1> QED BY <1>1, <1>2

(* A patch sets the record and keeps status and deletion.                  *)
LEMMA PatchedStatus ==
  ASSUME NEW a, NEW b
  PROVE  Patched(a, b).deleting = a.deleting /\ Patched(a, b).ready = a.ready
BY DEF Created, Patched

(* A change of the store that creates no managed application and leaves    *)
(* the record of the others alone.                                         *)
Quiet ==
  \A k \in Names :
    \/ apps'[k] = None
    \/ ~apps'[k].managed
    \/ /\ apps[k] # None /\ apps[k].managed
       /\ apps'[k].target = apps[k].target /\ apps'[k].template = apps[k].template
       /\ apps'[k].dependsOn = apps[k].dependsOn /\ apps'[k].depth = apps[k].depth

(* Such a change disturbs nothing a pass decided. *)
LEMMA QuietSound ==
  ASSUME PassSound, Quiet, existing' = existing, desired' = desired,
         todo' = todo, stale' \subseteq stale,
         pc' = "credentials" => pc = "credentials"
  PROVE  PassSound'
<1>1. StoreSound(apps')
  BY DEF PassSound, Quiet, StoreSound, Recorded, NameOf
<1>2. StoreSound(existing') /\ WritesSound'
  BY DEF PassSound, WritesSound, StoreSound
<1>3. PrunesSound'
  <2> SUFFICES ASSUME NEW k \in stale, NEW j \in Names
               PROVE  /\ desired[j] # None => ~DependsOnName(desired[j], k)
                      /\ apps'[j] # None /\ apps'[j].managed /\ DependsOnName(apps'[j], k)
                           => j \in todo
    BY DEF PrunesSound
  <2>1. /\ desired[j] # None => ~DependsOnName(desired[j], k)
        /\ apps[j] # None /\ apps[j].managed /\ DependsOnName(apps[j], k) => j \in todo
    BY DEF PassSound, PrunesSound
  <2>2. ASSUME apps'[j] # None, apps'[j].managed, DependsOnName(apps'[j], k)
        PROVE  j \in todo
    <3>1. /\ apps[j] # None /\ apps[j].managed
          /\ apps'[j].target = apps[j].target /\ apps'[j].dependsOn = apps[j].dependsOn
      BY <2>2 DEF Quiet
    <3>2. DependsOnName(apps[j], k)
      BY <2>2, <3>1 DEF DependsOnName
    <3> QED BY <2>1, <3>1, <3>2
  <2> QED BY <2>1, <2>2
<1>4. ListingCurrent'
  BY ZenonT(40) DEF PassSound, Quiet, ListingCurrent, SameRecord
<1> QED BY <1>1, <1>2, <1>3, <1>4 DEF PassSound

(* Nor does the end of the pass. *)
LEMMA EndSound ==
  ASSUME PassSound, EndPass, apps' = apps
  PROVE  PassSound'
BY DEF PassSound, EndPass, StoreSound, ListingCurrent, WritesSound, PrunesSound

(* Writing what the pass wants under the name k keeps the decisions sound. *)
LEMMA WriteSound ==
  ASSUME TypeOK, PassSound, NEW k \in todo, NEW w,
         w = Created(desired[k]) \/ \E a : w = Patched(a, desired[k]),
         apps' = [apps EXCEPT ![k] = w], todo' = todo \ {k},
         pc' = "apply", UNCHANGED <<existing, desired, stale>>
  PROVE  PassSound'
<1>1. k \in Names /\ desired[k] # None
  BY DEF TypeOK
<1>2. /\ w.managed = TRUE /\ w.target = desired[k].target /\ w.template = desired[k].template
      /\ w.dependsOn = desired[k].dependsOn /\ w.depth = desired[k].depth
  BY WrittenRecord
<1>3. apps'[k] = w /\ \A j \in Names \ {k} : apps'[j] = apps[j]
  BY <1>1 DEF TypeOK
<1>4. Recorded(w) /\ NameOf(w) = k
  BY <1>1, <1>2 DEF PassSound, WritesSound, Recorded, NameOf
<1>5. StoreSound(apps')
  BY <1>3, <1>4 DEF PassSound, StoreSound
<1>6. StoreSound(existing') /\ WritesSound'
  BY DEF PassSound, WritesSound, StoreSound
<1>7. PrunesSound'
  <2> SUFFICES ASSUME NEW s \in stale, NEW j \in Names
               PROVE  /\ desired[j] # None => ~DependsOnName(desired[j], s)
                      /\ apps'[j] # None /\ apps'[j].managed /\ DependsOnName(apps'[j], s)
                           => j \in todo'
    BY DEF PrunesSound
  <2>1. desired[j] # None => ~DependsOnName(desired[j], s)
    BY DEF PassSound, PrunesSound
  <2>2. CASE j = k
    <3>1. ~DependsOnName(w, s)
      BY <1>1, <1>2, <2>1, <2>2 DEF DependsOnName
    <3> QED BY <1>3, <2>1, <2>2, <3>1
  <2>3. CASE j # k
    BY <1>3, <2>1, <2>3 DEF PassSound, PrunesSound
  <2> QED BY <2>1, <2>2, <2>3
<1> QED BY <1>5, <1>6, <1>7 DEF PassSound, ListingCurrent

(* What a pass decides to write is sound when it decides it, whichever     *)
(* targets' credentials failed.                                            *)
LEMMA DecidedWrites ==
  ASSUME TypeOK, NEW failed, Decide(existing', failed)
  PROVE  /\ WritesSound'
         /\ \A k, q \in Names :
              desired'[k] # None /\ DependsOnName(desired'[k], q) /\ existing'[q] # None
                => desired'[q] # None
<1> DEFINE A == BindingsOf(seenTargets, seenProfiles, existing')
           B == {b \in A : b.target \notin failed}
<1>1. desired' = ByName(B)
  BY DEF Decide
<1>2. /\ seenProfiles \in FleetProfiles
      /\ \A t \in Targets : seenTargets[t] \in SpecsOf(t)
      /\ A \subseteq Binding /\ B \subseteq Binding
  BY BindingsRecorded DEF TypeOK
<1>3. \A k \in Names : desired'[k] # None =>
        desired'[k] \in B /\ NameOf(desired'[k]) = k /\ Recorded(desired'[k])
  BY <1>1, <1>2, ByNameOf, BindingsRecorded
<1>4. ASSUME NEW k \in Names, desired'[k] # None,
             NEW q \in Names, DependsOnName(desired'[k], q)
      PROVE  /\ existing'[k] = None => existing'[q] # None /\ existing'[q].ready
             /\ existing'[q] # None => desired'[q] # None
  <2>1. PICK p \in desired'[k].dependsOn : BindingName[<<p, desired'[k].target>>] = q
    BY <1>4 DEF DependsOnName
  <2>2. desired'[k] \in A /\ desired'[k].target \notin failed /\ NameOf(desired'[k]) = k
    BY <1>3, <1>4
  <2>3. /\ existing'[k] = None => existing'[q] # None /\ existing'[q].ready
        /\ existing'[q] # None =>
             \E b \in A : b.target = desired'[k].target /\ NameOf(b) = q
    BY <1>2, <2>1, <2>2, WantedIsClosed
  <2>4. ASSUME existing'[q] # None  PROVE desired'[q] # None
    <3>1. PICK b \in A : b.target = desired'[k].target /\ NameOf(b) = q
      BY <2>3, <2>4
    <3>2. b \in B  BY <2>2, <3>1
    <3> QED  BY <1>1, <1>2, <3>1, <3>2, ByNameOf
  <2> QED BY <2>3, <2>4
<1> QED BY <1>3, <1>4 DEF WritesSound

(* The decisions are sound when the pass takes them: here distinct names   *)
(* and stable depths matter, and only here.                                *)
LEMMA DecidedSound ==
  ASSUME NamesDistinct, StableDepths, TypeOK, NEW failed, Decide(existing', failed),
         existing' \in [Names -> Application \cup {None}],
         StoreSound(apps), StoreSound(existing'), apps' = apps,
         \/ \A k \in Names : existing'[k] = None
         \/ \A k \in Names : apps[k] # None /\ apps[k].managed =>
              existing'[k] # None /\ SameRecord(existing'[k], apps[k])
  PROVE  PassSound'
<1> DEFINE listed == existing'
           kept == Preserved(seenTargets, seenProfiles) \cup failed
<1>1. /\ todo' = Outstanding(listed, desired')
      /\ stale' = AtHighestDepth(listed, Undesired(listed, desired', kept))
      /\ pc' = "apply"
  BY DEF Decide
<1>3. StoreSound(apps') /\ StoreSound(existing')
  BY DEF StoreSound
<1>4. WritesSound'
  BY DecidedWrites
<1>5. ASSUME NEW k \in stale', NEW j \in Names
      PROVE  /\ desired'[j] # None => ~DependsOnName(desired'[j], k)
             /\ apps'[j] # None /\ apps'[j].managed /\ DependsOnName(apps'[j], k) => j \in todo'
  <2>1. /\ k \in Names /\ listed[k] # None /\ listed[k].managed
        /\ desired'[k] = None /\ listed[k].target \notin kept
        /\ \A i \in Undesired(listed, desired', kept) : listed[i].depth <= listed[k].depth
    BY <1>1 DEF AtHighestDepth, Undesired
  <2>2. desired'[j] # None => ~DependsOnName(desired'[j], k)
    BY <2>1, DecidedWrites
  <2>4. ASSUME apps[j] # None, apps[j].managed, DependsOnName(apps[j], k), j \notin todo'
        PROVE  FALSE
    <3>0. /\ listed[j] # None /\ listed[j].managed
          /\ listed[j].target = apps[j].target /\ listed[j].dependsOn = apps[j].dependsOn
      BY <2>1, <2>4 DEF SameRecord
    <3>a. DependsOnName(listed[j], k)
      BY <2>4, <3>0 DEF DependsOnName
    <3>1. CASE desired'[j] # None
      <4>1. Patched(listed[j], desired'[j]) = listed[j]
        BY <1>1, <2>4, <3>0, <3>1 DEF Outstanding
      <4>2. \E a : listed[j] = Patched(a, desired'[j])
        BY <4>1
      <4>3. listed[j].target = desired'[j].target /\ listed[j].dependsOn = desired'[j].dependsOn
        BY ONLY <4>2, WrittenRecord
      <4>4. DependsOnName(desired'[j], k)
        BY <3>a, <4>3 DEF DependsOnName
      <4> QED BY <2>2, <3>1, <4>4
    <3>2. CASE desired'[j] = None
      <4>1. PICK p \in listed[j].dependsOn : BindingName[<<p, listed[j].target>>] = k
        BY <3>a DEF DependsOnName
      <4>2. /\ listed[j] \in Application /\ listed[k] \in Application
            /\ Recorded(listed[j]) /\ Recorded(listed[k]) /\ NameOf(listed[k]) = k
        BY <2>1, <3>0 DEF StoreSound
      <4>3. /\ p \in Templates /\ listed[j].target \in Targets
            /\ listed[k].template \in Templates /\ listed[k].target \in Targets
        BY <4>1, <4>2 DEF Application
      <4>4. listed[k].template = p /\ listed[k].target = listed[j].target
        BY <4>1, <4>2, <4>3 DEF NamesDistinct, NameOf
      <4>5. j \in Undesired(listed, desired', kept)
        BY <2>1, <3>0, <3>2, <4>4 DEF Undesired
      <4>6. listed[j].depth <= listed[k].depth
        BY <2>1, <4>5
      <4>7. listed[k].depth < listed[j].depth
        BY <4>1, <4>2, <4>4 DEF Recorded, StableDepths
      <4>8. listed[j].depth \in Int /\ listed[k].depth \in Int
        BY <4>2 DEF Application, DepthBound
      <4> QED BY <4>6, <4>7, <4>8
    <3> QED BY <3>1, <3>2
  <2> QED BY <2>2, <2>4
<1>6. PrunesSound'
  BY <1>5 DEF PrunesSound
<1> QED BY <1>1, <1>3, <1>4, <1>6 DEF PassSound, ListingCurrent

(* Listing the applications decides at once, or leaves that to the         *)
(* credentials with a listing that is current.                             *)
LEMMA ListingSound ==
  ASSUME NamesDistinct, StableDepths, TypeOK, PassSound, ListApplications
  PROVE  PassSound'
<1>1. PICK answer \in {apps, [k \in Names |-> None]} :
        /\ existing' = answer
        /\ IF Credentials THEN UNCHANGED <<desired, todo, stale>> ELSE Decide(answer, {})
  BY DEF ListApplications
<1>2. apps' = apps
  BY DEF ListApplications, api
<1>3. StoreSound(apps) /\ StoreSound(existing')
  BY <1>1 DEF PassSound, StoreSound
<1>4. CASE ~Credentials
  <2>1. Decide(existing', {})  BY <1>1, <1>4
  <2>2. existing' \in [Names -> Application \cup {None}]  BY <1>1 DEF TypeOK
  <2>3. \/ \A k \in Names : existing'[k] = None
        \/ \A k \in Names : apps[k] # None /\ apps[k].managed =>
             existing'[k] # None /\ SameRecord(existing'[k], apps[k])
    BY <1>1 DEF SameRecord
  <2> QED  BY <1>2, <1>3, <2>1, <2>2, <2>3, DecidedSound
<1>5. CASE Credentials
  <2>1. todo = {} /\ stale = {} /\ (\A k \in Names : desired[k] = None)
    BY DEF ListApplications, TypeOK
  <2>2. WritesSound' /\ PrunesSound'
    BY <1>1, <1>5, <2>1 DEF WritesSound, PrunesSound
  <2>3. ListingCurrent'
    BY <1>1, <1>2 DEF ListingCurrent, SameRecord
  <2>4. StoreSound(apps')
    BY <1>2, <1>3 DEF StoreSound
  <2> QED  BY <1>3, <2>2, <2>3, <2>4 DEF PassSound
<1> QED  BY <1>4, <1>5

(* Settling the credentials decides on the listing, which is current. *)
LEMMA SettlingSound ==
  ASSUME NamesDistinct, StableDepths, TypeOK, PassSound, SettleCredentials
  PROVE  PassSound'
<1>1. PICK failed : Decide(existing, failed)
  BY DEF SettleCredentials
<1>2. apps' = apps /\ existing' = existing /\ pc = "credentials"
  BY DEF SettleCredentials, api
<1>3. /\ StoreSound(apps) /\ StoreSound(existing')
      /\ existing' \in [Names -> Application \cup {None}]
  BY <1>2 DEF PassSound, StoreSound, TypeOK
<1>4. \/ \A k \in Names : existing'[k] = None
      \/ \A k \in Names : apps[k] # None /\ apps[k].managed =>
           existing'[k] # None /\ SameRecord(existing'[k], apps[k])
  BY <1>2 DEF PassSound, ListingCurrent
<1>5. Decide(existing', failed)
  BY <1>1, <1>2
<1> QED  BY <1>2, <1>3, <1>4, <1>5, DecidedSound

(* The whole invariant is inductive. *)
LEMMA StepSound ==
  ASSUME NamesDistinct, StableDepths, TypeOK, PassSound, [Next]_vars
  PROVE  PassSound'
<1>1. CASE ListFleetProfiles \/ ListClusters \/ ListInstances
  <2>1. UNCHANGED <<apps, existing, desired, todo, stale>> /\ pc' # "credentials"
    BY <1>1 DEF ListFleetProfiles, ListClusters, ListInstances, ListTargets, api
  <2> QED BY <2>1, QuietSound DEF Quiet
<1>2. CASE ListApplications \/ SettleCredentials
  BY <1>2, ListingSound, SettlingSound
<1>3. ASSUME NEW k \in Names, CreateApplication(k) PROVE PassSound'
  <2>1. CASE apps[k] = None
    BY <1>3, <2>1, WriteSound DEF CreateApplication
  <2>2. CASE apps[k] # None
    BY <1>3, <2>2, EndSound DEF CreateApplication
  <2> QED BY <2>1, <2>2
<1>4. ASSUME NEW k \in Names, PatchApplication(k) PROVE PassSound'
  <2>1. CASE apps[k] = None
    <3>1. StoreSound(apps') /\ StoreSound(existing') /\ WritesSound'
      BY <1>4, <2>1 DEF PatchApplication, PassSound, StoreSound, WritesSound
    <3>2. PrunesSound'
      BY <1>4, <2>1 DEF PatchApplication, PassSound, PrunesSound
    <3>3. ListingCurrent'
      BY <1>4 DEF PatchApplication, ListingCurrent
    <3> QED BY <3>1, <3>2, <3>3 DEF PassSound
  <2>2. CASE apps[k] # None
    <3>1. apps' = [apps EXCEPT ![k] = Patched(apps[k], desired[k])]
      BY <1>4, <2>2 DEF PatchApplication
    <3> QED BY <1>4, <3>1, WriteSound DEF PatchApplication
  <2> QED BY <2>1, <2>2
<1>5. ASSUME NEW k \in Names, PruneApplication(k) PROVE PassSound'
  <2>1. Quiet
    BY <1>5 DEF PruneApplication, Quiet, TypeOK, Application
  <2> QED BY <1>5, <2>1, QuietSound DEF PruneApplication
<1>6. CASE FinishPass \/ Abort
  BY <1>6, EndSound DEF FinishPass, Abort, api
<1>7. CASE \E t \in Targets : EditTarget(t)
  BY <1>7, QuietSound DEF EditTarget, locals, Quiet
<1>8. CASE \E p \in ProfileNames : SetProfile(p) \/ RemoveProfile(p)
  BY <1>8, QuietSound DEF SetProfile, RemoveProfile, locals, Quiet
<1>9. ASSUME NEW k \in Names,
             \/ BecomeReady(k) \/ Degrade(k) \/ FinishDelete(k)
             \/ CreateByHand(k) \/ DeleteByHand(k) \/ Detach(k)
      PROVE  PassSound'
  <2>1. Quiet
    BY <1>9, SpecsAssumption DEF BecomeReady, Degrade, FinishDelete, CreateByHand,
       DeleteByHand, Detach, Quiet, TypeOK, Application
  <2> QED BY <1>9, <2>1, QuietSound DEF BecomeReady, Degrade, FinishDelete, CreateByHand,
       DeleteByHand, Detach, locals
<1>10. CASE UNCHANGED vars
  BY <1>10, QuietSound DEF vars, api, locals, Quiet
<1> QED
  BY <1>1, <1>2, <1>3, <1>4, <1>5, <1>6, <1>7, <1>8, <1>9, <1>10
  DEF Next, Step, Environment, Platform

(* A pass's writes stay sound as long as it carries them out, whatever the *)
(* names and depths are.                                                   *)
LEMMA StepWrites ==
  ASSUME TypeOK, WritesSound, [Next]_vars
  PROVE  WritesSound'
<1>1. CASE ListApplications \/ SettleCredentials
  <2>1. \/ \E failed : Decide(existing', failed)
        \/ ListApplications /\ UNCHANGED desired
    BY <1>1 DEF ListApplications, SettleCredentials
  <2>2. ASSUME ListApplications, UNCHANGED desired  PROVE WritesSound'
    <3>1. \A k \in Names : desired[k] = None
      BY <2>2 DEF ListApplications, TypeOK
    <3> QED  BY <2>2, <3>1 DEF WritesSound
  <2> QED  BY <2>1, <2>2, DecidedWrites
<1>2. CASE EndPass
  BY <1>2 DEF EndPass, WritesSound
<1>3. CASE UNCHANGED <<existing, desired>>
  BY <1>3 DEF WritesSound
<1> QED
  BY <1>1, <1>2, <1>3
  DEF Next, Step, Environment, Platform, ListFleetProfiles, ListClusters, ListInstances,
      ListTargets, CreateApplication, PatchApplication, PruneApplication, FinishPass, Abort,
      EditTarget, SetProfile, RemoveProfile, BecomeReady, Degrade, FinishDelete, CreateByHand,
      DeleteByHand, Detach, vars, locals

(* What a pass is about to write is sound, without any assumption          *)
(* (bindings.go:458-479).                                                  *)
THEOREM WritesStaySound == Spec => []WritesSound
<1>1. Init => WritesSound
  BY DEF Init, WritesSound
<1> QED BY <1>1, StepWrites, TypeCorrect, PTL DEF Spec

(* Creation is gated: for any profiles, targets and names, and whatever    *)
(* users, the Platform and failures do between listing and creating.       *)
THEOREM CreationIsGated == Spec => GatedCreation
<1>1. ASSUME TypeOK, WritesSound, [Next]_vars, NEW k \in Names, Creates(k),
             NEW q \in Names, DependsOnName(apps'[k], q)
      PROVE  existing[q] # None /\ existing[q].ready /\ desired[q] # None
  <2>1. k \in todo /\ existing[k] = None /\ apps'[k] = Created(desired[k])
    <3>1. ASSUME NEW j \in Names, CreateApplication(j)
          PROVE  k = j /\ k \in todo /\ existing[k] = None /\ apps'[k] = Created(desired[k])
      BY <1>1, <3>1 DEF Creates, CreateApplication, TypeOK
    <3>2. ASSUME NEW j \in Names,
                 \/ PatchApplication(j) \/ PruneApplication(j) \/ BecomeReady(j)
                 \/ Degrade(j) \/ FinishDelete(j) \/ DeleteByHand(j) \/ Detach(j)
          PROVE  FALSE
      BY <1>1, <3>2 DEF Creates, PatchApplication, PruneApplication, BecomeReady, Degrade,
         FinishDelete, DeleteByHand, Detach, TypeOK
    <3>3. ASSUME NEW j \in Names, CreateByHand(j)
          PROVE  FALSE
      BY <1>1, <3>3, SpecsAssumption DEF Creates, CreateByHand, TypeOK
    <3>4. CASE apps' = apps
      BY <1>1, <3>4 DEF Creates
    <3> QED
      BY <1>1, <3>1, <3>2, <3>3, <3>4
      DEF Next, Step, Environment, Platform, ListFleetProfiles, ListClusters, ListInstances,
          ListTargets, ListApplications, SettleCredentials, Decide, FinishPass, Abort,
          EditTarget, SetProfile, RemoveProfile, vars, api
  <2>2. desired[k] # None
    BY <1>1, <2>1 DEF TypeOK
  <2>3. DependsOnName(desired[k], q)
    BY <1>1, <2>1, WrittenRecord, ZenonT(40) DEF DependsOnName
  <2> QED BY <1>1, <2>1, <2>2, <2>3 DEF WritesSound
<1>2. TypeOK /\ WritesSound /\ [Next]_vars =>
        [\A k \in Names : Creates(k) =>
           \A q \in Names : DependsOnName(apps'[k], q) =>
             existing[q] # None /\ existing[q].ready /\ desired[q] # None]_vars
  BY <1>1
<1> QED BY <1>2, WritesStaySound, TypeCorrect, PTL DEF Spec, GatedCreation

(* The invariant of a pass. *)
THEOREM PassStaysSound ==
  ASSUME NamesDistinct, StableDepths
  PROVE  Spec => []PassSound
<1>1. Init => PassSound
  BY DEF Init, PassSound, StoreSound, ListingCurrent, WritesSound, PrunesSound
<1> QED BY <1>1, StepSound, TypeCorrect, PTL DEF Spec

(* Only a pass that has written everything has live applications deleted.  *)
LEMMA PrunesStale ==
  ASSUME TypeOK, [Next]_vars, NEW k \in Names, Prunes(k)
  PROVE  k \in stale /\ todo = {} /\ pc = "apply"
<1>1. ASSUME NEW i \in Names, PruneApplication(i)
      PROVE  k \in stale /\ todo = {} /\ pc = "apply"
  BY <1>1 DEF Prunes, PruneApplication, TypeOK
<1>2. ASSUME NEW i \in Names,
             \/ CreateApplication(i) \/ BecomeReady(i) \/ FinishDelete(i)
      PROVE  FALSE
  <2>1. apps'[k] = apps[k] \/ k = i
    BY <1>2 DEF CreateApplication, BecomeReady, FinishDelete, TypeOK
  <2>2. CASE CreateApplication(i)
    BY <2>1, <2>2 DEF Prunes, CreateApplication
  <2>3. CASE BecomeReady(i)
    <3>1. k = i => apps'[k] = [apps[k] EXCEPT !.ready = TRUE] /\ apps[k] \in Application
      BY <2>3 DEF Prunes, BecomeReady, TypeOK
    <3>2. k = i => apps'[k].deleting = apps[k].deleting
      BY <3>1 DEF Application
    <3> QED BY <2>1, <3>2 DEF Prunes
  <2>4. CASE FinishDelete(i)
    BY <2>1, <2>4 DEF Prunes, FinishDelete, TypeOK
  <2> QED BY <1>2, <2>2, <2>3, <2>4
<1>3. ASSUME NEW i \in Names, PatchApplication(i)
      PROVE  FALSE
  BY <1>3, PatchedStatus DEF Prunes, PatchApplication, TypeOK
<1>4. ASSUME NEW i \in Names,
             Degrade(i) \/ CreateByHand(i) \/ DeleteByHand(i) \/ Detach(i)
      PROVE  FALSE
  BY <1>4 DEF Prunes, Degrade, CreateByHand, DeleteByHand, Detach, TypeOK
<1>5. CASE apps' = apps
  BY <1>5 DEF Prunes
<1> QED
  BY <1>1, <1>2, <1>3, <1>4, <1>5
  DEF Next, Step, Environment, Platform, ListFleetProfiles, ListClusters, ListInstances,
      ListTargets, ListApplications, SettleCredentials, Decide, FinishPass, Abort,
      EditTarget, SetProfile, RemoveProfile, vars, api

(* Dependents go first: for any targets and profiles, with failures,       *)
(* restarts and interference at any point, provided names do not collide   *)
(* and no edit changes which of two dependent templates is deeper.         *)
THEOREM PruneOrder ==
  ASSUME NamesDistinct, StableDepths
  PROVE  Spec => DependentsGoFirst
<1>1. ASSUME TypeOK, PassSound, [Next]_vars, NEW k \in Names, NEW j \in Names,
             Prunes(k), apps[j] # None, apps[j].managed
      PROVE  ~DependsOnName(apps[j], k)
  <2>1. k \in stale /\ todo = {}  BY <1>1, PrunesStale
  <2> QED BY <1>1, <2>1 DEF PassSound, PrunesSound
<1>2. TypeOK /\ PassSound /\ [Next]_vars =>
        [\A k, j \in Names :
           /\ Prunes(k) /\ apps[k].managed
           /\ apps[j] # None /\ apps[j].managed
           => ~DependsOnName(apps[j], k)]_vars
  BY <1>1
<1> QED BY <1>2, PassStaysSound, TypeCorrect, PTL DEF Spec, DependentsGoFirst

------------------------------------------------------------------------------
(* What has converged stays so. *)

(* In a converged store every template of a resolved graph has its binding,*)
(* as the graph says, Healthy and not on its way out.                      *)
LEMMA ConvergedBindings ==
  ASSUME NEW store, ConvergedIn(store),
         NEW t \in Resolved(targets, fleetProfiles),
         NEW a \in DOMAIN Graph(t, targets[t], fleetProfiles)
  PROVE  \E b \in BindingsFor(t, Graph(t, targets[t], fleetProfiles), store) :
           /\ b.target = t /\ b.template = a /\ NameOf(b) = BindingName[<<a, t>>]
           /\ store[BindingName[<<a, t>>]] # None
           /\ store[BindingName[<<a, t>>]] = Healthy(b)
<1> DEFINE g == Graph(t, targets[t], fleetProfiles)
           b == [target |-> t, template |-> a, dependsOn |-> g[a], depth |-> Depths(g)[a]]
<1>1. store[BindingName[<<a, t>>]] # None
  BY DEF ConvergedIn
<1>2. b \in BindingsFor(t, g, store)
  BY <1>1 DEF BindingsFor, Unblocked
<1>3. NameOf(b) = BindingName[<<a, t>>]
  BY DEF NameOf
<1>4. store[NameOf(b)] = Healthy(b)
  BY <1>2 DEF ConvergedIn
<1> QED BY <1>1, <1>2, <1>3, <1>4

(* Bindings are computed from templates of the graph only.                 *)
LEMMA BindingsOfGraph ==
  ASSUME NEW t, NEW g, NEW store, NEW b \in BindingsFor(t, g, store)
  PROVE  /\ b.target = t /\ b.template \in DOMAIN g
         /\ NameOf(b) = BindingName[<<b.template, t>>]
         /\ b = [target |-> t, template |-> b.template, dependsOn |-> g[b.template],
                 depth |-> Depths(g)[b.template]]
BY DEF BindingsFor, NameOf

(* What such a binding's application says.                                 *)
LEMMA ReadyRecord ==
  ASSUME NEW b
  PROVE  LET w == Healthy(b)
         IN  /\ w.ready = TRUE /\ w.deleting = FALSE /\ w.managed = TRUE /\ w.target = b.target
             /\ Patched(w, b) = w
BY DEF Healthy, Created, Patched

(* A pass that lists a converged store decides to write nothing.           *)
LEMMA ConvergedDecides ==
  ASSUME TypeOK, NEW store, NEW failed, Decide(store, failed), ConvergedIn(store),
         seenTargets = targets, seenProfiles = fleetProfiles
  PROVE  todo' = {} /\ stale' = {}
<1> DEFINE live == Resolved(targets, fleetProfiles)
           graph(t) == Graph(t, targets[t], fleetProfiles)
           B == {b \in BindingsOf(targets, fleetProfiles, store) : b.target \notin failed}
           kept == Preserved(targets, fleetProfiles) \cup failed
<1>1. /\ todo' = Outstanding(store, ByName(B))
      /\ stale' = AtHighestDepth(store, Undesired(store, ByName(B), kept))
  BY DEF Decide
<1>2. \A b \in BindingsOf(targets, fleetProfiles, store) : b \in Binding
  BY BindingsRecorded DEF TypeOK
<1>3. B \subseteq Binding
  BY <1>2
<1>4. ASSUME NEW k \in Names, ByName(B)[k] # None
      PROVE  store[k] # None /\ Patched(store[k], ByName(B)[k]) = store[k]
  <2>1. PICK b \in B : b = ByName(B)[k] /\ NameOf(b) = k
    BY <1>3, <1>4, ByNameOf
  <2>2. PICK t \in live : b \in BindingsFor(t, graph(t), store)
    BY <2>1 DEF BindingsOf
  <2> DEFINE g == graph(t)
  <2>a. b \in BindingsFor(t, g, store)
    BY <2>2
  <2> HIDE DEF g, B
  <2>b. b.template \in DOMAIN g /\ NameOf(b) = BindingName[<<b.template, t>>]
    BY <2>a, BindingsOfGraph
  <2>c. b.template \in DOMAIN g /\ k = BindingName[<<b.template, t>>]
    BY <2>1, <2>b
  <2> USE DEF g, B
  <2>3. b.template \in DOMAIN graph(t) /\ k = BindingName[<<b.template, t>>]
    BY <2>c, Zenon
  <2>4. store[k] # None
    BY <2>3 DEF ConvergedIn
  <2>5. store[k] = Healthy(b)
    BY <2>1, <2>2 DEF ConvergedIn
  <2>6. Patched(store[k], b) = store[k]
    BY <2>5, ReadyRecord
  <2> QED BY <2>1, <2>4, <2>6
<1>5. ASSUME NEW k \in Names, store[k] # None, store[k].managed, ByName(B)[k] = None,
             store[k].target \notin kept
      PROVE  FALSE
  <2>1. PICK t \in live : \E a \in DOMAIN graph(t) : BindingName[<<a, t>>] = k
    BY <1>5 DEF ConvergedIn
  <2>2. PICK a \in DOMAIN graph(t) : BindingName[<<a, t>>] = k
    BY <2>1
  <2>3. PICK b \in BindingsFor(t, graph(t), store) :
          b.target = t /\ NameOf(b) = k /\ store[k] = Healthy(b)
    BY <2>2, ConvergedBindings
  <2>4. t \notin failed
    BY <1>5, <2>3, ReadyRecord
  <2>5. b \in B
    BY <2>3, <2>4 DEF BindingsOf
  <2> HIDE DEF B
  <2> QED BY <1>3, <1>5, <2>3, <2>5, ByNameOf
<1>6. Outstanding(store, ByName(B)) = {}
  BY <1>4 DEF Outstanding
<1>7. Undesired(store, ByName(B), kept) = {}
  BY <1>5 DEF Undesired
<1> QED BY <1>1, <1>6, <1>7 DEF AtHighestDepth

(* Platform and Argo CD have nothing left to do for what is wanted.        *)
LEMMA PlatformKeepsConverged ==
  ASSUME TypeOK, Converged, NEW k \in Names, Platform(k)
  PROVE  Converged'
<1> DEFINE live == Resolved(targets, fleetProfiles)
           graph(t) == Graph(t, targets[t], fleetProfiles)
<1>1. /\ UNCHANGED <<targets, fleetProfiles>>
      /\ \A j \in Names \ {k} : apps'[j] = apps[j]
      /\ apps[k] # None
      /\ \/ ~apps[k].ready
         \/ apps[k].deleting
      /\ apps'[k] # None =>
           apps'[k].managed = apps[k].managed /\ apps'[k].target = apps[k].target
  <2>1. apps \in [Names -> Application \cup {None}]
    BY DEF TypeOK
  <2>2. CASE BecomeReady(k)
    <3>1. apps[k] \in Application /\ apps'[k] = [apps[k] EXCEPT !.ready = TRUE]
      BY <2>1, <2>2 DEF BecomeReady
    <3>2. apps'[k].managed = apps[k].managed /\ apps'[k].target = apps[k].target
      BY <3>1 DEF Application
    <3> QED BY <2>1, <2>2, <3>2 DEF BecomeReady
  <2>3. CASE FinishDelete(k)
    BY <2>1, <2>3 DEF FinishDelete
  <2> QED BY <2>2, <2>3 DEF Platform
<1>2. ASSUME NEW t \in live, NEW a \in DOMAIN graph(t)
      PROVE  apps'[BindingName[<<a, t>>]] = apps[BindingName[<<a, t>>]]
  <2>1. PICK b \in BindingsFor(t, graph(t), apps) :
          apps[BindingName[<<a, t>>]] = Healthy(b)
    BY <1>2, ConvergedBindings DEF Converged
  <2>2. BindingName[<<a, t>>] # k
    BY <1>1, <2>1, ReadyRecord
  <2>3. BindingName[<<a, t>>] \in Names
    <3>1. a \in Templates /\ t \in Targets
      BY GraphOfResolved DEF TypeOK, Resolved
    <3> QED BY <3>1, NamesAssumption
  <2> QED BY <1>1, <2>2, <2>3
<1>3. ASSUME NEW t \in live, NEW b \in BindingsFor(t, graph(t), apps')
      PROVE  apps'[NameOf(b)] = Healthy(b)
  <2>1. /\ b.template \in DOMAIN graph(t) /\ NameOf(b) = BindingName[<<b.template, t>>]
        /\ b = [target |-> t, template |-> b.template, dependsOn |-> graph(t)[b.template],
                depth |-> Depths(graph(t))[b.template]]
    BY <1>3, BindingsOfGraph
  <2>2. PICK c \in BindingsFor(t, graph(t), apps) :
          /\ c.template = b.template
          /\ apps[NameOf(b)] = Healthy(c)
    BY <2>1, ConvergedBindings DEF Converged
  <2>3. c = b
    BY <2>1, <2>2, BindingsOfGraph
  <2> QED BY <1>2, <2>1, <2>2, <2>3
<1>4. \A t \in live : \A a \in DOMAIN graph(t) : apps'[BindingName[<<a, t>>]] # None
  BY <1>2 DEF Converged, ConvergedIn
<1>5. ASSUME NEW j \in Names, apps'[j] # None, apps'[j].managed
      PROVE  \/ apps'[j].target \in Preserved(targets, fleetProfiles)
             \/ \E t \in live : \E a \in DOMAIN graph(t) : BindingName[<<a, t>>] = j
  <2>1. apps[j] # None /\ apps[j].managed /\ apps'[j].target = apps[j].target
    BY <1>1, <1>5
  <2> QED BY <2>1 DEF Converged, ConvergedIn
<1>6. ConvergedIn(apps')
  BY <1>3, <1>4, <1>5 DEF ConvergedIn
<1> QED BY <1>1, <1>6 DEF Converged, ConvergedIn

(* Steps that cost nothing of the bounds: no edit, interference or failure.*)
LEMMA FreeSteps ==
  ASSUME TypeOK, Next, UNCHANGED budget
  PROVE  Step \/ \E k \in Names : Platform(k)
<1>1. edits \in Nat /\ hands \in Nat /\ faults \in Nat
  BY BoundsAssumption DEF TypeOK
<1>2. edits' # edits + 1 /\ hands' # hands + 1 /\ faults' # faults + 1
  BY <1>1 DEF budget
<1> QED
  BY <1>2 DEF Next, Abort, Environment, EditTarget, SetProfile, RemoveProfile, Degrade,
              CreateByHand, DeleteByHand, Detach

(* The steps of a pass in a settled state.                                 *)
LEMMA StepSettled ==
  ASSUME TypeOK, Settled, Step, UNCHANGED budget
  PROVE  Settled' /\ UNCHANGED apps
<1>1. faults' # faults + 1
  BY BoundsAssumption DEF TypeOK, budget
<1>2. Converged /\ UpToDate /\ todo = {} /\ stale = {}
  BY DEF Settled, UpToDate
<1>3. ASSUME UNCHANGED api  PROVE Converged' /\ UNCHANGED apps
  BY <1>2, <1>3 DEF Converged, ConvergedIn, api
<1>4. CASE ListFleetProfiles
  <2>1. seenProfiles' = fleetProfiles /\ pc' = "clusters" /\ UNCHANGED <<api, todo, stale>>
    BY <1>1, <1>4 DEF ListFleetProfiles, Listed
  <2> QED BY <1>2, <1>3, <2>1 DEF Settled, UpToDate, api
<1>5. CASE ListClusters
  <2> DEFINE content == [t \in Targets |-> IF t \in Clusters THEN targets[t] ELSE seenTargets[t]]
  <2>1. /\ seenTargets' = content /\ pc' = IF Instances = {} THEN "applications" ELSE "instances"
        /\ UNCHANGED <<api, seenProfiles, todo, stale>> /\ pc = "clusters"
    BY <1>1, <1>5 DEF ListClusters, ListTargets, Listed
  <2>2. seenProfiles' = fleetProfiles' /\ \A t \in Clusters : seenTargets'[t] = targets'[t]
    BY <1>2, <2>1 DEF UpToDate, api, Targets
  <2>3. Instances = {} => seenTargets' = targets'
    BY <2>1 DEF TypeOK, Targets, api
  <2> QED BY <1>2, <1>3, <2>1, <2>2, <2>3 DEF Settled, UpToDate
<1>6. CASE ListInstances
  <2> DEFINE content == [t \in Targets |-> IF t \in Instances THEN targets[t] ELSE seenTargets[t]]
  <2>1. /\ seenTargets' = content /\ pc' = "applications" /\ pc = "instances"
        /\ UNCHANGED <<api, seenProfiles, todo, stale>>
    BY <1>1, <1>6 DEF ListInstances, ListTargets, Listed
  <2>2. seenProfiles' = fleetProfiles' /\ \A t \in Clusters : seenTargets[t] = targets[t]
    BY <1>2, <2>1 DEF UpToDate, api
  <2>3. seenTargets' = targets'
    BY <2>1, <2>2 DEF TypeOK, Targets, api
  <2> QED BY <1>2, <1>3, <2>1, <2>2, <2>3 DEF Settled, UpToDate
<1>7. CASE ListApplications
  <2>1. /\ pc = "applications" /\ existing' = apps /\ UNCHANGED <<api, seenProfiles, seenTargets>>
        /\ IF Credentials THEN pc' = "credentials" /\ UNCHANGED <<todo, stale>>
                          ELSE Decide(apps, {})
    BY <1>1, <1>7 DEF ListApplications, Listed
  <2>2. seenProfiles = fleetProfiles /\ seenTargets = targets
    BY <1>2, <2>1 DEF UpToDate
  <2>3. todo' = {} /\ stale' = {} /\ pc' \in {"credentials", "apply"}
    <3>1. CASE Credentials
      BY <1>2, <2>1, <3>1
    <3>2. CASE ~Credentials
      <4>1. PICK store : store = apps
        OBVIOUS
      <4>2. Decide(store, {}) /\ ConvergedIn(store)
        BY <1>2, <2>1, <3>2, <4>1 DEF Converged
      <4>3. todo' = {} /\ stale' = {}
        BY <2>2, <4>2, ConvergedDecides
      <4>4. pc' = "apply"
        BY <4>2 DEF Decide
      <4> QED BY <4>3, <4>4
    <3> QED BY <3>1, <3>2
  <2>4. Converged' /\ UNCHANGED apps
    BY <1>3, <2>1
  <2>5. ConvergedIn(existing)'
    BY <2>1, <2>4 DEF Converged
  <2>6. seenProfiles' = fleetProfiles' /\ seenTargets' = targets'
    BY <2>1, <2>2 DEF api
  <2> QED BY <2>3, <2>4, <2>5, <2>6 DEF Settled, UpToDate
<1>8. CASE SettleCredentials
  <2>1. /\ pc = "credentials" /\ Decide(existing, {}) /\ UNCHANGED <<api, seenProfiles, seenTargets>>
    BY <1>1, <1>8 DEF SettleCredentials
  <2>2. seenProfiles = fleetProfiles /\ seenTargets = targets /\ ConvergedIn(existing)
    BY <1>2, <2>1 DEF UpToDate
  <2>3. todo' = {} /\ stale' = {} /\ pc' = "apply"
    <3>1. PICK store : store = existing
      OBVIOUS
    <3>2. Decide(store, {}) /\ ConvergedIn(store)
      BY <2>1, <2>2, <3>1
    <3>3. todo' = {} /\ stale' = {}
      BY <2>2, <3>2, ConvergedDecides
    <3> QED BY <3>2, <3>3 DEF Decide
  <2>4. seenProfiles' = fleetProfiles' /\ seenTargets' = targets'
    BY <2>1, <2>2 DEF api
  <2> QED BY <1>3, <2>1, <2>3, <2>4 DEF Settled, UpToDate
<1>9. CASE FinishPass
  <2>1. pc' = "idle" /\ todo' = {} /\ stale' = {} /\ UNCHANGED api
    BY <1>9 DEF FinishPass, EndPass
  <2> QED BY <1>3, <2>1 DEF Settled, UpToDate
<1>10. ASSUME NEW k \in Names
       PROVE  ~CreateApplication(k) /\ ~PatchApplication(k) /\ ~PruneApplication(k)
  BY <1>2 DEF CreateApplication, PatchApplication, PruneApplication
<1> QED BY <1>4, <1>5, <1>6, <1>7, <1>8, <1>9, <1>10 DEF Step

(* Once the bindings are what the profiles ask for, Healthy, and a pass    *)
(* starts or goes on with up-to-date listings, no pass writes anything,    *)
(* for any targets, profiles and names, colliding ones included.           *)
THEOREM SettledStays == Spec => StaysSettled
<1>1. ASSUME TypeOK, Settled, [Next]_vars, UNCHANGED budget
      PROVE  Settled' /\ (Step => UNCHANGED apps)
  <2>1. CASE Step
    BY <1>1, <2>1, StepSettled
  <2>2. ASSUME NEW k \in Names, Platform(k)
        PROVE  Settled' /\ (Step => UNCHANGED apps)
    <3>1. Converged'
      BY <1>1, <2>2, PlatformKeepsConverged DEF Settled
    <3>2. UNCHANGED <<fleetProfiles, targets, pc, locals>>
      BY <2>2 DEF Platform, BecomeReady, FinishDelete
    <3>3. UpToDate'
      BY <1>1, <3>2 DEF Settled, UpToDate, ConvergedIn, locals
    <3>4. Step => UNCHANGED apps
      BY <1>1, StepSettled
    <3> QED BY <3>1, <3>3, <3>4 DEF Settled
  <2>3. CASE UNCHANGED vars
    <3>1. UNCHANGED <<fleetProfiles, targets, apps, pc, locals>>
      BY <2>3 DEF vars, api
    <3> QED BY <1>1, <3>1, ZenonT(40) DEF Settled, UpToDate, Converged, ConvergedIn, locals
  <2> QED BY <1>1, <2>1, <2>2, <2>3, FreeSteps
<1>2. TypeOK /\ [Next]_vars =>
        [Settled /\ UNCHANGED budget => Settled' /\ (Step => UNCHANGED apps)]_vars
  BY <1>1
<1> QED BY <1>2, TypeCorrect, PTL DEF Spec, StaysSettled
==============================================================================
