------------------------ MODULE WantedBindings_proofs ------------------------
(***************************************************************************)
(* A pass reads its four lists one after another and others edit meanwhile,*)
(* still it prunes nothing that was wanted all the time: for every set of  *)
(* targets, templates, profiles and specifications.                        *)
(***************************************************************************)
EXTENDS WantedBindings, Reconcile_proofs

------------------------------------------------------------------------------
(* The invariant. *)

Listing == {"clusters", "instances", "applications"}

(* What was listed already, and what the pass will have seen of the targets*)
(* if nothing is edited any more.                                          *)
ListedTargets ==
  CASE pc = "clusters" -> {}
    [] pc = "instances" -> Clusters
    [] OTHER -> Targets

Snapshot ==
  [t \in Targets |-> IF t \in ListedTargets THEN seenTargets[t] ELSE targets[t]]

(* The managed applications in a store that a configuration does not want. *)
UnwantedBy(specs, profiles, store) ==
  {k \in Names : /\ store[k] # None
                 /\ store[k].managed
                 /\ k \notin WantedOf(specs, profiles, store)}

(* With one edit, the configuration a pass ends up with was the real one   *)
(* at some moment of the pass: the one before the edit if the edited       *)
(* object had been listed already, the one after it otherwise.             *)
SnapshotReal ==
  ~misread /\ edited <= 1 =>
    /\ pc \in Listing =>
         /\ UnwantedBy(Snapshot, seenProfiles, apps) \subseteq unwanted
         /\ edited = 0 => seenProfiles = fleetProfiles /\ Snapshot = targets
    /\ pc = "credentials" => UnwantedBy(seenTargets, seenProfiles, existing) \subseteq unwanted
    /\ pc = "apply" => stale \subseteq unwanted

(* The history variables record what they are meant to.                    *)
HistoryOK ==
  /\ pc # "idle" => NotWanted \subseteq unwanted
  /\ edited \in Nat
  /\ pc = "idle" => edited = 0 /\ ~misread

(* Every managed application, listed or there, has the name of its record. *)
StoresNamed == StoreSound(apps) /\ StoreSound(existing) /\ WritesSound

------------------------------------------------------------------------------
(* What a pass decides. *)

(* An application that is there and has no wanted binding is in no graph   *)
(* of a resolved target: one that exists waits for nothing.                *)
LEMMA UnnamedIsUngraphed ==
  ASSUME NEW specs, NEW profiles \in FleetProfiles, NEW store,
         \A t \in Targets : specs[t] \in SpecsOf(t),
         NEW k \in Names, store[k] # None,
         ByName(BindingsOf(specs, profiles, store))[k] = None
  PROVE  k \notin Asked(specs, profiles)
<1> DEFINE B == BindingsOf(specs, profiles, store)
<1> SUFFICES ASSUME NEW t \in Resolved(specs, profiles),
                    NEW a \in DOMAIN Graph(t, specs[t], profiles),
                    k = BindingName[<<a, t>>]
             PROVE  FALSE
  BY DEF Asked
<1> DEFINE g == Graph(t, specs[t], profiles)
           b == [target |-> t, template |-> a, dependsOn |-> g[a], depth |-> Depths(g)[a]]
<1>1. b \in BindingsFor(t, g, store)
  BY DEF BindingsFor, Unblocked
<1>2. b \in B  BY <1>1 DEF BindingsOf
<1>3. NameOf(b) = k  BY DEF NameOf
<1>4. B \subseteq Binding  BY BindingsRecorded
<1> HIDE DEF b, B
<1> QED  BY <1>2, <1>3, <1>4, ByNameOf DEF B

(* A pass prunes what its snapshots do not want: it leaves alone what is   *)
(* missing from its wanted bindings for a failed credential only.          *)
LEMMA DecidedUnwanted ==
  ASSUME NamesDistinct, TypeOK, NEW failed, Decide(existing', failed),
         existing' \in [Names -> Application \cup {None}], StoreSound(existing')
  PROVE  stale' \subseteq UnwantedBy(seenTargets, seenProfiles, existing')
<1> DEFINE B == BindingsOf(seenTargets, seenProfiles, existing')
           C == {b \in B : b.target \notin failed}
<1>1. /\ desired' = ByName(C)
      /\ stale' = AtHighestDepth(existing', Undesired(existing', desired',
                    Preserved(seenTargets, seenProfiles) \cup failed))
  BY DEF Decide
<1> SUFFICES ASSUME NEW k \in stale'
             PROVE  k \in UnwantedBy(seenTargets, seenProfiles, existing')
  OBVIOUS
<1>2. /\ k \in Names /\ existing'[k] # None /\ existing'[k].managed
      /\ ByName(C)[k] = None
      /\ existing'[k].target \notin Preserved(seenTargets, seenProfiles)
      /\ existing'[k].target \notin failed
  BY <1>1 DEF AtHighestDepth, Undesired
<1>3. seenProfiles \in FleetProfiles /\ \A t \in Targets : seenTargets[t] \in SpecsOf(t)
  BY DEF TypeOK
<1>4. B \subseteq Binding  BY <1>3, BindingsRecorded
<1>5. \A b \in C : NameOf(b) # k
  <2>1. C \subseteq Binding  BY <1>4
  <2> HIDE DEF C
  <2> QED  BY <1>2, <2>1, ByNameOf
<1>6. \A b \in B : NameOf(b) # k
  <2> SUFFICES ASSUME NEW b \in B, NameOf(b) = k, b.target \in failed  PROVE FALSE
    BY <1>5
  <2>1. NameOf(existing'[k]) = k  BY <1>2 DEF StoreSound
  <2>2. existing'[k] \in Application /\ b \in Binding  BY <1>2, <1>4
  <2>3. <<existing'[k].template, existing'[k].target>> = <<b.template, b.target>>
    BY <2>1, <2>2 DEF NamesDistinct, NameOf, Application, Binding
  <2> QED  BY <1>2, <2>3
<1> HIDE DEF B
<1>7. ByName(B)[k] = None  BY <1>2, <1>4, <1>6, ByNameOf
<1>8. k \notin Asked(seenTargets, seenProfiles)
  BY <1>2, <1>3, <1>7, UnnamedIsUngraphed DEF B
<1> QED  BY <1>2, <1>8 DEF UnwantedBy, WantedOf

(* Nothing is unwanted of a list of nothing. *)
LEMMA EmptyUnwanted ==
  ASSUME NEW specs, NEW profiles
  PROVE  /\ UnwantedBy(specs, profiles, [k \in Names |-> None]) = {}
         /\ StoreSound([k \in Names |-> None])
         /\ [k \in Names |-> None] \in [Names -> Application \cup {None}]
BY DEF UnwantedBy, StoreSound

(* What a configuration does not want stays so while nobody but the        *)
(* controller would put managed applications there.                        *)
LEMMA QuietUnwanted ==
  ASSUME Quiet, NEW specs, NEW profiles
  PROVE  UnwantedBy(specs, profiles, apps') \subseteq UnwantedBy(specs, profiles, apps)
<1> SUFFICES ASSUME NEW k \in UnwantedBy(specs, profiles, apps')
             PROVE  k \in UnwantedBy(specs, profiles, apps)
  OBVIOUS
<1>1. /\ k \in Names /\ apps'[k] # None /\ apps'[k].managed
      /\ k \notin WantedOf(specs, profiles, apps')
  BY DEF UnwantedBy
<1>2. apps[k] # None /\ apps[k].managed /\ apps'[k].target = apps[k].target
  BY <1>1 DEF Quiet
<1> QED  BY <1>1, <1>2 DEF UnwantedBy, WantedOf

(* What the API does not want now is not wanted. *)
LEMMA UnwantedNow == UnwantedBy(targets, fleetProfiles, apps) \subseteq NotWanted
BY DEF UnwantedBy, NotWanted

------------------------------------------------------------------------------
(* What steps do. *)

(* Others put no managed applications into the store ...                   *)
LEMMA OthersQuiet ==
  ASSUME TypeOK, NEW k \in Names,
         \/ BecomeReady(k) \/ Degrade(k) \/ FinishDelete(k)
         \/ CreateByHand(k) \/ DeleteByHand(k) \/ Detach(k)
  PROVE  Quiet
BY SpecsAssumption DEF BecomeReady, Degrade, FinishDelete, CreateByHand,
   DeleteByHand, Detach, Quiet, TypeOK, Application

(* ... only the two writes of a pass do.                                   *)
LEMMA OthersAreQuiet ==
  ASSUME TypeOK, [Next]_vars
  PROVE  Quiet \/ pc = "apply"
<1>1. CASE UNCHANGED apps  BY <1>1 DEF Quiet
<1> QED
  BY <1>1, OthersQuiet
  DEF Next, Step, Environment, Platform, ListFleetProfiles, ListClusters, ListInstances,
      ListTargets, ListApplications, SettleCredentials, CreateApplication, PatchApplication,
      PruneApplication, FinishPass, Abort, EditTarget, SetProfile, RemoveProfile, vars, api

(* Edits and failures are counted one by one, and nothing else touches the *)
(* objects that are edited.                                                *)
LEMMA Counting ==
  ASSUME TypeOK, [Next]_vars
  PROVE  /\ faults \in Nat /\ faults' \in Nat /\ faults <= faults'
         /\ edits' - edits \in {0, 1}
         /\ \/ UNCHANGED <<targets, fleetProfiles>>
            \/ /\ edits' - edits = 1
               /\ UNCHANGED <<apps, pc, locals>>
               /\ \/ UNCHANGED targets
                  \/ /\ UNCHANGED fleetProfiles
                     /\ \E t \in Targets : \E s \in SpecsOf(t) :
                          targets' = [targets EXCEPT ![t] = s]
<1>0. faults \in Nat /\ edits \in Nat  BY BoundsAssumption DEF TypeOK
<1>1. /\ faults' = faults \/ faults' = faults + 1
      /\ edits' = edits \/ edits' = edits + 1
  BY DEF Next, Step, Environment, Platform, ListFleetProfiles, ListClusters, ListInstances,
     ListTargets, Listed, ListApplications, SettleCredentials, CreateApplication,
     PatchApplication, PruneApplication, FinishPass, Abort, EditTarget, SetProfile,
     RemoveProfile, BecomeReady, Degrade, FinishDelete, CreateByHand, DeleteByHand, Detach,
     vars, budget
<1>2. ASSUME NEW t \in Targets, EditTarget(t)
      PROVE  /\ edits' = edits + 1 /\ UNCHANGED <<apps, pc, locals, fleetProfiles>>
             /\ \E s \in SpecsOf(t) : targets' = [targets EXCEPT ![t] = s]
  BY <1>2 DEF EditTarget
<1>3. ASSUME NEW p \in ProfileNames, SetProfile(p) \/ RemoveProfile(p)
      PROVE  edits' = edits + 1 /\ UNCHANGED <<apps, pc, locals, targets>>
  BY <1>3 DEF SetProfile, RemoveProfile
<1>4. ASSUME \A t \in Targets : ~EditTarget(t),
             \A p \in ProfileNames : ~SetProfile(p) /\ ~RemoveProfile(p)
      PROVE  UNCHANGED <<targets, fleetProfiles>>
  BY <1>4 DEF Next, Step, Environment, Platform, ListFleetProfiles, ListClusters,
     ListInstances, ListTargets, ListApplications, SettleCredentials, CreateApplication,
     PatchApplication, PruneApplication, FinishPass, Abort, BecomeReady, Degrade,
     FinishDelete, CreateByHand, DeleteByHand, Detach, vars, api
<1> QED  BY <1>0, <1>1, <1>2, <1>3, <1>4

(* Where a pass can come from. *)
LEMMA Flow ==
  ASSUME TypeOK, [Next]_vars
  PROVE  /\ pc' \in Listing =>
              \/ ListFleetProfiles \/ ListClusters \/ ListInstances
              \/ UNCHANGED <<pc, seenProfiles, seenTargets>>
         /\ pc' = "credentials" =>
              ListApplications \/ UNCHANGED <<pc, seenProfiles, seenTargets, existing>>
         /\ pc' = "apply" =>
              \/ ListApplications \/ SettleCredentials
              \/ UNCHANGED pc /\ stale' \subseteq stale
<1> USE DEF Listing
<1>1. CASE ListFleetProfiles \/ ListClusters \/ ListInstances
  BY <1>1 DEF ListFleetProfiles, ListClusters, ListInstances, ListTargets
<1>2. CASE ListApplications
  <2>1. pc' \in {"credentials", "apply"}
    BY <1>2 DEF ListApplications, Decide
  <2> QED  BY <1>2, <2>1
<1>3. CASE SettleCredentials
  <2>1. pc' = "apply"  BY <1>3 DEF SettleCredentials, Decide
  <2> QED  BY <1>3, <2>1
<1>4. ASSUME NEW k \in Names,
             CreateApplication(k) \/ PatchApplication(k) \/ PruneApplication(k)
      PROVE  \/ pc' = "idle"
             \/ UNCHANGED pc /\ pc = "apply" /\ stale' \subseteq stale
  BY <1>4 DEF CreateApplication, PatchApplication, PruneApplication, EndPass
<1>5. CASE FinishPass \/ Abort
  BY <1>5 DEF FinishPass, Abort, EndPass
<1>6. CASE Environment \/ UNCHANGED vars
  BY <1>6 DEF Environment, Platform, EditTarget, SetProfile, RemoveProfile, BecomeReady,
     Degrade, FinishDelete, CreateByHand, DeleteByHand, Detach, vars, locals
<1> QED  BY <1>1, <1>2, <1>3, <1>4, <1>5, <1>6 DEF Next, Step

------------------------------------------------------------------------------
(* The invariant holds. *)

(* A step of the specification with history is one without. *)
LEMMA Forget ==
  /\ HInit => Init
  /\ [HNext]_hvars => [Next]_vars
BY DEF HInit, HNext, hvars

(* Names stay those of the records: the controller writes what it computed,*)
(* and others leave records alone.                                         *)
LEMMA NamedStays ==
  ASSUME TypeOK, StoresNamed, [Next]_vars
  PROVE  StoresNamed'
<1>1. WritesSound'  BY StepWrites DEF StoresNamed
<1>2. StoreSound(existing')
  <2>1. UNCHANGED existing \/ existing' = apps \/ existing' = [k \in Names |-> None]
    BY DEF Next, Step, Environment, Platform, ListFleetProfiles, ListClusters, ListInstances,
       ListTargets, ListApplications, SettleCredentials, CreateApplication, PatchApplication,
       PruneApplication, FinishPass, Abort, EndPass, EditTarget, SetProfile, RemoveProfile,
       BecomeReady, Degrade, FinishDelete, CreateByHand, DeleteByHand, Detach, vars, locals
  <2> QED  BY <2>1, EmptyUnwanted DEF StoresNamed
<1>3. ASSUME NEW k \in Names, NEW w,
             w = Created(desired[k]) \/ \E a : w = Patched(a, desired[k]),
             desired[k] # None, apps' = [apps EXCEPT ![k] = w]
      PROVE  StoreSound(apps')
  <2>1. Recorded(desired[k]) /\ NameOf(desired[k]) = k
    BY <1>3 DEF StoresNamed, WritesSound
  <2>2. /\ w.target = desired[k].target /\ w.template = desired[k].template
        /\ w.dependsOn = desired[k].dependsOn /\ w.depth = desired[k].depth
    BY <1>3, WrittenRecord
  <2>3. Recorded(w) /\ NameOf(w) = k  BY <2>1, <2>2 DEF Recorded, NameOf
  <2>4. \A j \in Names : apps'[j] = IF j = k THEN w ELSE apps[j]
    BY <1>3 DEF TypeOK
  <2> QED  BY <2>3, <2>4 DEF StoresNamed, StoreSound
<1>4. ASSUME Quiet  PROVE StoreSound(apps')
  <2> SUFFICES ASSUME NEW k \in Names, apps'[k] # None, apps'[k].managed
               PROVE  Recorded(apps'[k]) /\ NameOf(apps'[k]) = k
    BY DEF StoreSound
  <2>1. /\ apps[k] # None /\ apps[k].managed
        /\ apps'[k].target = apps[k].target /\ apps'[k].template = apps[k].template
        /\ apps'[k].dependsOn = apps[k].dependsOn /\ apps'[k].depth = apps[k].depth
    BY <1>4 DEF Quiet
  <2>2. Recorded(apps[k]) /\ NameOf(apps[k]) = k
    BY <2>1 DEF StoresNamed, StoreSound
  <2> QED  BY <2>1, <2>2 DEF Recorded, NameOf
<1>5. ASSUME NEW k \in Names, CreateApplication(k) \/ PatchApplication(k)
      PROVE  StoreSound(apps')
  <2>1. desired[k] # None
    BY <1>5 DEF CreateApplication, PatchApplication, TypeOK
  <2>2. \/ UNCHANGED apps
        \/ apps' = [apps EXCEPT ![k] = Created(desired[k])]
        \/ apps' = [apps EXCEPT ![k] = Patched(apps[k], desired[k])]
    <3>1. CASE CreateApplication(k)  BY <3>1 DEF CreateApplication
    <3>2. CASE PatchApplication(k)  BY <3>2 DEF PatchApplication
    <3> QED  BY <1>5, <3>1, <3>2
  <2>3. CASE UNCHANGED apps  BY <2>3 DEF StoresNamed
  <2>4. CASE apps' = [apps EXCEPT ![k] = Created(desired[k])]
    BY <1>3, <2>1, <2>4
  <2>5. CASE apps' = [apps EXCEPT ![k] = Patched(apps[k], desired[k])]
    BY <1>3, <2>1, <2>5
  <2> QED  BY <2>2, <2>3, <2>4, <2>5
<1>6. ASSUME UNCHANGED apps  PROVE Quiet
  BY <1>6 DEF Quiet
<1>7. ASSUME NEW k \in Names, PruneApplication(k)
      PROVE  Quiet
  <2>1. CASE UNCHANGED apps  BY <1>6, <2>1
  <2>2. CASE apps[k] # None /\ apps' = [apps EXCEPT ![k].deleting = TRUE]
    BY <2>2 DEF Quiet, TypeOK, Application
  <2> QED  BY <1>7, <2>1, <2>2 DEF PruneApplication
<1>8. Quiet \/ StoreSound(apps')
  <2>1. CASE pc # "apply"  BY <2>1, OthersAreQuiet
  <2>2. CASE \E k \in Names : CreateApplication(k) \/ PatchApplication(k) \/ PruneApplication(k)
    BY <1>5, <1>7, <2>2
  <2>3. ASSUME NEW k \in Names,
               \/ BecomeReady(k) \/ Degrade(k) \/ FinishDelete(k)
               \/ CreateByHand(k) \/ DeleteByHand(k) \/ Detach(k)
        PROVE  Quiet
    BY <2>3, OthersQuiet
  <2> QED
    BY <1>6, <2>1, <2>2, <2>3
    DEF Next, Step, Environment, Platform, ListFleetProfiles, ListClusters, ListInstances,
        ListTargets, ListApplications, SettleCredentials, FinishPass, Abort, EditTarget,
        SetProfile, RemoveProfile, vars, api
<1> QED  BY <1>1, <1>2, <1>4, <1>8 DEF StoresNamed

(* The history of a pass. *)
LEMMA HistoryStays ==
  ASSUME TypeOK, HistoryOK, [HNext]_hvars
  PROVE  /\ HistoryOK'
         /\ pc' # "idle" => /\ unwanted \subseteq unwanted'
                            /\ edited' = edited + (edits' - edits)
                            /\ ~misread' => /\ ~misread
                                            /\ pc \in {"idle", "clusters", "instances"}
                                                 => faults' = faults
<1>1. CASE UNCHANGED hvars
  <2>1. NotWanted' = NotWanted
    BY <1>1 DEF hvars, vars, api, NotWanted
  <2>2. UNCHANGED <<unwanted, edited, misread, pc, edits, faults>>
    BY <1>1 DEF hvars, vars, budget
  <2>3. edits \in Nat  BY BoundsAssumption DEF TypeOK
  <2> QED  BY <2>1, <2>2, <2>3 DEF HistoryOK
<1>2. CASE HNext
  <2>1. edits' - edits \in {0, 1}  BY <1>2, Counting DEF HNext
  <2>2. CASE pc' = "idle"  BY <1>2, <2>2 DEF HNext, HistoryOK
  <2>3. CASE pc' # "idle"
    <3>1. NotWanted' \subseteq unwanted' /\ unwanted \subseteq unwanted'
      <4>1. CASE pc # "idle" /\ UNCHANGED api
        <5>1. unwanted' = unwanted  BY <1>2, <2>3, <4>1 DEF HNext
        <5>2. NotWanted' = NotWanted  BY <4>1 DEF api, NotWanted
        <5> QED  BY <4>1, <5>1, <5>2 DEF HistoryOK
      <4>2. CASE ~(pc # "idle" /\ UNCHANGED api)
        BY <1>2, <2>3, <4>2 DEF HNext
      <4> QED  BY <4>1, <4>2
    <3>2. edited' = edited + (edits' - edits) /\ edited' \in Nat
      BY <1>2, <2>1, <2>3 DEF HNext, HistoryOK
    <3>3. misread' = (misread \/ Misreads)  BY <1>2, <2>3 DEF HNext
    <3> QED  BY <2>3, <3>1, <3>2, <3>3 DEF HistoryOK, Misreads
  <2> QED  BY <2>2, <2>3
<1> QED  BY <1>1, <1>2

(* While the lists are read. *)
LEMMA ListingReal ==
  ASSUME TypeOK, TypeOK', HistoryOK, SnapshotReal, [HNext]_hvars,
         ~misread', edited' <= 1, pc' \in Listing
  PROVE  /\ UnwantedBy(Snapshot, seenProfiles, apps)' \subseteq unwanted'
         /\ edited' = 0 => seenProfiles' = fleetProfiles' /\ Snapshot' = targets'
<1> USE DEF Listing
<1>a. [Next]_vars  BY Forget
<1>b. /\ edits' - edits \in {0, 1} /\ faults \in Nat /\ ~misread
      /\ pc \in {"idle", "clusters", "instances"} => faults' = faults
  BY <1>a, Counting, HistoryStays
<1>c. /\ unwanted \subseteq unwanted' /\ NotWanted' \subseteq unwanted'
      /\ edited' = edited + (edits' - edits) /\ edited \in Nat /\ edited <= 1
  BY <1>b, HistoryStays DEF HistoryOK
<1>d. UnwantedBy(targets, fleetProfiles, apps)' \subseteq unwanted'
  BY <1>c, UnwantedNow DEF UnwantedBy, NotWanted
<1>e. targets \in [Targets -> ClusterSpecs \cup InstanceSpecs \cup {None}]
  BY DEF TypeOK
<1>f. targets' \in [Targets -> ClusterSpecs \cup InstanceSpecs \cup {None}]
  BY DEF TypeOK
<1>1. CASE ListFleetProfiles
  <2>1. pc' = "clusters" /\ UNCHANGED <<targets, fleetProfiles>>
    BY <1>1 DEF ListFleetProfiles, api
  <2>2. seenProfiles' = fleetProfiles'
    BY <1>1, <1>b, <2>1 DEF ListFleetProfiles, Listed
  <2>3. Snapshot' = targets'  BY <1>f, <2>1 DEF Snapshot, ListedTargets
  <2> QED  BY <1>d, <2>2, <2>3
<1>2. CASE ListClusters \/ ListInstances
  <2>1. /\ pc \in Listing /\ UNCHANGED <<targets, fleetProfiles, apps, seenProfiles, edits>>
    BY <1>2 DEF ListClusters, ListInstances, ListTargets, api
  <2>2. CASE ListClusters
    <3>1. /\ pc = "clusters"
          /\ pc' = IF Instances = {} THEN "applications" ELSE "instances"
          /\ seenTargets' = [t \in Targets |-> IF t \in Clusters THEN targets[t]
                                                ELSE seenTargets[t]]
      BY <1>b, <2>2 DEF ListClusters, ListTargets, Listed
    <3>2. Snapshot' = Snapshot
      BY <2>1, <3>1 DEF Snapshot, ListedTargets, Targets
    <3> QED  BY <1>b, <1>c, <2>1, <3>2 DEF SnapshotReal
  <2>3. CASE ListInstances
    <3>1. /\ pc = "instances" /\ pc' = "applications"
          /\ seenTargets' = [t \in Targets |-> IF t \in Instances THEN targets[t]
                                                ELSE seenTargets[t]]
      BY <1>b, <2>3 DEF ListInstances, ListTargets, Listed
    <3>2. \A t \in Targets : t \in Clusters <=> t \notin Instances
      BY TargetsAssumption DEF Targets
    <3>3. Snapshot' = Snapshot
      BY <2>1, <3>1, <3>2 DEF Snapshot, ListedTargets
    <3> QED  BY <1>b, <1>c, <2>1, <3>3 DEF SnapshotReal
  <2> QED  BY <1>2, <2>2, <2>3
<1>3. CASE UNCHANGED <<pc, seenProfiles, seenTargets>>
  <2>0. ListedTargets' = ListedTargets  BY <1>3 DEF ListedTargets
  <2>1. Quiet  BY <1>3, <1>a, OthersAreQuiet
  <2>2. UnwantedBy(Snapshot, seenProfiles, apps) \subseteq unwanted
    BY <1>3, <1>b, <1>c DEF SnapshotReal
  <2>3. edited = 0 => seenProfiles = fleetProfiles /\ Snapshot = targets
    BY <1>3, <1>b, <1>c DEF SnapshotReal
  <2>4. ASSUME Snapshot' = Snapshot
        PROVE  UnwantedBy(Snapshot, seenProfiles, apps)' \subseteq unwanted'
    BY <1>3, <1>c, <2>1, <2>2, <2>4, QuietUnwanted DEF UnwantedBy
  <2>5. CASE UNCHANGED <<targets, fleetProfiles>>
    <3>1. Snapshot' = Snapshot  BY <1>3, <2>0, <2>5 DEF Snapshot
    <3>2. edited' = 0 => edited = 0  BY <1>b, <1>c
    <3> QED  BY <1>3, <2>3, <2>4, <2>5, <3>1, <3>2
  <2>6. CASE edits' - edits = 1 /\ UNCHANGED targets
    <3>1. Snapshot' = Snapshot  BY <1>3, <2>0, <2>6 DEF Snapshot
    <3>2. edited' # 0  BY <1>c, <2>6
    <3> QED  BY <2>4, <3>1, <3>2
  <2>7. ASSUME edits' - edits = 1, UNCHANGED fleetProfiles,
               NEW t \in Targets, NEW s \in SpecsOf(t), targets' = [targets EXCEPT ![t] = s]
        PROVE  /\ UnwantedBy(Snapshot, seenProfiles, apps)' \subseteq unwanted'
               /\ edited' = 0 => seenProfiles' = fleetProfiles' /\ Snapshot' = targets'
    <3>1. edited = 0 /\ edited' # 0  BY <1>c, <2>7
    <3>2. seenProfiles' = fleetProfiles' /\ Snapshot = targets
      BY <1>3, <2>3, <2>7, <3>1
    <3>3. \A u \in Targets : u # t => targets'[u] = targets[u]
      BY <1>e, <2>7
    <3>4. CASE t \in ListedTargets
      <4>1. Snapshot' = Snapshot  BY <1>3, <2>0, <3>3, <3>4 DEF Snapshot
      <4> QED  BY <2>4, <3>1, <4>1
    <3>5. CASE t \notin ListedTargets
      <4>1. ASSUME NEW u \in Targets
            PROVE  (IF u \in ListedTargets THEN seenTargets[u] ELSE targets'[u]) = targets'[u]
        <5>1. u \in ListedTargets => seenTargets[u] = targets[u]
          BY <3>2 DEF Snapshot
        <5> QED  BY <3>3, <3>5, <5>1
      <4>2. Snapshot' = [u \in Targets |-> targets'[u]]
        BY <1>3, <2>0, <4>1 DEF Snapshot
      <4>3. Snapshot' = targets'  BY <1>f, <4>2
      <4> QED  BY <1>d, <3>1, <3>2, <4>3 DEF UnwantedBy
    <3> QED  BY <3>4, <3>5
  <2> QED  BY <1>a, <2>5, <2>6, <2>7, Counting
<1> QED  BY <1>1, <1>2, <1>3, <1>a, Flow

(* While the credentials are settled. *)
LEMMA CredentialsReal ==
  ASSUME TypeOK, HistoryOK, SnapshotReal, [HNext]_hvars,
         ~misread', edited' <= 1, pc' = "credentials"
  PROVE  UnwantedBy(seenTargets, seenProfiles, existing)' \subseteq unwanted'
<1>a. [Next]_vars  BY Forget
<1>b. edits' - edits \in {0, 1} /\ ~misread  BY <1>a, Counting, HistoryStays
<1>c. unwanted \subseteq unwanted' /\ edited <= 1
  BY <1>b, HistoryStays DEF HistoryOK
<1>1. CASE ListApplications
  <2>1. /\ existing' = apps \/ existing' = [k \in Names |-> None]
        /\ pc = "applications" /\ UNCHANGED <<seenProfiles, seenTargets>>
    BY <1>1 DEF ListApplications
  <2>2. Snapshot = seenTargets
    BY <2>1 DEF Snapshot, ListedTargets, TypeOK
  <2>3. UnwantedBy(seenTargets, seenProfiles, apps) \subseteq unwanted
    BY <1>b, <1>c, <2>1, <2>2 DEF SnapshotReal, Listing
  <2>4. UnwantedBy(seenTargets, seenProfiles, existing') \subseteq unwanted
    BY <2>1, <2>3, EmptyUnwanted
  <2> QED  BY <1>c, <2>1, <2>4 DEF UnwantedBy
<1>2. CASE UNCHANGED <<pc, seenProfiles, seenTargets, existing>>
  BY <1>2, <1>b, <1>c DEF SnapshotReal, UnwantedBy
<1> QED  BY <1>1, <1>2, <1>a, Flow

(* While the pass writes and prunes. *)
LEMMA PruningReal ==
  ASSUME NamesDistinct, TypeOK, HistoryOK, SnapshotReal, StoresNamed, [HNext]_hvars,
         ~misread', edited' <= 1, pc' = "apply"
  PROVE  stale' \subseteq unwanted'
<1>a. [Next]_vars  BY Forget
<1>b. edits' - edits \in {0, 1} /\ ~misread  BY <1>a, Counting, HistoryStays
<1>c. unwanted \subseteq unwanted' /\ edited <= 1
  BY <1>b, HistoryStays DEF HistoryOK
<1>1. CASE ListApplications
  <2>1. /\ existing' = apps \/ existing' = [k \in Names |-> None]
        /\ pc = "applications" /\ Decide(existing', {})
    BY <1>1 DEF ListApplications
  <2>2. Snapshot = seenTargets
    BY <2>1 DEF Snapshot, ListedTargets, TypeOK
  <2>3. UnwantedBy(seenTargets, seenProfiles, apps) \subseteq unwanted
    BY <1>b, <1>c, <2>1, <2>2 DEF SnapshotReal, Listing
  <2>4. UnwantedBy(seenTargets, seenProfiles, existing') \subseteq unwanted
    BY <2>1, <2>3, EmptyUnwanted
  <2>5. existing' \in [Names -> Application \cup {None}] /\ StoreSound(existing')
    BY <2>1, EmptyUnwanted DEF TypeOK, StoresNamed
  <2> QED  BY <1>c, <2>1, <2>4, <2>5, DecidedUnwanted
<1>2. CASE SettleCredentials
  <2>1. existing' = existing /\ pc = "credentials" /\ \E failed : Decide(existing', failed)
    BY <1>2 DEF SettleCredentials
  <2>2. UnwantedBy(seenTargets, seenProfiles, existing') \subseteq unwanted
    BY <1>b, <1>c, <2>1 DEF SnapshotReal
  <2>3. existing' \in [Names -> Application \cup {None}] /\ StoreSound(existing')
    BY <2>1 DEF TypeOK, StoresNamed
  <2> QED  BY <1>c, <2>1, <2>2, <2>3, DecidedUnwanted
<1>3. CASE UNCHANGED pc /\ stale' \subseteq stale
  BY <1>3, <1>b, <1>c DEF SnapshotReal
<1> QED  BY <1>1, <1>2, <1>3, <1>a, Flow

(* What a pass works on was true at some moment, for any targets, profiles *)
(* and distinct names, whatever users edit, whatever fails and whatever    *)
(* happens to applications.                                                *)
THEOREM SnapshotsAreReal ==
  ASSUME NamesDistinct
  PROVE  HSpec => [](TypeOK /\ HistoryOK /\ SnapshotReal /\ StoresNamed)
<1>1. HInit => TypeOK /\ HistoryOK /\ SnapshotReal /\ StoresNamed
  BY Forget, InitType, EmptyUnwanted
  DEF HInit, Init, HistoryOK, SnapshotReal, Listing, StoresNamed, WritesSound
<1>2. TypeOK /\ HistoryOK /\ SnapshotReal /\ StoresNamed /\ [HNext]_hvars =>
        (TypeOK /\ HistoryOK /\ SnapshotReal /\ StoresNamed)'
  <2> SUFFICES ASSUME TypeOK, HistoryOK, SnapshotReal, StoresNamed, [HNext]_hvars
               PROVE  (TypeOK /\ HistoryOK /\ SnapshotReal /\ StoresNamed)'
    OBVIOUS
  <2>1. TypeOK'  BY Forget, StepType
  <2>2. HistoryOK'  BY HistoryStays
  <2>3. SnapshotReal'
    BY <2>1, ListingReal, CredentialsReal, PruningReal DEF SnapshotReal
  <2>4. StoresNamed'  BY Forget, NamedStays
  <2> QED  BY <2>1, <2>2, <2>3, <2>4
<1> QED  BY <1>1, <1>2, PTL DEF HSpec

(* A pass prunes a binding only if at some moment of that pass the API did *)
(* not ask for it, although it reads its lists one by one (reconcile.go:   *)
(* 11-37): as long as at most one object is edited meanwhile and no list of*)
(* profiles or targets is answered with a 404.  The names of bindings are  *)
(* distinct, else a failed credential could have another target's pruned.  *)
THEOREM WantedStay ==
  ASSUME NamesDistinct
  PROVE  HSpec => WantedBindingsKept
<1>1. TypeOK /\ HistoryOK /\ SnapshotReal /\ [HNext]_hvars =>
        [\A k \in Names : Prunes(k) /\ edited <= 1 /\ ~misread => k \in unwanted]_hvars
  <2> SUFFICES ASSUME TypeOK, SnapshotReal, [Next]_vars, NEW k \in Names, Prunes(k),
                      edited <= 1, ~misread
               PROVE  k \in unwanted
    BY Forget
  <2>1. k \in stale /\ pc = "apply"  BY PrunesStale
  <2> QED  BY <2>1 DEF SnapshotReal
<1> QED  BY <1>1, SnapshotsAreReal, PTL DEF HSpec, WantedBindingsKept
==============================================================================
