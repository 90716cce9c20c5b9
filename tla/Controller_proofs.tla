--------------------------- MODULE Controller_proofs ---------------------------
(* Proofs about Controller, for any targets, settings and number of pods.  *)
EXTENDS Controller, TLAPS

USE ControllerAssumption DEF Targets, AllInstanceStates, EnrolledStates

LEMMA IdleOK == PassOK(Idle)
BY DEF PassOK, PassType, Idle

(* A pass that leaves an instance, settled or failed, goes on as it should.*)
LEMMA LeavesOK ==
  ASSUME NEW pass, PassOK(pass), pass.pc \in {"settle", "install", "erase", "drop"},
         NEW i \in Instances
  PROVE  PassOK(Settled(pass, i)) /\ PassOK(Failed(pass, i))
<1>1. PassOK(Settled(pass, i))
  BY DEF PassOK, PassType, Settled
<1>2. Settled(pass, i).pc = "settle"
  BY DEF PassOK, PassType, Settled
<1> DEFINE s == Settled(pass, i)
<1>3. s = Settled(pass, i)  OBVIOUS
<1> HIDE DEF s
<1>4. PassOK([s EXCEPT !.failed = @ \cup {i}])
  BY <1>1, <1>2, <1>3 DEF PassOK, PassType
<1> QED  BY <1>1, <1>3, <1>4 DEF Failed

(* A pod moves on, alone.                                                  *)
LEMMA MovesOK ==
  ASSUME PodsOK, NEW p \in Pods, pods[p] # None,
         NEW synced \in SUBSET Instances, NEW pass, PassOK(pass),
         pods' = [pods EXCEPT ![p].synced = synced, ![p].pass = pass]
  PROVE  PodsOK'
<1>1. pods[p] \in Pod  BY DEF PodsOK
<1>2. pods'[p] \in Pod /\ pods'[p].pass = pass
  BY <1>1 DEF PodsOK, Pod, PassOK
<1>3. \A q \in Pods \ {p} : pods'[q] = pods[q]  BY DEF PodsOK
<1> QED  BY <1>2, <1>3 DEF PodsOK

LEMMA GoesOK ==
  ASSUME PodsOK, NEW p \in Pods, pods[p] # None, NEW pass, PassOK(pass), Goto(p, pass)
  PROVE  PodsOK'
<1>1. pods[p] \in Pod  BY DEF PodsOK
<1>2. pods'[p] \in Pod /\ pods'[p].pass = pass
  BY <1>1 DEF PodsOK, Pod, PassOK, Goto
<1>3. \A q \in Pods \ {p} : pods'[q] = pods[q]  BY DEF PodsOK, Goto
<1> QED  BY <1>2, <1>3 DEF PodsOK, Goto

(* A key is revoked under the eyes of other pods.                          *)
LEMMA RevokesOK ==
  ASSUME PodsOK, KeysOK, NEW p \in Pods, pods[p] # None, NEW n \in KeyNames,
         NEW synced \in SUBSET Instances, NEW pass, PassOK(pass),
         Revoke(p, n, synced, pass)
  PROVE  PodsOK' /\ KeysOK'
<1>1. KeysOK'  BY DEF KeysOK, Revoke
<1>2. pods[p] \in Pod  BY DEF PodsOK
<1>3. pods'[p] \in Pod /\ pods'[p].pass = pass
  BY <1>2 DEF PodsOK, Pod, PassOK, Revoke
<1>4. ASSUME NEW q \in Pods \ {p}, pods'[q] # None
      PROVE  pods'[q] \in Pod /\ PassOK(pods'[q].pass)
  <2>1. CASE pods'[q] = pods[q]  BY <1>4, <2>1 DEF PodsOK
  <2>2. CASE At(q, "install") /\ pods'[q] = [pods[q] EXCEPT !.pass.held = "dead"]
    <3>1. pods[q] \in Pod /\ PassOK(pods[q].pass) /\ pods[q].pass.pc = "install"
      BY <2>2 DEF PodsOK, At
    <3>2. PassOK([pods[q].pass EXCEPT !.held = "dead"])
      BY <3>1 DEF PassOK, PassType
    <3>3. pods'[q] \in Pod /\ pods'[q].pass = [pods[q].pass EXCEPT !.held = "dead"]
      BY <2>2, <3>1, <3>2 DEF Pod, PassOK
    <3> QED  BY <3>2, <3>3
  <2> QED  BY <2>1, <2>2 DEF Revoke
<1>5. pods' = [q \in Pods |-> pods'[q]]  BY DEF Revoke
<1> QED  BY <1>1, <1>3, <1>4, <1>5 DEF PodsOK

LEMMA RunningType ==
  ASSUME PodsOK, NEW p \in Pods, pods[p] # None
  PROVE  pods[p] \in Pod /\ PassOK(pods[p].pass) /\ pods[p].pass \in PassType
BY DEF PodsOK, PassOK

LEMMA ListOK ==
  ASSUME TypeOK, NEW p \in Pods, List(p)
  PROVE  PodsOK'
<1> DEFINE cfg  == pods[p].cfg
           seen == IF cfg.instances THEN instances ELSE [i \in Instances |-> "absent"]
           pass == [Idle EXCEPT
             !.pc = "settle", !.clusters = clusters, !.instances = seen,
             !.existing = bound \cap Listed(cfg),
             !.unsettled = {i \in Instances : cfg.credentials /\ seen[i] \in {"awake", "off"}}]
<1>1. seen \in [Instances -> AllInstanceStates]
  BY DEF TypeOK
<1>2. PassOK(pass)
  <2>1. clusters \in [Clusters -> ClusterStates] /\ clusters # None /\ seen # None
    BY <1>1, NoneAssumption DEF TypeOK
  <2>2. bound \cap Listed(cfg) \in SUBSET Targets
    BY DEF TypeOK
  <2> HIDE DEF seen, cfg
  <2> QED  BY <1>1, <2>1, <2>2 DEF PassOK, PassType, Idle
<1> HIDE DEF pass
<1>3. Goto(p, pass) /\ pods[p] # None  BY DEF List, At, pass
<1> QED  BY <1>2, <1>3, GoesOK DEF TypeOK

LEMMA EnsureKeyOK ==
  ASSUME TypeOK, NEW p \in Pods, NEW i \in Instances, EnsureKey(p, i)
  PROVE  PodsOK' /\ KeysOK'
<1>1. PodsOK /\ KeysOK  BY DEF TypeOK
<1>2. pods[p] # None /\ pods[p] \in Pod /\ PassOK(pods[p].pass) /\ pods[p].pass.pc = "settle"
  BY <1>1, RunningType DEF EnsureKey, At
<1>3. PassOK(Settled(pods[p].pass, i)) /\ PassOK(Failed(pods[p].pass, i))
  BY <1>2, LeavesOK
<1>4. PassOK([pods[p].pass EXCEPT !.pc = "install", !.subject = i, !.held = "live"])
  BY <1>2 DEF PassOK, PassType, EnsureKey
<1>5. KeyName[i] \in KeyNames  BY DEF KeyNames
<1>6. CASE keys[KeyName[i]] \notin {None, i}
  <2>1. Goto(p, Failed(pods[p].pass, i)) /\ keys' = keys
    BY <1>6 DEF EnsureKey
  <2> QED  BY <1>1, <1>2, <1>3, <2>1, GoesOK DEF KeysOK
<1>7. CASE keys[KeyName[i]] \in {None, i}
  <2> DEFINE synced == IF keys[KeyName[i]] = None THEN pods[p].synced \ {i} ELSE pods[p].synced
             pass == IF i \in synced /\ pods[p].cfg.syncEvery > 0 THEN Settled(pods[p].pass, i)
                     ELSE [pods[p].pass EXCEPT !.pc = "install", !.subject = i, !.held = "live"]
  <2>1. keys' = [keys EXCEPT ![KeyName[i]] = i]
    BY <1>7 DEF EnsureKey
  <2>2. pods' = [pods EXCEPT ![p].synced = synced, ![p].pass = pass]
    BY <1>7 DEF EnsureKey
  <2>3. synced \in SUBSET Instances  BY <1>2 DEF Pod
  <2>4. PassOK(pass)  BY <1>3, <1>4
  <2>5. KeysOK'  BY <1>1, <1>5, <2>1 DEF KeysOK
  <2> HIDE DEF synced, pass
  <2> QED  BY <1>1, <1>2, <2>2, <2>3, <2>4, <2>5, MovesOK
<1> QED  BY <1>6, <1>7

LEMMA SubjectIs ==
  ASSUME PodsOK, NEW p \in Pods, At(p, "install") \/ At(p, "erase") \/ At(p, "drop")
  PROVE  pods[p].pass.subject \in Instances
BY RunningType DEF At, PassOK, PassType

LEMMA TenantOK ==
  ASSUME TypeOK, NEW p \in Pods, FailTenant(p) \/ Install(p) \/ Erase(p)
  PROVE  PodsOK'
<1> DEFINE i == pods[p].pass.subject
<1>1. PodsOK  BY DEF TypeOK
<1>2. pods[p] # None /\ pods[p] \in Pod /\ PassOK(pods[p].pass) /\ i \in Instances
      /\ pods[p].pass.pc \in {"install", "erase"}
  BY <1>1, RunningType, SubjectIs DEF FailTenant, Install, Erase, At
<1> HIDE DEF i
<1>3. PassOK(Settled(pods[p].pass, i)) /\ PassOK(Failed(pods[p].pass, i))
  BY <1>2, LeavesOK
<1>4. CASE FailTenant(p)
  BY <1>1, <1>2, <1>3, <1>4, GoesOK DEF FailTenant, i
<1>5. CASE Install(p)
  <2>1. pods' = [pods EXCEPT ![p].synced = pods[p].synced \cup {i},
                             ![p].pass = Settled(pods[p].pass, i)]
    BY <1>5 DEF Install, i
  <2>2. pods[p].synced \cup {i} \in SUBSET Instances  BY <1>2 DEF Pod
  <2> QED  BY <1>1, <1>2, <1>3, <2>1, <2>2, MovesOK
<1>6. CASE Erase(p)
  <2>1. PassOK([pods[p].pass EXCEPT !.pc = "drop"])
    BY <1>2, <1>6 DEF PassOK, PassType, Erase, At
  <2> QED  BY <1>1, <1>2, <1>6, <2>1, GoesOK DEF Erase
<1> QED  BY <1>4, <1>5, <1>6

LEMMA FindKeyOK ==
  ASSUME TypeOK, NEW p \in Pods, NEW i \in Instances, FindKey(p, i)
  PROVE  PodsOK'
<1>1. PodsOK  BY DEF TypeOK
<1>2. pods[p] # None /\ PassOK(pods[p].pass) /\ pods[p].pass.pc = "settle"
  BY <1>1, RunningType DEF FindKey, At
<1>3. PassOK(Settled(pods[p].pass, i))  BY <1>2, LeavesOK
<1>4. PassOK([pods[p].pass EXCEPT !.pc = "erase", !.subject = i])
  BY <1>2 DEF PassOK, PassType, FindKey
<1> DEFINE pass == IF keys[KeyName[i]] = None THEN Settled(pods[p].pass, i)
                   ELSE [pods[p].pass EXCEPT !.pc = "erase", !.subject = i]
<1>5. PassOK(pass)  BY <1>3, <1>4
<1>6. Goto(p, pass)  BY DEF FindKey
<1> QED  BY <1>1, <1>2, <1>5, <1>6, GoesOK

LEMMA DropKeyOK ==
  ASSUME TypeOK, NEW p \in Pods, DropKey(p)
  PROVE  PodsOK' /\ KeysOK'
<1> DEFINE i == pods[p].pass.subject
<1>1. PodsOK /\ KeysOK  BY DEF TypeOK
<1>2. pods[p] # None /\ pods[p] \in Pod /\ PassOK(pods[p].pass) /\ i \in Instances
      /\ pods[p].pass.pc = "drop"
  BY <1>1, RunningType, SubjectIs DEF DropKey, At
<1>3. PassOK(Settled(pods[p].pass, i))  BY <1>2, LeavesOK
<1>4. KeyName[i] \in KeyNames /\ pods[p].synced \ {i} \in SUBSET Instances
  BY <1>2 DEF KeyNames, Pod
<1> QED  BY <1>1, <1>2, <1>3, <1>4, RevokesOK DEF DropKey

LEMMA ListKeysOK ==
  ASSUME TypeOK, NEW p \in Pods, ListKeys(p)
  PROVE  PodsOK'
<1> DEFINE old    == pods[p].pass
           cfg    == pods[p].cfg
           wanted == Wanted(old, cfg)
           condemned == {<<n, keys[n]>> : n \in {m \in KeyNames :
                /\ cfg.credentials
                /\ keys[m] # None
                /\ keys[m] \notin CredentialDesired(old)}}
           new == [old EXCEPT
             !.pc = "apply", !.existing = {}, !.failed = {}, !.condemned = condemned,
             !.creates = wanted \ old.existing,
             !.prunes = old.existing \ (wanted \cup Protected(old))]
<1>1. PodsOK /\ KeysOK  BY DEF TypeOK
<1>2. pods[p] # None /\ PassOK(old) /\ old.pc = "settle"
  BY <1>1, RunningType DEF ListKeys, At
<1>3. /\ condemned \in SUBSET (KeyNames \X Instances)
      /\ \A k \in condemned : KeyName[k[2]] = k[1] /\ k[2] \notin CredentialDesired(old)
  BY <1>1 DEF KeysOK
<1>4. \A k \in condemned : old.instances[k[2]] \notin EnrolledStates
  BY <1>3 DEF CredentialDesired
<1>5. wanted \in SUBSET Targets  BY DEF Wanted
<1>6. old.existing \in SUBSET Targets  BY <1>2 DEF PassOK, PassType
<1>7. PassOK(new)
  <2> HIDE DEF condemned, wanted, old
  <2> QED  BY <1>2, <1>3, <1>4, <1>5, <1>6 DEF PassOK, PassType
<1>8. Goto(p, new)  BY DEF ListKeys
<1> HIDE DEF new
<1> QED  BY <1>1, <1>2, <1>7, <1>8, GoesOK

LEMMA SweepKeyOK ==
  ASSUME TypeOK, NEW p \in Pods, SweepKey(p)
  PROVE  PodsOK' /\ KeysOK'
<1>1. PodsOK /\ KeysOK  BY DEF TypeOK
<1>2. pods[p] # None /\ pods[p] \in Pod /\ PassOK(pods[p].pass) /\ pods[p].pass.pc = "apply"
  BY <1>1, RunningType DEF SweepKey, At
<1>3. PICK k \in pods[p].pass.condemned :
        Revoke(p, k[1], pods[p].synced \ {k[2]},
               [pods[p].pass EXCEPT !.condemned = @ \ {k}])
  BY DEF SweepKey
<1>4. k[1] \in KeyNames /\ pods[p].synced \ {k[2]} \in SUBSET Instances
  BY <1>2 DEF PassOK, PassType, Pod
<1>5. PassOK([pods[p].pass EXCEPT !.condemned = @ \ {k}])
  BY <1>2, SMTT(20) DEF PassOK, PassType
<1> QED  BY <1>1, <1>2, <1>3, <1>4, <1>5, RevokesOK

LEMMA WritesOK ==
  ASSUME TypeOK, NEW p \in Pods, NEW t \in Targets, Create(p, t) \/ Prune(p, t)
  PROVE  PodsOK' /\ bound' \subseteq Targets
<1>1. PodsOK /\ bound \subseteq Targets  BY DEF TypeOK
<1>2. pods[p] # None /\ PassOK(pods[p].pass) /\ pods[p].pass.pc = "apply"
  BY <1>1, RunningType DEF Create, Prune, At
<1>3. /\ PassOK([pods[p].pass EXCEPT !.creates = @ \ {t}])
      /\ PassOK([pods[p].pass EXCEPT !.prunes = @ \ {t}])
  BY <1>2 DEF PassOK, PassType
<1>4. bound' \subseteq Targets  BY <1>1 DEF Create, Prune
<1>5. \E pass : PassOK(pass) /\ Goto(p, pass)
  BY <1>3, IdleOK DEF Create, Prune
<1> QED  BY <1>1, <1>2, <1>4, <1>5, GoesOK

(* Pods that start, stop, restart and forget.                              *)
LEMMA PodLifeOK ==
  ASSUME TypeOK, NEW p \in Pods,
         \/ StartPod(p) \/ StopPod(p) \/ Restart(p)
         \/ \E i \in Instances : IntervalElapses(p, i)
  PROVE  PodsOK'
<1>1. PodsOK /\ settings \in Settings  BY DEF TypeOK
<1>2. \A cfg \in Configs : Started(cfg) \in Pod /\ PassOK(Started(cfg).pass)
  BY IdleOK DEF Started, Pod, PassOK
<1>3. CASE StartPod(p)
  <2>1. buildConfig(settings) \in Configs  BY <1>1, <1>3 DEF StartPod, Configs
  <2> QED  BY <1>1, <1>2, <1>3, <2>1 DEF PodsOK, StartPod
<1>4. CASE StopPod(p)  BY <1>1, <1>4 DEF PodsOK, StopPod
<1>5. CASE Restart(p)
  <2>1. pods[p] \in Pod /\ pods[p].cfg \in Configs
    BY <1>1, <1>5 DEF PodsOK, Restart, Pod
  <2> QED  BY <1>1, <1>2, <1>5, <2>1 DEF PodsOK, Restart
<1>6. ASSUME NEW i \in Instances, IntervalElapses(p, i)  PROVE PodsOK'
  <2>1. pods[p] # None /\ pods[p] \in Pod /\ PassOK(pods[p].pass)
    BY <1>1, <1>6, RunningType DEF IntervalElapses
  <2>2. [pods[p] EXCEPT !.synced = @ \ {i}] \in Pod  BY <2>1 DEF Pod
  <2>3. [pods[p] EXCEPT !.synced = @ \ {i}].pass = pods[p].pass  BY <2>1 DEF Pod
  <2> QED  BY <1>1, <1>6, <2>1, <2>2, <2>3 DEF PodsOK, IntervalElapses
<1> QED  BY <1>3, <1>4, <1>5, <1>6

(* The pods' memory and passes stay consistent with what is in the API and *)
(* with their own settings, whatever happens between two requests          *)
(* (reconcile.go, main.go): the type invariant is inductive.               *)
THEOREM TypeCorrect == Spec => []TypeOK
<1>1. Init => TypeOK
  <2> SUFFICES ASSUME Init PROVE TypeOK  OBVIOUS
  <2>1. KeysOK /\ PodsOK  BY DEF Init, KeysOK, PodsOK
  <2> QED  BY <2>1 DEF Init, TypeOK
<1>2. TypeOK /\ [Next]_vars => TypeOK'
  <2> SUFFICES ASSUME TypeOK, [Next]_vars PROVE TypeOK'  OBVIOUS
  <2>1. CASE UNCHANGED vars
    BY <2>1 DEF vars, api, work, TypeOK, KeysOK, PodsOK
  <2>2. ASSUME NEW p \in Pods, Step(p)  PROVE TypeOK'
    <3>1. PodsOK'
      <4>1. CASE Finish(p)  BY <4>1, IdleOK, GoesOK DEF Finish, At, TypeOK
      <4>2. CASE \E i \in Instances : EnsureKey(p, i) \/ FindKey(p, i)
        BY <4>2, EnsureKeyOK, FindKeyOK
      <4>3. CASE \E t \in Targets : Create(p, t) \/ Prune(p, t)
        BY <4>3, WritesOK, Zenon
      <4>4. CASE List(p) \/ ListKeys(p)  BY <4>4, ListOK, ListKeysOK
      <4>5. CASE FailTenant(p) \/ Install(p) \/ Erase(p)  BY <4>5, TenantOK
      <4>6. CASE DropKey(p) \/ SweepKey(p)  BY <4>6, DropKeyOK, SweepKeyOK, Zenon
      <4> QED  BY <2>2, <4>1, <4>2, <4>3, <4>4, <4>5, <4>6, Zenon DEF Step
    <3>2. KeysOK'
      BY <2>2, EnsureKeyOK, DropKeyOK, SweepKeyOK, ZenonT(30)
         DEF Step, List, FailTenant, Install, FindKey, Erase, ListKeys, Create, Prune,
             Finish, work, KeysOK, TypeOK
    <3>3. secret' \in [Instances -> {"none", "current", "dead"}]
      BY <2>2, ZenonT(30) DEF Step, List, EnsureKey, FailTenant, Install, FindKey, Erase, DropKey,
             SweepKey, Revoke, ListKeys, Create, Prune, Finish, work, TypeOK
    <3>4. bound' \subseteq Targets
      BY <2>2, WritesOK, ZenonT(30)
         DEF Step, List, EnsureKey, FailTenant, Install, FindKey, Erase, DropKey,
             SweepKey, ListKeys, Finish, work, TypeOK
    <3>5. UNCHANGED <<api, events>>
      BY <2>2
         DEF Step, List, EnsureKey, FailTenant, Install, FindKey, Erase, DropKey,
             SweepKey, ListKeys, Create, Prune, Finish
    <3> QED  BY <3>1, <3>2, <3>3, <3>4, <3>5 DEF TypeOK, api
  <2>3. ASSUME NEW p \in Pods,
               \/ StartPod(p) \/ StopPod(p) \/ Restart(p)
               \/ \E i \in Instances : IntervalElapses(p, i)
        PROVE  TypeOK'
    <3>1. PodsOK'  BY <2>3, PodLifeOK
    <3>2. UNCHANGED <<api, work>> /\ events' \in 0 .. MaxEvents
      BY <2>3 DEF StartPod, StopPod, Restart, IntervalElapses, Event, TypeOK
    <3> QED  BY <3>1, <3>2 DEF TypeOK, KeysOK, api, work
  <2>4. ASSUME \/ \E c \in Clusters : EditCluster(c)
               \/ \E i \in Instances : EditInstance(i)
               \/ EditSettings
        PROVE  TypeOK'
    <3>1. UNCHANGED <<keys, bound, pods, site>> /\ events' \in 0 .. MaxEvents
      BY <2>4 DEF EditCluster, EditInstance, EditSettings, Event, work, TypeOK
    <3>2. /\ settings' \in Settings
          /\ clusters' \in [Clusters -> ClusterStates]
          /\ instances' \in [Instances -> InstanceStates]
          /\ secret' \in [Instances -> {"none", "current", "dead"}]
      BY <2>4 DEF EditCluster, EditInstance, EditSettings, work, TypeOK
    <3> QED  BY <3>1, <3>2 DEF TypeOK, KeysOK, PodsOK
  <2> QED  BY <2>1, <2>2, <2>3, <2>4 DEF Next
<1> QED  BY <1>1, <1>2, PTL DEF Spec

(* Keys of enrolled instances are left alone, for any number of pods at    *)
(* work and over any change of settings, as long as instances have keys of *)
(* different names (reconcile.go:108-125, credentials.go:427-450).         *)
THEOREM KeysKept ==
  ASSUME KeysDistinct
  PROVE  Spec => KeysOutliveEnrollment
<1> DEFINE Kept == \A n \in KeyNames : keys[n] # None /\ keys'[n] # keys[n] =>
       \E p \in Pods : \E pc \in {"drop", "apply"} :
         At(p, pc) /\ pods[p].pass.instances[keys[n]] \notin EnrolledStates
<1>1. TypeOK /\ [Next]_vars => Kept
  <2> SUFFICES ASSUME TypeOK, [Next]_vars,
                      NEW n \in KeyNames, keys[n] # None, keys'[n] # keys[n]
               PROVE  \E p \in Pods : \E pc \in {"drop", "apply"} :
                        At(p, pc) /\ pods[p].pass.instances[keys[n]] \notin EnrolledStates
    OBVIOUS
  <2>1. PodsOK /\ KeysOK /\ keys[n] \in Instances /\ KeyName[keys[n]] = n
    <3>1. PodsOK /\ KeysOK  BY DEF TypeOK
    <3>2. keys[n] \in Instances \cup {None}  BY <3>1, SMTT(20) DEF KeysOK
    <3>3. KeyName[keys[n]] = n  BY <3>1, ZenonT(30) DEF KeysOK
    <3> QED  BY <3>1, <3>2, <3>3
  <2>2. PICK p \in Pods : (\E i \in Instances : EnsureKey(p, i)) \/ DropKey(p) \/ SweepKey(p)
    BY DEF vars, Next, Step, List, FailTenant, Install, FindKey, Erase, ListKeys, Create,
           Prune, Finish, StartPod, StopPod, Restart, IntervalElapses, EditCluster,
           EditInstance, EditSettings, work
  <2>3. CASE \E i \in Instances : EnsureKey(p, i)
    BY <2>1, <2>3 DEF EnsureKey, KeysOK
  <2>4. CASE DropKey(p)
    <3> DEFINE i == pods[p].pass.subject
    <3>1. At(p, "drop") /\ PassOK(pods[p].pass) /\ i \in Instances
      BY <2>1, <2>4, RunningType, SubjectIs DEF DropKey, At
    <3>2. keys' = [keys EXCEPT ![KeyName[i]] = None]
      BY <2>4 DEF DropKey, Revoke
    <3>3. KeyName[i] = n  BY <2>1, <3>2 DEF KeysOK
    <3>4. keys[n] = i  BY <2>1, <3>1, <3>3 DEF KeysDistinct
    <3>5. pods[p].pass.instances[i] = "off"  BY <3>1 DEF PassOK, At
    <3> QED  BY <3>1, <3>4, <3>5
  <2>5. CASE SweepKey(p)
    <3>1. At(p, "apply") /\ PassOK(pods[p].pass)
      BY <2>1, <2>5, RunningType DEF SweepKey, At
    <3>2. PICK k \in pods[p].pass.condemned : keys' = [keys EXCEPT ![k[1]] = None]
      BY <2>5 DEF SweepKey, Revoke
    <3>3. k[1] = n  BY <2>1, <3>2 DEF KeysOK
    <3>4. k[2] \in Instances /\ KeyName[k[2]] = k[1]
          /\ pods[p].pass.instances[k[2]] \notin EnrolledStates
      BY <3>1 DEF PassOK, PassType
    <3>5. keys[n] = k[2]  BY <2>1, <3>3, <3>4 DEF KeysDistinct
    <3> QED  BY <3>1, <3>4, <3>5
  <2> QED  BY <2>2, <2>3, <2>4, <2>5
<1> QED  BY <1>1, TypeCorrect, PTL DEF Spec, KeysOutliveEnrollment

------------------------------------------------------------------------------
(* What ServiceLasts says of the pods, ...                                 *)
Following(t) ==
  \A p \in Pods : pods[p] # None =>
    TakesPart(t, Known(t), pods[p].cfg) /\ Abreast(t, Known(t), pods[p].pass)

(* ... and of what a target has got.                                       *)
Holds(t) ==
  /\ t \in bound => t \in bound'
  /\ t \in Instances =>
       /\ keys[KeyName[t]] = t => keys'[KeyName[t]] = t
       /\ secret[t] = "current" => secret'[t] = "current"

LEMMA NothingTaken ==
  ASSUME NEW t, UNCHANGED work
  PROVE  Holds(t)
BY DEF Holds, work

(* A pod moves on, alone.                                                  *)
LEMMA Follows ==
  ASSUME PodsOK, NEW t \in Targets, Following(t), Known(t)' = Known(t),
         NEW p \in Pods, pods[p] # None,
         NEW synced, NEW pass, Abreast(t, Known(t), pass),
         \/ Goto(p, pass)
         \/ pods' = [pods EXCEPT ![p].synced = synced, ![p].pass = pass]
  PROVE  Following(t)'
<1>1. pods[p] \in Pod  BY DEF PodsOK
<1>2. pods'[p].cfg = pods[p].cfg /\ pods'[p].pass = pass
  BY <1>1 DEF PodsOK, Pod, Goto
<1>3. \A q \in Pods \ {p} : pods'[q] = pods[q]  BY DEF PodsOK, Goto
<1>4. TakesPart(t, Known(t), pods[p].cfg)  BY DEF Following
<1> QED  BY <1>2, <1>3, <1>4 DEF Following

(* What a pod that is at work knows of a target that is steady.            *)
LEMMA AtWork ==
  ASSUME TypeOK, NEW t \in Targets, Following(t), NEW p \in Pods, pods[p] # None,
         pods[p].pass.pc # "idle"
  PROVE  /\ pods[p] \in Pod /\ PassOK(pods[p].pass)
         /\ TakesPart(t, Known(t), pods[p].cfg) /\ Abreast(t, Known(t), pods[p].pass)
         /\ t \in Instances => pods[p].pass.instances[t] \in EnrolledStates
<1>1. pods[p] \in Pod /\ PassOK(pods[p].pass)  BY RunningType DEF TypeOK
<1>2. TakesPart(t, Known(t), pods[p].cfg) /\ Abreast(t, Known(t), pods[p].pass)
  BY DEF Following
<1>3. t \in Instances => pods[p].pass.instances[t] \in EnrolledStates
  BY <1>2 DEF TakesPart, Abreast
<1> QED  BY <1>1, <1>2, <1>3

(* An instance that is settled, or failed, leaves what was seen as it was. *)
LEMMA LeavesAbreast ==
  ASSUME NEW t, NEW state, NEW pass, PassOK(pass), pass.pc # "idle", pass.pc # "apply",
         Abreast(t, state, pass), NEW i \in Instances
  PROVE  Abreast(t, state, Settled(pass, i)) /\ Abreast(t, state, Failed(pass, i))
<1>1. pass.prunes = {}  BY DEF PassOK
<1> QED  BY <1>1 DEF Abreast, Settled, Failed, PassOK, PassType

(* Keys of others are revoked under the eyes of all pods.                  *)
LEMMA RevokesOthers ==
  ASSUME TypeOK, NEW t \in Targets, Following(t), Known(t)' = Known(t),
         NEW p \in Pods, pods[p] # None,
         NEW n \in KeyNames, t \in Instances => KeyName[t] # n,
         NEW synced, NEW pass, Abreast(t, Known(t), pass),
         Revoke(p, n, synced, pass), UNCHANGED bound
  PROVE  Following(t)' /\ Holds(t)
<1>1. PodsOK /\ KeysOK  BY DEF TypeOK
<1>2. pods[p] \in Pod  BY <1>1 DEF PodsOK
<1>3. pods'[p].cfg = pods[p].cfg /\ pods'[p].pass = pass
  BY <1>2 DEF Pod, Revoke
<1>4. TakesPart(t, Known(t), pods[p].cfg)  BY DEF Following
<1>5. ASSUME NEW q \in Pods \ {p}, pods'[q] # None
      PROVE  TakesPart(t, Known(t), pods'[q].cfg) /\ Abreast(t, Known(t), pods'[q].pass)
  <2>1. CASE pods'[q] = pods[q]  BY <1>5, <2>1 DEF Following
  <2>2. CASE /\ At(q, "install") /\ KeyName[pods[q].pass.subject] = n
             /\ pods'[q] = [pods[q] EXCEPT !.pass.held = "dead"]
    <3>1. pods[q] \in Pod /\ PassOK(pods[q].pass) /\ pods[q].pass \in PassType
      BY <1>1, <2>2, RunningType DEF At
    <3>2. pods[q].pass.subject \in Instances  BY <1>1, <2>2, SubjectIs
    <3>3. pods[q].pass.subject # t  BY <2>2, <3>2
    <3>4. /\ pods'[q].cfg = pods[q].cfg
          /\ pods'[q].pass = [pods[q].pass EXCEPT !.held = "dead"]
      BY <2>2, <3>1 DEF Pod
    <3>5. TakesPart(t, Known(t), pods[q].cfg) /\ Abreast(t, Known(t), pods[q].pass)
      BY <2>2 DEF Following, At
    <3>6. Abreast(t, Known(t), [pods[q].pass EXCEPT !.held = "dead"])
      BY <3>1, <3>3, <3>5 DEF Abreast, PassType
    <3> QED  BY <3>4, <3>5, <3>6
  <2> QED  BY <2>1, <2>2 DEF Revoke
<1>6. Following(t)'  BY <1>3, <1>4, <1>5 DEF Following
<1>7. Holds(t)
  <2>1. t \in Instances /\ keys[KeyName[t]] = t => keys'[KeyName[t]] = t
    BY <1>1 DEF Revoke, KeysOK, KeyNames
  <2>2. t \in Instances /\ secret[t] = "current" => secret'[t] = "current"
    BY DEF Revoke
  <2> QED  BY <2>1, <2>2 DEF Holds
<1> QED  BY <1>6, <1>7

LEMMA ListFollows ==
  ASSUME TypeOK, NEW t \in Targets, Following(t), Known(t)' = Known(t), NEW p \in Pods, List(p)
  PROVE  Following(t)' /\ Holds(t)
<1> DEFINE cfg  == pods[p].cfg
           seen == IF cfg.instances THEN instances ELSE [i \in Instances |-> "absent"]
           pass == [Idle EXCEPT
             !.pc = "settle", !.clusters = clusters, !.instances = seen,
             !.existing = bound \cap Listed(cfg),
             !.unsettled = {i \in Instances : cfg.credentials /\ seen[i] \in {"awake", "off"}}]
<1>1. pods[p] # None /\ Goto(p, pass) /\ UNCHANGED work  BY DEF List, At
<1>2. pass.pc = "settle" /\ pass.clusters = clusters /\ pass.instances = seen /\ pass.prunes = {}
  BY DEF Idle
<1>3. TakesPart(t, Known(t), cfg)  BY <1>1 DEF Following
<1>4. t \notin Clusters => seen[t] = instances[t]  BY <1>3 DEF TakesPart
<1>5. Abreast(t, Known(t), pass)
  <2> HIDE DEF pass, seen
  <2> QED  BY <1>2, <1>4 DEF Abreast, Known
<1> HIDE DEF pass
<1> QED  BY <1>1, <1>5, Follows, NothingTaken DEF TypeOK

LEMMA EnsureFollows ==
  ASSUME TypeOK, NEW t \in Targets, Following(t), Known(t)' = Known(t), NEW p \in Pods,
         NEW i \in Instances, EnsureKey(p, i)
  PROVE  Following(t)' /\ Holds(t)
<1>1. PodsOK /\ KeysOK  BY DEF TypeOK
<1>2. pods[p] # None /\ pods[p].pass.pc = "settle"  BY DEF EnsureKey, At
<1>3. /\ pods[p] \in Pod /\ PassOK(pods[p].pass) /\ pods[p].pass \in PassType
      /\ Abreast(t, Known(t), pods[p].pass)
  BY <1>2, AtWork DEF PassOK
<1>4. /\ Abreast(t, Known(t), Settled(pods[p].pass, i))
      /\ Abreast(t, Known(t), Failed(pods[p].pass, i))
  BY <1>2, <1>3, LeavesAbreast
<1>5. Abreast(t, Known(t), [pods[p].pass EXCEPT !.pc = "install", !.subject = i, !.held = "live"])
  BY <1>2, <1>3 DEF Abreast, PassType
<1>6. CASE keys[KeyName[i]] \notin {None, i}
  <2>1. Goto(p, Failed(pods[p].pass, i)) /\ UNCHANGED work
    BY <1>6 DEF EnsureKey, work
  <2> QED  BY <1>1, <1>2, <1>4, <2>1, Follows, NothingTaken
<1>7. CASE keys[KeyName[i]] \in {None, i}
  <2> DEFINE synced == IF keys[KeyName[i]] = None THEN pods[p].synced \ {i} ELSE pods[p].synced
             pass == IF i \in synced /\ pods[p].cfg.syncEvery > 0 THEN Settled(pods[p].pass, i)
                     ELSE [pods[p].pass EXCEPT !.pc = "install", !.subject = i, !.held = "live"]
  <2>1. keys' = [keys EXCEPT ![KeyName[i]] = i] /\ UNCHANGED <<secret, bound>>
    BY <1>7 DEF EnsureKey
  <2>2. pods' = [pods EXCEPT ![p].synced = synced, ![p].pass = pass]
    BY <1>7 DEF EnsureKey
  <2>3. Abreast(t, Known(t), pass)  BY <1>4, <1>5
  <2>4. Holds(t)
    <3>1. t \in Instances /\ keys[KeyName[t]] = t => keys'[KeyName[t]] = t
      BY <1>1, <1>7, <2>1 DEF KeysOK, KeyNames
    <3> QED  BY <2>1, <3>1 DEF Holds
  <2> HIDE DEF synced, pass
  <2>5. Following(t)'  BY <1>1, <1>2, <2>2, <2>3, Follows
  <2> QED  BY <2>4, <2>5
<1> QED  BY <1>6, <1>7

LEMMA TenantFollows ==
  ASSUME TypeOK, NEW t \in Targets, Following(t), Known(t)' = Known(t), NEW p \in Pods,
         FailTenant(p) \/ Install(p) \/ Erase(p)
  PROVE  Following(t)' /\ Holds(t)
<1>0. PICK i : i = pods[p].pass.subject  OBVIOUS
<1>1. PodsOK  BY DEF TypeOK
<1>2. pods[p] # None /\ pods[p].pass.pc \in {"install", "erase"} /\ i \in Instances
  BY <1>0, <1>1, SubjectIs DEF FailTenant, Install, Erase, At
<1>3. /\ pods[p] \in Pod /\ PassOK(pods[p].pass) /\ pods[p].pass \in PassType
      /\ Abreast(t, Known(t), pods[p].pass)
      /\ t \in Instances => pods[p].pass.instances[t] \in EnrolledStates
  BY <1>2, AtWork DEF PassOK
<1>4. /\ Abreast(t, Known(t), Settled(pods[p].pass, i))
      /\ Abreast(t, Known(t), Failed(pods[p].pass, i))
  BY <1>2, <1>3, LeavesAbreast
<1>5. CASE FailTenant(p)
  <2>1. Goto(p, Failed(pods[p].pass, i)) /\ UNCHANGED work  BY <1>0, <1>5 DEF FailTenant
  <2> QED  BY <1>1, <1>2, <1>4, <2>1, Follows, NothingTaken
<1>6. CASE Install(p)
  <2>1. /\ secret' = [secret EXCEPT ![i] =
                         IF pods[p].pass.held = "live" THEN "current" ELSE "dead"]
        /\ pods' = [pods EXCEPT ![p].synced = pods[p].synced \cup {i},
                                ![p].pass = Settled(pods[p].pass, i)]
        /\ UNCHANGED <<keys, bound>>
    BY <1>0, <1>6 DEF Install
  <2>2. i = t => pods[p].pass.held = "live"
    BY <1>0, <1>3, <1>6 DEF Abreast, Install, At
  <2>3. Holds(t)  BY <1>2, <2>1, <2>2 DEF Holds, TypeOK
  <2>4. Following(t)'  BY <1>1, <1>2, <1>4, <2>1, Follows
  <2> QED  BY <2>3, <2>4
<1>7. CASE Erase(p)
  <2>1. /\ secret' = [secret EXCEPT ![i] = "none"] /\ UNCHANGED <<keys, bound>>
        /\ Goto(p, [pods[p].pass EXCEPT !.pc = "drop"])
        /\ pods[p].pass.pc = "erase"
    BY <1>0, <1>7 DEF Erase, At
  <2>2. i # t  BY <1>0, <1>2, <1>3, <2>1 DEF PassOK
  <2>3. Holds(t)  BY <1>2, <2>1, <2>2 DEF Holds, TypeOK
  <2>4. Abreast(t, Known(t), [pods[p].pass EXCEPT !.pc = "drop"])
    BY <1>2, <1>3 DEF Abreast, PassType
  <2>5. Following(t)'  BY <1>1, <1>2, <2>1, <2>4, Follows
  <2> QED  BY <2>3, <2>5
<1> QED  BY <1>5, <1>6, <1>7

LEMMA FindFollows ==
  ASSUME TypeOK, NEW t \in Targets, Following(t), Known(t)' = Known(t), NEW p \in Pods,
         NEW i \in Instances, FindKey(p, i)
  PROVE  Following(t)' /\ Holds(t)
<1>1. pods[p] # None /\ pods[p].pass.pc = "settle" /\ UNCHANGED work
  BY DEF FindKey, At
<1>2. /\ PassOK(pods[p].pass) /\ pods[p].pass \in PassType
      /\ Abreast(t, Known(t), pods[p].pass)
  BY <1>1, AtWork DEF PassOK
<1>3. Abreast(t, Known(t), Settled(pods[p].pass, i))  BY <1>1, <1>2, LeavesAbreast
<1>4. Abreast(t, Known(t), [pods[p].pass EXCEPT !.pc = "erase", !.subject = i])
  BY <1>1, <1>2 DEF Abreast, PassType
<1>5. PICK pass : Goto(p, pass) /\ Abreast(t, Known(t), pass)
  BY <1>3, <1>4 DEF FindKey
<1> QED  BY <1>1, <1>5, Follows, NothingTaken DEF TypeOK

LEMMA DropFollows ==
  ASSUME KeysDistinct, TypeOK, NEW t \in Targets, Following(t), Known(t)' = Known(t),
         NEW p \in Pods, DropKey(p)
  PROVE  Following(t)' /\ Holds(t)
<1>0. PICK i : i = pods[p].pass.subject  OBVIOUS
<1>1. pods[p] # None /\ pods[p].pass.pc = "drop" /\ i \in Instances
  BY <1>0, SubjectIs DEF DropKey, At, TypeOK
<1>2. /\ PassOK(pods[p].pass) /\ Abreast(t, Known(t), pods[p].pass)
      /\ t \in Instances => pods[p].pass.instances[t] \in EnrolledStates
  BY <1>1, AtWork
<1>3. i # t  BY <1>0, <1>1, <1>2 DEF PassOK
<1>4. KeyName[i] \in KeyNames /\ (t \in Instances => KeyName[t] # KeyName[i])
  BY <1>1, <1>3 DEF KeyNames, KeysDistinct
<1>5. Abreast(t, Known(t), Settled(pods[p].pass, i))  BY <1>1, <1>2, LeavesAbreast
<1>6. /\ Revoke(p, KeyName[i], pods[p].synced \ {i}, Settled(pods[p].pass, i))
      /\ UNCHANGED bound
  BY <1>0 DEF DropKey
<1> QED  BY <1>1, <1>4, <1>5, <1>6, RevokesOthers

LEMMA SweepFollows ==
  ASSUME KeysDistinct, TypeOK, NEW t \in Targets, Following(t), Known(t)' = Known(t),
         NEW p \in Pods, SweepKey(p)
  PROVE  Following(t)' /\ Holds(t)
<1>1. pods[p] # None /\ pods[p].pass.pc = "apply" /\ UNCHANGED bound
  BY DEF SweepKey, At
<1>2. /\ PassOK(pods[p].pass) /\ pods[p].pass \in PassType
      /\ Abreast(t, Known(t), pods[p].pass)
      /\ t \in Instances => pods[p].pass.instances[t] \in EnrolledStates
  BY <1>1, AtWork DEF PassOK
<1>3. PICK k \in pods[p].pass.condemned :
        Revoke(p, k[1], pods[p].synced \ {k[2]},
               [pods[p].pass EXCEPT !.condemned = @ \ {k}])
  BY DEF SweepKey
<1>4. /\ k[1] \in KeyNames /\ k[2] \in Instances /\ KeyName[k[2]] = k[1]
      /\ pods[p].pass.instances[k[2]] \notin EnrolledStates
  BY <1>2 DEF PassOK, PassType
<1>5. t \in Instances => KeyName[t] # k[1]  BY <1>2, <1>4 DEF KeysDistinct
<1>6. Abreast(t, Known(t), [pods[p].pass EXCEPT !.condemned = @ \ {k}])
  BY <1>1, <1>2 DEF Abreast, PassType
<1> QED  BY <1>1, <1>3, <1>4, <1>5, <1>6, RevokesOthers

(* What takes part is wanted or protected.                                 *)
LEMMA ListKeysFollows ==
  ASSUME TypeOK, NEW t \in Targets, Following(t), Known(t)' = Known(t), NEW p \in Pods,
         ListKeys(p)
  PROVE  Following(t)' /\ Holds(t)
<1> DEFINE old    == pods[p].pass
           cfg    == pods[p].cfg
           wanted == Wanted(old, cfg)
           condemned == {<<n, keys[n]>> : n \in {m \in KeyNames :
                /\ cfg.credentials
                /\ keys[m] # None
                /\ keys[m] \notin CredentialDesired(old)}}
           new == [old EXCEPT
             !.pc = "apply", !.existing = {}, !.failed = {}, !.condemned = condemned,
             !.creates = wanted \ old.existing,
             !.prunes = old.existing \ (wanted \cup Protected(old))]
<1>1. pods[p] # None /\ old.pc = "settle" /\ UNCHANGED work  BY DEF ListKeys, At
<1>2. /\ old \in PassType /\ Abreast(t, Known(t), old) /\ TakesPart(t, Known(t), cfg)
  BY <1>1, AtWork DEF PassOK
<1>3. Known(t) = (IF t \in Clusters THEN old.clusters[t] ELSE old.instances[t])
  BY <1>1, <1>2 DEF Abreast
<1>4. t \in wanted \cup Protected(old)
  BY <1>2, <1>3 DEF TakesPart, Wanted, Protected
<1>5. Abreast(t, Known(t), new)
  <2>1. /\ new.pc = "apply" /\ new.clusters = old.clusters /\ new.instances = old.instances
        /\ new.prunes = old.existing \ (wanted \cup Protected(old))
    BY <1>2 DEF PassType
  <2> HIDE DEF new, old, wanted
  <2> QED  BY <1>3, <1>4, <2>1 DEF Abreast
<1>6. Goto(p, new)  BY DEF ListKeys
<1> HIDE DEF new
<1> QED  BY <1>1, <1>5, <1>6, Follows, NothingTaken DEF TypeOK

LEMMA WritesFollow ==
  ASSUME TypeOK, NEW t \in Targets, Following(t), Known(t)' = Known(t), NEW p \in Pods,
         (\E u \in Targets : Create(p, u) \/ Prune(p, u)) \/ Finish(p)
  PROVE  Following(t)' /\ Holds(t)
<1>1. pods[p] # None /\ pods[p].pass.pc = "apply"  BY DEF Create, Prune, Finish, At
<1>2. pods[p].pass \in PassType /\ Abreast(t, Known(t), pods[p].pass)
  BY <1>1, AtWork DEF PassOK
<1>3. \A u : /\ Abreast(t, Known(t), [pods[p].pass EXCEPT !.creates = @ \ {u}])
             /\ Abreast(t, Known(t), [pods[p].pass EXCEPT !.prunes = @ \ {u}])
  BY <1>1, <1>2 DEF Abreast, PassType
<1>4. Abreast(t, Known(t), Idle)  BY DEF Abreast, Idle
<1>5. PICK pass : Goto(p, pass) /\ Abreast(t, Known(t), pass)
  BY <1>3, <1>4 DEF Create, Prune, Finish
<1>6. Following(t)'  BY <1>1, <1>5, Follows DEF TypeOK
<1>7. t \notin pods[p].pass.prunes  BY <1>1, <1>2 DEF Abreast
<1>8. Holds(t)  BY <1>7 DEF Create, Prune, Finish, Holds, work
<1> QED  BY <1>6, <1>8

(* Pods that start have settings for which the target takes part.          *)
LEMMA LifeFollows ==
  ASSUME TypeOK, NEW t \in Targets, Steady(t), Known(t)' = Known(t), NEW p \in Pods,
         \/ StartPod(p) \/ StopPod(p) \/ Restart(p)
         \/ \E i \in Instances : IntervalElapses(p, i)
  PROVE  Following(t)' /\ Holds(t)
<1>1. PodsOK /\ Following(t) /\ UNCHANGED work
  BY DEF TypeOK, Steady, Following, StartPod, StopPod, Restart, IntervalElapses
<1>2. \A cfg : Abreast(t, Known(t), Started(cfg).pass)
  BY DEF Started, Idle, Abreast
<1>3. CASE StartPod(p)
  <2>1. TakesPart(t, Known(t), buildConfig(settings))
    BY <1>3 DEF StartPod, Steady, Config
  <2>2. pods' = [pods EXCEPT ![p] = Started(buildConfig(settings))]  BY <1>3 DEF StartPod
  <2>3. Started(buildConfig(settings)).cfg = buildConfig(settings)  BY DEF Started
  <2> QED  BY <1>1, <1>2, <2>1, <2>2, <2>3, NothingTaken DEF PodsOK, Following
<1>4. CASE StopPod(p)
  BY <1>1, <1>4, NothingTaken DEF PodsOK, Following, StopPod
<1>5. CASE Restart(p)
  <2>1. pods' = [pods EXCEPT ![p] = Started(pods[p].cfg)] /\ pods[p] # None
    BY <1>5 DEF Restart
  <2>2. Started(pods[p].cfg).cfg = pods[p].cfg  BY DEF Started
  <2>3. TakesPart(t, Known(t), pods[p].cfg)  BY <1>1, <2>1 DEF Following
  <2> QED  BY <1>1, <1>2, <2>1, <2>2, <2>3, NothingTaken DEF PodsOK, Following
<1>6. ASSUME NEW i \in Instances, IntervalElapses(p, i)
      PROVE  Following(t)' /\ Holds(t)
  <2>1. pods[p] # None /\ pods[p] \in Pod  BY <1>1, <1>6 DEF IntervalElapses, PodsOK
  <2>2. pods' = [pods EXCEPT ![p].synced = pods[p].synced \ {i}]
    BY <1>6 DEF IntervalElapses
  <2>3. pods'[p].cfg = pods[p].cfg /\ pods'[p].pass = pods[p].pass
    BY <1>1, <2>1, <2>2 DEF PodsOK, Pod
  <2>4. \A q \in Pods \ {p} : pods'[q] = pods[q]  BY <1>1, <2>2 DEF PodsOK
  <2>5. Following(t)'  BY <1>1, <2>1, <2>3, <2>4 DEF Following
  <2> QED  BY <1>1, <2>5, NothingTaken
<1> QED  BY <1>3, <1>4, <1>5, <1>6

(* Edits of other targets and of the settings reach no pod.                *)
LEMMA EditsFollow ==
  ASSUME TypeOK, NEW t \in Targets, Following(t), Known(t)' = Known(t),
         \/ \E c \in Clusters : EditCluster(c)
         \/ \E i \in Instances : EditInstance(i)
         \/ EditSettings
         \/ UNCHANGED vars
  PROVE  Following(t)' /\ Holds(t)
<1>1. UNCHANGED <<pods, keys, bound>>
  BY DEF EditCluster, EditInstance, EditSettings, vars, work
<1>2. Following(t)'  BY <1>1 DEF Following
<1>3. t \in Instances => secret'[t] = secret[t]
  <2>1. CASE UNCHANGED secret  BY <2>1
  <2>2. ASSUME NEW i \in Instances, EditInstance(i)
        PROVE  t \in Instances => secret'[t] = secret[t]
    <3>1. instances'[i] # instances[i]  BY <2>2 DEF EditInstance, TypeOK
    <3>2. t \in Instances => t # i  BY <3>1 DEF Known
    <3> QED  BY <2>2, <3>2 DEF EditInstance, TypeOK
  <2> QED  BY <2>1, <2>2 DEF EditCluster, EditSettings, vars, work
<1> QED  BY <1>1, <1>2, <1>3 DEF Holds

(* What a target has got stays with it while it takes part for all pods,   *)
(* whatever settings they run with, whichever of them start, stop or       *)
(* restart, and whatever fails (reconcile.go:65-158), as long as instances *)
(* have keys of different names.                                           *)
THEOREM ServiceStays ==
  ASSUME KeysDistinct
  PROVE  Spec => ServiceLasts
<1> DEFINE Stays ==
      \A t \in Targets :
       /\ Steady(t)
       /\ Known(t)' = Known(t)
       /\ Readable(settings') => TakesPart(t, Known(t), Config)'
       => /\ Steady(t)'
          /\ t \in bound => t \in bound'
          /\ t \in Instances =>
               /\ keys[KeyName[t]] = t => keys'[KeyName[t]] = t
               /\ secret[t] = "current" => secret'[t] = "current"
<1>1. TypeOK /\ [Next]_vars => Stays
  <2> SUFFICES ASSUME TypeOK, [Next]_vars, NEW t \in Targets, Steady(t),
                      Known(t)' = Known(t),
                      Readable(settings') => TakesPart(t, Known(t), Config)'
               PROVE  Steady(t)' /\ Holds(t)
    BY DEF Holds
  <2>1. Following(t)  BY DEF Steady, Following
  <2>2. Following(t)' /\ Holds(t)
    <3>1. ASSUME NEW p \in Pods, Step(p)  PROVE Following(t)' /\ Holds(t)
      BY <2>1, <3>1, ListFollows, EnsureFollows, TenantFollows, FindFollows, DropFollows,
         ListKeysFollows, SweepFollows, WritesFollow DEF Step
    <3>2. ASSUME NEW p \in Pods,
                 \/ StartPod(p) \/ StopPod(p) \/ Restart(p)
                 \/ \E i \in Instances : IntervalElapses(p, i)
          PROVE  Following(t)' /\ Holds(t)
      BY <3>2, LifeFollows
    <3>3. ASSUME \/ \E c \in Clusters : EditCluster(c)
                 \/ \E i \in Instances : EditInstance(i)
                 \/ EditSettings
                 \/ UNCHANGED vars
          PROVE  Following(t)' /\ Holds(t)
      BY <2>1, <3>3, EditsFollow
    <3> QED  BY <3>1, <3>2, <3>3 DEF Next
  <2> QED  BY <2>2 DEF Steady, Following
<1> QED  BY <1>1, TypeCorrect, PTL DEF Spec, ServiceLasts
==============================================================================
