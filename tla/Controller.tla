------------------------------ MODULE Controller ------------------------------
(***************************************************************************)
(* The controller over the life of its pods: the settings it is deployed   *)
(* with (config.go, main.go), its passes over all targets (reconcile.go),  *)
(* and what is left of one pass, one pod or one deployment for the next.   *)
(* Some tenants and some bindings are refused for good; the others are not *)
(* to suffer from it.                                                      *)
(*                                                                         *)
(* A target has one binding here, Reconcile has their dependencies; the    *)
(* credential of an instance takes two steps, WriterCredential has each    *)
(* request.  A change of the settings is rolled out: the Deployment states *)
(* no strategy, so the new pod starts before the old one is stopped        *)
(* (bindings/templates/controller-deployment.yaml).                        *)
(***************************************************************************)
EXTENDS Integers, FiniteSets

CONSTANTS
  None,           \* no object, no pod, no owner
  Clusters,       \* names of Cluster objects
  Instances,      \* VirtualClusterInstances
  KeyName,        \* instance -> the name of its writer AccessKey
  ClusterStates,  \* [labels, argoCD] a Cluster may have
  InstanceStates, \* what an instance may be
  DefaultSelector,\* labels a Cluster must have if nothing else is said
  Settings,       \* what the Deployment may be set to
  Sites,          \* [tenants, creates, local]: whose tenant and whose creation
                  \* is refused for good, who is in the controller's namespace
  Pods,           \* the pods there may be, one more than replicaCount
  replicaCount,
  MaxEvents       \* bound: edits of targets and settings, restarts of pods

Targets == Clusters \cup Instances
KeyNames == {KeyName[i] : i \in Instances}

(* An instance is not rendered yet (or not parsed), runs, sleeps, has opted *)
(* out or is not there.                                                     *)
AllInstanceStates == {"pending", "awake", "asleep", "off", "absent"}
EnrolledStates == {"pending", "awake", "asleep"}

ASSUME ControllerAssumption ==
  /\ Clusters \cap Instances = {}
  /\ \A s \in Sites : s.local \subseteq Instances
  /\ None \notin Instances
  /\ InstanceStates \subseteq AllInstanceStates
  /\ \A i \in Instances : KeyName[i] # None
  /\ replicaCount \in Nat /\ MaxEvents \in Nat
ASSUME NoneAssumption ==
  /\ None \notin [Clusters -> ClusterStates]
  /\ None \notin [Instances -> AllInstanceStates]
(* Two instances may have keys of one name (Naming has how that happens).  *)
KeysDistinct == \A i, j \in Instances : KeyName[i] = KeyName[j] => i = j

VARIABLES
  settings,  \* what the Deployment is set to now
  clusters,  \* API: the labels of each Cluster and whether it has Argo CD
  instances, \* API: the state of each instance
  keys,      \* API: the instance whose writer key has the name, or None
  secret,    \* tenant: the Secret of each instance: "none", "current", "dead"
  bound,     \* API: the targets that have their binding
  site,      \* which of the Sites it is
  pods,      \* each pod's configuration, memory and pass, or None
  events     \* how much of that bound is used

api == <<settings, clusters, instances, site>>
work == <<keys, secret, bound>>
vars == <<api, work, pods, events>>

------------------------------------------------------------------------------
(* From the settings to a configuration. *)

(* A text is [form, ...]: "unset", "blank" (white space), "malformed", or  *)
(* what it says.                                                           *)
getBoolEnv(text) == text = "true"

Units == [s |-> 1, m |-> 60, h |-> 3600]

(* Seconds.  A blank text is not an unset one, which has its own fallback. *)
parseDuration(text, fallback) ==
  CASE text.form = "unset" -> fallback
    [] text.form = "blank" -> 30
    [] text.form = "number" -> text.amount * Units[text.unit]

(* JSON decoded into a map adds to what is in it; null empties it.         *)
loadJSON(text) ==
  CASE text.form = "unset" -> DefaultSelector
    [] text.form = "null" -> [l \in {} |-> ""]
    [] text.form = "labels" ->
         [l \in DOMAIN text.labels \cup DOMAIN DefaultSelector |->
            IF l \in DOMAIN text.labels THEN text.labels[l] ELSE DefaultSelector[l]]

Readable(e) ==
  /\ "malformed" \notin {e.instances, e.credentials, e.insecure,
                         e.interval.form, e.syncInterval.form, e.selector.form}
  /\ getBoolEnv(e.credentials) => getBoolEnv(e.instances) /\ e.platformURL

buildConfig(e) ==
  [instances   |-> getBoolEnv(e.instances),
   credentials |-> getBoolEnv(e.credentials),
   syncEvery   |-> parseDuration(e.syncInterval, 600),
   selector    |-> loadJSON(e.selector)]

(* A label that an object does not have reads as the empty string.         *)
matchesSelector(labels, selector) ==
  \A l \in DOMAIN selector :
    (IF l \in DOMAIN labels THEN labels[l] ELSE "") = selector[l]

------------------------------------------------------------------------------
(* A pass. *)

Idle ==
  [pc |-> "idle", clusters |-> None, instances |-> None, existing |-> {},
   unsettled |-> {}, failed |-> {}, subject |-> None, held |-> "none",
   condemned |-> {}, creates |-> {}, prunes |-> {}]

(* A pod that starts remembers no sync.                                    *)
Started(cfg) == [cfg |-> cfg, synced |-> {}, pass |-> Idle]

At(p, pc) == pods[p] # None /\ pods[p].pass.pc = pc
Goto(p, pass) == pods' = [pods EXCEPT ![p].pass = pass]

(* A bug, for the sensitivity of EventuallyRemoved: instances on or off, one namespace. *)
ListedHere(cfg) == Clusters \cup site.local

(* Whose bindings a pass lists.                                            *)
Listed(cfg) == Clusters \cup (IF cfg.instances THEN Instances ELSE site.local)

(* The lists; Reconcile takes them apart.  Only instances that are awake or*)
(* opted out have something to settle, once credentials are enabled.       *)
List(p) ==
  /\ At(p, "idle")
  /\ LET cfg  == pods[p].cfg
         seen == IF cfg.instances THEN instances ELSE [i \in Instances |-> "absent"]
     IN  Goto(p, [Idle EXCEPT
           !.pc = "settle", !.clusters = clusters, !.instances = seen,
           !.existing = bound \cap Listed(cfg),
           !.unsettled = {i \in Instances : cfg.credentials /\ seen[i] \in {"awake", "off"}}])
  /\ UNCHANGED <<api, work, events>>

Settled(pass, i) ==
  [pass EXCEPT !.pc = "settle", !.unsettled = @ \ {i}, !.subject = None, !.held = "none"]

(* A bug, for the sensitivity of CreationsReachOthers: the error is returned. *)
FailedForAll(pass, i) == Idle

(* The error of one instance is logged; its bindings are preserved.        *)
Failed(pass, i) == [Settled(pass, i) EXCEPT !.failed = @ \cup {i}]

(* The writer key of a running instance is found or made.  One of another  *)
(* instance is an error; a Secret synced lately is left alone.             *)
EnsureKey(p, i) ==
  /\ At(p, "settle")
  /\ i \in pods[p].pass.unsettled
  /\ pods[p].pass.instances[i] = "awake"
  /\ LET n      == KeyName[i]
         synced == IF keys[n] = None THEN pods[p].synced \ {i} ELSE pods[p].synced
     IN  IF keys[n] \notin {None, i}
         THEN Goto(p, Failed(pods[p].pass, i)) /\ UNCHANGED keys
         ELSE /\ keys' = [keys EXCEPT ![n] = i]
              /\ pods' = [pods EXCEPT
                   ![p].synced = synced,
                   ![p].pass = IF i \in synced /\ pods[p].cfg.syncEvery > 0
                               THEN Settled(@, i)
                               ELSE [@ EXCEPT !.pc = "install", !.subject = i, !.held = "live"]]
  /\ UNCHANGED <<api, secret, bound, events>>

(* A tenant request fails if the tenant does not answer or refuses, and it *)
(* may if another pod works on the same tenant: the two share the name of  *)
(* their installer key and delete it after use.                            *)
Answers(i) == instances[i] \in {"awake", "off"} /\ i \notin site.tenants
MayFail(p, i) ==
  \/ ~Answers(i)
  \/ \E q \in Pods \ {p} : \E pc \in {"install", "erase"} :
       At(q, pc) /\ pods[q].pass.subject = i

FailTenant(p) ==
  /\ At(p, "install") \/ At(p, "erase")
  /\ MayFail(p, pods[p].pass.subject)
  /\ Goto(p, Failed(pods[p].pass, pods[p].pass.subject))
  /\ UNCHANGED <<api, work, events>>

(* The token of the key the pod holds goes into the Secret.                *)
Install(p) ==
  /\ At(p, "install")
  /\ LET i == pods[p].pass.subject
     IN  /\ Answers(i)
         /\ secret' = [secret EXCEPT ![i] =
                         IF pods[p].pass.held = "live" THEN "current" ELSE "dead"]
         /\ pods' = [pods EXCEPT ![p].synced = @ \cup {i},
                                 ![p].pass = Settled(@, i)]
  /\ UNCHANGED <<api, keys, bound, events>>

(* An instance that opted out loses its Secret, then its key; without a key*)
(* there is nothing to do.                                                 *)
FindKey(p, i) ==
  /\ At(p, "settle")
  /\ i \in pods[p].pass.unsettled
  /\ pods[p].pass.instances[i] = "off"
  /\ Goto(p, IF keys[KeyName[i]] = None THEN Settled(pods[p].pass, i)
             ELSE [pods[p].pass EXCEPT !.pc = "erase", !.subject = i])
  /\ UNCHANGED <<api, work, events>>

Erase(p) ==
  /\ At(p, "erase")
  /\ LET i == pods[p].pass.subject
     IN  Answers(i) /\ secret' = [secret EXCEPT ![i] = "none"]
  /\ Goto(p, [pods[p].pass EXCEPT !.pc = "drop"])
  /\ UNCHANGED <<api, keys, bound, events>>

(* The key of that name is deleted by p, whose pass goes on: the token is  *)
(* dead wherever it is, in a tenant's Secret or in the hands of a pod.     *)
Revoke(p, n, synced, pass) ==
  /\ keys' = [keys EXCEPT ![n] = None]
  /\ secret' = [i \in Instances |-> IF KeyName[i] = n /\ secret[i] = "current"
                                    THEN "dead" ELSE secret[i]]
  /\ pods' = [q \in Pods |->
       IF q = p THEN [pods[p] EXCEPT !.synced = synced, !.pass = pass]
       ELSE IF At(q, "install") /\ KeyName[pods[q].pass.subject] = n
       THEN [pods[q] EXCEPT !.pass.held = "dead"]
       ELSE pods[q]]

DropKey(p) ==
  /\ At(p, "drop")
  /\ LET i == pods[p].pass.subject
     IN  Revoke(p, KeyName[i], pods[p].synced \ {i}, Settled(pods[p].pass, i))
  /\ UNCHANGED <<api, bound, events>>

(* A bug, for the sensitivity of KeysOutliveEnrollment: an error withdraws the key. *)
CredentialDesiredSettled(pass) ==
  {i \in Instances : pass.instances[i] \in EnrolledStates} \ pass.failed

(* The instances whose keys stay: all that are enrolled, and those that    *)
(* opted out but whose Secret could not be removed.                        *)
CredentialDesired(pass) ==
  {i \in Instances : pass.instances[i] \in EnrolledStates} \cup pass.failed

Wanted(pass, cfg) ==
  {c \in Clusters : /\ pass.clusters[c].argoCD
                    /\ matchesSelector(pass.clusters[c].labels, cfg.selector)}
  \cup {i \in Instances \ pass.failed : pass.instances[i] \in {"awake", "asleep"}}

Protected(pass) == {i \in Instances : pass.instances[i] = "pending"} \cup pass.failed

(* The keys are listed; what the pass is to write and to prune is settled. *)
ListKeys(p) ==
  /\ At(p, "settle")
  /\ pods[p].pass.unsettled = {}
  /\ LET pass   == pods[p].pass
         cfg    == pods[p].cfg
         wanted == Wanted(pass, cfg)
     IN  Goto(p, [pass EXCEPT
           !.pc = "apply", !.existing = {}, !.failed = {},
           !.condemned = {<<n, keys[n]>> : n \in {m \in KeyNames :
                /\ cfg.credentials
                /\ keys[m] # None
                /\ keys[m] \notin CredentialDesired(pass)}},
           !.creates = wanted \ pass.existing,
           !.prunes = pass.existing \ (wanted \cup Protected(pass))])
  /\ UNCHANGED <<api, work, events>>

SweepKey(p) ==
  /\ At(p, "apply")
  /\ \E k \in pods[p].pass.condemned :
       Revoke(p, k[1], pods[p].synced \ {k[2]},
              [pods[p].pass EXCEPT !.condemned = @ \ {k}])
  /\ UNCHANGED <<api, bound, events>>

(* A refused create ends the pass, and so does a name that is taken by now.*)
(* The order is that of a Go map: any, and another one each time.          *)
Create(p, t) ==
  /\ At(p, "apply")
  /\ pods[p].pass.condemned = {}
  /\ t \in pods[p].pass.creates
  /\ IF t \in site.creates \cup bound
     THEN Goto(p, Idle) /\ UNCHANGED bound
     ELSE /\ bound' = bound \cup {t}
          /\ Goto(p, [pods[p].pass EXCEPT !.creates = @ \ {t}])
  /\ UNCHANGED <<api, keys, secret, events>>

Prune(p, t) ==
  /\ At(p, "apply")
  /\ pods[p].pass.condemned = {} /\ pods[p].pass.creates = {}
  /\ t \in pods[p].pass.prunes
  /\ bound' = bound \ {t}
  /\ Goto(p, [pods[p].pass EXCEPT !.prunes = @ \ {t}])
  /\ UNCHANGED <<api, keys, secret, events>>

Finish(p) ==
  /\ At(p, "apply")
  /\ pods[p].pass.condemned = {}
  /\ pods[p].pass.creates = {} /\ pods[p].pass.prunes = {}
  /\ Goto(p, Idle)
  /\ UNCHANGED <<api, work, events>>

Step(p) ==
  \/ List(p)
  \/ \E i \in Instances : EnsureKey(p, i) \/ FindKey(p, i)
  \/ FailTenant(p) \/ Install(p) \/ Erase(p) \/ DropKey(p)
  \/ ListKeys(p) \/ SweepKey(p)
  \/ \E t \in Targets : Create(p, t) \/ Prune(p, t)
  \/ Finish(p)

------------------------------------------------------------------------------
(* Pods, time and everyone else. *)

Event == events < MaxEvents /\ events' = events + 1

Current(p) == Readable(settings) /\ pods[p] # None /\ pods[p].cfg = buildConfig(settings)

(* Pods differ only in what they do: a new one takes any free place.       *)
Vacant == CHOOSE p \in Pods : pods[p] = None

(* A pod whose settings cannot be read exits at once, time and again, and  *)
(* never becomes available.                                                *)
StartPod(p) ==
  /\ pods[p] = None
  /\ p = Vacant
  /\ Readable(settings)
  /\ Cardinality({q \in Pods : Current(q)}) < replicaCount
  /\ pods' = [pods EXCEPT ![p] = Started(buildConfig(settings))]
  /\ UNCHANGED <<api, work, events>>

(* A pod of earlier settings goes when enough others are available.        *)
StopPod(p) ==
  /\ pods[p] # None
  /\ ~Current(p)
  /\ Cardinality({q \in Pods \ {p} : pods[q] # None}) >= replicaCount
  /\ pods' = [pods EXCEPT ![p] = None]
  /\ UNCHANGED <<api, work, events>>

Restart(p) ==
  /\ pods[p] # None
  /\ Event
  /\ pods' = [pods EXCEPT ![p] = Started(@.cfg)]
  /\ UNCHANGED <<api, work>>

(* The sync interval of an instance passes.                                *)
IntervalElapses(p, i) ==
  /\ pods[p] # None
  /\ i \in pods[p].synced
  /\ pods' = [pods EXCEPT ![p].synced = @ \ {i}]
  /\ UNCHANGED <<api, work, events>>

EditCluster(c) ==
  /\ Event
  /\ \E s \in ClusterStates \ {clusters[c]} : clusters' = [clusters EXCEPT ![c] = s]
  /\ UNCHANGED <<settings, instances, site, work, pods>>

(* The tenant goes with its instance.                                      *)
EditInstance(i) ==
  /\ Event
  /\ \E s \in InstanceStates \ {instances[i]} :
       /\ instances' = [instances EXCEPT ![i] = s]
       /\ secret' = IF s = "absent" THEN [secret EXCEPT ![i] = "none"] ELSE secret
  /\ UNCHANGED <<settings, clusters, site, keys, bound, pods>>

EditSettings ==
  /\ Event
  /\ settings' \in Settings \ {settings}
  /\ UNCHANGED <<clusters, instances, site, work, pods>>

------------------------------------------------------------------------------
Init ==
  /\ settings \in Settings
  /\ clusters \in [Clusters -> ClusterStates]
  /\ instances \in [Instances -> InstanceStates]
  /\ keys = [n \in KeyNames |-> None]
  /\ secret = [i \in Instances |-> "none"]
  /\ bound = {}
  /\ site \in Sites
  /\ pods = [p \in Pods |-> None]
  /\ events = 0

Next ==
  \/ \E p \in Pods : \/ Step(p)
                     \/ StartPod(p) \/ StopPod(p) \/ Restart(p)
                     \/ \E i \in Instances : IntervalElapses(p, i)
  \/ \E c \in Clusters : EditCluster(c)
  \/ \E i \in Instances : EditInstance(i)
  \/ EditSettings

Spec == Init /\ [][Next]_vars

(* The loop goes on, a Deployment brings its pods about, time passes.  No  *)
(* binding comes after a refused one in every pass: each pass takes them   *)
(* in an order of its own.                                                 *)
Fairness ==
  /\ WF_vars(\E p \in Pods : Step(p))
  /\ WF_vars(\E p \in Pods : StartPod(p))
  /\ WF_vars(\E p \in Pods : StopPod(p))
  /\ \A i \in Instances : WF_vars(\E p \in Pods : IntervalElapses(p, i))
  /\ \A t \in Targets : SF_vars(\E p \in Pods : Create(p, t))

FairSpec == Spec /\ Fairness

------------------------------------------------------------------------------
(* Properties. *)

Configs == {buildConfig(e) : e \in {f \in Settings : Readable(f)}}
PassType ==
  [pc : {"idle", "settle", "install", "erase", "drop", "apply"},
   clusters : [Clusters -> ClusterStates] \cup {None},
   instances : [Instances -> AllInstanceStates] \cup {None},
   existing : SUBSET Targets, unsettled : SUBSET Instances, failed : SUBSET Instances,
   subject : Instances \cup {None}, held : {"none", "live", "dead"},
   condemned : SUBSET (KeyNames \X Instances),
   creates : SUBSET Targets, prunes : SUBSET Targets]

Pod == [cfg : Configs, synced : SUBSET Instances, pass : PassType]

(* What a pass holds belongs to where it is: it works on an instance as it *)
(* saw it, it deletes keys only for what it saw, and nothing of an earlier *)
(* pass is left (reconcile.go:8-161).                                      *)
PassOK(pass) ==
  /\ pass \in PassType
  /\ pass.pc = "idle" => pass = Idle
  /\ pass.pc # "idle" => pass.clusters # None /\ pass.instances # None
  /\ pass.pc \in {"install", "erase", "drop"} <=> pass.subject # None
  /\ pass.pc = "install" => pass.instances[pass.subject] = "awake"
  /\ pass.pc \in {"erase", "drop"} => pass.instances[pass.subject] = "off"
  /\ pass.pc # "apply" => pass.condemned = {} /\ pass.creates = {} /\ pass.prunes = {}
  /\ \A k \in pass.condemned :
       KeyName[k[2]] = k[1] /\ pass.instances[k[2]] \notin EnrolledStates

PodsOK ==
  /\ pods \in [Pods -> Pod \cup {None}]
  /\ \A p \in Pods : pods[p] # None => PassOK(pods[p].pass)

KeysOK ==
  /\ keys \in [KeyNames -> Instances \cup {None}]
  /\ \A n \in KeyNames : keys[n] # None => KeyName[keys[n]] = n

TypeOK ==
  /\ settings \in Settings
  /\ clusters \in [Clusters -> ClusterStates]
  /\ instances \in [Instances -> InstanceStates]
  /\ KeysOK
  /\ secret \in [Instances -> {"none", "current", "dead"}]
  /\ bound \subseteq Targets
  /\ site \in Sites
  /\ PodsOK
  /\ events \in 0 .. MaxEvents

(* A key is only ever deleted by a pass that saw its instance opted out or *)
(* gone, whatever else failed in that pass and whatever was deployed       *)
(* before: this is what keeps the tokens in tenants' Secrets alive         *)
(* (reconcile.go:71-125, credentials.go:427-450).  It takes keys of        *)
(* different instances to have different names.                            *)
KeysOutliveEnrollment ==
  [][\A n \in KeyNames : keys[n] # None /\ keys'[n] # keys[n] =>
       \E p \in Pods : \E pc \in {"drop", "apply"} :
         At(p, pc) /\ pods[p].pass.instances[keys[n]] \notin EnrolledStates]_vars

Config == buildConfig(settings)

Wants(t) ==
  IF t \in Clusters
  THEN clusters[t].argoCD /\ matchesSelector(clusters[t].labels, Config.selector)
  ELSE Config.instances /\ instances[t] \in {"awake", "asleep"}

(* An instance for which every pass fails. *)
Refused(t) ==
  t \in site.tenants /\ Config.credentials /\ instances[t] \in {"awake", "off"}

Supplied(t) ==
  /\ t \in bound
  /\ t \in Instances /\ Config.credentials /\ instances[t] = "awake" =>
       keys[KeyName[t]] = t /\ secret[t] = "current"

(* Whatever is refused to others, each target gets what it needs: a failed *)
(* credential is one instance's (reconcile.go:71-103), a refused binding   *)
(* ends its pass but comes last in some (reconcile.go:128-150).  It holds  *)
(* over changed settings, rollouts and restarts.                           *)
CreationsReachOthers ==
  \A t \in Targets :
    <>[](Readable(settings) /\ Wants(t) /\ ~Refused(t) /\ t \notin site.creates
           => Supplied(t))

(* A target in some state takes part under a configuration; an instance    *)
(* that is not rendered yet keeps what it has.                             *)
TakesPart(t, state, cfg) ==
  IF t \in Clusters THEN state.argoCD /\ matchesSelector(state.labels, cfg.selector)
  ELSE cfg.instances /\ state \in EnrolledStates

(* A pass works on a target as it is, and with a key that is alive.        *)
Abreast(t, state, pass) ==
  pass.pc # "idle" =>
    /\ state = (IF t \in Clusters THEN pass.clusters[t] ELSE pass.instances[t])
    /\ t \notin pass.prunes
    /\ pass.pc = "install" /\ pass.subject = t => pass.held = "live"

Known(t) == IF t \in Clusters THEN clusters[t] ELSE instances[t]

(* A target takes part for all pods there are and may be started, whichever*)
(* settings each of them has.                                              *)
Steady(t) ==
  /\ Readable(settings) => TakesPart(t, Known(t), Config)
  /\ \A p \in Pods : pods[p] # None =>
       TakesPart(t, Known(t), pods[p].cfg) /\ Abreast(t, Known(t), pods[p].pass)

(* As long as a target is not edited and no settings leave it out, what it *)
(* has got stays: neither a rollout, a restart, several pods at work, the  *)
(* failures of others nor an error of its own takes its binding, its key or*)
(* the token in its Secret ("preserving its existing bindings", reconcile. *)
(* go:65-158).  It takes keys of different instances to have different     *)
(* names.                                                                  *)
ServiceLasts ==
  [][\A t \in Targets :
       /\ Steady(t)
       /\ Known(t)' = Known(t)
       /\ Readable(settings') => TakesPart(t, Known(t), Config)'
       => /\ Steady(t)'
          /\ t \in bound => t \in bound'
          /\ t \in Instances =>
               /\ keys[KeyName[t]] = t => keys'[KeyName[t]] = t
               /\ secret[t] = "current" => secret'[t] = "current"]_vars

(* A wanted binding that is refused keeps every pass from pruning.         *)
Blocked == \E t \in site.creates : Wants(t) /\ ~Refused(t)

Unwanted(t) ==
  IF t \in Instances /\ ~Config.instances THEN t \in site.local
  ELSE ~Wants(t) /\ ~Refused(t) /\ (t \in Instances => instances[t] # "pending")

(* What is no longer wanted goes, although the settings that made it are   *)
(* gone too and whatever tenant refuses: the key and the working Secret in *)
(* any case, the binding unless a create is refused.  With instances       *)
(* disabled only the controller's own namespace is looked at               *)
(* (reconcile.go:30-33), the rest waits until they are enabled again.      *)
EventuallyRemoved ==
  \A t \in Targets :
    <>[](Readable(settings) /\ Unwanted(t) =>
           /\ ~Blocked => t \notin bound
           /\ t \in Instances /\ Config.credentials =>
                keys[KeyName[t]] # t /\ secret[t] # "current")

(* Every Cluster that matches "the configured cluster selector AND has     *)
(* spec.argoCD.enabled: true" (controllers/fleet-binding-controller/       *)
(* README.md:7-8) is processed.  The labels of the default selector are    *)
(* required whatever the configured one says (config.go:100, 133-139).     *)
SelectedClustersBound ==
  \A c \in Clusters :
    <>[](Readable(settings) /\ settings.selector.form = "labels"
         /\ clusters[c].argoCD
         /\ matchesSelector(clusters[c].labels, settings.selector.labels)
         /\ c \notin site.creates
           => c \in bound)

(* "The Secret is reconciled before the collector binding" (controllers/   *)
(* fleet-binding-controller/README.md:37) of an instance a pass saw awake; *)
(* and extra replicas "just add redundant API calls" (bindings/README.md:  *)
(* 190), so it holds with them too.                                        *)
SecretBeforeCollector ==
  [][\A i \in Instances, p \in Pods :
       /\ i \in bound' \ bound
       /\ At(p, "apply") /\ pods'[p] # pods[p]
       /\ pods[p].cfg.credentials
       /\ pods[p].pass.instances[i] = "awake" /\ instances[i] = "awake"
       => secret[i] # "none"]_vars
==============================================================================
