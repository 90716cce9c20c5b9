# Verification of the fleet binding controller

The repository describes a fleet of vCluster Platform clusters and contains one
program, `controllers/fleet-binding-controller` (Go). Everything else is
declarative: Helm charts, Argo CD application templates, bootstrap manifests and
build workflows. The controller runs as one replica without leader election, wakes up
every 30 seconds, lists the fleet and makes the `ArgoCDApplication` objects
("bindings") what the `FleetProfile`s selected by each target ask for. Its Deployment
states no strategy, so a change of its settings starts the new pod before it stops the
old one. This directory specifies that program in TLA+, checks it with TLC and proves
its main properties with TLAPS.

## Inventory

| Part | State | Operations | Correct when |
|---|---|---|---|
| Reconciliation pass (`reconcile.go`, loop in `main.go`) | snapshots and work list of one pass; nothing survives it | four list requests, each instance's credential, then create, patch, prune one request at a time; any other error ends the pass | creation waits for ready prerequisites; dependents are pruned first; invalid configuration and failed credentials preserve bindings; passes converge |
| Binding selection (`bindings.go`) | none | select, classify, resolve, gate | a binding records what one resolved graph says |
| Dependency resolution (`resolveApplications`) | `state`, `stack`, depths while it runs | combine profiles, extra and skipped templates; depth-first search | right depths, real cycles, termination |
| Application patching (`application_patch.go`, `k8sclient.go`) | last patch and `resourceVersion` per application, in memory | needs-patch decision, merge patch, remember, forget; parameters from annotations and defaults | drift is repaired, no needed patch is skipped, patching stops |
| Writer credentials (`credentials.go`) | `writerSecretLastSync`, in memory; AccessKeys and tenant Secrets outside | ensure and delete writer key, temporary installer key, tenant Secret | every enrolled awake instance has a Secret with its key; opting out removes both; an installer key left behind only delays |
| Names (`dnsLabel`, `bindingName`, `credentialName`) | the map of bindings of one pass | join, cut, hash | distinct bindings and keys get distinct names Kubernetes takes |
| Configuration (`config.go`) and Deployment | the settings of each pod, fixed at its start | read settings, roll them out, restart | a change of settings loses nothing that is wanted and leaves nothing that is not |
| API client (`k8sclient.go`) | none | one HTTP request; 404 is success without content | - |
| Logging, charts, CRD, templates, watcher, DNS clean-up job, workflows | no program state | - | - |

Interaction is through the Kubernetes API only. Users and GitOps edit `Cluster`,
`VirtualClusterInstance` and `FleetProfile` objects; Platform and Argo CD report
health and finish deletions; the controller reads all of that without watches or
preconditions. What is hard is therefore (the full list, at its lines, is in
`PROJECT.json` under `hazards`):

* a pass works for many requests on snapshots taken one after another;
* a failure or restart at any request leaves part of the writes done;
* creation waits on health and deletion goes one depth per pass, so reaching the
  goal takes several passes during which the goal may move;
* the order of deletion comes from annotations written by earlier passes;
* the memory of sent patches and of the last Secret sync may be stale or lost;
* a 404 reads as "nothing there";
* one target that always fails shares every pass with all others;
* pods of old and new settings overlap and share AccessKeys by name.

## Modules

```
DependencyGraph            operators: combination, depths, acyclicity
  Reconcile                one pass against the API          (reconcile.go, bindings.go)
    WantedBindings         + history of what was wanted during a pass
    MCReconcile, MCWantedBindings           instances for TLC
    Reconcile_proofs, WantedBindings_proofs
  GraphOutcome             abstract: a graph gets depths or a cycle, in one step
  CalculateDepth           detailed: the recursive search    (bindings.go:203-253)
    CalculateDepth_proofs
ApplicationPatch           one application and the patch memory (application_patch.go)
  MCApplicationPatch, ApplicationPatch_proofs
WriterCredential           one instance, its keys and Secret (credentials.go)
  MCWriterCredential, WriterCredential_proofs
Naming                     names and what a pass keeps under them
  MCNaming, Naming_proofs
Controller                 all targets, pods and settings over time (config.go, main.go)
  MCController, Controller_proofs
```

`Reconcile`, `ApplicationPatch` and `WriterCredential` each take one part to its
requests. `Controller` puts the parts together with less detail in each: it takes
settings, credentials, the sweep of keys and the bindings of all targets through the
passes of several pods.

**Reconcile.** `fleetProfiles`, `targets` and `apps` are the API's objects;
`seenProfiles`, `seenTargets`, `existing`, `desired`, `todo` and `stale` are the
locals of `reconcileOnce`, and `pc` says which request comes next. Each request is
an action: `ListFleetProfiles`, `ListClusters`, `ListInstances`, `ListApplications`,
`CreateApplication`, `PatchApplication`, `PruneApplication`, `FinishPass`. With
`Credentials`, `SettleCredentials` follows the lists: any instances that have a credential
to make or to remove may fail, and a failed one is neither written nor pruned. What the
pass then wants (`Decide`) is memory only, so it belongs to the request before it.
`todo` is a set because the code ranges over a map. A request that
fails ends the pass (`Abort`); as no local outlives a pass this is also a restart,
and, after a request that took effect, a lost answer. A list may come back empty (404).
Create of a taken name is a conflict and ends the pass; patch and delete of a missing
one count as done. Everyone else acts between any two requests: `EditTarget`,
`SetProfile`, `RemoveProfile`, `BecomeReady`, `Degrade`, `FinishDelete`,
`CreateByHand`, `DeleteByHand`, `Detach`. Bounds are the constants `MaxEdits`,
`MaxHands` and `MaxFaults`; health and completed deletions are not bounded.

Abstracted: a binding is its target, template, recorded dependencies and depth;
other labels, parameters and destinations are `ApplicationPatch`'s business. Names are an
arbitrary function `BindingName` of template and target, namespaces part of the name.
`PatchApplication` here is skipped when it would change nothing, without the memory of
sent patches.

**WantedBindings** adds three history variables to `Reconcile` that restrict nothing:
`unwanted` collects the names that were not wanted at some moment of the pass under way,
`edited` counts the edits during it, and `misread` says whether it took a 404 for an empty
list of profiles or targets.

**CalculateDepth** gives every stack frame of the recursive closure its own place
(`stack`, `rest`, `depth`) and lets roots and dependencies come in any order; `Return`
is the part after the loop with the caller's comparison. **GraphOutcome** is what the
pass relies on, in one step.

**ApplicationPatch** looks at one application: `live` and `version` are the object, `last`
and `lastVersion` the entry of `appliedApplicationPatches`, `wanted`, `existing` and `seen`
the locals. `Desired` puts together the defaults of the template and the annotations that
name it and a parameter. `MergedParameters` is the RFC 7386 merge on the parameter map, with
the null that `newApplicationPatch` sends when no parameter is left. The server stores a body
in its normal form, which is an arbitrary idempotent function; the test
`application_patch_test.go:92` is about such a field. Creation gate, finalizers and
ownership are `Reconcile`'s and left out here.

**WriterCredential** looks at one VirtualClusterInstance. `key` and `installer` are its
two AccessKeys in the Platform, `namespace` and `secret` the tenant cluster, `synced`
the entry of `writerSecretLastSync` while it is younger than the interval. Every request
of `ensureWriterAccessKey`, `createInstallerAccessKey`, `ensureWriterSecret`,
`deleteWriterSecret`, the deferred deletion of `withTenantInstaller`,
`deleteWriterCredential` and the sweep of `reconcileOnce` is an action, and `pc` the
request that comes next. `TenantRequests` go through the installer key: if one fails,
`Leave(FALSE)` runs the deferred deletion before the error is returned. An error of the
credential is no error of the pass: `Fail` preserves the bindings and, after opting out,
the writer key. `RequestFails`, `AnswerLost` and `Restart` may hit any request, and
`AnsweredNotFound` any of the Platform's and the deletion of the Secret: a 404 for what is
there, which `KubeClient.request` takes for "nothing there" or for done. The instance is edited, put to sleep, deleted and re-created by others, who may also take
over the Secret, occupy or revoke keys. Tokens and `resourceVersion`s are numbers given
out once. A PUT that changes nothing gives out no new version. The bindings of the
instance are one flag: created, kept or pruned.

**Naming** works on words, sequences of characters, and follows `dnsLabel`,
`truncateDNSLabel`, the two binding names, `credentialName` and
`projectNameFromNamespace` character by character, because the properties are about
characters. The digits a name takes of a hash are the constant operator `Digest`, of fixed
length and otherwise arbitrary: two words may have the same digest, and a short name may
happen to end in the digest of a long one. `DigestsClash` says when that is so, and it is
one of the conditions under which `NothingLost` and `KeysSeparate` let two names meet. A pass puts its bindings into the map
`desired` by `applicationKey`, Clusters first and then the instances, each list in any
order; an instance whose writer key belongs to another one is `refused`. Label values go
through the same functions and are not read back.

**Controller.** `settings` is what the Deployment says, `pods` are the running
processes, each with the configuration it read at its start, its memory of syncs and its
pass. `buildConfig` reads booleans, durations and the selector by the form of their
texts; unusable settings keep a pod from running. `StartPod` and `StopPod` are the rollout,
`Restart` forgets the memory of a pod. Pods have no identity of their own, so a new one takes a
place that `Vacant` picks. A pass is `List`, one credential after another
(`EnsureKey`, `Install`; `FindKey`, `Erase`, `DropKey`; `FailTenant`), `ListKeys`,
`SweepKey`, `Create`, `Prune`, `Finish`. A target has one binding here. `site` says what
does not change: whose tenant refuses, whose binding is refused, which instances are in
the controller's own namespace. Abstracted: the four lists are one step, the key is found
or made in one step, and the requests on the installer key of one instance by two pods,
which share its name, may fail (`MayFail`). A container restarted by its node keeps the
settings it had. An instance that opted out is taken to be awake.

## What is checked

| Run | Question | Outcome |
|---|---|---|
| `MCPass` | `TypeOK`, `PassSound`, `GatedCreation`, `DependentsGoFirst` with one instance that has credentials, a chain a->b->c, two edits, one interference, one failure | holds |
| `MCConverges` | `EventuallyConverged` (after edits stop, exactly the wanted bindings, for good), `StaysSettled`, `WantedBindingsKept` and `GatedCreation` with a cluster and an instance that is private, malformed, absent or opted out, a dependency that may be turned round, an edit and a failure, that of a credential included | holds |
| `MCCalculateDepth` | `SearchOK`, `ImplementsOutcome`, `WorkShrinks`, `Terminates` on every closed graph of up to three templates | holds |
| `MCApplicationPatch` | `TypeOK`, `SkippedPatchIsNoOp`, `MemorySound`, `QuietLasts`, `DriftRepaired`, `EventuallyQuiet` | holds |
| `MCCredentials` | `TypeOK`, `UnmanagedNotOverwritten`, `SecretBeforeFirstBinding`, `OptOutCleansFirst`, `DeliveryLasts`, `EventuallyDelivered`, `EventuallyWithdrawn` under three budgets | holds |
| `MCNaming` | `TypeOK`, `InstanceNamesSafe`, `ClusterNamesSafe`, `KeysSeparate`, `NothingLost` for any two bindings over short words | holds |
| `MCController` | `TypeOK`, `KeysOutliveEnrollment`, `ServiceLasts`, `CreationsReachOthers`, `EventuallyRemoved` under five settings and a target that is refused | holds |
| `MCDepthDrift` | `DependentsGoFirst` when a profile edit changes depths | **violated** |
| `MCRemovedParameter` | `RemovedParametersGo` when an annotation is removed | **violated** |
| `MCRecreated` | `SecretBeforeBinding` after a re-creation within the sync interval | **violated** |
| `MCSelector` | `SelectedClustersBound` with a selector of other labels than the default one | **violated** |
| `MCReplicas` | `SecretBeforeCollector` with two replicas | **violated** |

The violations are disagreements between the code and what its comments and
documents say; `findings` in `PROJECT.json` quotes both sides.

* *Depth drift.* Profile lists `a -> b`, so `a` has depth 1 and `b` 0. The
  profile is edited to `b -> c` without `a`, and in the pass that patches `b` to depth 1 or
  before `a` is gone, the target is unenrolled. Now a stale `a` of depth 1 and a
  stale `b` of depth 1 are pruned in one pass although `a` depends on `b`. With stable
  depths (`StableDepths`) the order holds, and that is proved.
* *Removed parameter.* A merge patch removes only what it names as null, and the null for
  all parameters is sent only when none is left. A template with a default never has none.
* *Re-created.* Memory and writer key are kept by name, and the sweep sees only
  instances that are missing in a list. `EventuallyDelivered` shows that the Secret
  arrives after the interval. An instance that sleeps when it is first seen gets its
  bindings without a Secret too; the code says so, and the property leaves it out.
* *Selector.* The selector is decoded into a map that already has the default label, so it
  can change that label's value and add others, but only JSON `null` takes it away.
* *Replicas.* One pod lists an instance as opted out, the other as back in; the first
  deletes the Secret after the second has delivered it and before it creates the bindings.
  `EventuallyDelivered`'s counterpart here, `CreationsReachOthers`, holds over rollouts, in which
  two pods overlap for a while.

Some properties hold under a condition they state, and the condition is itself a fact
about the code:

* `OptOutCleansFirst` and `EventuallyWithdrawn` ask that nobody revoked the writer key and
  nothing that is there was answered 404 (`Untouched`): no key counts as nothing to do, so
  opting out then leaves the Secret for good (`credentials.go:431`). A false 404 for the key
  is enough, as the sweep of the same pass then deletes it. Without the condition TLC finds
  both violated.
* `SecretBeforeFirstBinding` allows one fault: if both the deletion of a key and the
  creation of the next one lose their answers, the memory of the first sync is still there.
* `WantedBindingsKept` allows one edit during a pass and no 404 for its lists of profiles and
  targets. A 404 reads as an empty list, and with two edits a pass may compute from a
  combination that never was; the code has nothing against either.
* `KeysOutliveEnrollment` speaks of what a pass saw: an instance that opted in again since
  loses its key to a pass that listed it as opted out, and gets a new one from the next.
* `EventuallyRemoved` says nothing of bindings while a wanted one is refused (`Blocked`): every
  pass then ends before it prunes, for all targets. And nothing of instances in other
  namespaces while instances are disabled.
* `NothingLost` allows for `Confusable` bindings: one template name continues the other after a
  dash, or a name is cut. `ClusterNamesSafe` allows a dot at the end of a cut name
  (`bindings.go:74` trims dashes only), which the API refuses.
* `EventuallyQuiet` does not say that every patch changes something: after a start and after
  each status update a field the server normalises is patched once more, whereas
  `RELEASE_NOTES.md:14` says that patches are only logged for real changes.

Bounds. Three templates are the least that have a dependent and a prerequisite of
different depths with something in between; two edits are the least that first deploy
and then withdraw, or move a depth and withdraw; one interference can
fall between any two requests (`MCPass`). In `MCConverges` one edit between the lists, or after
the bindings are there, is what has to be followed up; its two targets share one pass, one
prune depth and one error path, which is how targets affect each other. `MCApplicationPatch` allows one edit, one
interference, one status update and one fault in any order, which covers each way a version
can be stale. `MCCredentials` has one of three budgets per behaviour, since together they are
too many: four edits, a deletion and a failure, which reach every pair of states with a
way there and back; three edits and two failures, one of which may hit the repair of the
other; two edits with a failure, an interference, a revocation and two false 404s. In
`MCNaming` the limit is six characters and the cut four, so that words of one to five
characters, with dots, dashes, capitals and characters names cannot have, make names below, at and
above the limit and cuts before, at and after a dot or dash; a digest of one digit, which is
one of two letters, makes clashes frequent; two bindings are what a
collision takes. `MCController` has two events, each an edit of a target or of the settings or a
restart, on top of any initial state and settings: enough to deploy, change the settings
and restart or edit on the way; the two pods are what one replica and a rollout need.
Every passing property has a mutant in `PROJECT.json` that breaks it.

Fairness. `WF_vars(Step)`: the loop in `main.go` never returns, so a pass
takes its next request for ever. `WF` of `BecomeReady` and `FinishDelete` for each name:
Argo CD syncs and Platform runs finalizers without being asked. `WF` of
`IntervalElapses`: time passes. `WF` of `StartPod` and `StopPod`: that is what a Deployment
is for. `SF` of `Create` for each target in `Controller`: a pass goes through a Go map, whose
order is random in each pass, so no binding comes after a refused one for ever. Edits,
interference, restarts and faults get no fairness and are bounded: liveness is about what follows after
they stop. `FairSpec` of the search: a function that runs until it returns.
`CHECK_DEADLOCK FALSE` only where something really stops: the search and a pass of `Naming` at
their end, and `Controller` where settings are unusable and no pod runs.

## What is proved

For every value of the constants (any number of targets, templates, profiles, pods, edits
and faults) the modules `*_proofs` show:

* `TypeCorrect` of `Reconcile`: types; a pass deletes only listed names it does not
  want and writes only names it wants.
* `CreationIsGated`: no assumption. The argument: what is
  in `desired` was computed from `existing`, neither changes
  until the pass ends, and a closed graph keeps every prerequisite that is present.
* `PassStaysSound`, `PruneOrder`: assume `NamesDistinct` and `StableDepths`.
  "No managed dependent is there when a prerequisite is pruned" is not
  inductive, as it speaks of the live store while the decision was taken on the snapshot.
  `PassSound` adds that every managed application and every wanted binding
  records a resolved graph (`StoreSound`), so its depth is above its
  prerequisites'; that a managed application which depends on something in `stale` is
  still in `todo`, i.e. is rewritten before pruning starts (`PrunesSound`); and that while
  credentials are settled nothing managed is there but what was listed (`ListingCurrent`).
  Others cannot create managed applications, they only remove them or take the label off.
  `MCDepthDrift` shows that `StableDepths` cannot be dropped; `Naming` says when
  `NamesDistinct` is true.
* `SnapshotsAreReal`, `WantedStay` of `WantedBindings`, with `NamesDistinct`. That a pass
  prunes only what was really unwanted at some moment speaks of four reads at four moments. The
  invariant `SnapshotReal` says, for each place between the lists, what the pass would prune by
  what it has read so far if the rest were as it is now: with no edit the reads are the present
  state; with one, the reads are of the state before it, or agree with the present, or what they
  would prune was unwanted before or after it. A list of applications that comes back empty or
  a failed credential only takes names out of what would be pruned, as every managed application
  is under the name of what it records (`StoresNamed`).
* `SettledStays` (`StaysSettled`): `Settled` says that what is there is what is wanted, ready and
  up to date, and that the lists of the pass under way agree. `ConvergedDecides` shows that such a
  pass finds nothing to create, patch or prune. It needs neither `NamesDistinct` nor `StableDepths`.
* `SearchStaysOK`, `SearchImplements`: `CalculateDepth` refines
  `GraphOutcome`. The invariant bounds the depth of a visited template by the number of
  visited ones, which puts the result among `DepthFunctions`, and says that consecutive
  frames are dependencies, so the reported part of the stack is a cycle; a graph with a
  cycle has no depths.
* `SearchRunsOut` (`WorkShrinks`): `WorkLeft`, the templates to enter and to return from, the
  dependencies not accounted for and the answer, is a natural number that every step lowers. With a
  function that runs until it returns, this is termination on every finite closed graph.
* `MemoryStaysSound`, `SkipsAreSound` and `TypeCorrect` of
  `ApplicationPatch`: a `resourceVersion` is given out once, and applying a patch
  twice is applying it once; so an object that still has the version the last patch left
  is at the fixed point of that patch. Types rest on what annotations and defaults add up to
  (`DesiredContent`).
* `QuietStaysSo` (`QuietLasts`): an object that carries what is asked for is a fixed point of its
  patch (`AgreeingIsFixed`), so a patch leaves object and version as they are and the version it
  is remembered with is the one the next list returns.
* `TypeCorrect` and `UnmanagedStays` of `WriterCredential`: no assumption beyond types.
  The property compares a Secret with its successor; the invariant `ReadManaged` adds
  that a Secret which still has the version that was read is the controller's.
* `OptOutIsClean`: `FindKey` concludes from a missing key that nothing is left, which
  is right only if a Secret never outlives its key; `CleanInv` carries that through the
  requests (`SecretHasKey`) as long as the property's condition `Untouched` is true, with the
  order of the deletions (`InOrder`) and what a verdict says of the listed instance
  (`VerdictOK`).
* `FirstBindingFollowsSecret`: builds on `CleanInv`. As long as the instance was not deleted,
  nobody else touched keys and Secret and at most one thing failed (`Mild`), `SyncOK` says what a
  remembered sync is worth (`SyncWorth`), that a token being written is the present key's
  (`WritingOwnToken`) and that a pass that wants bindings has delivered the Secret or finds
  them there (`WantedDelivered`). A sync may outlive key or Secret only where the one failure was
  spent, and then the bindings never went (`FailsOnce`); a second failure would break that.
* `DeliveredLasts` (`DeliveryLasts`): no assumption. `Provided` describes the pass at every request so
  that none of those left to it can part key and Secret (`AsPassed`), whatever fails or restarts.
* `TypeCorrect`, `InstancesNamedSafely`, `ClustersNamedSafely`, `KeysApartAlways` and
  `NothingLostAlways` of `Naming`, for words of any length: all invariants of the module and its
  action property. They assume of the input what the API server guarantees (targets and
  namespaces are names it takes), of the characters that names are in lower case
  (`CharactersAssumption`), and of the words of the code what they are (`WordsAssumption`). The
  invariant `Kept` says that every entry of the map is under the name of its request and every key under
  the name its owner asks for, so two requests that meet have equal names. `JoinNests` and
  `DigestsSeparate` then say how: words joined by a dash are equal only if they are the same
  or nested, names with a digest only if their labels are or the digests clash: the cut and the
  trimmed dashes and dots make the stems differ in length but leave the digits at the end.
  `DigestAssumption` says that a digest has the digits it should. `dnsLabel` leaves
  a word alone that is a name already, which is where the characters come in.
* `TypeCorrect` and `KeysKept` of `Controller`: `TypeOK` includes that a pass condemns
  only keys of instances it saw opted out or gone, which no failure, restart or other
  pod changes. `KeysKept` assumes `KeysDistinct`, without which opting out
  deletes the key of another instance of the same key name.
* `ServiceStays` (`ServiceLasts`), with `KeysDistinct`: `Steady` asks only that the target takes part for every pod, by the settings that
  pod started with, and that passes under way saw it as it is. Each step keeps that
  (`Following`) and so takes nothing from the target (`Holds`). The case that needs two pods is a
  key revoked while another pod holds its token: `RevokesOthers` shows that it is another's key.

What was proved of liveness is its safety half: what `EventuallyConverged`, `DriftRepaired`,
`EventuallyQuiet`, `EventuallyDelivered` and `CreationsReachOthers` reach is kept by every step
(`StaysSettled`, `QuietLasts`, `DeliveryLasts`, `ServiceLasts`), and the search cannot go on for ever
(`WorkShrinks`). That they are reached rests on fairness and on which steps are enabled, which the prover does
not cover. So `EventuallyConverged`, `DriftRepaired`, `EventuallyQuiet`, `Terminates`,
`EventuallyDelivered`, `EventuallyWithdrawn`, `CreationsReachOthers` and `EventuallyRemoved` are only
model-checked. Every invariant and every action property of a passing run is a theorem, the
refinement included.

## Not modelled

* HTTP, TLS and CA files, tokens and their expiry, client timeouts: pure I/O. A timeout is
  a request that failed or an answer that was lost.
* Conversions of YAML and JSON, apart from what they decide (a value is missing, malformed,
  or says something).
* Deletion by name only: an application that is detached, or a Secret that is taken over, between
  the read and the DELETE goes all the same (`reconcile.go:153`, `credentials.go:367`). `Reconcile`
  has the first behaviour, no property excludes it.
* A false 404 for a write of a binding in `Reconcile` and for the other requests of `Controller`:
  the former counts as done, so the next pass lists and writes it again; `WriterCredential`
  has those of the credential.
* A permanently refused deletion of an AccessKey in the sweep, which ends every pass before
  it writes (`reconcile.go:120`).
* Which of two colliding bindings wins over several passes: the code lets the one listed last.
* A change of `PROJECT_NAMESPACE` or of the names of Secret and annotations across deployments.
* Logging, charts, CRD, templates, the watcher (an image without source here), the DNS
  clean-up job and the workflows: no program state; the reason for each is in `PROJECT.json`.

## Plan

All modules planned are there, and what the runs check of safety is proved. What would add most
from here: the safety half of `EventuallyWithdrawn` and `EventuallyRemoved` (what is gone stays gone
until somebody asks for it again); the progress measure of a pass, that `todo`, `stale` and the
requests of a credential only get fewer until the pass ends, as `WorkShrinks` has it for the search.
