--------------------------- MODULE WriterCredential ---------------------------
(***************************************************************************)
(* The metrics writer credential of one VirtualClusterInstance             *)
(* (credentials.go, and the instance loop and key sweep of reconcileOnce). *)
(* The controller keeps a writer AccessKey in the Platform and puts its    *)
(* token into a Secret in the tenant cluster, which it can reach only with *)
(* a temporary installer AccessKey.  Each request is a step; the memory of *)
(* the last sync is process memory.                                        *)
(*                                                                         *)
(* The bindings of the instance are one flag here: whether they are        *)
(* created, kept or pruned is decided with the credential, how is          *)
(* Reconcile's.  Every API call but the Secret's PUT acts on a name only.  *)
(***************************************************************************)
EXTENDS Integers

CONSTANTS
  None,     \* no object
  States,   \* [enrolled, ready, asleep] an instance may be in
  Kinds,    \* what the environment does a bounded number of times
  Budgets   \* how often: each a function from Kinds to Nat, one of them holds

VARIABLES
  vci,        \* Platform: the instance, or None; born tells re-creations apart
  key,        \* Platform: the writer AccessKey, or None
  installer,  \* Platform: the installer AccessKey: "none", "ours", "foreign"
  minted,     \* how many tokens were made
  namespace,  \* tenant: whether the Secret's namespace exists
  secret,     \* tenant: the Secret, or None
  stamp,      \* tenant: the last resourceVersion given out
  binding,    \* Platform: whether the instance has its bindings
  synced,     \* controller memory: the last sync is within the interval
  pc,         \* controller: the next request of the pass
  seen,       \* controller: the instance it listed, or None
  verdict,    \* controller: what the pass does with the bindings
  held,       \* controller: the token of the writer key it holds, or 0
  read,       \* controller: resourceVersion of the Secret it read, or 0
  done,       \* controller: whether the tenant request succeeded
  used        \* how often the environment did each kind so far

platform == <<vci, key, installer, minted, binding>>
tenant == <<namespace, secret, stamp>>
locals == <<pc, seen, verdict, held, read, done>>
vars == <<platform, tenant, synced, locals, used>>

Instance == [enrolled : BOOLEAN, ready : BOOLEAN, asleep : BOOLEAN, born : Nat]
AccessKey == [ours : BOOLEAN, token : Nat]
Secret == [managed : BOOLEAN, token : Nat, version : Nat]

ASSUME StatesAssumption ==
  States \subseteq [enrolled : BOOLEAN, ready : BOOLEAN, asleep : BOOLEAN]
ASSUME BudgetAssumption ==
  /\ {"edits", "deletions", "hands", "revocations", "empties", "faults"} \subseteq Kinds
  /\ Budgets \subseteq [Kinds -> Nat]
  /\ Budgets # {}
ASSUME NoneAssumption == None \notin Instance \cup AccessKey \cup Secret

(* Several budgets bound one behaviour each: what is spent fits into one.  *)
Affordable(spent) == \E b \in Budgets : \A k \in Kinds : spent[k] <= b[k]

Spend(kind) ==
  /\ used' = [used EXCEPT ![kind] = @ + 1]
  /\ Affordable(used')

Managed(s) == s # None /\ s.managed
Ours(k) == k # None /\ k.ours

(* The proxy answers for a tenant cluster that is there and awake.         *)
Reachable == vci # None /\ ~vci.asleep

------------------------------------------------------------------------------
(* Where a pass goes. *)

TenantRequests ==
  {"getNamespace", "makeNamespace", "getSecret", "writeSecret",
   "findSecret", "deleteSecret"}
PassRequests == {"sweep", "sweepKey", "apply"}

(* A bug, for the sensitivity of TypeOK: the locals of a pass are package variables. *)
EndPassKeeping ==
  /\ pc' = "idle"
  /\ verdict' = "none"
  /\ UNCHANGED <<seen, held, read, done>>

EndPass ==
  /\ pc' = "idle"
  /\ seen' = None
  /\ verdict' = "none"
  /\ held' = 0
  /\ read' = 0
  /\ done' = FALSE

Goto(p) == pc' = p /\ UNCHANGED <<seen, verdict, held, read, done>>

(* The credential of the instance is settled one way or the other.         *)
Conclude(v) ==
  /\ pc' = "sweep"
  /\ verdict' = v
  /\ UNCHANGED <<seen, held, read, done>>

(* An error of the credential preserves the bindings, and the writer key   *)
(* of an instance that opted out.                                          *)
Fail == Conclude("protect")

(* The action run with the installer key returns; its key is deleted next. *)
Leave(success) ==
  /\ pc' = "dropInstaller"
  /\ done' = success
  /\ UNCHANGED <<seen, verdict, held, read>>

(* A bug, for the sensitivity of SecretBeforeFirstBinding: an error does not preserve the bindings. *)
AfterTenantAnyway ==
  IF seen.enrolled THEN Conclude("want") /\ synced' = done
  ELSE Goto("dropKey") /\ UNCHANGED synced

(* What withTenantInstaller returns to. *)
AfterTenant ==
  IF ~done THEN Fail /\ UNCHANGED synced
  ELSE IF seen.enrolled THEN Conclude("want") /\ synced' = TRUE
  ELSE Goto("dropKey") /\ UNCHANGED synced

(* The error continuation of the request a pass is at.                     *)
OnError ==
  IF pc \in PassRequests THEN EndPass
  ELSE IF pc \in TenantRequests THEN Leave(FALSE)
  ELSE Fail

------------------------------------------------------------------------------
(* The pass. *)

(* An instance that cannot be classified yet, or whose configuration is    *)
(* invalid, and one that sleeps, get no credential request.  The list may  *)
(* come back empty (404).                                                  *)
ListInstances ==
  /\ pc = "idle"
  /\ \/ seen' = vci /\ UNCHANGED used
     \/ seen' = None /\ vci # None /\ Spend("empties")
  /\ LET branch == IF seen' = None THEN <<"sweep", "drop">>
                   ELSE IF ~seen'.enrolled THEN <<"findKey", "drop">>
                   ELSE IF ~seen'.ready THEN <<"sweep", "protect">>
                   ELSE IF seen'.asleep THEN <<"sweep", "want">>
                   ELSE <<"getKey", "want">>
     IN  pc' = branch[1] /\ verdict' = branch[2]
  /\ UNCHANGED <<platform, tenant, synced, held, read, done>>

(* ensureWriterAccessKey, and the interval check of its caller. *)
GetKey ==
  /\ pc = "getKey"
  /\ IF key = None THEN Goto("makeKey")
     ELSE IF ~key.ours THEN Fail
     ELSE /\ held' = key.token
          /\ pc' = IF synced THEN "sweep" ELSE "getInstaller"
          /\ UNCHANGED <<seen, verdict, read, done>>
  /\ UNCHANGED <<platform, tenant, synced, used>>

Mint ==
  /\ key = None
  /\ key' = [ours |-> TRUE, token |-> minted + 1]
  /\ minted' = minted + 1
  /\ UNCHANGED <<vci, installer, binding, tenant>>

MakeKey ==
  /\ pc = "makeKey"
  /\ \/ /\ Mint
        /\ held' = minted'
        /\ pc' = "getInstaller"
        /\ synced' = FALSE
        /\ UNCHANGED <<seen, verdict, read, done>>
     \/ key # None /\ Fail /\ UNCHANGED <<platform, tenant, synced>>
  /\ UNCHANGED used

(* A bug, for the sensitivity of EventuallyDelivered and EventuallyWithdrawn: a leftover is an error. *)
GetInstallerStrict ==
  /\ pc = "getInstaller"
  /\ IF installer = "none" THEN Goto("makeInstaller") ELSE Fail
  /\ UNCHANGED <<platform, tenant, synced, used>>

(* createInstallerAccessKey: a leftover of ours is replaced. *)
GetInstaller ==
  /\ pc = "getInstaller"
  /\ CASE installer = "none" -> Goto("makeInstaller")
       [] installer = "ours" -> Goto("dropOld")
       [] installer = "foreign" -> Fail
  /\ UNCHANGED <<platform, tenant, synced, used>>

SetInstaller(s) ==
  installer' = s /\ UNCHANGED <<vci, key, minted, binding, tenant>>

DropOldInstaller ==
  /\ pc = "dropOld"
  /\ SetInstaller("none")
  /\ Goto("makeInstaller")
  /\ UNCHANGED <<synced, used>>

MakeInstaller ==
  /\ pc = "makeInstaller"
  /\ \/ /\ installer = "none"
        /\ SetInstaller("ours")
        /\ Goto(IF seen.enrolled THEN "getNamespace" ELSE "findSecret")
     \/ installer # "none" /\ Fail /\ UNCHANGED <<platform, tenant>>
  /\ UNCHANGED <<synced, used>>

(* ensureWriterSecret. *)
GetNamespace ==
  /\ pc = "getNamespace"
  /\ Reachable
  /\ Goto(IF namespace THEN "getSecret" ELSE "makeNamespace")
  /\ UNCHANGED <<platform, tenant, synced, used>>

SetNamespace == namespace' = TRUE /\ UNCHANGED <<platform, secret, stamp>>

MakeNamespace ==
  /\ pc = "makeNamespace"
  /\ Reachable
  /\ IF namespace THEN Leave(FALSE) /\ UNCHANGED <<platform, tenant>>
     ELSE Goto("getSecret") /\ SetNamespace
  /\ UNCHANGED <<synced, used>>

(* A bug, for the sensitivity of EventuallyDelivered: a Secret that is there is left alone. *)
GetSecretOnce ==
  /\ pc = "getSecret"
  /\ Reachable
  /\ IF secret # None THEN Leave(TRUE) ELSE Goto("writeSecret")
  /\ UNCHANGED <<platform, tenant, synced, used>>

GetSecret ==
  /\ pc = "getSecret"
  /\ Reachable
  /\ IF secret # None /\ ~secret.managed THEN Leave(FALSE)
     ELSE /\ pc' = "writeSecret"
          /\ read' = IF secret = None THEN 0 ELSE secret.version
          /\ UNCHANGED <<seen, verdict, held, done>>
  /\ UNCHANGED <<platform, tenant, synced, used>>

(* A bug, for the sensitivity of UnmanagedNotOverwritten: the PUT carries no resourceVersion. *)
WritableAnyVersion == namespace /\ (read = 0 <=> secret = None)

(* A POST needs the name free, a PUT the version that was read. *)
Writable == namespace /\ IF read = 0 THEN secret = None
                         ELSE secret # None /\ secret.version = read

(* A PUT that changes nothing makes no new version. *)
SetSecret ==
  /\ IF Managed(secret) /\ secret.token = held THEN UNCHANGED <<secret, stamp>>
     ELSE /\ secret' = [managed |-> TRUE, token |-> held, version |-> stamp + 1]
          /\ stamp' = stamp + 1
  /\ UNCHANGED <<platform, namespace>>

WriteSecret ==
  /\ pc = "writeSecret"
  /\ Reachable
  /\ \/ Writable /\ SetSecret /\ Leave(TRUE)
     \/ ~Writable /\ Leave(FALSE) /\ UNCHANGED <<platform, tenant>>
  /\ UNCHANGED <<synced, used>>

(* A bug, for the sensitivity of OptOutCleansFirst: the Secret is not deleted. *)
FindKeyOnly ==
  /\ pc = "findKey"
  /\ IF key = None THEN Conclude("drop")
     ELSE IF ~key.ours THEN Fail
     ELSE Goto("dropKey")
  /\ UNCHANGED <<platform, tenant, synced, used>>

(* deleteWriterCredential: without a writer key there is nothing to do.    *)
FindKey ==
  /\ pc = "findKey"
  /\ IF key = None THEN Conclude("drop")
     ELSE IF ~key.ours THEN Fail
     ELSE Goto("getInstaller")
  /\ UNCHANGED <<platform, tenant, synced, used>>

(* deleteWriterSecret: a 404 is success, the proxy's for a gone tenant too.*)
FindSecret ==
  /\ pc = "findSecret"
  /\ Reachable \/ vci = None
  /\ IF secret = None THEN Leave(TRUE)
     ELSE IF ~secret.managed THEN Leave(FALSE)
     ELSE Goto("deleteSecret")
  /\ UNCHANGED <<platform, tenant, synced, used>>

ClearSecret == secret' = None /\ UNCHANGED <<platform, namespace, stamp>>

DeleteSecret ==
  /\ pc = "deleteSecret"
  /\ Reachable \/ vci = None
  /\ ClearSecret
  /\ Leave(TRUE)
  /\ UNCHANGED <<synced, used>>

(* The deferred deletion of the installer key. *)
DropInstaller ==
  /\ pc = "dropInstaller"
  /\ SetInstaller("none")
  /\ AfterTenant
  /\ UNCHANGED used

ClearKey == key' = None /\ UNCHANGED <<vci, installer, minted, binding, tenant>>

DropKey ==
  /\ pc = "dropKey"
  /\ ClearKey
  /\ synced' = FALSE
  /\ Conclude("drop")
  /\ UNCHANGED used

(* A bug, for the sensitivity of EventuallyWithdrawn: the sweep looks at listed instances only. *)
CredentialWantedUnlisted == seen = None \/ seen.enrolled \/ verdict = "protect"

(* A bug, for the sensitivity of DeliveryLasts: only settled instances count. *)
CredentialWantedSettled == seen # None /\ verdict = "want"

(* Writer keys of instances without a credential in this pass are deleted. *)
CredentialWanted == seen # None /\ (seen.enrolled \/ verdict = "protect")

Sweep ==
  /\ pc = "sweep"
  /\ Goto(IF Ours(key) /\ ~CredentialWanted THEN "sweepKey" ELSE "apply")
  /\ UNCHANGED <<platform, tenant, synced, used>>

SweepKey ==
  /\ pc = "sweepKey"
  /\ ClearKey
  /\ synced' = FALSE
  /\ Goto("apply")
  /\ UNCHANGED used

Apply ==
  /\ pc = "apply"
  /\ binding' = CASE verdict = "want" -> TRUE
                  [] verdict = "drop" -> FALSE
                  [] verdict = "protect" -> binding
  /\ EndPass
  /\ UNCHANGED <<vci, key, installer, minted, tenant, synced, used>>

(* The tenant cluster sleeps or is gone: 502, and for its namespace 404.   *)
TenantUnreachable ==
  /\ pc \in TenantRequests
  /\ ~Reachable
  /\ Leave(FALSE)
  /\ UNCHANGED <<platform, tenant, synced, used>>

Step ==
  \/ ListInstances
  \/ GetKey \/ MakeKey
  \/ GetInstaller \/ DropOldInstaller \/ MakeInstaller
  \/ GetNamespace \/ MakeNamespace \/ GetSecret \/ WriteSecret
  \/ FindKey \/ FindSecret \/ DeleteSecret
  \/ DropInstaller \/ DropKey
  \/ Sweep \/ SweepKey \/ Apply
  \/ TenantUnreachable

------------------------------------------------------------------------------
(* Failures. *)

(* A request fails without effect; that of the deferred deletion is only   *)
(* logged.                                                                 *)
RequestFails ==
  /\ pc # "idle"
  /\ Spend("faults")
  /\ IF pc = "dropInstaller" THEN AfterTenant ELSE OnError /\ UNCHANGED synced
  /\ UNCHANGED <<platform, tenant>>

(* A request takes effect and its answer is lost. *)
AnswerLost ==
  /\ Spend("faults")
  /\ \/ pc = "makeKey" /\ Mint
     \/ pc = "makeInstaller" /\ installer = "none" /\ SetInstaller("ours")
     \/ pc = "dropOld" /\ SetInstaller("none")
     \/ pc = "makeNamespace" /\ Reachable /\ SetNamespace
     \/ pc = "writeSecret" /\ Reachable /\ Writable /\ SetSecret
     \/ pc = "deleteSecret" /\ Reachable /\ ClearSecret
     \/ pc \in {"dropKey", "sweepKey"} /\ ClearKey
  /\ OnError
  /\ UNCHANGED synced

(* The Platform answers 404 although the object, or what it is created in, *)
(* is there, and so may the proxy for the Secret that is to be deleted:    *)
(* taken for "nothing there" when reading, for done when writing           *)
(* (k8sclient.go:95).  A key counts as made, and the tenant refuses its    *)
(* token; other 404s of the tenant end as a failed request does.           *)
AnsweredNotFound ==
  /\ Spend("empties")
  /\ \/ pc = "getKey" /\ key # None /\ Goto("makeKey") /\ UNCHANGED <<minted, synced>>
     \/ /\ pc = "makeKey"
        /\ minted' = minted + 1
        /\ held' = minted'
        /\ pc' = "getInstaller"
        /\ synced' = FALSE
        /\ UNCHANGED <<seen, verdict, read, done>>
     \/ /\ \/ pc = "getInstaller" /\ installer # "none" /\ Goto("makeInstaller")
           \/ pc = "dropOld" /\ Goto("makeInstaller")
           \/ pc = "makeInstaller" /\ Leave(FALSE)
           \/ pc = "findKey" /\ key # None /\ Conclude("drop")
           \/ pc \in {"findSecret", "deleteSecret"} /\ Reachable /\ Leave(TRUE)
           \/ pc = "sweep" /\ Ours(key) /\ Goto("apply")
           \/ pc = "apply" /\ EndPass
        /\ UNCHANGED <<minted, synced>>
     \/ pc = "dropInstaller" /\ AfterTenant /\ UNCHANGED minted
     \/ pc = "dropKey" /\ Conclude("drop") /\ synced' = FALSE /\ UNCHANGED minted
     \/ pc = "sweepKey" /\ Goto("apply") /\ synced' = FALSE /\ UNCHANGED minted
  /\ UNCHANGED <<vci, key, installer, binding, tenant>>

(* The process dies and forgets its last sync; no deferred call runs.      *)
Restart ==
  /\ Spend("faults")
  /\ EndPass
  /\ synced' = FALSE
  /\ UNCHANGED <<platform, tenant>>

------------------------------------------------------------------------------
(* Everyone else. *)

(* The instance is created, with an empty tenant cluster, or changes.      *)
EditInstance ==
  /\ Spend("edits")
  /\ \E s \in States :
       vci' = [enrolled |-> s.enrolled, ready |-> s.ready, asleep |-> s.asleep,
               born |-> IF vci = None THEN used["deletions"] ELSE vci.born]
  /\ vci' # vci
  /\ UNCHANGED <<key, installer, minted, binding, tenant, synced, locals>>

(* It is deleted, and its tenant cluster with it.                          *)
DeleteInstance ==
  /\ Spend("deletions")
  /\ vci # None
  /\ vci' = None
  /\ namespace' = FALSE
  /\ secret' = None
  /\ UNCHANGED <<key, installer, minted, binding, stamp, synced, locals>>

(* Others create the Secret, take it over by its label, or delete it.      *)
EditSecret ==
  /\ Spend("hands")
  /\ vci # None
  /\ \/ /\ secret # None => secret.managed
        /\ secret' = [managed |-> FALSE, token |-> 0, version |-> stamp + 1]
        /\ stamp' = stamp + 1
        /\ namespace' = TRUE
     \/ secret # None /\ secret' = None /\ UNCHANGED <<namespace, stamp>>
  /\ UNCHANGED <<platform, synced, locals>>

(* Others own a key of one of the two names. *)
PlantKey ==
  /\ Spend("hands")
  /\ \/ key = None /\ key' = [ours |-> FALSE, token |-> 0] /\ UNCHANGED installer
     \/ installer = "none" /\ installer' = "foreign" /\ UNCHANGED key
  /\ UNCHANGED <<vci, minted, binding, tenant, synced, locals>>

(* An administrator revokes the writer key. *)
RevokeKey ==
  /\ Spend("revocations")
  /\ key # None
  /\ ClearKey
  /\ UNCHANGED <<synced, locals>>

IntervalElapses ==
  /\ synced
  /\ synced' = FALSE
  /\ UNCHANGED <<platform, tenant, locals, used>>

Environment ==
  \/ EditInstance \/ DeleteInstance
  \/ EditSecret \/ PlantKey \/ RevokeKey
  \/ IntervalElapses

Init ==
  /\ vci = None
  /\ key = None
  /\ installer = "none"
  /\ minted = 0
  /\ namespace = FALSE
  /\ secret = None
  /\ stamp = 0
  /\ binding = FALSE
  /\ synced = FALSE
  /\ pc = "idle"
  /\ seen = None
  /\ verdict = "none"
  /\ held = 0
  /\ read = 0
  /\ done = FALSE
  /\ used = [k \in Kinds |-> 0]

Next == Step \/ RequestFails \/ AnswerLost \/ AnsweredNotFound \/ Restart \/ Environment

Spec == Init /\ [][Next]_vars

(* The loop runs for ever and time passes. *)
FairSpec == Spec /\ WF_vars(Step) /\ WF_vars(IntervalElapses)

------------------------------------------------------------------------------
(* Properties. *)

(* Types; what the pass holds fits where it is, and nothing of it outlives *)
(* the pass.                                                               *)
TypeOK ==
  /\ vci \in Instance \cup {None}
  /\ key \in AccessKey \cup {None}
  /\ key # None => key.token <= minted
  /\ installer \in {"none", "ours", "foreign"}
  /\ minted \in Nat /\ stamp \in Nat /\ held \in 0 .. minted /\ read \in 0 .. stamp
  /\ namespace \in BOOLEAN /\ binding \in BOOLEAN
  /\ synced \in BOOLEAN /\ done \in BOOLEAN
  /\ secret \in Secret \cup {None}
  /\ secret # None => namespace /\ secret.version \in 1 .. stamp /\ vci # None
  /\ seen \in Instance \cup {None}
  /\ pc \in {"idle", "getKey", "makeKey", "findKey", "getInstaller", "dropOld",
             "makeInstaller", "dropInstaller", "dropKey"}
            \cup TenantRequests \cup PassRequests
  /\ verdict \in {"none", "want", "protect", "drop"}
  /\ pc \notin {"idle"} \cup PassRequests => seen # None
  /\ pc = "idle" => seen = None /\ held = 0 /\ read = 0 /\ ~done
  /\ verdict = "none" => pc = "idle"
  /\ used \in [Kinds -> Nat] /\ Affordable(used)

(* A Secret that is not labelled as the controller's is never overwritten, *)
(* even when the label goes between the read and the write ("refusing to   *)
(* overwrite unmanaged Secret", credentials.go:327).                       *)
UnmanagedNotOverwritten ==
  [][Managed(secret)' /\ secret' # secret => secret = None \/ Managed(secret)]_vars

(* "The Secret is reconciled before the collector binding" (controllers/   *)
(* fleet-binding-controller/README.md:37): while the instance the pass     *)
(* listed stays as it is and others leave its Secret and keys alone, its   *)
(* bindings are created only when its Secret holds the token of its key,   *)
(* unless it sleeps (reconcile.go:90) ...                                  *)
Delivered == Ours(key) /\ Managed(secret) /\ secret.token = key.token
Creates == Apply /\ ~binding /\ binding'
SecretBeforeBinding == [][Creates /\ vci = seen /\ ~seen.asleep => Delivered]_vars

(* Nobody touched keys and Secret so far, and nothing that is there was    *)
(* answered for as missing.                                                *)
Untouched == \A k \in {"hands", "revocations", "empties"} : used[k] = 0

(* ... and, as the sync memory goes by name, unless the instance is not    *)
(* the first of its name (credentials.go:410) or both the deletion of its  *)
(* key and the creation of the next one lost their answers (credentials.go:*)
(* 444 and 141).                                                           *)
SecretBeforeFirstBinding ==
  [][Creates /\ vci = seen /\ ~seen.asleep /\ seen.born = 0
     /\ Untouched /\ used["faults"] <= 1 => Delivered]_vars

(* "Opting out deletes the Secret and writer key before pruning the        *)
(* binding" (controllers/fleet-binding-controller/README.md:37), as long   *)
(* as others leave them alone: without a key the code does not look for    *)
(* the Secret (credentials.go:431).                                        *)
OptOutCleansFirst ==
  [][Apply /\ binding /\ ~binding' /\ seen # None /\ vci = seen /\ Untouched
       => ~Managed(secret) /\ ~Ours(key)]_vars

(* Nothing of others is in the way. *)
Unobstructed ==
  /\ installer # "foreign"
  /\ key = None \/ key.ours
  /\ secret = None \/ secret.managed

(* An instance that takes part has its credential and bindings, and so     *)
(* sees it the pass that is under way.                                     *)
Provided ==
  /\ Delivered /\ binding
  /\ vci # None /\ vci.enrolled
  /\ pc # "idle" => seen # None /\ seen.enrolled /\ verdict \in {"want", "protect"}
  /\ pc \in TenantRequests \cup {"getInstaller", "dropOld", "makeInstaller"} => held = key.token
  /\ pc \notin {"findKey", "findSecret", "deleteSecret", "dropKey", "sweepKey"}

(* It keeps them while it takes part, others leave them alone and nothing  *)
(* that is there is answered for as missing: no sleep, no invalid          *)
(* configuration, no elapsed interval, failed request, lost answer or      *)
(* restart takes the key, the Secret or the bindings away or parts the two *)
(* tokens ("preserving its existing bindings", reconcile.go:65-98).        *)
DeliveryLasts ==
  [][/\ Provided
     /\ \A k \in {"hands", "revocations", "empties", "deletions"} : used'[k] = used[k]
     /\ vci'.enrolled
     => Provided']_vars

(* Once edits and failures stop, an instance that takes part and is awake  *)
(* gets the Secret with the token of its key, and its bindings: leftovers  *)
(* of the installer key, revoked writer keys and stale sync memory only    *)
(* delay that (credentials.go:404-425).                                    *)
EventuallyDelivered ==
  <>[](Unobstructed /\ Reachable /\ vci.enrolled /\ vci.ready => Delivered /\ binding)

(* ... one that opted out and is awake is left with no key and binding and,*)
(* unless others removed its key, no Secret; one that is gone with no key  *)
(* and binding (credentials.go:427-450, reconcile.go:106-126).             *)
EventuallyWithdrawn ==
  <>[](Unobstructed /\ (IF vci = None THEN TRUE ELSE ~vci.enrolled /\ ~vci.asleep)
         => key = None /\ ~binding /\ (Untouched => secret = None))
==============================================================================
