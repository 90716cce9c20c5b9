------------------------ MODULE WriterCredential_proofs ------------------------
(* Proofs about WriterCredential, for any states of the instance and any   *)
(* number of edits, interferences and failures.                            *)
EXTENDS WriterCredential, TLAPS

(* Where the local variables of a pass may stand.                          *)
LocalsOK ==
  /\ seen \in Instance \cup {None}
  /\ pc \in {"idle", "getKey", "makeKey", "findKey", "getInstaller", "dropOld",
             "makeInstaller", "dropInstaller", "dropKey"}
            \cup TenantRequests \cup PassRequests
  /\ verdict \in {"none", "want", "protect", "drop"}
  /\ pc \notin {"idle"} \cup PassRequests => seen # None
  /\ pc = "idle" => seen = None /\ held = 0 /\ read = 0 /\ ~done
  /\ verdict = "none" => pc = "idle"
  /\ done \in BOOLEAN

(* Types of the objects in the Platform, the tokens made for it and the    *)
(* memory of the last sync.                                                *)
PlatformOK ==
  /\ vci \in Instance \cup {None}
  /\ key \in AccessKey \cup {None}
  /\ key # None => key.token <= minted
  /\ installer \in {"none", "ours", "foreign"}
  /\ minted \in Nat
  /\ binding \in BOOLEAN
  /\ synced \in BOOLEAN

(* Types of the tenant cluster, which goes with its instance.              *)
TenantOK ==
  /\ namespace \in BOOLEAN
  /\ secret \in Secret \cup {None}
  /\ stamp \in Nat
  /\ secret # None => namespace /\ secret.version \in 1 .. stamp /\ vci # None

(* What the controller holds was given out.                                *)
HeldOK == held \in 0 .. minted /\ read \in 0 .. stamp

UsedOK == used \in [Kinds -> Nat] /\ Affordable(used)

(* The parts are the whole type invariant. *)
LEMMA TypeParts == TypeOK <=> LocalsOK /\ PlatformOK /\ TenantOK /\ HeldOK /\ UsedOK
BY DEF TypeOK, LocalsOK, PlatformOK, TenantOK, HeldOK, UsedOK

(* An object is not the absence of one.                                    *)
LEMMA ObjectsAreSome ==
  /\ \A i \in Instance : i # None
  /\ \A k \in AccessKey : k # None
  /\ \A s \in Secret : s # None
BY NoneAssumption

(* Spending stays within the budgets.                                      *)
LEMMA SpendingStaysOK ==
  ASSUME UsedOK, NEW kind \in Kinds, Spend(kind)
  PROVE  UsedOK'
<1>1. used[kind] + 1 \in Nat  BY DEF UsedOK
<1>2. used' \in [Kinds -> Nat]  BY <1>1 DEF UsedOK, Spend
<1> QED  BY <1>2 DEF UsedOK, Spend, Affordable

(* Tokens and versions are only ever added.                                *)
Grow ==
  /\ minted \in Nat /\ minted' \in Nat /\ minted <= minted'
  /\ stamp \in Nat /\ stamp' \in Nat /\ stamp <= stamp'

(* Each way to continue a pass keeps its locals in order.                  *)
LEMMA ContinuationsOK ==
  ASSUME LocalsOK, HeldOK, Grow
  PROVE  /\ EndPass => (LocalsOK /\ HeldOK)'
         /\ \A v \in {"want", "protect", "drop"} : Conclude(v) => (LocalsOK /\ HeldOK)'
         /\ pc \notin {"idle"} \cup PassRequests =>
              \A d \in BOOLEAN : Leave(d) => (LocalsOK /\ HeldOK)'
         /\ UNCHANGED locals => (LocalsOK /\ HeldOK)'
<1>1. ASSUME EndPass  PROVE (LocalsOK /\ HeldOK)'
  <2>1. pc' = "idle" /\ seen' = None /\ verdict' = "none" /\ held' = 0 /\ read' = 0 /\ done' = FALSE
    BY <1>1 DEF EndPass
  <2>2. LocalsOK'  BY <2>1, Zenon DEF LocalsOK
  <2>3. HeldOK'  BY <2>1 DEF HeldOK, Grow
  <2> QED  BY <2>2, <2>3
<1>2. \A v \in {"want", "protect", "drop"} : Conclude(v) => (LocalsOK /\ HeldOK)'
  BY DEF Conclude, LocalsOK, HeldOK, TenantRequests, PassRequests, Grow
<1>3. ASSUME pc \notin {"idle"} \cup PassRequests, NEW d \in BOOLEAN, Leave(d)
      PROVE  (LocalsOK /\ HeldOK)'
  BY <1>3 DEF Leave, LocalsOK, HeldOK, TenantRequests, PassRequests, Grow
<1>4. UNCHANGED locals => (LocalsOK /\ HeldOK)'
  BY DEF locals, LocalsOK, HeldOK, Grow
<1> QED  BY <1>1, <1>2, <1>3, <1>4

(* A pass goes on to a request that needs the instance it listed.          *)
LEMMA GotoOK ==
  ASSUME LocalsOK, HeldOK, Grow, NEW p, Goto(p),
         p \in {"makeKey", "getInstaller", "dropOld", "makeInstaller", "dropKey"}
               \cup TenantRequests \cup PassRequests,
         seen # None \/ (p \in PassRequests /\ pc # "idle")
  PROVE  (LocalsOK /\ HeldOK)'
BY DEF Goto, LocalsOK, HeldOK, TenantRequests, PassRequests, Grow

(* The error continuation of any request, and what the installer key's     *)
(* user returns to.                                                        *)
LEMMA OnErrorOK ==
  ASSUME LocalsOK, HeldOK, Grow, pc # "idle", OnError
  PROVE  (LocalsOK /\ HeldOK)'
<1>1. EndPass \/ (pc \in TenantRequests /\ Leave(FALSE)) \/ Conclude("protect")
  BY DEF OnError, Fail
<1>2. pc \in TenantRequests => pc \notin {"idle"} \cup PassRequests
  BY DEF TenantRequests, PassRequests
<1> QED  BY <1>1, <1>2, ContinuationsOK

(* withTenantInstaller returns into the pass.                              *)
LEMMA AfterTenantOK ==
  ASSUME LocalsOK, HeldOK, Grow, pc = "dropInstaller", synced \in BOOLEAN, AfterTenant
  PROVE  (LocalsOK /\ HeldOK)' /\ synced' \in BOOLEAN
<1>1. synced' \in BOOLEAN  BY DEF AfterTenant
<1>2. seen # None  BY DEF LocalsOK, PassRequests
<1>3. Goto("dropKey") => (LocalsOK /\ HeldOK)'  BY <1>2, GotoOK
<1>4. Conclude("protect") \/ Conclude("want") => (LocalsOK /\ HeldOK)'
  BY ContinuationsOK
<1> QED  BY <1>1, <1>3, <1>4 DEF AfterTenant, Fail

------------------------------------------------------------------------------
(* What the single changes do. *)

(* A new writer key carries a new token.                                   *)
LEMMA MintOK ==
  ASSUME PlatformOK, Mint
  PROVE  /\ vci' \in Instance \cup {None} /\ key' \in AccessKey /\ key'.token = minted' /\ key'.ours
         /\ installer' \in {"none", "ours", "foreign"} /\ binding' \in BOOLEAN
         /\ minted' \in Nat /\ minted <= minted'
BY DEF Mint, PlatformOK, AccessKey

(* The Secret that is written is the controller's, with a version of its   *)
(* own.                                                                    *)
LEMMA SetSecretOK ==
  ASSUME TenantOK, HeldOK, minted \in Nat, namespace, vci # None, SetSecret
  PROVE  TenantOK' /\ stamp <= stamp' /\ UNCHANGED platform
<1>1. held \in Nat  BY DEF HeldOK
<1>2. [managed |-> TRUE, token |-> held, version |-> stamp + 1] \in Secret
  BY <1>1 DEF Secret, TenantOK
<1>3. vci' = vci /\ UNCHANGED platform  BY DEF SetSecret, platform
<1>4. CASE UNCHANGED <<secret, stamp>>
  BY <1>3, <1>4 DEF SetSecret, TenantOK
<1>5. CASE /\ secret' = [managed |-> TRUE, token |-> held, version |-> stamp + 1]
           /\ stamp' = stamp + 1
  BY <1>2, <1>3, <1>5 DEF SetSecret, TenantOK
<1> QED  BY <1>4, <1>5 DEF SetSecret

(* The other single changes. *)
LEMMA ChangesOK ==
  ASSUME PlatformOK, TenantOK, synced' \in BOOLEAN
  PROVE  /\ UNCHANGED <<platform, tenant>> => (PlatformOK /\ TenantOK)' /\ Grow
         /\ \A s \in {"none", "ours"} :
              SetInstaller(s) => (PlatformOK /\ TenantOK)' /\ Grow
         /\ ClearKey => (PlatformOK /\ TenantOK)' /\ Grow
         /\ SetNamespace => (PlatformOK /\ TenantOK)' /\ Grow
         /\ ClearSecret => (PlatformOK /\ TenantOK)' /\ Grow
         /\ Mint => (PlatformOK /\ TenantOK)' /\ Grow
<1> USE DEF platform, tenant, Grow
<1>1. UNCHANGED <<platform, tenant>> => (PlatformOK /\ TenantOK)' /\ Grow
  BY DEF PlatformOK, TenantOK
<1>2. ASSUME NEW s \in {"none", "ours"}, SetInstaller(s)
      PROVE  (PlatformOK /\ TenantOK)' /\ Grow
  BY <1>2 DEF SetInstaller, PlatformOK, TenantOK
<1>3. ClearKey => (PlatformOK /\ TenantOK)' /\ Grow
  BY DEF ClearKey, PlatformOK, TenantOK
<1>4. SetNamespace => (PlatformOK /\ TenantOK)' /\ Grow
  BY DEF SetNamespace, PlatformOK, TenantOK
<1>5. ClearSecret => (PlatformOK /\ TenantOK)' /\ Grow
  BY DEF ClearSecret, PlatformOK, TenantOK
<1>6. ASSUME Mint  PROVE (PlatformOK /\ TenantOK)' /\ Grow
  <2>1. key' \in AccessKey /\ key'.token <= minted' /\ minted' \in Nat /\ minted <= minted'
    BY <1>6, MintOK
  <2>2. UNCHANGED <<vci, installer, binding, tenant>>  BY <1>6 DEF Mint
  <2> QED  BY <2>1, <2>2 DEF PlatformOK, TenantOK
<1> QED  BY <1>1, <1>2, <1>3, <1>4, <1>5, <1>6

(* Writing the Secret into a namespace that is there.                      *)
LEMMA WritingOK ==
  ASSUME PlatformOK, TenantOK, HeldOK, synced' \in BOOLEAN, Reachable, Writable, SetSecret
  PROVE  (PlatformOK /\ TenantOK)' /\ Grow
<1>1. namespace /\ vci # None /\ minted \in Nat /\ stamp \in Nat
  BY DEF Writable, Reachable, PlatformOK, TenantOK
<1>2. TenantOK' /\ stamp <= stamp' /\ UNCHANGED platform  BY <1>1, SetSecretOK
<1> QED  BY <1>1, <1>2 DEF PlatformOK, TenantOK, Grow, platform

------------------------------------------------------------------------------
(* Type correctness, action by action. *)

(* The requests of a pass, except for those that only fail.                *)
LEMMA StepTypes ==
  ASSUME LocalsOK, PlatformOK, TenantOK, HeldOK, UsedOK, Step
  PROVE  (LocalsOK /\ PlatformOK /\ TenantOK /\ HeldOK /\ UsedOK)'
<1> DEFINE Stays == (LocalsOK /\ PlatformOK /\ TenantOK /\ HeldOK /\ UsedOK)'
           Reads == synced' \in BOOLEAN /\ UNCHANGED <<platform, tenant, used>>
<1> USE DEF PassRequests, TenantRequests
<1>0. synced \in BOOLEAN  BY DEF PlatformOK
<1>a. UNCHANGED used => UsedOK'  BY DEF UsedOK, Affordable
<1>b. Reads => (PlatformOK /\ TenantOK)' /\ Grow /\ UsedOK'  BY <1>a, ChangesOK
<1>1. CASE ListInstances
  <2>1. synced' \in BOOLEAN /\ UNCHANGED <<platform, tenant>>
    BY <1>0, <1>1 DEF ListInstances
  <2>2. (PlatformOK /\ TenantOK)' /\ Grow  BY <2>1, ChangesOK
  <2>3. UsedOK'
    <3>1. "empties" \in Kinds  BY BudgetAssumption
    <3> QED  BY <1>1, <1>a, <3>1, SpendingStaysOK DEF ListInstances
  <2>4. seen' \in Instance \cup {None}  BY <1>1 DEF ListInstances, PlatformOK
  <2>5. /\ pc' \in {"sweep", "findKey", "getKey"}
        /\ verdict' \in {"drop", "protect", "want"}
        /\ pc' # "sweep" => seen' # None
    <3> DEFINE branch == IF seen' = None THEN <<"sweep", "drop">>
                         ELSE IF ~seen'.enrolled THEN <<"findKey", "drop">>
                         ELSE IF ~seen'.ready THEN <<"sweep", "protect">>
                         ELSE IF seen'.asleep THEN <<"sweep", "want">>
                         ELSE <<"getKey", "want">>
    <3>1. pc' = branch[1] /\ verdict' = branch[2]  BY <1>1 DEF ListInstances
    <3>2. CASE seen' = None  BY <3>1, <3>2
    <3>3. CASE seen' # None  BY <3>1, <3>3
    <3> QED  BY <3>2, <3>3
  <2>6. UNCHANGED <<held, read, done>>  BY <1>1 DEF ListInstances
  <2>7. LocalsOK'  BY <2>4, <2>5, <2>6 DEF LocalsOK
  <2>8. HeldOK'  BY <2>2, <2>6 DEF HeldOK, Grow
  <2> QED  BY <2>2, <2>3, <2>7, <2>8
<1>2. CASE GetKey
  <2>1. Reads /\ seen # None /\ pc = "getKey"  BY <1>0, <1>2 DEF GetKey, LocalsOK
  <2>2. (PlatformOK /\ TenantOK)' /\ Grow /\ UsedOK'  BY <1>b, <2>1
  <2>3. Goto("makeKey") => (LocalsOK /\ HeldOK)'  BY <2>1, <2>2, GotoOK
  <2>4. Conclude("protect") => (LocalsOK /\ HeldOK)'  BY <2>2, ContinuationsOK
  <2>5. ASSUME key # None, held' = key.token, pc' \in {"sweep", "getInstaller"},
               UNCHANGED <<seen, verdict, read, done>>
        PROVE  (LocalsOK /\ HeldOK)'
    <3>1. key.token \in Nat /\ key.token <= minted  BY <2>5 DEF PlatformOK, AccessKey
    <3> QED  BY <2>1, <2>2, <2>5, <3>1 DEF LocalsOK, HeldOK, Grow
  <2>6. (LocalsOK /\ HeldOK)'  BY <1>2, <2>3, <2>4, <2>5 DEF GetKey, Fail
  <2> QED  BY <2>2, <2>6
<1>3. CASE MakeKey
  <2>1. UsedOK' /\ pc = "makeKey" /\ seen # None  BY <1>3, <1>a DEF MakeKey, LocalsOK
  <2>2. CASE /\ Mint /\ held' = minted' /\ pc' = "getInstaller" /\ synced' = FALSE
             /\ UNCHANGED <<seen, verdict, read, done>>
    <3>1. (PlatformOK /\ TenantOK)' /\ Grow  BY <2>2, ChangesOK
    <3>2. (LocalsOK /\ HeldOK)'  BY <2>1, <2>2, <3>1 DEF LocalsOK, HeldOK, Grow
    <3> QED  BY <2>1, <3>1, <3>2
  <2>3. CASE Fail /\ UNCHANGED <<platform, tenant, synced>>
    <3>1. (PlatformOK /\ TenantOK)' /\ Grow  BY <1>0, <2>3, ChangesOK
    <3>2. (LocalsOK /\ HeldOK)'  BY <2>3, <3>1, ContinuationsOK DEF Fail
    <3> QED  BY <2>1, <3>1, <3>2
  <2> QED  BY <1>3, <2>2, <2>3 DEF MakeKey
<1>4. CASE GetInstaller
  <2>1. Reads /\ seen # None  BY <1>0, <1>4 DEF GetInstaller, LocalsOK
  <2>2. (PlatformOK /\ TenantOK)' /\ Grow /\ UsedOK'  BY <1>b, <2>1
  <2>3. Goto("makeInstaller") \/ Goto("dropOld") => (LocalsOK /\ HeldOK)'
    BY <2>1, <2>2, GotoOK
  <2>4. Fail => (LocalsOK /\ HeldOK)'  BY <2>2, ContinuationsOK DEF Fail
  <2>5. Goto("makeInstaller") \/ Goto("dropOld") \/ Fail
    BY <1>4 DEF GetInstaller, PlatformOK
  <2> QED  BY <2>2, <2>3, <2>4, <2>5
<1>5. CASE DropOldInstaller
  <2>1. seen # None /\ UsedOK' /\ synced' \in BOOLEAN
    BY <1>0, <1>5, <1>a DEF DropOldInstaller, LocalsOK
  <2>2. (PlatformOK /\ TenantOK)' /\ Grow  BY <1>5, <2>1, ChangesOK DEF DropOldInstaller
  <2>3. (LocalsOK /\ HeldOK)'  BY <1>5, <2>1, <2>2, GotoOK DEF DropOldInstaller
  <2> QED  BY <2>1, <2>2, <2>3
<1>6. CASE MakeInstaller
  <2>1. seen # None /\ UsedOK' /\ synced' \in BOOLEAN
    BY <1>0, <1>6, <1>a DEF MakeInstaller, LocalsOK
  <2>2. (PlatformOK /\ TenantOK)' /\ Grow  BY <1>6, <2>1, ChangesOK DEF MakeInstaller
  <2>3. Goto("getNamespace") \/ Goto("findSecret") \/ Fail  BY <1>6 DEF MakeInstaller
  <2>4. Goto("getNamespace") \/ Goto("findSecret") => (LocalsOK /\ HeldOK)'
    BY <2>1, <2>2, GotoOK
  <2>5. Fail => (LocalsOK /\ HeldOK)'  BY <2>2, ContinuationsOK DEF Fail
  <2> QED  BY <2>1, <2>2, <2>3, <2>4, <2>5
<1>7. CASE GetNamespace
  <2>1. Reads /\ seen # None  BY <1>0, <1>7 DEF GetNamespace, LocalsOK
  <2>2. (PlatformOK /\ TenantOK)' /\ Grow /\ UsedOK'  BY <1>b, <2>1
  <2>3. Goto("getSecret") \/ Goto("makeNamespace")  BY <1>7 DEF GetNamespace
  <2>4. (LocalsOK /\ HeldOK)'  BY <2>1, <2>2, <2>3, GotoOK
  <2> QED  BY <2>2, <2>4
<1>8. CASE MakeNamespace
  <2>1. /\ seen # None /\ UsedOK' /\ synced' \in BOOLEAN
        /\ pc \notin {"idle"} \cup PassRequests
    BY <1>0, <1>8, <1>a DEF MakeNamespace, LocalsOK
  <2>2. (PlatformOK /\ TenantOK)' /\ Grow  BY <1>8, <2>1, ChangesOK DEF MakeNamespace
  <2>3. Leave(FALSE) => (LocalsOK /\ HeldOK)'  BY <2>1, <2>2, ContinuationsOK
  <2>4. Goto("getSecret") => (LocalsOK /\ HeldOK)'  BY <2>1, <2>2, GotoOK
  <2> QED  BY <1>8, <2>1, <2>2, <2>3, <2>4 DEF MakeNamespace
<1>9. CASE GetSecret
  <2>1. /\ Reads /\ seen # None /\ pc \notin {"idle"} \cup PassRequests
    BY <1>0, <1>9 DEF GetSecret, LocalsOK
  <2>2. (PlatformOK /\ TenantOK)' /\ Grow /\ UsedOK'  BY <1>b, <2>1
  <2>3. Leave(FALSE) => (LocalsOK /\ HeldOK)'  BY <2>1, <2>2, ContinuationsOK
  <2>4. ASSUME pc' = "writeSecret", read' = IF secret = None THEN 0 ELSE secret.version,
               UNCHANGED <<seen, verdict, held, done>>
        PROVE  (LocalsOK /\ HeldOK)'
    <3>1. read' \in 0 .. stamp  BY <2>4 DEF TenantOK
    <3> QED  BY <2>1, <2>2, <2>4, <3>1 DEF LocalsOK, HeldOK, Grow
  <2> QED  BY <1>9, <2>2, <2>3, <2>4 DEF GetSecret
<1>10. CASE WriteSecret
  <2>1. /\ UsedOK' /\ synced' \in BOOLEAN /\ pc \notin {"idle"} \cup PassRequests
    BY <1>0, <1>10, <1>a DEF WriteSecret
  <2>2. (PlatformOK /\ TenantOK)' /\ Grow
    BY <1>10, <2>1, ChangesOK, WritingOK DEF WriteSecret
  <2>3. (LocalsOK /\ HeldOK)'  BY <1>10, <2>1, <2>2, ContinuationsOK DEF WriteSecret
  <2> QED  BY <2>1, <2>2, <2>3
<1>11. CASE FindKey
  <2>1. Reads /\ seen # None  BY <1>0, <1>11 DEF FindKey, LocalsOK
  <2>2. (PlatformOK /\ TenantOK)' /\ Grow /\ UsedOK'  BY <1>b, <2>1
  <2>3. Goto("getInstaller") => (LocalsOK /\ HeldOK)'  BY <2>1, <2>2, GotoOK
  <2>4. Conclude("drop") \/ Conclude("protect") => (LocalsOK /\ HeldOK)'
    BY <2>2, ContinuationsOK
  <2> QED  BY <1>11, <2>2, <2>3, <2>4 DEF FindKey, Fail
<1>12. CASE FindSecret
  <2>1. Reads /\ seen # None /\ pc \notin {"idle"} \cup PassRequests
    BY <1>0, <1>12 DEF FindSecret, LocalsOK
  <2>2. (PlatformOK /\ TenantOK)' /\ Grow /\ UsedOK'  BY <1>b, <2>1
  <2>3. Goto("deleteSecret") => (LocalsOK /\ HeldOK)'  BY <2>1, <2>2, GotoOK
  <2>4. Leave(TRUE) \/ Leave(FALSE) => (LocalsOK /\ HeldOK)'
    BY <2>1, <2>2, ContinuationsOK
  <2> QED  BY <1>12, <2>2, <2>3, <2>4 DEF FindSecret
<1>13. CASE DeleteSecret
  <2>1. /\ UsedOK' /\ synced' \in BOOLEAN /\ pc \notin {"idle"} \cup PassRequests
    BY <1>0, <1>13, <1>a DEF DeleteSecret
  <2>2. (PlatformOK /\ TenantOK)' /\ Grow  BY <1>13, <2>1, ChangesOK DEF DeleteSecret
  <2>3. (LocalsOK /\ HeldOK)'  BY <1>13, <2>1, <2>2, ContinuationsOK DEF DeleteSecret
  <2> QED  BY <2>1, <2>2, <2>3
<1>14. CASE DropInstaller
  <2>1. UsedOK' /\ pc = "dropInstaller" /\ synced' \in BOOLEAN
    BY <1>0, <1>14, <1>a DEF DropInstaller, AfterTenant
  <2>2. (PlatformOK /\ TenantOK)' /\ Grow  BY <1>14, <2>1, ChangesOK DEF DropInstaller
  <2>3. (LocalsOK /\ HeldOK)'  BY <1>0, <1>14, <2>1, <2>2, AfterTenantOK DEF DropInstaller
  <2> QED  BY <2>1, <2>2, <2>3
<1>15. CASE DropKey
  <2>1. UsedOK' /\ synced' \in BOOLEAN  BY <1>15, <1>a DEF DropKey
  <2>2. (PlatformOK /\ TenantOK)' /\ Grow  BY <1>15, <2>1, ChangesOK DEF DropKey
  <2>3. (LocalsOK /\ HeldOK)'  BY <1>15, <2>2, ContinuationsOK DEF DropKey
  <2> QED  BY <2>1, <2>2, <2>3
<1>16. CASE Sweep
  <2>1. Reads /\ pc # "idle"  BY <1>0, <1>16 DEF Sweep
  <2>2. (PlatformOK /\ TenantOK)' /\ Grow /\ UsedOK'  BY <1>b, <2>1
  <2>3. Goto("sweepKey") \/ Goto("apply")  BY <1>16 DEF Sweep
  <2>4. (LocalsOK /\ HeldOK)'  BY <2>1, <2>2, <2>3, GotoOK
  <2> QED  BY <2>2, <2>4
<1>17. CASE SweepKey
  <2>1. UsedOK' /\ synced' \in BOOLEAN /\ pc # "idle"  BY <1>17, <1>a DEF SweepKey
  <2>2. (PlatformOK /\ TenantOK)' /\ Grow  BY <1>17, <2>1, ChangesOK DEF SweepKey
  <2>3. (LocalsOK /\ HeldOK)'  BY <1>17, <2>1, <2>2, GotoOK DEF SweepKey
  <2> QED  BY <2>1, <2>2, <2>3
<1>18. CASE Apply
  <2>1. UsedOK' /\ synced' \in BOOLEAN  BY <1>0, <1>18, <1>a DEF Apply
  <2>2. binding' \in BOOLEAN
    <3>1. verdict \in {"want", "protect", "drop"}  BY <1>18 DEF Apply, LocalsOK
    <3> QED  BY <1>18, <3>1 DEF Apply, PlatformOK
  <2>3. UNCHANGED <<vci, key, installer, minted, tenant>> /\ EndPass  BY <1>18 DEF Apply
  <2>4. (PlatformOK /\ TenantOK)' /\ Grow
    BY <2>1, <2>2, <2>3 DEF PlatformOK, TenantOK, Grow, tenant
  <2>5. (LocalsOK /\ HeldOK)'  BY <2>3, <2>4, ContinuationsOK
  <2> QED  BY <2>1, <2>4, <2>5
<1>19. CASE TenantUnreachable
  <2>1. /\ UsedOK' /\ synced' \in BOOLEAN /\ pc \notin {"idle"} \cup PassRequests
        /\ UNCHANGED <<platform, tenant>> /\ Leave(FALSE)
    BY <1>0, <1>19, <1>a DEF TenantUnreachable
  <2>2. (PlatformOK /\ TenantOK)' /\ Grow  BY <2>1, ChangesOK
  <2>3. (LocalsOK /\ HeldOK)'  BY <2>1, <2>2, ContinuationsOK
  <2> QED  BY <2>1, <2>2, <2>3
<1> QED
  BY <1>1, <1>2, <1>3, <1>4, <1>5, <1>6, <1>7, <1>8, <1>9, <1>10, <1>11, <1>12,
     <1>13, <1>14, <1>15, <1>16, <1>17, <1>18, <1>19 DEF Step

(* The false 404s. *)
LEMMA NotFoundTypes ==
  ASSUME LocalsOK, PlatformOK, TenantOK, HeldOK, AnsweredNotFound
  PROVE  (LocalsOK /\ PlatformOK /\ TenantOK /\ HeldOK)'
<1>0. synced \in BOOLEAN /\ minted \in Nat  BY DEF PlatformOK
<1>1. UNCHANGED <<vci, key, installer, binding, tenant>>  BY DEF AnsweredNotFound
<1>2. \/ UNCHANGED minted
      \/ /\ pc = "makeKey"
         /\ minted' = minted + 1
         /\ held' = minted'
         /\ pc' = "getInstaller"
         /\ synced' = FALSE
         /\ UNCHANGED <<seen, verdict, read, done>>
  BY DEF AnsweredNotFound
<1>3. minted' \in Nat /\ minted <= minted'  BY <1>0, <1>2
<1>4. Grow /\ TenantOK'
  BY <1>1, <1>3 DEF Grow, TenantOK, PlatformOK, tenant
<1>5. key # None => key.token \in Nat  BY DEF PlatformOK, AccessKey
<1>6. synced' \in BOOLEAN  BY <1>0 DEF AnsweredNotFound, AfterTenant
<1>7. key' # None => key'.token <= minted'
  BY <1>0, <1>1, <1>3, <1>5 DEF PlatformOK
<1>8. PlatformOK'  BY <1>1, <1>3, <1>6, <1>7 DEF PlatformOK
<1>9. (LocalsOK /\ HeldOK)'
  <2>1. CASE UNCHANGED minted /\ pc \in {"getKey", "getInstaller", "dropOld", "sweepKey", "sweep"}
                /\ (Goto("makeKey") \/ Goto("makeInstaller") \/ Goto("apply"))
    <3>1. pc # "idle" /\ (pc \in PassRequests \/ seen # None)
      BY <2>1 DEF LocalsOK, PassRequests
    <3>2. Goto("apply") \/ seen # None
      BY <2>1, <3>1 DEF AnsweredNotFound, Goto, Leave, Conclude, AfterTenant, Fail, LocalsOK,
                        PassRequests, EndPass
    <3> QED  BY <1>4, <2>1, <3>1, <3>2, GotoOK DEF PassRequests
  <2>2. CASE pc \in {"makeInstaller", "findSecret", "deleteSecret"} /\ (Leave(TRUE) \/ Leave(FALSE))
    BY <1>4, <2>2, ContinuationsOK DEF PassRequests
  <2>3. CASE pc \in {"findKey", "dropKey"} /\ Conclude("drop")
    BY <1>4, <2>3, ContinuationsOK
  <2>4. CASE EndPass  BY <1>4, <2>4, ContinuationsOK
  <2>5. CASE pc = "dropInstaller" /\ AfterTenant  BY <1>0, <1>4, <2>5, AfterTenantOK
  <2>6. CASE pc = "makeKey"
    <3>1. /\ held' = minted' /\ pc' = "getInstaller"
          /\ UNCHANGED <<seen, verdict, read, done>>
      BY <2>6 DEF AnsweredNotFound
    <3>2. held' \in 0 .. minted' /\ read' \in 0 .. stamp'
      BY <1>3, <1>4, <3>1 DEF HeldOK, Grow
    <3> QED  BY <2>6, <3>1, <3>2 DEF LocalsOK, HeldOK, PassRequests, TenantRequests
  <2> QED  BY <2>1, <2>2, <2>3, <2>4, <2>5, <2>6 DEF AnsweredNotFound
<1> QED  BY <1>4, <1>8, <1>9

(* The failures. *)
LEMMA FailureTypes ==
  ASSUME LocalsOK, PlatformOK, TenantOK, HeldOK, UsedOK,
         RequestFails \/ AnswerLost \/ AnsweredNotFound \/ Restart
  PROVE  (LocalsOK /\ PlatformOK /\ TenantOK /\ HeldOK /\ UsedOK)'
<1>0. synced \in BOOLEAN  BY DEF PlatformOK
<1>1. UsedOK'
  <2>1. {"faults", "empties"} \subseteq Kinds /\ (Spend("faults") \/ Spend("empties"))
    BY BudgetAssumption DEF RequestFails, AnswerLost, AnsweredNotFound, Restart
  <2> QED  BY <2>1, SpendingStaysOK
<1>2. CASE RequestFails
  <2>1. synced' \in BOOLEAN /\ UNCHANGED <<platform, tenant>>
    BY <1>0, <1>2 DEF RequestFails, AfterTenant
  <2>2. (PlatformOK /\ TenantOK)' /\ Grow  BY <2>1, ChangesOK
  <2>3. AfterTenant /\ pc = "dropInstaller" => (LocalsOK /\ HeldOK)'
    BY <1>0, <2>2, AfterTenantOK
  <2>4. OnError /\ pc # "idle" => (LocalsOK /\ HeldOK)'  BY <2>2, OnErrorOK
  <2> QED  BY <1>1, <1>2, <2>2, <2>3, <2>4 DEF RequestFails
<1>3. CASE AnswerLost
  <2>1. synced' \in BOOLEAN /\ OnError  BY <1>0, <1>3 DEF AnswerLost
  <2>2. /\ pc # "idle"
        /\ \/ Mint \/ SetInstaller("ours") \/ SetInstaller("none") \/ SetNamespace
           \/ Reachable /\ Writable /\ SetSecret
           \/ ClearSecret \/ ClearKey
    BY <1>3 DEF AnswerLost
  <2>3. (PlatformOK /\ TenantOK)' /\ Grow  BY <2>1, <2>2, ChangesOK, WritingOK
  <2>4. (LocalsOK /\ HeldOK)'  BY <2>1, <2>2, <2>3, OnErrorOK
  <2> QED  BY <1>1, <2>3, <2>4
<1>4. CASE Restart
  <2>1. synced' \in BOOLEAN /\ UNCHANGED <<platform, tenant>> /\ EndPass
    BY <1>4 DEF Restart
  <2>2. (PlatformOK /\ TenantOK)' /\ Grow  BY <2>1, ChangesOK
  <2>3. (LocalsOK /\ HeldOK)'  BY <2>1, <2>2, ContinuationsOK
  <2> QED  BY <1>1, <2>2, <2>3
<1>5. CASE AnsweredNotFound  BY <1>1, <1>5, NotFoundTypes
<1> QED  BY <1>2, <1>3, <1>4, <1>5

(* Everyone else. *)
LEMMA EnvironmentTypes ==
  ASSUME LocalsOK, PlatformOK, TenantOK, HeldOK, UsedOK, Environment
  PROVE  (LocalsOK /\ PlatformOK /\ TenantOK /\ HeldOK /\ UsedOK)'
<1> DEFINE Elsewhere == UNCHANGED <<synced, locals>>
<1>0. synced \in BOOLEAN  BY DEF PlatformOK
<1>a. \A kind \in {"edits", "deletions", "hands", "revocations"} : Spend(kind) => UsedOK'
  BY BudgetAssumption, SpendingStaysOK
<1>b. Elsewhere /\ Grow => (LocalsOK /\ HeldOK)' /\ synced' \in BOOLEAN
  BY <1>0, ContinuationsOK
<1>1. CASE EditInstance
  <2>1. Elsewhere /\ UsedOK'  BY <1>1, <1>a DEF EditInstance
  <2>2. vci' \in Instance
    <3>1. PICK s \in States :
            vci' = [enrolled |-> s.enrolled, ready |-> s.ready, asleep |-> s.asleep,
                    born |-> IF vci = None THEN used["deletions"] ELSE vci.born]
      BY <1>1 DEF EditInstance
    <3>2. s.enrolled \in BOOLEAN /\ s.ready \in BOOLEAN /\ s.asleep \in BOOLEAN
      BY StatesAssumption
    <3>3. used["deletions"] \in Nat  BY BudgetAssumption DEF UsedOK
    <3>4. vci # None => vci.born \in Nat  BY DEF PlatformOK, Instance
    <3> QED  BY <3>1, <3>2, <3>3, <3>4 DEF Instance
  <2>3. vci' # None  BY <2>2, ObjectsAreSome
  <2>4. (PlatformOK /\ TenantOK)' /\ Grow
    BY <1>1, <2>2, <2>3 DEF EditInstance, PlatformOK, TenantOK, Grow, tenant
  <2> QED  BY <1>b, <2>1, <2>4
<1>2. CASE DeleteInstance
  <2>1. Elsewhere /\ UsedOK'  BY <1>2, <1>a DEF DeleteInstance
  <2>2. /\ vci' = None /\ namespace' = FALSE /\ secret' = None
        /\ UNCHANGED <<key, installer, minted, binding, stamp, synced>>
    BY <1>2 DEF DeleteInstance
  <2>3. PlatformOK'  BY <2>2 DEF PlatformOK
  <2>4. TenantOK'
    <3>1. stamp' \in Nat  BY <2>2 DEF TenantOK
    <3> QED  BY <2>2, <3>1, Zenon DEF TenantOK
  <2>5. Grow  BY <2>2 DEF PlatformOK, TenantOK, Grow
  <2> QED  BY <1>b, <2>1, <2>3, <2>4, <2>5
<1>3. CASE EditSecret
  <2>1. Elsewhere /\ UsedOK'  BY <1>3, <1>a DEF EditSecret
  <2>2. CASE /\ secret' = [managed |-> FALSE, token |-> 0, version |-> stamp + 1]
             /\ stamp' = stamp + 1
             /\ namespace' = TRUE
    <3>1. secret' \in Secret /\ secret'.version = stamp'  BY <2>2 DEF Secret, TenantOK
    <3> QED
      BY <1>3, <1>b, <2>1, <2>2, <3>1 DEF EditSecret, PlatformOK, TenantOK, Grow, platform
  <2>3. CASE secret' = None /\ UNCHANGED <<namespace, stamp>>
    BY <1>3, <1>b, <2>1, <2>3 DEF EditSecret, PlatformOK, TenantOK, Grow, platform
  <2> QED  BY <1>3, <2>2, <2>3 DEF EditSecret
<1>4. CASE PlantKey
  <2>1. Elsewhere /\ UsedOK'  BY <1>4, <1>a DEF PlantKey
  <2>2. [ours |-> FALSE, token |-> 0] \in AccessKey  BY DEF AccessKey
  <2>3. \/ key' \in AccessKey /\ key'.token <= minted /\ UNCHANGED installer
        \/ installer' = "foreign" /\ UNCHANGED key
    <3>1. minted \in Nat  BY DEF PlatformOK
    <3>2. CASE key' = [ours |-> FALSE, token |-> 0] /\ UNCHANGED installer
      BY <2>2, <3>1, <3>2
    <3>3. CASE installer' = "foreign" /\ UNCHANGED key  BY <3>3
    <3> QED  BY <1>4, <3>2, <3>3 DEF PlantKey
  <2>4. UNCHANGED <<vci, minted, binding, synced>> /\ UNCHANGED <<namespace, secret, stamp>>
    BY <1>4 DEF PlantKey, tenant
  <2>5. PlatformOK'  BY <2>3, <2>4 DEF PlatformOK
  <2>6. TenantOK' /\ Grow  BY <2>4 DEF PlatformOK, TenantOK, Grow
  <2> QED  BY <1>b, <2>1, <2>5, <2>6
<1>5. CASE RevokeKey
  <2>1. Elsewhere /\ UsedOK'  BY <1>5, <1>a DEF RevokeKey
  <2>2. (PlatformOK /\ TenantOK)' /\ Grow  BY <1>0, <1>5, ChangesOK DEF RevokeKey
  <2> QED  BY <1>b, <2>1, <2>2
<1>6. CASE IntervalElapses
  <2>1. synced' \in BOOLEAN /\ UNCHANGED <<platform, tenant>> /\ UNCHANGED locals /\ UsedOK'
    BY <1>6 DEF IntervalElapses, UsedOK
  <2>2. (PlatformOK /\ TenantOK)' /\ Grow  BY <2>1, ChangesOK
  <2> QED  BY <2>1, <2>2, ContinuationsOK
<1> QED  BY <1>1, <1>2, <1>3, <1>4, <1>5, <1>6 DEF Environment

(* Type correctness: nothing that a pass holds outlives it, and the Secret *)
(* goes with its tenant cluster.                                           *)
THEOREM TypeCorrect == Spec => []TypeOK
<1>1. Init => TypeOK
  <2>1. ASSUME Init  PROVE LocalsOK /\ PlatformOK /\ TenantOK /\ HeldOK
    <3>1. LocalsOK  BY <2>1, Zenon DEF Init, LocalsOK
    <3>2. PlatformOK  BY <2>1 DEF Init, PlatformOK
    <3>3. TenantOK
      <4>1. stamp \in Nat  BY <2>1 DEF Init
      <4> QED  BY <2>1, <4>1, Zenon DEF Init, TenantOK
    <3>4. HeldOK  BY <2>1 DEF Init, HeldOK
    <3> QED  BY <3>1, <3>2, <3>3, <3>4
  <2>2. ASSUME Init  PROVE UsedOK
    <3>1. PICK b \in Budgets : TRUE  BY BudgetAssumption
    <3>2. \A k \in Kinds : b[k] \in Nat /\ used[k] = 0
      BY <2>2, <3>1, BudgetAssumption DEF Init
    <3>3. Affordable(used)  BY <3>1, <3>2 DEF Affordable
    <3> QED  BY <2>2, <3>3 DEF Init, UsedOK
  <2> QED  BY <2>1, <2>2, TypeParts
<1>2. TypeOK /\ [Next]_vars => TypeOK'
  <2> SUFFICES ASSUME LocalsOK, PlatformOK, TenantOK, HeldOK, UsedOK, [Next]_vars
               PROVE  (LocalsOK /\ PlatformOK /\ TenantOK /\ HeldOK /\ UsedOK)'
    BY TypeParts DEF TypeOK, LocalsOK, PlatformOK, TenantOK, HeldOK, UsedOK
  <2>1. CASE Step  BY <2>1, StepTypes
  <2>2. CASE RequestFails \/ AnswerLost \/ AnsweredNotFound \/ Restart
    BY <2>2, FailureTypes
  <2>3. CASE Environment  BY <2>3, EnvironmentTypes
  <2>4. CASE UNCHANGED vars
    BY <2>4 DEF vars, platform, tenant, locals,
                LocalsOK, PlatformOK, TenantOK, HeldOK, UsedOK
  <2> QED  BY <2>1, <2>2, <2>3, <2>4 DEF Next
<1> QED  BY <1>1, <1>2, PTL DEF Spec

------------------------------------------------------------------------------
(* A Secret of others is not overwritten. *)

(* The Secret with the version that was read is the controller's: a        *)
(* version is given out once.                                              *)
ReadManaged ==
  pc = "writeSecret" /\ read # 0 /\ secret # None /\ secret.version = read => secret.managed

(* The Secret changes in few ways.                                         *)
LEMMA SecretChanges ==
  ASSUME [Next]_vars
  PROVE  \/ UNCHANGED secret
         \/ secret' = None
         \/ /\ secret' = [managed |-> FALSE, token |-> 0, version |-> stamp + 1]
            /\ UNCHANGED pc
         \/ /\ pc = "writeSecret" /\ Writable /\ pc' = "dropInstaller"
            /\ secret' = [managed |-> TRUE, token |-> held, version |-> stamp + 1]
<1> USE DEF platform, tenant, locals
<1>1. CASE Step
  <2>1. CASE WriteSecret
    BY <2>1 DEF WriteSecret, SetSecret, Leave
  <2>2. CASE DeleteSecret  BY <2>2 DEF DeleteSecret, ClearSecret
  <2>3. CASE MakeNamespace \/ DropOldInstaller \/ MakeInstaller \/ DropInstaller
    BY <2>3 DEF MakeNamespace, DropOldInstaller, MakeInstaller, DropInstaller,
                SetNamespace, SetInstaller
  <2>4. CASE MakeKey \/ DropKey \/ SweepKey \/ Apply
    BY <2>4 DEF MakeKey, DropKey, SweepKey, Apply, Mint, ClearKey
  <2>5. CASE \/ ListInstances \/ GetKey \/ GetInstaller \/ GetNamespace \/ GetSecret
             \/ FindKey \/ FindSecret \/ Sweep \/ TenantUnreachable
    BY <2>5 DEF ListInstances, GetKey, GetInstaller, GetNamespace, GetSecret,
                FindKey, FindSecret, Sweep, TenantUnreachable
  <2> QED  BY <1>1, <2>1, <2>2, <2>3, <2>4, <2>5 DEF Step
<1>2. CASE RequestFails \/ AnsweredNotFound \/ Restart
  BY <1>2 DEF RequestFails, AnsweredNotFound, Restart
<1>3. CASE AnswerLost
  <2>1. CASE pc = "writeSecret" /\ Writable /\ SetSecret
    <3>1. pc' = "dropInstaller"
      BY <1>3, <2>1 DEF AnswerLost, OnError, Leave, TenantRequests, PassRequests
    <3> QED  BY <2>1, <3>1 DEF SetSecret
  <2>2. CASE ~(pc = "writeSecret" /\ Writable /\ SetSecret)
    BY <1>3, <2>2 DEF AnswerLost, Mint, SetInstaller, SetNamespace, ClearSecret, ClearKey
  <2> QED  BY <2>1, <2>2
<1>4. CASE Environment
  BY <1>4 DEF Environment, EditInstance, DeleteInstance, EditSecret, PlantKey, RevokeKey,
              ClearKey, IntervalElapses
<1>5. CASE UNCHANGED vars  BY <1>5 DEF vars
<1> QED  BY <1>1, <1>2, <1>3, <1>4, <1>5 DEF Next

(* Only reading the Secret leads to writing it.                            *)
LEMMA WritingFollowsReading ==
  ASSUME TypeOK, [Next]_vars, pc' = "writeSecret"
  PROVE  GetSecret \/ UNCHANGED <<pc, read>>
<1> USE DEF Goto, Conclude, Fail, Leave, EndPass, AfterTenant
<1>1. CASE Step
  <2>1. CASE ListInstances
    <3>1. pc' \in {"sweep", "findKey", "getKey"}
      <4> DEFINE branch == IF seen' = None THEN <<"sweep", "drop">>
                           ELSE IF ~seen'.enrolled THEN <<"findKey", "drop">>
                           ELSE IF ~seen'.ready THEN <<"sweep", "protect">>
                           ELSE IF seen'.asleep THEN <<"sweep", "want">>
                           ELSE <<"getKey", "want">>
      <4>1. pc' = branch[1]  BY <2>1 DEF ListInstances
      <4> QED  BY <4>1
    <3> QED  BY <3>1
  <2>2. CASE GetKey \/ MakeKey \/ FindKey \/ FindSecret \/ DeleteSecret
    BY <2>2 DEF GetKey, MakeKey, FindKey, FindSecret, DeleteSecret
  <2>3. CASE GetInstaller \/ DropOldInstaller \/ MakeInstaller \/ DropInstaller
    <3>1. installer \in {"none", "ours", "foreign"}  BY DEF TypeOK
    <3> QED  BY <2>3, <3>1 DEF GetInstaller, DropOldInstaller, MakeInstaller, DropInstaller
  <2>4. CASE GetNamespace \/ MakeNamespace \/ WriteSecret \/ TenantUnreachable
    BY <2>4 DEF GetNamespace, MakeNamespace, WriteSecret, TenantUnreachable
  <2>5. CASE DropKey \/ Sweep \/ SweepKey \/ Apply
    BY <2>5 DEF DropKey, Sweep, SweepKey, Apply
  <2> QED  BY <1>1, <2>1, <2>2, <2>3, <2>4, <2>5 DEF Step
<1>2. CASE RequestFails \/ AnswerLost \/ AnsweredNotFound \/ Restart
  BY <1>2 DEF RequestFails, AnswerLost, AnsweredNotFound, Restart, OnError
<1>3. CASE Environment
  BY <1>3 DEF Environment, EditInstance, DeleteInstance, EditSecret, PlantKey, RevokeKey,
              IntervalElapses, locals
<1>4. CASE UNCHANGED vars  BY <1>4 DEF vars, locals
<1> QED  BY <1>1, <1>2, <1>3, <1>4 DEF Next

(* ReadManaged is inductive. *)
LEMMA ReadStaysManaged ==
  ASSUME TypeOK, ReadManaged, [Next]_vars
  PROVE  ReadManaged'
<1> SUFFICES ASSUME pc' = "writeSecret", read' # 0, secret' # None, secret'.version = read'
             PROVE  secret'.managed
  BY DEF ReadManaged
<1>1. CASE GetSecret
  BY <1>1 DEF GetSecret, Leave, tenant
<1>2. CASE UNCHANGED <<pc, read>>
  <2>1. read <= stamp /\ stamp \in Nat /\ read \in Nat  BY DEF TypeOK
  <2>2. CASE UNCHANGED secret  BY <1>2, <2>2 DEF ReadManaged
  <2>3. secret' # [managed |-> FALSE, token |-> 0, version |-> stamp + 1]
    BY <1>2, <2>1
  <2> QED  BY <1>2, <2>2, <2>3, SecretChanges
<1> QED  BY <1>1, <1>2, WritingFollowsReading

(* The controller never overwrites a Secret that is not labelled as its    *)
(* own, whatever others do between its read and its write.                 *)
THEOREM UnmanagedStays == Spec => UnmanagedNotOverwritten
<1>1. Init => ReadManaged  BY DEF Init, ReadManaged
<1>2. TypeOK /\ ReadManaged /\ [Next]_vars => ReadManaged'  BY ReadStaysManaged
<1>3. TypeOK /\ ReadManaged /\ [Next]_vars =>
        [Managed(secret)' /\ secret' # secret => secret = None \/ Managed(secret)]_vars
  <2> SUFFICES ASSUME TypeOK, ReadManaged, [Next]_vars,
                      secret' # None, secret'.managed, secret' # secret, secret # None
               PROVE  secret.managed
    BY DEF Managed
  <2>1. pc = "writeSecret" /\ Writable  BY SecretChanges
  <2> QED  BY <2>1 DEF Writable, ReadManaged
<1> QED  BY <1>1, <1>2, <1>3, TypeCorrect, PTL DEF Spec, UnmanagedNotOverwritten

------------------------------------------------------------------------------
(* Opting out cleans up first. *)

(* A Secret is there only while the writer key it was made from is: this   *)
(* is what finding no key relies on.                                       *)
SecretHasKey ==
  /\ key # None => key.ours
  /\ secret # None => secret.managed /\ key # None

InstallerRequests == {"getInstaller", "dropOld", "makeInstaller"}
WriteRequests == {"getNamespace", "makeNamespace", "getSecret", "writeSecret"}

(* The requests of an instance that takes part and of one that opted out.  *)
PathOK ==
  /\ pc \in {"getKey", "makeKey"} \cup WriteRequests => seen.enrolled
  /\ pc \in {"findKey", "findSecret", "deleteSecret", "dropKey"} => ~seen.enrolled
  /\ pc \in InstallerRequests \cup WriteRequests /\ seen.enrolled => key # None

(* What a verdict says of the instance that was listed.                    *)
VerdictOK ==
  /\ verdict = "want" => seen # None /\ seen.enrolled
  /\ verdict = "protect" => seen # None
  /\ verdict = "drop" => seen = None \/ ~seen.enrolled
  /\ pc = "sweepKey" => verdict = "drop"

(* The Secret goes before the key, and the key before the bindings.        *)
InOrder ==
  /\ pc = "dropInstaller" /\ done /\ ~seen.enrolled => secret = None
  /\ pc = "dropKey" => secret = None
  /\ pc \in PassRequests /\ verdict = "drop" => secret = None
  /\ pc = "apply" /\ verdict = "drop" => key = None

CleanInv == SecretHasKey /\ PathOK /\ VerdictOK /\ InOrder

(* While nobody interferes, nothing has been spent on it.                 *)
LEMMA UntouchedSpendsNothing ==
  ASSUME TypeOK, Untouched, Untouched'
  PROVE  \A kind \in {"hands", "revocations", "empties"} : ~Spend(kind)
<1> SUFFICES ASSUME NEW kind \in {"hands", "revocations", "empties"}, Spend(kind)
             PROVE  FALSE
  OBVIOUS
<1>1. used[kind] = 0 /\ used'[kind] = 0  BY DEF Untouched
<1>2. kind \in Kinds /\ used \in [Kinds -> Nat]  BY BudgetAssumption DEF TypeOK
<1> QED  BY <1>1, <1>2 DEF Spend

(* CleanInv is inductive: the requests of a pass. *)
LEMMA StepClean ==
  ASSUME TypeOK, CleanInv, Untouched, Untouched', Step
  PROVE  CleanInv'
<1> USE DEF CleanInv, SecretHasKey, PathOK, VerdictOK, InOrder, InstallerRequests,
            WriteRequests, TenantRequests, PassRequests, platform, tenant, Goto, Conclude,
            Fail, Leave, EndPass
<1>a. pc \notin {"idle"} \cup PassRequests => seen # None  BY DEF TypeOK
<1>b. installer \in {"none", "ours", "foreign"}  BY DEF TypeOK
<1>1. CASE ListInstances
  <2>1. seen' = vci
    <3>1. ~Spend("empties")  BY UntouchedSpendsNothing
    <3> QED  BY <1>1, <3>1 DEF ListInstances
  <2>2. secret # None => vci # None  BY DEF TypeOK
  <2>3. UNCHANGED <<platform, tenant, synced, held, read, done>>  BY <1>1 DEF ListInstances
  <2> DEFINE branch == IF seen' = None THEN <<"sweep", "drop">>
                       ELSE IF ~seen'.enrolled THEN <<"findKey", "drop">>
                       ELSE IF ~seen'.ready THEN <<"sweep", "protect">>
                       ELSE IF seen'.asleep THEN <<"sweep", "want">>
                       ELSE <<"getKey", "want">>
  <2>4. pc' = branch[1] /\ verdict' = branch[2]  BY <1>1 DEF ListInstances
  <2>5. CASE seen' = None  BY <2>1, <2>2, <2>3, <2>4, <2>5
  <2>6. CASE seen' # None  BY <2>1, <2>2, <2>3, <2>4, <2>6
  <2> QED  BY <2>5, <2>6
<1>2. CASE GetKey  BY <1>2, <1>a DEF GetKey
<1>3. CASE MakeKey
  <2>1. seen # None /\ seen.enrolled  BY <1>3, <1>a DEF MakeKey
  <2>2. CASE Mint /\ pc' = "getInstaller" /\ UNCHANGED <<seen, verdict, read, done>>
    <3>1. key' # None /\ key'.ours /\ UNCHANGED secret
      BY <2>2, MintOK, TypeParts, ObjectsAreSome DEF Mint, tenant
    <3> QED  BY <2>1, <2>2, <3>1
  <2>3. CASE Fail /\ UNCHANGED <<platform, tenant>>  BY <2>1, <2>3
  <2> QED  BY <1>3, <2>2, <2>3 DEF MakeKey
<1>4. CASE GetInstaller  BY <1>4, <1>a, <1>b DEF GetInstaller
<1>5. CASE DropOldInstaller  BY <1>5, <1>a DEF DropOldInstaller, SetInstaller
<1>6. CASE MakeInstaller  BY <1>6, <1>a DEF MakeInstaller, SetInstaller
<1>7. CASE GetNamespace  BY <1>7, <1>a DEF GetNamespace
<1>8. CASE MakeNamespace  BY <1>8, <1>a DEF MakeNamespace, SetNamespace
<1>9. CASE GetSecret  BY <1>9, <1>a DEF GetSecret
<1>10. CASE WriteSecret  BY <1>10, <1>a DEF WriteSecret, SetSecret
<1>11. CASE FindKey  BY <1>11, <1>a DEF FindKey
<1>12. CASE FindSecret  BY <1>12, <1>a DEF FindSecret
<1>13. CASE DeleteSecret  BY <1>13, <1>a DEF DeleteSecret, ClearSecret
<1>14. CASE DropInstaller  BY <1>14, <1>a DEF DropInstaller, SetInstaller, AfterTenant
<1>15. CASE DropKey  BY <1>15, <1>a DEF DropKey, ClearKey
<1>16. CASE Sweep
  <2>1. UNCHANGED <<key, secret, seen, verdict, done>> /\ pc = "sweep"
    BY <1>16 DEF Sweep
  <2>2. verdict \in {"want", "protect", "drop"}  BY <2>1 DEF TypeOK
  <2>3. CASE Ours(key) /\ ~CredentialWanted
    <3>1. pc' = "sweepKey" /\ verdict = "drop"
      BY <1>16, <2>2, <2>3 DEF Sweep, CredentialWanted
    <3> QED  BY <2>1, <3>1
  <2>4. CASE ~(Ours(key) /\ ~CredentialWanted)
    <3>1. pc' = "apply"  BY <1>16, <2>4 DEF Sweep
    <3>2. verdict = "drop" => key = None  BY <2>4 DEF CredentialWanted, Ours
    <3> QED  BY <2>1, <3>1, <3>2
  <2> QED  BY <2>3, <2>4
<1>17. CASE SweepKey  BY <1>17, <1>a DEF SweepKey, ClearKey
<1>18. CASE Apply  BY <1>18 DEF Apply
<1>19. CASE TenantUnreachable  BY <1>19, <1>a DEF TenantUnreachable
<1> QED
  BY <1>1, <1>2, <1>3, <1>4, <1>5, <1>6, <1>7, <1>8, <1>9, <1>10, <1>11, <1>12,
     <1>13, <1>14, <1>15, <1>16, <1>17, <1>18, <1>19 DEF Step

(* ... and everything else: others do not touch keys and Secret.           *)
LEMMA OthersClean ==
  ASSUME TypeOK, CleanInv, Untouched, Untouched',
         RequestFails \/ AnswerLost \/ AnsweredNotFound \/ Restart \/ Environment
  PROVE  CleanInv'
<1> USE DEF CleanInv, SecretHasKey, PathOK, VerdictOK, InOrder, InstallerRequests,
            WriteRequests, TenantRequests, PassRequests, platform, tenant, Goto, Conclude,
            Fail, Leave, EndPass
<1>a. pc \notin {"idle"} \cup PassRequests => seen # None  BY DEF TypeOK
<1>b. ~Spend("hands") /\ ~Spend("revocations") /\ ~AnsweredNotFound
  BY UntouchedSpendsNothing DEF AnsweredNotFound
<1>1. CASE RequestFails
  <2>1. UNCHANGED <<key, secret>>  BY <1>1 DEF RequestFails
  <2>2. CASE pc = "dropInstaller"
    BY <1>1, <1>a, <2>1, <2>2 DEF RequestFails, AfterTenant
  <2>3. CASE pc # "dropInstaller"
    <3>1. pc # "idle" /\ OnError  BY <1>1, <2>3 DEF RequestFails
    <3> QED  BY <1>a, <2>1, <3>1 DEF OnError
  <2> QED  BY <2>2, <2>3
<1>2. CASE AnswerLost
  <2>0. OnError /\ pc # "idle"  BY <1>2 DEF AnswerLost
  <2>1. CASE pc = "makeKey" /\ Mint
    <3>1. key' # None /\ key'.ours /\ UNCHANGED secret
      BY <2>1, MintOK, TypeParts, ObjectsAreSome DEF Mint, tenant
    <3> QED  BY <1>a, <2>0, <2>1, <3>1 DEF OnError
  <2>2. CASE \/ pc = "makeInstaller" /\ SetInstaller("ours")
             \/ pc = "dropOld" /\ SetInstaller("none")
             \/ pc = "makeNamespace" /\ SetNamespace
    <3>1. UNCHANGED <<key, secret>>  BY <2>2 DEF SetInstaller, SetNamespace
    <3> QED  BY <1>a, <2>0, <2>2, <3>1 DEF OnError
  <2>3. CASE pc = "writeSecret" /\ SetSecret
    <3>1. UNCHANGED key /\ (secret' # None => secret'.managed)  BY <2>3 DEF SetSecret
    <3>2. key # None /\ pc' = "dropInstaller" /\ ~done' /\ UNCHANGED <<seen, verdict>>
      BY <1>a, <2>0, <2>3 DEF OnError
    <3> QED  BY <3>1, <3>2
  <2>4. CASE pc = "deleteSecret" /\ ClearSecret
    BY <1>a, <2>0, <2>4 DEF OnError, ClearSecret
  <2>5. CASE pc \in {"dropKey", "sweepKey"} /\ ClearKey
    BY <1>a, <2>0, <2>5 DEF OnError, ClearKey
  <2> QED  BY <1>2, <2>1, <2>2, <2>3, <2>4, <2>5 DEF AnswerLost
<1>3. CASE Restart  BY <1>3 DEF Restart
<1>4. CASE Environment
  <2>1. UNCHANGED <<key, locals>> /\ (UNCHANGED secret \/ secret' = None)
    BY <1>4, <1>b DEF Environment, EditInstance, DeleteInstance, EditSecret, PlantKey,
                      RevokeKey, IntervalElapses
  <2> QED  BY <2>1 DEF locals
<1> QED  BY <1>b, <1>1, <1>2, <1>3, <1>4

(* Nothing is spent back.                                                  *)
LEMMA SpendingGrows ==
  ASSUME TypeOK, [Next]_vars, NEW k \in Kinds
  PROVE  used[k] \in Nat /\ used'[k] \in Nat /\ used[k] <= used'[k]
<1>1. UNCHANGED used \/ \E kind \in Kinds : Spend(kind)
  BY BudgetAssumption DEF Next, vars, Step, ListInstances, GetKey, MakeKey, GetInstaller,
     DropOldInstaller, MakeInstaller, GetNamespace, MakeNamespace, GetSecret, WriteSecret,
     FindKey, FindSecret, DeleteSecret, DropInstaller, DropKey, Sweep, SweepKey, Apply,
     TenantUnreachable, RequestFails, AnswerLost, AnsweredNotFound, Restart, Environment,
     EditInstance, DeleteInstance, EditSecret, PlantKey, RevokeKey, IntervalElapses
<1>2. used \in [Kinds -> Nat]  BY DEF TypeOK
<1>3. ASSUME NEW kind \in Kinds, Spend(kind)
      PROVE  used'[k] = IF k = kind THEN used[k] + 1 ELSE used[k]
  BY <1>2, <1>3 DEF Spend
<1>4. used[k] \in Nat  BY <1>2
<1> QED  BY <1>1, <1>3, <1>4

(* What is untouched has always been. *)
LEMMA UntouchedBefore ==
  ASSUME TypeOK, [Next]_vars, Untouched'
  PROVE  Untouched
<1> SUFFICES ASSUME NEW k \in {"hands", "revocations", "empties"}  PROVE used[k] = 0
  BY DEF Untouched
<1>1. k \in Kinds /\ used'[k] = 0  BY BudgetAssumption DEF Untouched
<1> QED  BY <1>1, SpendingGrows

(* CleanInv holds for as long as nobody interferes.                        *)
LEMMA CleanStays ==
  ASSUME TypeOK, Untouched => CleanInv, [Next]_vars, Untouched'
  PROVE  CleanInv'
<1>1. Untouched /\ CleanInv  BY UntouchedBefore
<1>2. CASE UNCHANGED vars
  BY <1>1, <1>2 DEF vars, platform, tenant, locals, CleanInv, SecretHasKey, PathOK,
                    VerdictOK, InOrder
<1> QED  BY <1>1, <1>2, StepClean, OthersClean DEF Next

(* An instance that opted out loses its bindings only after its Secret and *)
(* writer key are gone, whatever is edited, deleted or re-created and      *)
(* whatever fails, as long as others leave the keys and the Secret alone   *)
(* (deleteWriterCredential).                                               *)
THEOREM OptOutIsClean == Spec => OptOutCleansFirst
<1> DEFINE Inv == Untouched => CleanInv
<1>1. Init => Inv
  BY DEF Init, CleanInv, SecretHasKey, PathOK, VerdictOK, InOrder, InstallerRequests,
         WriteRequests, PassRequests
<1>2. TypeOK /\ Inv /\ [Next]_vars => Inv'
  BY CleanStays
<1>3. TypeOK /\ Inv /\ [Next]_vars =>
        [Apply /\ binding /\ ~binding' /\ seen # None /\ vci = seen /\ Untouched
           => ~Managed(secret) /\ ~Ours(key)]_vars
  <2> SUFFICES ASSUME TypeOK, CleanInv, Apply, binding, ~binding'
               PROVE  ~Managed(secret) /\ ~Ours(key)
    OBVIOUS
  <2>1. verdict \in {"want", "protect", "drop"} /\ pc = "apply"
    BY DEF Apply, TypeOK
  <2>2. verdict = "drop"  BY <2>1 DEF Apply
  <2> QED  BY <2>1, <2>2 DEF CleanInv, InOrder, PassRequests, Managed, Ours
<1> QED  BY <1>1, <1>2, <1>3, TypeCorrect, PTL DEF Spec, OptOutCleansFirst

------------------------------------------------------------------------------
(* The first bindings follow the Secret. *)

(* Nobody interferes, the instance was never deleted and at most one       *)
(* request fails.                                                          *)
Mild == Untouched /\ used["deletions"] = 0 /\ used["faults"] <= 1

(* That one request has failed. *)
Failed == used["faults"] # 0

(* An instance that was not re-created was not deleted.                    *)
BornFirst == vci # None /\ vci.born = 0 => used["deletions"] = 0

(* The token in hand is the key's, and a pass that writes the Secret does  *)
(* so because there was no sync it remembers.                              *)
WritingOwnToken ==
  /\ pc \in InstallerRequests \cup WriteRequests /\ seen.enrolled =>
       held = key.token /\ ~synced
  /\ pc = "dropInstaller" /\ seen.enrolled => ~synced /\ (done => Delivered)

(* What a remembered sync is worth.  It may outlive the key only if the    *)
(* answer to its deletion was lost, and the Secret only while the key is   *)
(* being withdrawn, or once that failed: then the bindings were there      *)
(* before, and are kept.                                                   *)
SyncWorth ==
  synced =>
    /\ key = None => Failed
    /\ ~binding => Failed \/ (pc \in {"sweep", "apply"} /\ verdict = "want")
    /\ key # None /\ ~Delivered =>
         \/ (Failed /\ binding)
         \/ pc = "dropInstaller" /\ done /\ ~seen.enrolled
         \/ pc = "dropKey"

(* The bindings of an instance that is awake are wanted with its Secret.   *)
WantedDelivered ==
  pc \in {"sweep", "apply"} /\ verdict = "want" /\ ~seen.asleep => Delivered \/ binding

SyncOK == WritingOwnToken /\ SyncWorth /\ WantedDelivered

(* Mild behaviours have always been mild.                                  *)
LEMMA MildBefore ==
  ASSUME TypeOK, [Next]_vars, Mild'
  PROVE  Mild
<1>1. "deletions" \in Kinds /\ "faults" \in Kinds  BY BudgetAssumption
<1>2. used["deletions"] = 0 /\ used["faults"] <= 1
  BY <1>1, SpendingGrows DEF Mild
<1> QED  BY <1>2, UntouchedBefore DEF Mild

(* In a mild behaviour a request fails only once.                          *)
LEMMA FailsOnce ==
  ASSUME TypeOK, Mild'
  PROVE  /\ Spend("faults") => ~Failed /\ Failed'
         /\ Spend("edits") => (Failed' <=> Failed)
         /\ ~Spend("deletions")
<1>1. {"deletions", "faults", "edits"} \subseteq Kinds /\ used \in [Kinds -> Nat]
  BY BudgetAssumption DEF TypeOK
<1>2. used["faults"] \in Nat /\ used["deletions"] \in Nat  BY <1>1
<1>3. Spend("faults") => used'["faults"] = used["faults"] + 1  BY <1>1 DEF Spend
<1>4. Spend("edits") => used'["faults"] = used["faults"]  BY <1>1 DEF Spend
<1>5. Spend("deletions") => used'["deletions"] = used["deletions"] + 1  BY <1>1 DEF Spend
<1> QED  BY <1>2, <1>3, <1>4, <1>5 DEF Mild, Failed

(* SyncOK is inductive: the requests of a pass.                            *)
LEMMA StepSynced ==
  ASSUME TypeOK, CleanInv, SyncOK, Untouched, Untouched', Step
  PROVE  SyncOK'
<1> USE DEF SyncOK, WritingOwnToken, SyncWorth, WantedDelivered, CleanInv, SecretHasKey,
            PathOK, VerdictOK, InOrder, InstallerRequests, WriteRequests, TenantRequests,
            PassRequests, platform, tenant, Goto, Conclude, Fail, Leave, EndPass, Failed,
            Delivered, Managed, Ours
<1>a. pc \notin {"idle"} \cup PassRequests => seen # None  BY DEF TypeOK
<1>b. installer \in {"none", "ours", "foreign"}  BY DEF TypeOK
<1>c. synced \in BOOLEAN /\ done \in BOOLEAN /\ binding \in BOOLEAN  BY DEF TypeOK
<1>1. CASE ListInstances
  <2>1. seen' = vci /\ UNCHANGED used
    <3>1. ~Spend("empties")  BY UntouchedSpendsNothing
    <3> QED  BY <1>1, <3>1 DEF ListInstances
  <2>2. UNCHANGED <<platform, tenant, synced, held, read, done>> /\ pc = "idle"
    BY <1>1 DEF ListInstances
  <2> DEFINE branch == IF seen' = None THEN <<"sweep", "drop">>
                       ELSE IF ~seen'.enrolled THEN <<"findKey", "drop">>
                       ELSE IF ~seen'.ready THEN <<"sweep", "protect">>
                       ELSE IF seen'.asleep THEN <<"sweep", "want">>
                       ELSE <<"getKey", "want">>
  <2>3. pc' = branch[1] /\ verdict' = branch[2]  BY <1>1 DEF ListInstances
  <2>4. /\ pc' \in {"sweep", "findKey", "getKey"}
        /\ pc' = "sweep" /\ verdict' = "want" => seen'.asleep
    BY <2>3
  <2>5. UNCHANGED <<Delivered, Failed>>  BY <2>1, <2>2
  <2> HIDE DEF Delivered, Failed
  <2>6. WritingOwnToken' /\ WantedDelivered'  BY <2>4
  <2>7. SyncWorth'  BY <2>2, <2>5
  <2> QED  BY <2>6, <2>7
<1>2. CASE GetKey  BY <1>2, <1>a, <1>c DEF GetKey
<1>3. CASE MakeKey
  <2>1. seen # None /\ seen.enrolled /\ UNCHANGED used  BY <1>3, <1>a DEF MakeKey
  <2>2. CASE /\ Mint /\ held' = minted' /\ pc' = "getInstaller" /\ synced' = FALSE
             /\ UNCHANGED <<seen, verdict, read, done>>
    <3>1. key'.token = minted'  BY <2>2, MintOK, TypeParts
    <3> QED  BY <2>1, <2>2, <3>1
  <2>3. CASE Fail /\ UNCHANGED <<platform, tenant, synced>>
    <3>1. pc = "makeKey" /\ pc' = "sweep" /\ verdict' = "protect"  BY <1>3, <2>3 DEF MakeKey
    <3>2. UNCHANGED <<Delivered, Failed, synced, key, binding>>  BY <2>1, <2>3
    <3> HIDE DEF Delivered, Failed
    <3>3. WritingOwnToken' /\ WantedDelivered'  BY <3>1
    <3>4. SyncWorth'  BY <3>1, <3>2
    <3> QED  BY <3>3, <3>4
  <2> QED  BY <1>3, <2>2, <2>3 DEF MakeKey
<1>4. CASE GetInstaller  BY <1>4, <1>a, <1>b DEF GetInstaller
<1>5. CASE DropOldInstaller  BY <1>5, <1>a DEF DropOldInstaller, SetInstaller
<1>6. CASE MakeInstaller  BY <1>6, <1>a DEF MakeInstaller, SetInstaller
<1>7. CASE GetNamespace  BY <1>7, <1>a DEF GetNamespace
<1>8. CASE MakeNamespace  BY <1>8, <1>a DEF MakeNamespace, SetNamespace
<1>9. CASE GetSecret  BY <1>9, <1>a DEF GetSecret
<1>10. CASE WriteSecret
  <2>1. /\ seen.enrolled /\ key # None /\ key.ours /\ held = key.token /\ ~synced
        /\ pc' = "dropInstaller" /\ UNCHANGED <<platform, synced, seen, verdict, used>>
    BY <1>10 DEF WriteSecret, SetSecret
  <2>2. done' => Delivered'
    <3> SUFFICES ASSUME done'  PROVE Delivered'
      OBVIOUS
    <3>1. SetSecret  BY <1>10 DEF WriteSecret
    <3>2. secret' # None /\ secret'.managed /\ secret'.token = held
      <4>1. CASE Managed(secret) /\ secret.token = held
        BY <3>1, <4>1 DEF SetSecret
      <4>2. CASE secret' = [managed |-> TRUE, token |-> held, version |-> stamp + 1]
        <5>1. held \in Nat /\ stamp \in Nat  BY DEF TypeOK
        <5>2. secret' \in Secret  BY <4>2, <5>1 DEF Secret
        <5> QED  BY <4>2, <5>2, ObjectsAreSome
      <4> QED  BY <3>1, <4>1, <4>2 DEF SetSecret
    <3> QED  BY <2>1, <3>2
  <2> QED  BY <2>1, <2>2
<1>11. CASE FindKey  BY <1>11, <1>a DEF FindKey
<1>12. CASE FindSecret  BY <1>12, <1>a DEF FindSecret
<1>13. CASE DeleteSecret  BY <1>13, <1>a DEF DeleteSecret, ClearSecret
<1>14. CASE DropInstaller  BY <1>14, <1>a, <1>c DEF DropInstaller, SetInstaller, AfterTenant
<1>15. CASE DropKey  BY <1>15, <1>a DEF DropKey, ClearKey
<1>16. CASE Sweep  BY <1>16, <1>a DEF Sweep, CredentialWanted
<1>17. CASE SweepKey  BY <1>17, <1>a DEF SweepKey, ClearKey
<1>18. CASE Apply
  <2>1. verdict \in {"want", "protect", "drop"} /\ pc = "apply" /\ pc' = "idle"
    BY <1>18 DEF Apply, TypeOK
  <2>2. UNCHANGED <<Delivered, Failed, synced, key>>  BY <1>18 DEF Apply
  <2>3. synced /\ verdict = "drop" => Failed  BY <2>1
  <2>4. /\ verdict = "want" => binding'
        /\ verdict = "drop" => key = None
        /\ verdict = "protect" => binding' = binding
    BY <1>18, <2>1 DEF Apply
  <2> HIDE DEF Delivered, Failed
  <2>5. WritingOwnToken' /\ WantedDelivered'  BY <2>1
  <2>6. SyncWorth'
    <3> SUFFICES ASSUME synced  PROVE SyncWorth'
      BY <2>2
    <3>1. CASE verdict = "want"  BY <2>1, <2>2, <2>4, <3>1
    <3>2. CASE verdict = "protect"  BY <2>1, <2>2, <2>4, <3>2
    <3>3. CASE verdict = "drop"  BY <2>1, <2>2, <2>3, <2>4, <3>3
    <3> QED  BY <2>1, <3>1, <3>2, <3>3
  <2> QED  BY <2>5, <2>6
<1>19. CASE TenantUnreachable  BY <1>19, <1>a DEF TenantUnreachable
<1> QED
  BY <1>1, <1>2, <1>3, <1>4, <1>5, <1>6, <1>7, <1>8, <1>9, <1>10, <1>11, <1>12,
     <1>13, <1>14, <1>15, <1>16, <1>17, <1>18, <1>19 DEF Step

(* ... and everything else: the one request that fails, and edits.         *)
LEMMA OthersSynced ==
  ASSUME TypeOK, CleanInv, SyncOK, Mild, Mild',
         RequestFails \/ AnswerLost \/ AnsweredNotFound \/ Restart \/ Environment
  PROVE  SyncOK'
<1> USE DEF SyncOK, WritingOwnToken, SyncWorth, WantedDelivered, CleanInv, SecretHasKey,
            PathOK, VerdictOK, InOrder, InstallerRequests, WriteRequests, TenantRequests,
            PassRequests, platform, tenant, Goto, Conclude, Fail, Leave, EndPass,
            Delivered, Managed, Ours
<1>a. pc \notin {"idle"} \cup PassRequests => seen # None  BY DEF TypeOK
<1>b. ~Spend("hands") /\ ~Spend("revocations") /\ ~Spend("deletions")
      /\ ~AnsweredNotFound
  BY UntouchedSpendsNothing, FailsOnce DEF Mild, AnsweredNotFound
<1>c. synced \in BOOLEAN /\ done \in BOOLEAN /\ binding \in BOOLEAN  BY DEF TypeOK
<1>1. CASE RequestFails
  <2>0. ~Failed /\ Failed'  BY <1>1, FailsOnce DEF RequestFails
  <2>1. UNCHANGED <<key, secret, binding>>  BY <1>1 DEF RequestFails
  <2>2. CASE pc = "dropInstaller"
    BY <1>1, <1>a, <1>c, <2>0, <2>1, <2>2 DEF RequestFails, AfterTenant
  <2>3. CASE pc # "dropInstaller"
    <3>1. pc # "idle" /\ OnError /\ UNCHANGED synced  BY <1>1, <2>3 DEF RequestFails
    <3> QED  BY <1>a, <1>c, <2>0, <2>1, <2>3, <3>1 DEF OnError
  <2> QED  BY <2>2, <2>3
<1>2. CASE AnswerLost
  <2>0. OnError /\ UNCHANGED synced /\ pc # "idle" /\ ~Failed /\ Failed'
    BY <1>2, FailsOnce DEF AnswerLost
  <2>1. CASE pc = "makeKey" /\ Mint
    BY <1>a, <1>c, <2>0, <2>1 DEF OnError, Mint
  <2>2. CASE \/ pc = "makeInstaller" /\ SetInstaller("ours")
             \/ pc = "dropOld" /\ SetInstaller("none")
             \/ pc = "makeNamespace" /\ SetNamespace
    <3>1. UNCHANGED <<key, secret, binding>>  BY <2>2 DEF SetInstaller, SetNamespace
    <3> QED  BY <1>a, <1>c, <2>0, <2>2, <3>1 DEF OnError
  <2>3. CASE pc = "writeSecret" /\ SetSecret
    <3>1. seen.enrolled /\ ~synced /\ pc' = "dropInstaller" /\ ~done' /\ seen' = seen
      BY <1>a, <2>0, <2>3 DEF OnError
    <3> QED  BY <2>0, <3>1
  <2>4. CASE pc = "deleteSecret" /\ ClearSecret
    BY <1>a, <1>c, <2>0, <2>4 DEF OnError, ClearSecret
  <2>5. CASE pc \in {"dropKey", "sweepKey"} /\ ClearKey
    BY <1>a, <1>c, <2>0, <2>5 DEF OnError, ClearKey
  <2> QED  BY <1>2, <2>1, <2>2, <2>3, <2>4, <2>5 DEF AnswerLost
<1>3. CASE Restart  BY <1>3 DEF Restart
<1>4. CASE Environment
  <2>1. UNCHANGED <<key, secret, binding, locals>> /\ (synced' = synced \/ synced' = FALSE)
    BY <1>4, <1>b DEF Environment, EditInstance, DeleteInstance, EditSecret, PlantKey,
                      RevokeKey, IntervalElapses
  <2>2. Failed' <=> Failed
    BY <1>4, <1>b, FailsOnce
    DEF Environment, EditInstance, DeleteInstance, EditSecret, PlantKey, RevokeKey,
        IntervalElapses, Failed
  <2>3. UNCHANGED <<pc, seen, verdict, held, done>> /\ (Delivered' <=> Delivered)
    BY <2>1 DEF locals
  <2> HIDE DEF Delivered
  <2> QED  BY <1>c, <2>1, <2>2, <2>3
<1> QED  BY <1>b, <1>1, <1>2, <1>3, <1>4

(* An instance of the model's first generation was never deleted.          *)
LEMMA BornFirstStays ==
  ASSUME TypeOK, BornFirst, [Next]_vars
  PROVE  BornFirst'
<1>1. used["deletions"] \in Nat /\ (UNCHANGED vci => used'["deletions"] = used["deletions"])
  <2>1. {"deletions", "edits", "hands", "revocations", "empties", "faults"} \subseteq Kinds
    BY BudgetAssumption
  <2>2. used \in [Kinds -> Nat]  BY DEF TypeOK
  <2>3. \A kind \in Kinds \ {"deletions"} : Spend(kind) => used'["deletions"] = used["deletions"]
    BY <2>1, <2>2 DEF Spend
  <2>4. ASSUME UNCHANGED vci
        PROVE  UNCHANGED used \/ \E kind \in Kinds \ {"deletions"} : Spend(kind)
    <3>1. ~DeleteInstance  BY <2>4 DEF DeleteInstance
    <3> QED
      BY <2>1, <3>1 DEF Next, vars, Step, ListInstances, GetKey, MakeKey, GetInstaller,
         DropOldInstaller, MakeInstaller, GetNamespace, MakeNamespace, GetSecret, WriteSecret,
         FindKey, FindSecret, DeleteSecret, DropInstaller, DropKey, Sweep, SweepKey, Apply,
         TenantUnreachable, RequestFails, AnswerLost, AnsweredNotFound, Restart, Environment,
         EditInstance, EditSecret, PlantKey, RevokeKey, IntervalElapses
  <2> QED  BY <2>1, <2>2, <2>3, <2>4
<1>2. CASE UNCHANGED vci  BY <1>1, <1>2 DEF BornFirst
<1>3. CASE EditInstance
  <2>1. used'["deletions"] = used["deletions"]
    BY <1>3, BudgetAssumption DEF EditInstance, Spend, TypeOK
  <2>2. vci # None => vci.born = vci'.born  BY <1>3 DEF EditInstance
  <2>3. vci = None => vci'.born = used["deletions"]  BY <1>3 DEF EditInstance
  <2> QED  BY <2>1, <2>2, <2>3 DEF BornFirst
<1>4. CASE DeleteInstance  BY <1>4 DEF DeleteInstance, BornFirst
<1>5. CASE ~(UNCHANGED vci) /\ ~EditInstance /\ ~DeleteInstance
  <2> USE DEF platform
  <2>1. ~Step
    BY <1>5 DEF Step, ListInstances, GetKey, MakeKey, GetInstaller, DropOldInstaller,
       MakeInstaller, GetNamespace, MakeNamespace, GetSecret, WriteSecret, FindKey,
       FindSecret, DeleteSecret, DropInstaller, DropKey, Sweep, SweepKey, Apply,
       TenantUnreachable, Mint, SetInstaller, SetNamespace, SetSecret, ClearSecret, ClearKey
  <2>2. ~RequestFails /\ ~AnswerLost /\ ~AnsweredNotFound /\ ~Restart
    BY <1>5 DEF RequestFails, AnswerLost, AnsweredNotFound, Restart, Mint, SetInstaller,
       SetNamespace, SetSecret, ClearSecret, ClearKey
  <2>3. ~EditSecret /\ ~PlantKey /\ ~RevokeKey /\ ~IntervalElapses
    BY <1>5 DEF EditSecret, PlantKey, RevokeKey, ClearKey, IntervalElapses
  <2> QED  BY <1>5, <2>1, <2>2, <2>3 DEF Next, Environment, vars
<1> QED  BY <1>2, <1>3, <1>4, <1>5

(* The bindings of the first instance of a name are created only when its  *)
(* Secret holds the token of its writer key, however it is edited, put to  *)
(* sleep and opted out and in, and whichever request of the controller     *)
(* fails, loses its answer or dies with the process (reconcileWriterCredential, *)
(* the order of reconcileOnce).                                            *)
THEOREM FirstBindingFollowsSecret == Spec => SecretBeforeFirstBinding
<1> DEFINE Inv == /\ Untouched => CleanInv
                  /\ Mild => SyncOK
                  /\ BornFirst
<1>1. Init => Inv
  BY DEF Init, CleanInv, SecretHasKey, PathOK, VerdictOK, InOrder, InstallerRequests,
         WriteRequests, PassRequests, SyncOK, WritingOwnToken, SyncWorth, WantedDelivered,
         BornFirst
<1>2. TypeOK /\ Inv /\ [Next]_vars => Inv'
  <2> SUFFICES ASSUME TypeOK, Inv, [Next]_vars  PROVE Inv'
    OBVIOUS
  <2>1. ASSUME Untouched'  PROVE CleanInv'
    BY <2>1, CleanStays
  <2>2. ASSUME Mild'  PROVE SyncOK'
    <3>1. Mild /\ Untouched /\ Untouched' /\ CleanInv /\ SyncOK
      BY <2>2, MildBefore DEF Mild
    <3>2. CASE UNCHANGED vars
      BY <3>1, <3>2 DEF vars, platform, tenant, locals, SyncOK, WritingOwnToken, SyncWorth,
                        WantedDelivered, Delivered, Managed, Ours, Failed
    <3> QED  BY <2>2, <3>1, <3>2, StepSynced, OthersSynced DEF Next
  <2>3. BornFirst'  BY BornFirstStays
  <2> QED  BY <2>1, <2>2, <2>3
<1>3. TypeOK /\ Inv /\ [Next]_vars =>
        [Creates /\ vci = seen /\ ~seen.asleep /\ seen.born = 0
         /\ Untouched /\ used["faults"] <= 1 => Delivered]_vars
  <2> SUFFICES ASSUME TypeOK, Inv, Creates, vci = seen, ~seen.asleep, seen.born = 0,
                      Untouched, used["faults"] <= 1
               PROVE  Delivered
    OBVIOUS
  <2>1. pc = "apply" /\ verdict = "want" /\ ~binding
    <3>1. verdict \in {"none", "want", "protect", "drop"}  BY DEF TypeOK
    <3> QED  BY <3>1 DEF Creates, Apply, TypeOK
  <2>2. seen # None  BY <2>1 DEF CleanInv, VerdictOK
  <2>3. Mild  BY <2>2 DEF BornFirst, Mild
  <2> QED  BY <2>1, <2>3 DEF SyncOK, WantedDelivered
<1> QED  BY <1>1, <1>2, <1>3, TypeCorrect, PTL DEF Spec, SecretBeforeFirstBinding

------------------------------------------------------------------------------
(* A credential that was delivered lasts. *)

(* Where a pass of an instance that takes part goes on.                    *)
InstallerPath == {"getInstaller", "dropOld", "makeInstaller"}
WithdrawalPath == {"findKey", "findSecret", "deleteSecret", "dropKey", "sweepKey"}
AsPassed ==
  /\ pc # "idle" => seen # None /\ seen.enrolled /\ verdict \in {"want", "protect"}
  /\ pc \in TenantRequests \cup InstallerPath => held = key.token
  /\ pc \notin WithdrawalPath

(* Provided, with what the Platform and the tenant cluster hold in one     *)
(* part.                                                                   *)
LEMMA ProvidedParts ==
  Provided <=> Delivered /\ binding /\ vci # None /\ vci.enrolled /\ AsPassed
BY DEF Provided, AsPassed, InstallerPath, WithdrawalPath

(* Ways to go on that agree with having seen the instance take part.       *)
LEMMA GoingOn ==
  ASSUME AsPassed, UNCHANGED key, pc # "idle"
  PROVE  /\ EndPass => AsPassed'
         /\ \A v \in {"want", "protect"} : Conclude(v) => AsPassed'
         /\ \A d \in BOOLEAN : Leave(d) => AsPassed'
         /\ \A p \in {"makeKey", "sweep", "apply"} : Goto(p) => AsPassed'
         /\ pc \in TenantRequests \cup InstallerPath =>
              \A p \in {"dropOld", "makeInstaller", "getNamespace", "makeNamespace",
                        "getSecret", "writeSecret"} : Goto(p) => AsPassed'
         /\ UNCHANGED locals => AsPassed'
<1> USE DEF AsPassed, TenantRequests, InstallerPath, WithdrawalPath
<1>1. EndPass => AsPassed'  BY DEF EndPass
<1>2. \A v \in {"want", "protect"} : Conclude(v) => AsPassed'  BY DEF Conclude
<1>3. \A d \in BOOLEAN : Leave(d) => AsPassed'  BY DEF Leave
<1>4. \A p \in {"makeKey", "sweep", "apply"} : Goto(p) => AsPassed'  BY DEF Goto
<1>5. pc \in TenantRequests \cup InstallerPath =>
        \A p \in {"dropOld", "makeInstaller", "getNamespace", "makeNamespace",
                  "getSecret", "writeSecret"} : Goto(p) => AsPassed'
  BY DEF Goto
<1>6. UNCHANGED locals => AsPassed'  BY DEF locals
<1> QED  BY <1>1, <1>2, <1>3, <1>4, <1>5, <1>6

(* The requests of a pass.                                                 *)
LEMMA StepProvides ==
  ASSUME TypeOK, Delivered, binding, vci # None, vci.enrolled, AsPassed, Step,
         used'["empties"] = used["empties"]
  PROVE  UNCHANGED <<key, secret, binding>> /\ AsPassed'
<1> USE DEF platform, tenant
<1>a. key # None /\ key.ours /\ Managed(secret) /\ secret.token = key.token
  BY DEF Delivered, Ours
<1>b. (seen # None /\ seen.enrolled) \/ pc = "idle"  BY DEF AsPassed
<1>1. CASE ListInstances
  <2>1. seen' = vci
    <3>1. "empties" \in Kinds /\ used \in [Kinds -> Nat]  BY BudgetAssumption DEF TypeOK
    <3>2. ~Spend("empties")  BY <3>1 DEF Spend
    <3> QED  BY <1>1, <3>2 DEF ListInstances
  <2>2. UNCHANGED <<key, secret, binding>>  BY <1>1 DEF ListInstances
  <2> DEFINE branch == IF seen' = None THEN <<"sweep", "drop">>
                       ELSE IF ~seen'.enrolled THEN <<"findKey", "drop">>
                       ELSE IF ~seen'.ready THEN <<"sweep", "protect">>
                       ELSE IF seen'.asleep THEN <<"sweep", "want">>
                       ELSE <<"getKey", "want">>
  <2>3. pc' = branch[1] /\ verdict' = branch[2]  BY <1>1 DEF ListInstances
  <2>4. pc' \in {"sweep", "getKey"} /\ verdict' \in {"want", "protect"}  BY <2>1, <2>3
  <2> HIDE DEF branch
  <2> QED
    BY <2>1, <2>2, <2>4 DEF AsPassed, TenantRequests, InstallerPath, WithdrawalPath
<1>2. CASE GetKey
  <2>1. UNCHANGED <<key, secret, binding>> /\ pc = "getKey"  BY <1>2 DEF GetKey
  <2>2. held' = key.token /\ pc' \in {"sweep", "getInstaller"} /\ UNCHANGED <<seen, verdict>>
    BY <1>2, <1>a DEF GetKey
  <2> QED
    BY <2>1, <2>2 DEF AsPassed, TenantRequests, InstallerPath, WithdrawalPath
<1>3. CASE MakeKey
  <2>1. Fail /\ UNCHANGED <<platform, tenant>> /\ pc = "makeKey"
    BY <1>3, <1>a DEF MakeKey, Mint
  <2> QED  BY <2>1, GoingOn DEF Fail
<1>4. CASE GetInstaller
  <2>1. UNCHANGED <<key, secret, binding>> /\ pc = "getInstaller"  BY <1>4 DEF GetInstaller
  <2>2. Goto("makeInstaller") \/ Goto("dropOld") \/ Fail
    BY <1>4 DEF GetInstaller, TypeOK
  <2> QED  BY <2>1, <2>2, GoingOn DEF Fail, InstallerPath
<1>5. CASE DropOldInstaller
  BY <1>5, GoingOn DEF DropOldInstaller, SetInstaller, InstallerPath
<1>6. CASE MakeInstaller
  <2>1. UNCHANGED <<key, secret, binding>> /\ pc = "makeInstaller"
    BY <1>6 DEF MakeInstaller, SetInstaller
  <2>2. Goto("getNamespace") \/ Fail  BY <1>6, <1>b DEF MakeInstaller
  <2> QED  BY <2>1, <2>2, GoingOn DEF Fail, InstallerPath
<1>7. CASE GetNamespace  BY <1>7, GoingOn DEF GetNamespace, TenantRequests
<1>8. CASE MakeNamespace  BY <1>8, GoingOn DEF MakeNamespace, SetNamespace, TenantRequests
<1>9. CASE GetSecret
  <2>1. /\ pc = "getSecret" /\ pc' = "writeSecret" /\ UNCHANGED <<seen, verdict, held>>
        /\ UNCHANGED <<key, secret, binding>>
    BY <1>9, <1>a DEF GetSecret, Managed
  <2> QED
    BY <2>1 DEF AsPassed, TenantRequests, InstallerPath, WithdrawalPath
<1>10. CASE WriteSecret
  <2>1. pc = "writeSecret" /\ held = key.token
    BY <1>10 DEF WriteSecret, AsPassed, TenantRequests
  <2>2. UNCHANGED <<key, secret, binding>>
    BY <1>10, <1>a, <2>1 DEF WriteSecret, SetSecret
  <2> QED  BY <1>10, <2>1, <2>2, GoingOn DEF WriteSecret
<1>11. CASE FindKey \/ FindSecret \/ DeleteSecret \/ DropKey \/ SweepKey
  BY <1>11 DEF AsPassed, WithdrawalPath, FindKey, FindSecret, DeleteSecret, DropKey, SweepKey
<1>12. CASE DropInstaller
  <2>1. UNCHANGED <<key, secret, binding>> /\ pc = "dropInstaller"
    BY <1>12 DEF DropInstaller, SetInstaller
  <2>2. Conclude("want") \/ Conclude("protect")
    BY <1>12, <1>b, <2>1 DEF DropInstaller, AfterTenant, Fail
  <2> QED  BY <2>1, <2>2, GoingOn
<1>13. CASE Sweep
  <2>1. UNCHANGED <<key, secret, binding>> /\ pc = "sweep"  BY <1>13 DEF Sweep
  <2>2. CredentialWanted  BY <1>b, <2>1 DEF CredentialWanted
  <2>3. Goto("apply")  BY <1>13, <2>2 DEF Sweep
  <2> QED  BY <2>1, <2>3, GoingOn
<1>14. CASE Apply
  <2>1. UNCHANGED <<key, secret>> /\ EndPass /\ pc = "apply"  BY <1>14 DEF Apply
  <2>2. binding' = binding
    <3>1. verdict \in {"want", "protect"}  BY <2>1 DEF AsPassed
    <3>2. verdict = "want" => binding' = TRUE  BY <1>14 DEF Apply
    <3>3. verdict = "protect" => binding' = binding  BY <1>14 DEF Apply
    <3> QED  BY <3>1, <3>2, <3>3
  <2> QED  BY <2>1, <2>2, GoingOn
<1>15. CASE TenantUnreachable
  BY <1>15, GoingOn DEF TenantUnreachable, TenantRequests
<1> QED
  BY <1>1, <1>2, <1>3, <1>4, <1>5, <1>6, <1>7, <1>8, <1>9, <1>10, <1>11, <1>12,
     <1>13, <1>14, <1>15 DEF Step

(* Failures and restarts.                                                  *)
LEMMA FailuresProvide ==
  ASSUME TypeOK, Delivered, binding, vci # None, vci.enrolled, AsPassed,
         RequestFails \/ AnswerLost \/ Restart
  PROVE  UNCHANGED <<vci, key, secret, binding>> /\ AsPassed'
<1> USE DEF platform, tenant
<1>a. key # None /\ Managed(secret) /\ secret.token = key.token
  BY DEF Delivered, Ours
<1>b. pc # "idle" => seen # None /\ seen.enrolled  BY DEF AsPassed
<1>1. ASSUME pc # "idle", OnError, UNCHANGED key  PROVE AsPassed'
  BY <1>1, GoingOn DEF OnError, Fail
<1>2. CASE RequestFails
  <2>1. UNCHANGED <<vci, key, secret, binding>> /\ pc # "idle"  BY <1>2 DEF RequestFails
  <2>2. CASE pc = "dropInstaller"
    <3>1. Conclude("want") \/ Conclude("protect")
      BY <1>2, <1>b, <2>2 DEF RequestFails, AfterTenant, Fail
    <3> QED  BY <2>1, <3>1, GoingOn
  <2>3. CASE pc # "dropInstaller"
    BY <1>1, <1>2, <2>1, <2>3 DEF RequestFails
  <2> QED  BY <2>2, <2>3
<1>3. CASE AnswerLost
  <2>1. pc # "idle" /\ OnError  BY <1>3 DEF AnswerLost
  <2>2. pc \notin {"deleteSecret", "dropKey", "sweepKey"} /\ ~Mint
    BY <1>a DEF AsPassed, WithdrawalPath, Mint
  <2>3. UNCHANGED <<vci, key, secret, binding>>
    <3>1. CASE pc = "writeSecret" /\ SetSecret
      <4>1. held = key.token  BY <3>1 DEF AsPassed, TenantRequests
      <4> QED  BY <1>a, <3>1, <4>1 DEF SetSecret
    <3>2. CASE \/ SetInstaller("ours") \/ SetInstaller("none") \/ SetNamespace
      BY <3>2 DEF SetInstaller, SetNamespace
    <3> QED  BY <1>3, <2>2, <3>1, <3>2 DEF AnswerLost
  <2> QED  BY <1>1, <2>1, <2>3
<1>4. CASE Restart
  BY <1>4 DEF Restart, EndPass, AsPassed, TenantRequests, InstallerPath, WithdrawalPath
<1> QED  BY <1>2, <1>3, <1>4

(* A delivered credential lasts while the instance takes part and others   *)
(* leave it alone, whatever fails, sleeps, is misconfigured or restarts    *)
(* (reconcileWriterCredential, the sweep of reconcileOnce).                *)
THEOREM DeliveredLasts == Spec => DeliveryLasts
<1> DEFINE Alone == \A k \in {"hands", "revocations", "empties", "deletions"} : used'[k] = used[k]
<1>1. ASSUME TypeOK, Provided, [Next]_vars, Alone, vci'.enrolled
      PROVE  Provided'
  <2>1. Delivered /\ binding /\ vci # None /\ vci.enrolled /\ AsPassed
    BY <1>1, ProvidedParts
  <2>2. UNCHANGED <<key, secret, binding>> /\ vci' # None /\ AsPassed'
    <3>1. CASE Step
      <4>1. UNCHANGED vci
        BY <3>1 DEF platform, Step, ListInstances, GetKey, MakeKey, GetInstaller,
           DropOldInstaller, MakeInstaller, GetNamespace, MakeNamespace, GetSecret,
           WriteSecret, FindKey, FindSecret, DeleteSecret, DropInstaller, DropKey, Sweep,
           SweepKey, Apply, TenantUnreachable, Mint, SetInstaller, SetNamespace, SetSecret,
           ClearSecret, ClearKey
      <4> QED  BY <1>1, <2>1, <3>1, <4>1, StepProvides
    <3>2. CASE RequestFails \/ AnswerLost \/ Restart
      BY <1>1, <2>1, <3>2, FailuresProvide
    <3>3. CASE Environment
      <4>1. \A k \in {"hands", "revocations", "deletions"} : ~Spend(k)
        <5>1. {"hands", "revocations", "deletions"} \subseteq Kinds /\ used \in [Kinds -> Nat]
          BY <1>1, BudgetAssumption DEF TypeOK
        <5> QED  BY <1>1, <5>1 DEF Spend
      <4>2. EditInstance \/ IntervalElapses
        BY <3>3, <4>1 DEF Environment, DeleteInstance, EditSecret, PlantKey, RevokeKey
      <4>3. UNCHANGED <<key, secret, binding, locals>>
        BY <4>2 DEF EditInstance, IntervalElapses, platform, tenant
      <4>4. vci' # None
        <5>1. CASE EditInstance
          <6>2. PICK s \in States :
                  vci' = [enrolled |-> s.enrolled, ready |-> s.ready, asleep |-> s.asleep,
                          born |-> IF vci = None THEN used["deletions"] ELSE vci.born]
            BY <5>1 DEF EditInstance
          <6>3. s.enrolled \in BOOLEAN /\ s.ready \in BOOLEAN /\ s.asleep \in BOOLEAN
            BY StatesAssumption
          <6>4. vci.born \in Nat  BY <1>1, <2>1 DEF TypeOK, Instance
          <6>5. vci' \in Instance  BY <2>1, <6>2, <6>3, <6>4 DEF Instance
          <6> QED  BY <6>5, ObjectsAreSome
        <5>2. CASE IntervalElapses  BY <2>1, <5>2 DEF IntervalElapses, platform
        <5> QED  BY <4>2, <5>1, <5>2
      <4>5. AsPassed'
        BY <2>1, <4>3 DEF AsPassed, locals
      <4> QED  BY <4>3, <4>4, <4>5
    <3>4. CASE UNCHANGED vars
      BY <2>1, <3>4 DEF vars, platform, tenant, locals, AsPassed
    <3>5. ~AnsweredNotFound
      <4>1. "empties" \in Kinds /\ used \in [Kinds -> Nat]
        BY <1>1, BudgetAssumption DEF TypeOK
      <4>2. ~Spend("empties")  BY <1>1, <4>1 DEF Spend
      <4> QED  BY <4>2 DEF AnsweredNotFound
    <3> QED  BY <1>1, <3>1, <3>2, <3>3, <3>4, <3>5 DEF Next
  <2>3. Delivered'  BY <2>1, <2>2 DEF Delivered, Ours, Managed
  <2> QED
    BY <1>1, <2>1, <2>2, <2>3, ProvidedParts DEF Provided, AsPassed, InstallerPath, WithdrawalPath
<1>2. TypeOK /\ [Next]_vars => [Provided /\ Alone /\ vci'.enrolled => Provided']_vars
  BY <1>1
<1> QED  BY <1>2, TypeCorrect, PTL DEF Spec, DeliveryLasts
===============================================================================
