--------------------------- MODULE ApplicationPatch ---------------------------
(***************************************************************************)
(* How the controller keeps one ArgoCDApplication in line with what it     *)
(* wants of it (application_patch.go, and the branch of reconcileOnce that *)
(* calls it).  The controller patches only when it expects a change: it    *)
(* merges the patch into the listed object itself and compares, and it     *)
(* remembers in process memory the last patch it sent with the             *)
(* resourceVersion that patch left behind.                                 *)
(*                                                                         *)
(* The content of the object is its parameters, which a patch merges, and  *)
(* its body: the rest that every patch sets, i.e. destination, template,   *)
(* and the controller's own labels and annotations.  The API server stores *)
(* a body in its normal form.  Labels and annotations of others, which no  *)
(* patch mentions, are left out; so is the deletion's finalizer, and so is *)
(* the creation gate: both are Reconcile's.                                *)
(***************************************************************************)
EXTENDS Integers

CONSTANTS
  Bodies, Normal,     \* what a body may be; the form the API server stores
  Keys, Values,       \* parameter names and values
  Templates, Template,\* names of templates; the one each body refers to
  Defaults,           \* the parameters each body has by default
  Sources,            \* [body, annotations] targets and profiles may ask for
  None,               \* no object, nothing wanted, nothing remembered
  MaxEdits,           \* bound: edits of targets and profiles
  MaxHands,           \* bound: edits and deletions of the object by others
  MaxStatus,          \* bound: status updates of the object
  MaxFaults           \* bound: failed requests and restarts

Parameters == UNION {[S -> Values] : S \in SUBSET Keys}
NoParameters == [k \in {} |-> None]
Content == [body : Bodies, params : Parameters]

(* A target's annotations name a template and, after a slash, a parameter; *)
(* what follows the slash may as well be nothing.                          *)
Annotations == UNION {[S -> Values] : S \in SUBSET (Templates \X (Keys \cup {None}))}
Source == [body : Bodies, annotations : Annotations]

ASSUME NormalAssumption ==
  /\ Normal \in [Bodies -> Bodies]
  /\ \A b \in Bodies : Normal[Normal[b]] = Normal[b]
ASSUME SourceAssumption ==
  /\ Template \in [Bodies -> Templates]
  /\ Defaults \in [Bodies -> Parameters]
  /\ Sources \subseteq Source
ASSUME NoneAssumption == None \notin Content /\ None \notin Source /\ None \notin Keys
ASSUME BudgetAssumption == {MaxEdits, MaxHands, MaxStatus, MaxFaults} \subseteq Nat

VARIABLES
  source,      \* API: what targets and profiles ask for, or None
  live,        \* API: the content of the object, or None
  version,     \* API: its resourceVersion, 0 without an object
  clock,       \* API: the last resourceVersion given out
  pc,          \* controller: where the pass is
  wanted,      \* controller: the content it wants, or None
  existing,    \* controller: the content it listed, or None
  seen,        \* controller: the resourceVersion it listed
  last,        \* controller: the last patch it sent, or None
  lastVersion, \* controller: the resourceVersion of the answer, 0 if none
  edits, hands, updates, faults  \* how much of each bound is used

server == <<live, version, clock>>
pass == <<pc, wanted, existing, seen>>
memory == <<last, lastVersion>>
budget == <<edits, hands, updates, faults>>
vars == <<source, server, pass, memory, budget>>

------------------------------------------------------------------------------
(* The annotations for one template; its prefix is not that of another one.*)
parametersForTemplate(annotations, template) ==
  [k \in {n \in Keys : <<template, n>> \in DOMAIN annotations} |->
     annotations[<<template, k>>]]

(* What an annotation says wins over a default.                            *)
parametersForTemplateWithDefaults(annotations, template, defaults) ==
  LET own == parametersForTemplate(annotations, template)
  IN  [k \in DOMAIN own \cup DOMAIN defaults |->
         IF k \in DOMAIN own THEN own[k] ELSE defaults[k]]

Desired(s) ==
  IF s = None THEN None
  ELSE [body   |-> s.body,
        params |-> parametersForTemplateWithDefaults(
                     s.annotations, Template[s.body], Defaults[s.body])]

(* A bug, for the sensitivity of TypeOK: the null itself is stored. *)
MergedParametersNull(old, new) == IF new = NoParameters THEN None ELSE new

(* A bug, for the sensitivity of DriftRepaired: an empty map where the code sends a null. *)
MergedParametersEmpty(old, new) ==
  [k \in DOMAIN old \cup DOMAIN new |-> IF k \in DOMAIN new THEN new[k] ELSE old[k]]

(* A JSON merge patch sets the parameters it names and keeps the others;   *)
(* without any parameter it is a null, which deletes them all.             *)
MergedParameters(old, new) ==
  IF new = NoParameters THEN NoParameters
  ELSE [k \in DOMAIN old \cup DOMAIN new |-> IF k \in DOMAIN new THEN new[k] ELSE old[k]]

Merged(old, patch) ==
  [body |-> patch.body, params |-> MergedParameters(old.params, patch.params)]

(* What the API server makes of a merge patch. *)
Stored(content) == [content EXCEPT !.body = Normal[content.body]]
Applied(old, patch) == Stored(Merged(old, patch))

(* A bug, for the sensitivity of SkippedPatchIsNoOp: resourceVersions are not compared. *)
RepeatedAnyVersion(patch) == last = patch /\ lastVersion # 0

(* The patch was the last one sent and nothing happened since. *)
Repeated(patch) == last = patch /\ lastVersion # 0 /\ lastVersion = seen

(* A bug, for the sensitivity of EventuallyQuiet: without the backstop. *)
NeedsPatchByMerge(current, patch) == Merged(current, patch) # current

NeedsPatch(current, patch) == ~Repeated(patch) /\ Merged(current, patch) # current

------------------------------------------------------------------------------
EndPass ==
  /\ pc' = "idle"
  /\ wanted' = None
  /\ existing' = None
  /\ seen' = 0

(* A write that changes the object gives it a new version. *)
Write(content) ==
  /\ live' = content
  /\ IF content = live THEN UNCHANGED <<version, clock>>
     ELSE clock' = clock + 1 /\ version' = IF content = None THEN 0 ELSE clock'

(* Clusters, instances and profiles are listed before the applications. *)
ReadSource ==
  /\ pc = "idle"
  /\ pc' = "listing"
  /\ wanted' = Desired(source)
  /\ UNCHANGED <<source, server, existing, seen, memory, budget>>

ListApplication ==
  /\ pc = "listing"
  /\ pc' = "listed"
  /\ existing' = live
  /\ seen' = version
  /\ UNCHANGED <<source, server, wanted, memory, budget>>

Create ==
  /\ pc = "listed"
  /\ wanted # None
  /\ existing = None
  /\ Write(Stored(wanted))
  /\ EndPass
  /\ UNCHANGED <<source, memory, budget>>

Skip ==
  /\ pc = "listed"
  /\ wanted # None
  /\ existing # None
  /\ ~NeedsPatch(existing, wanted)
  /\ EndPass
  /\ UNCHANGED <<source, server, memory, budget>>

(* An object that is gone answers 404, which the client takes for success  *)
(* with no resourceVersion.                                                *)
Patch ==
  /\ pc = "listed"
  /\ wanted # None
  /\ existing # None
  /\ NeedsPatch(existing, wanted)
  /\ IF live = None THEN UNCHANGED server ELSE Write(Applied(live, wanted))
  /\ last' = wanted
  /\ lastVersion' = version'
  /\ EndPass
  /\ UNCHANGED <<source, budget>>

(* The server applies the patch but its answer is lost: not remembered.    *)
PatchLost ==
  /\ pc = "listed"
  /\ wanted # None
  /\ existing # None
  /\ NeedsPatch(existing, wanted)
  /\ faults < MaxFaults
  /\ faults' = faults + 1
  /\ IF live = None THEN UNCHANGED server ELSE Write(Applied(live, wanted))
  /\ EndPass
  /\ UNCHANGED <<source, memory, edits, hands, updates>>

Prune ==
  /\ pc = "listed"
  /\ wanted = None
  /\ existing # None
  /\ Write(None)
  /\ last' = None
  /\ lastVersion' = 0
  /\ EndPass
  /\ UNCHANGED <<source, budget>>

NothingToDo ==
  /\ pc = "listed"
  /\ wanted = None
  /\ existing = None
  /\ EndPass
  /\ UNCHANGED <<source, server, memory, budget>>

(* A bug, for the sensitivity of MemorySound: a failed patch is remembered. *)
AbortRemembering ==
  /\ pc # "idle"
  /\ faults < MaxFaults
  /\ faults' = faults + 1
  /\ last' = wanted
  /\ lastVersion' = seen
  /\ EndPass
  /\ UNCHANGED <<source, server, edits, hands, updates>>

Abort ==
  /\ pc # "idle"
  /\ faults < MaxFaults
  /\ faults' = faults + 1
  /\ EndPass
  /\ UNCHANGED <<source, server, memory, edits, hands, updates>>

(* The memory of sent patches does not survive the process. *)
Restart ==
  /\ faults < MaxFaults
  /\ faults' = faults + 1
  /\ EndPass
  /\ last' = None
  /\ lastVersion' = 0
  /\ UNCHANGED <<source, server, edits, hands, updates>>

Step ==
  \/ ReadSource \/ ListApplication
  \/ Create \/ Skip \/ Patch \/ Prune \/ NothingToDo

------------------------------------------------------------------------------
EditSource ==
  /\ edits < MaxEdits
  /\ edits' = edits + 1
  /\ source' \in (Sources \cup {None}) \ {source}
  /\ UNCHANGED <<server, pass, memory, hands, updates, faults>>

EditByHand ==
  /\ hands < MaxHands
  /\ hands' = hands + 1
  /\ live # None
  /\ \E c \in Content : Write(Stored(c))
  /\ UNCHANGED <<source, pass, memory, edits, updates, faults>>

DeleteByHand ==
  /\ hands < MaxHands
  /\ hands' = hands + 1
  /\ live # None
  /\ Write(None)
  /\ UNCHANGED <<source, pass, memory, edits, updates, faults>>

(* Argo CD reports health or sync: a new version of the same content. *)
StatusChange ==
  /\ updates < MaxStatus
  /\ updates' = updates + 1
  /\ live # None
  /\ clock' = clock + 1
  /\ version' = clock'
  /\ UNCHANGED <<source, live, pass, memory, edits, hands, faults>>

Environment == EditSource \/ EditByHand \/ DeleteByHand \/ StatusChange

Init ==
  /\ source \in Sources \cup {None}
  /\ live = None
  /\ version = 0
  /\ clock = 0
  /\ pc = "idle"
  /\ wanted = None
  /\ existing = None
  /\ seen = 0
  /\ last = None
  /\ lastVersion = 0
  /\ edits = 0
  /\ hands = 0
  /\ updates = 0
  /\ faults = 0

Next == Step \/ PatchLost \/ Abort \/ Restart \/ Environment

Spec == Init /\ [][Next]_vars

(* The controller runs its loop for ever; the rest may stop at any time. *)
FairSpec == Spec /\ WF_vars(Step)

------------------------------------------------------------------------------
(* Properties. *)

(* Types, and versions that never run ahead of the last one given out.     *)
TypeOK ==
  /\ source \in Sources \cup {None}
  /\ live \in Content \cup {None}
  /\ clock \in Nat /\ version \in 0 .. clock /\ seen \in 0 .. clock
  /\ pc \in {"idle", "listing", "listed"}
  /\ wanted \in Content \cup {None}
  /\ existing \in Content \cup {None}
  /\ last \in Content \cup {None} /\ lastVersion \in 0 .. clock
  /\ edits \in 0 .. MaxEdits /\ hands \in 0 .. MaxHands
  /\ updates \in 0 .. MaxStatus /\ faults \in 0 .. MaxFaults

(* A patch the controller decides not to send would have changed nothing   *)
(* in the object it listed (applicationNeedsPatch, application_patch.go:   *)
(* 26-49): the backstop never hides drift, although its memory outlives    *)
(* deletions, re-creations, edits by others and lost answers.              *)
SkippedPatchIsNoOp ==
  pc = "listed" /\ wanted # None /\ existing # None /\ ~NeedsPatch(existing, wanted)
    => Applied(existing, wanted) = existing

(* The object of a given version has one content, and the last patch sent  *)
(* is at its fixed point in the version it left behind.                    *)
Settled(content, v) ==
  last # None /\ lastVersion # 0 /\ lastVersion = v => Applied(content, last) = content

(* The inductive invariant behind SkippedPatchIsNoOp: what is stored is in *)
(* normal form, and the memory of the last patch is right about the object *)
(* as it is and as it was listed (application_patch.go:10-20, 51-61).      *)
MemorySound ==
  /\ live # None => live.body = Normal[live.body] /\ Settled(live, version)
  /\ existing # None => existing.body = Normal[existing.body] /\ Settled(existing, seen)
  /\ live # None /\ existing # None /\ seen = version => live = existing
  /\ live = None <=> version = 0
  /\ existing = None <=> seen = 0

(* The object carries everything the source asks for. *)
Agrees ==
  LET asked == Desired(source)
  IN  IF asked = None THEN live = None
      ELSE /\ live # None
           /\ live.body = Normal[asked.body]
           /\ \A k \in DOMAIN asked.params : k \in DOMAIN live.params
                                             /\ live.params[k] = asked.params[k]
           /\ asked.params = NoParameters => live.params = NoParameters

(* Whatever others do to the object, and whichever answers and restarts    *)
(* lose the memory, drift from the source is repaired for good once they   *)
(* stop (reconcile.go:128-158).                                            *)
DriftRepaired == <>[]Agrees

(* ... and then no patch is sent any more, although a patch whose body the *)
(* server normalises keeps looking like a change: "it also skips a patch   *)
(* identical to the last one sent" (application_patch.go:24-25).           *)
EventuallyQuiet == <>[][~Patch]_vars

(* The object is in line with the source, and so is what a pass has read.  *)
InLine ==
  /\ Agrees
  /\ pc # "idle" => wanted = Desired(source)
  /\ pc = "listed" /\ existing = None => live = None

(* The next decision on the object as it is, and the one on the object as  *)
(* it was listed, is that nothing needs to be sent.                        *)
Quiet ==
  /\ InLine
  /\ live # None =>
       \/ Merged(live, Desired(source)) = live
       \/ last = Desired(source) /\ lastVersion = version
  /\ pc = "listed" /\ existing # None /\ wanted # None => ~NeedsPatch(existing, wanted)

(* What the passes do to an object that is in line with its source leaves  *)
(* it as it is, whatever fails, restarts or was read before; the first     *)
(* patch then is the last one until the process restarts, Argo CD updates  *)
(* the status or somebody edits ("identical to the last one sent",         *)
(* application_patch.go:17-37).                                            *)
QuietLasts ==
  [][UNCHANGED <<source, hands>> /\ InLine =>
       /\ InLine' /\ live' = live
       /\ Patch => Quiet'
       /\ Quiet /\ UNCHANGED <<updates, faults>> => Quiet' /\ ~Patch]_vars

(* A pass that read a source without some parameter leaves the object      *)
(* without it: "Removing the annotation removes the generated parameter on *)
(* the next reconciliation" (bindings/README.md:167).  Stated for an       *)
(* object only the controller writes.  A template with defaults never has  *)
(* the null that would remove it, not even with its last annotation.       *)
RemovedParametersGo ==
  [][Patch \/ Skip =>
       (live' # None => DOMAIN live'.params \subseteq DOMAIN wanted.params)]_vars
==============================================================================
