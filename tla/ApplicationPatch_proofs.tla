------------------------ MODULE ApplicationPatch_proofs ------------------------
(* Proofs about ApplicationPatch, for any bodies, parameters and bounds.   *)
EXTENDS ApplicationPatch, TLAPS

(* A merged parameter map is one (mergePatchJSON).                         *)
LEMMA MergedParametersType ==
  ASSUME NEW old \in Parameters, NEW new \in Parameters
  PROVE  MergedParameters(old, new) \in Parameters
<1>1. PICK S \in SUBSET Keys : old \in [S -> Values]  BY DEF Parameters
<1>2. PICK T \in SUBSET Keys : new \in [T -> Values]  BY DEF Parameters
<1>3. CASE new = NoParameters
  <2>1. MergedParameters(old, new) = new  BY <1>3 DEF MergedParameters
  <2> QED  BY <2>1
<1>4. CASE new # NoParameters
  <2>1. MergedParameters(old, new) =
          [k \in S \cup T |-> IF k \in T THEN new[k] ELSE old[k]]
    BY <1>1, <1>2, <1>4 DEF MergedParameters
  <2>2. MergedParameters(old, new) \in [S \cup T -> Values]
    BY <1>1, <1>2, <2>1
  <2>3. S \cup T \in SUBSET Keys  OBVIOUS
  <2> QED  BY <2>2, <2>3 DEF Parameters
<1> QED  BY <1>3, <1>4

(* Merging the same patch twice is merging it once.                        *)
LEMMA MergedParametersTwice ==
  ASSUME NEW old \in Parameters, NEW new \in Parameters
  PROVE  MergedParameters(MergedParameters(old, new), new) = MergedParameters(old, new)
<1>1. PICK S \in SUBSET Keys : old \in [S -> Values]  BY DEF Parameters
<1>2. PICK T \in SUBSET Keys : new \in [T -> Values]  BY DEF Parameters
<1>3. CASE new = NoParameters  BY <1>3 DEF MergedParameters
<1>4. CASE new # NoParameters
  <2> DEFINE once == [k \in S \cup T |-> IF k \in T THEN new[k] ELSE old[k]]
  <2>1. MergedParameters(old, new) = once
    BY <1>1, <1>2, <1>4 DEF MergedParameters
  <2>2. MergedParameters(once, new) =
          [k \in (S \cup T) \cup T |-> IF k \in T THEN new[k] ELSE once[k]]
    BY <1>2, <1>4 DEF MergedParameters
  <2>3. (S \cup T) \cup T = S \cup T  OBVIOUS
  <2>4. \A k \in S \cup T : (IF k \in T THEN new[k] ELSE once[k]) = once[k]  OBVIOUS
  <2> QED  BY <2>1, <2>2, <2>3, <2>4
<1> QED  BY <1>3, <1>4

(* What the server stores of a patch is content in normal form, and the    *)
(* patch leaves it alone from then on.                                     *)
LEMMA AppliedContent ==
  ASSUME NEW old \in Content, NEW patch \in Content
  PROVE  /\ Applied(old, patch) \in Content
         /\ Applied(old, patch).body = Normal[Applied(old, patch).body]
         /\ Applied(Applied(old, patch), patch) = Applied(old, patch)
<1> DEFINE params == MergedParameters(old.params, patch.params)
           body == Normal[patch.body]
<1>1. params \in Parameters  BY MergedParametersType DEF Content
<1>2. body \in Bodies /\ Normal[body] = body  BY NormalAssumption DEF Content
<1>3. \A c \in Content : Applied(c, patch) =
        [body |-> body, params |-> MergedParameters(c.params, patch.params)]
  BY DEF Applied, Stored, Merged
<1>4. [body |-> body, params |-> params] \in Content  BY <1>1, <1>2 DEF Content
<1>5. MergedParameters(params, patch.params) = params
  BY MergedParametersTwice DEF Content
<1> HIDE DEF params, body
<1>6. Applied(old, patch) = [body |-> body, params |-> params]  BY <1>3 DEF params
<1>7. Applied([body |-> body, params |-> params], patch) = [body |-> body, params |-> params]
  BY <1>3, <1>4, <1>5
<1> QED  BY <1>2, <1>4, <1>6, <1>7

(* What the server stores of a whole object.                               *)
LEMMA StoredContent ==
  ASSUME NEW c \in Content
  PROVE  Stored(c) \in Content /\ Stored(c).body = Normal[Stored(c).body]
<1>1. Stored(c) = [body |-> Normal[c.body], params |-> c.params]  BY DEF Stored, Content
<1>2. Normal[c.body] \in Bodies /\ Normal[Normal[c.body]] = Normal[c.body]
  BY NormalAssumption DEF Content
<1> QED  BY <1>1, <1>2 DEF Content

------------------------------------------------------------------------------
(* What targets, profiles and defaults ask for is content.                 *)
LEMMA DesiredContent ==
  ASSUME NEW s \in Sources \cup {None}
  PROVE  Desired(s) \in Content \cup {None}
<1>1. CASE s = None  BY <1>1 DEF Desired
<1>2. CASE s # None
  <2> DEFINE own == parametersForTemplate(s.annotations, Template[s.body])
             keys == {n \in Keys : <<Template[s.body], n>> \in DOMAIN s.annotations}
             defaults == Defaults[s.body]
             params == parametersForTemplateWithDefaults(
                         s.annotations, Template[s.body], defaults)
  <2>1. s \in Source  BY <1>2, SourceAssumption
  <2>2. s.body \in Bodies /\ s.annotations \in Annotations  BY <2>1 DEF Source
  <2>3. PICK A \in SUBSET (Templates \X (Keys \cup {None})) : s.annotations \in [A -> Values]
    BY <2>2 DEF Annotations
  <2>4. own \in [keys -> Values]  BY <2>3 DEF parametersForTemplate
  <2>5. PICK D \in SUBSET Keys : defaults \in [D -> Values]
    <3>1. defaults \in Parameters  BY <2>2, SourceAssumption
    <3> HIDE DEF defaults
    <3> QED  BY <3>1 DEF Parameters
  <2>6. keys \in SUBSET Keys  OBVIOUS
  <2> HIDE DEF own, keys, defaults
  <2>7. params = [k \in keys \cup D |-> IF k \in keys THEN own[k] ELSE defaults[k]]
    BY <2>4, <2>5 DEF parametersForTemplateWithDefaults, own
  <2>8. params \in [keys \cup D -> Values]  BY <2>4, <2>5, <2>7
  <2>9. params \in Parameters  BY <2>5, <2>6, <2>8 DEF Parameters
  <2> HIDE DEF params
  <2>10. Desired(s) = [body |-> s.body, params |-> params]
    BY <1>2 DEF Desired, params, defaults
  <2> QED  BY <2>2, <2>9, <2>10 DEF Content
<1> QED  BY <1>1, <1>2

(* A write keeps the types of what the server holds.                       *)
LEMMA WriteType ==
  ASSUME TypeOK, NEW c \in Content \cup {None}, Write(c)
  PROVE  live' \in Content \cup {None} /\ clock' \in Nat /\ clock <= clock'
         /\ version' \in 0 .. clock'
BY DEF Write, TypeOK

(* Every object a step writes is content.                                  *)
LEMMA WrittenContent ==
  ASSUME TypeOK, wanted # None, live # None
  PROVE  Applied(live, wanted) \in Content
BY AppliedContent DEF TypeOK

(* Every step keeps the types.                                             *)
LEMMA StepType == TypeOK /\ [Next]_vars => TypeOK'
<1> SUFFICES ASSUME TypeOK, [Next]_vars PROVE TypeOK'  OBVIOUS
<1> USE BudgetAssumption
<1>1. CASE ReadSource
  BY <1>1, DesiredContent DEF ReadSource, TypeOK, server, memory, budget
<1>2. CASE ListApplication
  BY <1>2 DEF ListApplication, TypeOK, server, memory, budget
<1>3. CASE Create
  <2>1. Stored(wanted) \in Content  BY <1>3, StoredContent DEF Create, TypeOK
  <2>2. Write(Stored(wanted))  BY <1>3 DEF Create
  <2> QED  BY <1>3, <2>1, <2>2, WriteType DEF Create, EndPass, TypeOK, memory, budget
<1>4. CASE Skip  BY <1>4 DEF Skip, EndPass, TypeOK, server, memory, budget
<1>5. CASE Patch \/ PatchLost
  <2>1. live' \in Content \cup {None} /\ clock' \in Nat /\ clock <= clock'
        /\ version' \in 0 .. clock'
    <3>1. CASE live = None
      BY <1>5, <3>1 DEF Patch, PatchLost, TypeOK, server
    <3>2. CASE live # None
      <4>1. Applied(live, wanted) \in Content
        BY <1>5, <3>2, WrittenContent DEF Patch, PatchLost
      <4>2. Write(Applied(live, wanted))  BY <1>5, <3>2 DEF Patch, PatchLost
      <4> QED  BY <4>1, <4>2, WriteType
    <3> QED  BY <3>1, <3>2
  <2>2. CASE Patch
    BY <2>1, <2>2 DEF Patch, EndPass, TypeOK, budget
  <2>3. CASE PatchLost
    BY <2>1, <2>3 DEF PatchLost, EndPass, TypeOK, memory
  <2> QED  BY <1>5, <2>2, <2>3
<1>6. CASE Prune
  <2>1. Write(None)  BY <1>6 DEF Prune
  <2> QED  BY <1>6, <2>1, WriteType DEF Prune, EndPass, TypeOK, budget
<1>7. CASE NothingToDo  BY <1>7 DEF NothingToDo, EndPass, TypeOK, server, memory, budget
<1>8. CASE Abort  BY <1>8 DEF Abort, EndPass, TypeOK, server, memory
<1>9. CASE Restart  BY <1>9 DEF Restart, EndPass, TypeOK, server
<1>10. CASE EditSource
  BY <1>10, SourceAssumption DEF EditSource, TypeOK, server, pass, memory
<1>11. CASE EditByHand
  <2>1. PICK c \in Content : Write(Stored(c))  BY <1>11 DEF EditByHand
  <2>2. Stored(c) \in Content  BY StoredContent
  <2> QED  BY <1>11, <2>1, <2>2, WriteType DEF EditByHand, TypeOK, pass, memory
<1>12. CASE DeleteByHand
  <2>1. Write(None)  BY <1>12 DEF DeleteByHand
  <2> QED  BY <1>12, <2>1, WriteType DEF DeleteByHand, TypeOK, pass, memory
<1>13. CASE StatusChange  BY <1>13 DEF StatusChange, TypeOK, pass, memory
<1>14. CASE UNCHANGED vars
  BY <1>14 DEF vars, TypeOK, server, pass, memory, budget
<1> QED
  BY <1>1, <1>2, <1>3, <1>4, <1>5, <1>6, <1>7, <1>8, <1>9, <1>10, <1>11, <1>12,
     <1>13, <1>14 DEF Next, Step, Environment

(* Every variable keeps its type, and no version runs ahead of the clock.  *)
THEOREM TypeCorrect == Spec => []TypeOK
<1>1. Init => TypeOK  BY BudgetAssumption, NoneAssumption DEF Init, TypeOK
<1> QED  BY <1>1, StepType, PTL DEF Spec

------------------------------------------------------------------------------
(* The parts of MemorySound about the object as it is, ...                 *)
LiveSound ==
  /\ live # None => live.body = Normal[live.body] /\ Settled(live, version)
  /\ live = None <=> version = 0

(* ... and about the object as it was listed.                              *)
ListedSound ==
  /\ existing # None => existing.body = Normal[existing.body] /\ Settled(existing, seen)
  /\ live # None /\ existing # None /\ seen = version => live = existing
  /\ existing = None <=> seen = 0

(* A pass that ended has nothing listed.                                   *)
LEMMA EndedPass == EndPass => ListedSound'
BY DEF EndPass, ListedSound

(* A write gives a version that nobody has seen, unless it changes nothing.*)
LEMMA WriteSound ==
  ASSUME TypeOK, LiveSound, NEW c \in Content \cup {None}, Write(c),
         c # None => c.body = Normal[c.body]
  PROVE  /\ live' # None => live'.body = Normal[live'.body]
         /\ live' = None <=> version' = 0
         /\ (live' = live /\ version' = version) \/ version' = 0 \/ version' > clock
<1>1. CASE c = live  BY <1>1 DEF Write, LiveSound
<1>2. CASE c # live  BY <1>2 DEF Write, TypeOK
<1> QED  BY <1>1, <1>2

(* A write of others leaves the memory of the last patch right.            *)
LEMMA ForeignWriteSound ==
  ASSUME TypeOK, LiveSound, NEW c \in Content \cup {None}, Write(c),
         c # None => c.body = Normal[c.body], UNCHANGED memory
  PROVE  LiveSound'
<1>1. /\ live' # None => live'.body = Normal[live'.body]
      /\ live' = None <=> version' = 0
      /\ (live' = live /\ version' = version) \/ version' = 0 \/ version' > clock
  BY WriteSound
<1>2. live' # None => Settled(live, version)' 
  <2> SUFFICES ASSUME live' # None, last' # None, lastVersion' # 0, lastVersion' = version'
               PROVE  Applied(live', last') = live'
    BY DEF Settled
  <2>1. lastVersion = version' /\ last # None /\ lastVersion # 0 /\ last' = last
    BY DEF memory
  <2>2. lastVersion <= clock  BY DEF TypeOK
  <2>3. ~(version' > clock)  BY <2>1, <2>2 DEF TypeOK
  <2>4. live' = live /\ version' = version  BY <1>1, <2>1, <2>3
  <2> QED  BY <2>1, <2>4 DEF LiveSound, Settled
<1> QED  BY <1>1, <1>2 DEF LiveSound

(* A write of others leaves the listed object's side right as well.        *)
LEMMA ForeignWriteListed ==
  ASSUME TypeOK, LiveSound, ListedSound, NEW c \in Content \cup {None}, Write(c),
         c # None => c.body = Normal[c.body], UNCHANGED <<pass, memory>>
  PROVE  ListedSound'
<1>1. /\ live' # None => live'.body = Normal[live'.body]
      /\ live' = None <=> version' = 0
      /\ (live' = live /\ version' = version) \/ version' = 0 \/ version' > clock
  BY WriteSound
<1>2. existing' = existing /\ seen' = seen /\ last' = last /\ lastVersion' = lastVersion
  BY DEF pass, memory
<1>3. seen <= clock  BY DEF TypeOK
<1>4. live' # None /\ existing # None /\ seen = version' => live' = existing
  <2> SUFFICES ASSUME live' # None, existing # None, seen = version'
               PROVE  live' = existing
    OBVIOUS
  <2>1. version' # 0  BY <1>1
  <2>2. ~(version' > clock)  BY <1>3 DEF TypeOK
  <2> QED  BY <1>1, <2>1, <2>2 DEF ListedSound
<1> QED  BY <1>2, <1>4 DEF ListedSound, Settled

(* Every step keeps the memory of the last patch right.                    *)
LEMMA StepSound ==
  TypeOK /\ LiveSound /\ ListedSound /\ [Next]_vars => LiveSound' /\ ListedSound'
<1> SUFFICES ASSUME TypeOK, LiveSound, ListedSound, [Next]_vars
             PROVE  LiveSound' /\ ListedSound'
  OBVIOUS
<1>1. CASE ReadSource
  BY <1>1 DEF ReadSource, LiveSound, ListedSound, Settled, server, memory
<1>2. CASE ListApplication
  BY <1>2 DEF ListApplication, LiveSound, ListedSound, Settled, server, memory
<1>3. CASE Create
  <2>1. /\ Stored(wanted) \in Content
        /\ Stored(wanted).body = Normal[Stored(wanted).body]
    BY <1>3, StoredContent DEF Create, TypeOK
  <2>2. Write(Stored(wanted)) /\ EndPass /\ UNCHANGED memory  BY <1>3 DEF Create
  <2> QED  BY <2>1, <2>2, ForeignWriteSound, EndedPass
<1>4. CASE Skip \/ NothingToDo \/ Abort
  <2>1. UNCHANGED <<server, memory>> /\ EndPass
    BY <1>4 DEF Skip, NothingToDo, Abort
  <2>2. LiveSound'  BY <2>1 DEF LiveSound, Settled, server, memory
  <2> QED  BY <2>1, <2>2, EndedPass
<1>5. CASE Restart \/ Prune
  <2>1. EndPass /\ last' = None  BY <1>5 DEF Restart, Prune
  <2>2. CASE Restart  BY <2>1, <2>2, EndedPass DEF Restart, LiveSound, Settled, server
  <2>3. CASE Prune
    <3>1. Write(None)  BY <2>3 DEF Prune
    <3>2. live' = None <=> version' = 0  BY <3>1, WriteSound
    <3>3. live' = None  BY <3>1 DEF Write
    <3> QED  BY <2>1, <3>2, <3>3, EndedPass DEF LiveSound
  <2> QED  BY <1>5, <2>2, <2>3
<1>6. CASE (Patch \/ PatchLost) /\ live = None
  <2>1. UNCHANGED server /\ EndPass  BY <1>6 DEF Patch, PatchLost
  <2>2. LiveSound'  BY <1>6, <2>1 DEF LiveSound, server
  <2> QED  BY <2>1, <2>2, EndedPass
<1>7. CASE (Patch \/ PatchLost) /\ live # None
  <2> DEFINE c == Applied(live, wanted)
  <2>1. /\ c \in Content
        /\ c.body = Normal[c.body]
        /\ Applied(c, wanted) = c
    BY <1>7, AppliedContent DEF Patch, PatchLost, TypeOK
  <2>2. Write(c) /\ EndPass  BY <1>7 DEF Patch, PatchLost
  <2> HIDE DEF c
  <2>3. CASE PatchLost
    <3>1. UNCHANGED memory  BY <2>3 DEF PatchLost
    <3> QED  BY <2>1, <2>2, <3>1, ForeignWriteSound, EndedPass
  <2>4. CASE Patch
    <3>1. live' = c  BY <2>2 DEF Write
    <3>2. last' = wanted  BY <2>4 DEF Patch
    <3>3. Settled(live, version)'  BY <2>1, <3>1, <3>2 DEF Settled
    <3>4. /\ live' # None => live'.body = Normal[live'.body]
          /\ live' = None <=> version' = 0
      BY <2>1, <2>2, WriteSound
    <3> QED  BY <2>2, <3>3, <3>4, EndedPass DEF LiveSound
  <2> QED  BY <1>7, <2>3, <2>4
<1>8. CASE EditSource \/ UNCHANGED vars
  <2>1. UNCHANGED <<server, pass, memory>>  BY <1>8 DEF EditSource, vars
  <2> QED  BY <2>1 DEF LiveSound, ListedSound, Settled, server, pass, memory
<1>9. CASE EditByHand
  <2>1. PICK c \in Content : Write(Stored(c))  BY <1>9 DEF EditByHand
  <2>2. UNCHANGED <<pass, memory>>  BY <1>9 DEF EditByHand
  <2>3. Stored(c) \in Content /\ Stored(c).body = Normal[Stored(c).body]
    BY StoredContent
  <2> QED  BY <2>1, <2>2, <2>3, ForeignWriteSound, ForeignWriteListed
<1>10. CASE DeleteByHand
  <2>1. Write(None) /\ UNCHANGED <<pass, memory>>  BY <1>10 DEF DeleteByHand
  <2> QED  BY <2>1, ForeignWriteSound, ForeignWriteListed
<1>11. CASE StatusChange
  <2>1. /\ live' = live /\ live # None
        /\ version' = clock + 1
        /\ UNCHANGED <<pass, memory>>
    BY <1>11 DEF StatusChange
  <2>2. version' # 0 /\ version' # lastVersion /\ version' # seen
    BY <2>1 DEF TypeOK
  <2>3. last' = last /\ lastVersion' = lastVersion /\ existing' = existing /\ seen' = seen
    BY <2>1 DEF pass, memory
  <2>4. LiveSound'  BY <2>1, <2>2, <2>3 DEF LiveSound, Settled
  <2>5. ListedSound'  BY <2>1, <2>2, <2>3 DEF ListedSound, Settled
  <2> QED  BY <2>4, <2>5
<1> QED
  BY <1>1, <1>2, <1>3, <1>4, <1>5, <1>6, <1>7, <1>8, <1>9, <1>10, <1>11
     DEF Next, Step, Environment

(* The memory of the last patch is right in every reachable state.         *)
THEOREM MemoryStaysSound == Spec => []MemorySound
<1>1. Init => LiveSound /\ ListedSound  BY DEF Init, LiveSound, ListedSound
<1>2. LiveSound /\ ListedSound => MemorySound
  BY DEF LiveSound, ListedSound, MemorySound
<1> QED  BY <1>1, <1>2, StepSound, TypeCorrect, PTL DEF Spec

(* A skipped patch would have changed nothing in the listed object.        *)
THEOREM SkipsAreSound == Spec => []SkippedPatchIsNoOp
<1>1. TypeOK /\ MemorySound => SkippedPatchIsNoOp
  <2> SUFFICES ASSUME TypeOK, MemorySound, pc = "listed", wanted # None, existing # None,
                      ~NeedsPatch(existing, wanted)
               PROVE  Applied(existing, wanted) = existing
    BY DEF SkippedPatchIsNoOp
  <2>1. CASE Repeated(wanted)
    BY <2>1, NoneAssumption DEF Repeated, MemorySound, Settled
  <2>2. CASE Merged(existing, wanted) = existing
    <3>1. existing \in Content /\ existing.body = Normal[existing.body]
      BY DEF TypeOK, MemorySound
    <3>2. Stored(existing) = existing  BY <3>1 DEF Stored, Content
    <3> QED  BY <2>2, <3>2 DEF Applied
  <2> QED  BY <2>1, <2>2 DEF NeedsPatch
<1> QED  BY <1>1, TypeCorrect, MemoryStaysSound, PTL

------------------------------------------------------------------------------
(* A patch leaves an object that carries what it asks for as it is.        *)
LEMMA AgreeingIsFixed ==
  ASSUME TypeOK, LiveSound, Agrees, Desired(source) # None
  PROVE  live # None /\ Applied(live, Desired(source)) = live
<1>1. PICK asked : asked = Desired(source)  OBVIOUS
<1>2. /\ live # None /\ live.body = Normal[asked.body]
      /\ \A k \in DOMAIN asked.params : k \in DOMAIN live.params
                                       /\ live.params[k] = asked.params[k]
      /\ asked.params = NoParameters => live.params = NoParameters
  BY <1>1 DEF Agrees
<1>3. live \in Content  BY <1>2 DEF TypeOK
<1>4. PICK S \in SUBSET Keys : live.params \in [S -> Values]  BY <1>3 DEF Content, Parameters
<1>5. MergedParameters(live.params, asked.params) = live.params
  <2>1. CASE asked.params = NoParameters  BY <1>2, <2>1 DEF MergedParameters
  <2>2. CASE asked.params # NoParameters
    <3>1. MergedParameters(live.params, asked.params) =
            [k \in DOMAIN live.params \cup DOMAIN asked.params |->
               IF k \in DOMAIN asked.params THEN asked.params[k] ELSE live.params[k]]
      BY <2>2 DEF MergedParameters
    <3>2. DOMAIN live.params \cup DOMAIN asked.params = DOMAIN live.params  BY <1>2
    <3>3. \A k \in DOMAIN live.params :
            (IF k \in DOMAIN asked.params THEN asked.params[k] ELSE live.params[k])
              = live.params[k]
      BY <1>2
    <3> QED  BY <1>4, <3>1, <3>2, <3>3
  <2> QED  BY <2>1, <2>2
<1>6. Applied(live, asked) =
        [body |-> Normal[asked.body], params |-> MergedParameters(live.params, asked.params)]
  BY DEF Applied, Stored, Merged
<1>7. live = [body |-> live.body, params |-> live.params]  BY <1>3 DEF Content
<1> QED  BY <1>1, <1>2, <1>5, <1>6, <1>7

(* What a pass does to an object in line with its source is nothing, and   *)
(* so is what fails, a restart and a status update.                        *)
LEMMA InLineStays ==
  ASSUME TypeOK, LiveSound, InLine, [Next]_vars, UNCHANGED <<source, hands>>
  PROVE  InLine' /\ live' = live
<1>0. pc \in {"idle", "listing", "listed"}  BY DEF TypeOK
<1>a. Desired(source') = Desired(source)  OBVIOUS
<1>b. live' = live => Agrees'  BY DEF InLine, Agrees
<1>c. live' = live /\ pc' = "idle" => InLine'  BY <1>b DEF InLine
<1>1. CASE ReadSource
  <2>1. live' = live /\ pc' = "listing" /\ wanted' = Desired(source)
    BY <1>1 DEF ReadSource, server
  <2> QED  BY <1>a, <1>b, <2>1 DEF InLine
<1>2. CASE ListApplication
  <2>1. live' = live /\ existing' = live /\ wanted' = wanted /\ pc = "listing"
    BY <1>2 DEF ListApplication, server
  <2> QED  BY <1>a, <1>b, <2>1 DEF InLine
<1>3. CASE Create
  <2>1. wanted # None /\ wanted = Desired(source) /\ live = None
    BY <1>3 DEF Create, InLine
  <2> QED  BY <2>1, AgreeingIsFixed DEF InLine
<1>4. CASE Skip \/ NothingToDo \/ Abort \/ Restart
  <2>1. live' = live /\ pc' = "idle"
    BY <1>4 DEF Skip, NothingToDo, Abort, Restart, EndPass, server
  <2> QED  BY <1>c, <2>1
<1>5. CASE Patch \/ PatchLost
  <2>1. wanted # None /\ wanted = Desired(source) /\ pc' = "idle"
    BY <1>5 DEF Patch, PatchLost, EndPass, InLine
  <2>2. live # None /\ Applied(live, wanted) = live
    BY <2>1, AgreeingIsFixed DEF InLine
  <2>3. Write(Applied(live, wanted))  BY <1>5, <2>2 DEF Patch, PatchLost
  <2>4. live' = live  BY <2>2, <2>3 DEF Write
  <2> QED  BY <1>c, <2>1, <2>4
<1>6. CASE Prune
  <2>1. pc = "listed" /\ wanted = None /\ pc' = "idle" /\ Write(None)
    BY <1>6 DEF Prune, EndPass
  <2>2. Desired(source) = None  BY <2>1 DEF InLine
  <2>3. live = None  BY <2>2 DEF InLine, Agrees
  <2>4. live' = live  BY <2>1, <2>3 DEF Write
  <2> QED  BY <1>c, <2>1, <2>4
<1>7. CASE EditSource  BY <1>7 DEF EditSource
<1>8. CASE EditByHand \/ DeleteByHand
  BY <1>8, BudgetAssumption DEF EditByHand, DeleteByHand, TypeOK
<1>9. CASE StatusChange \/ UNCHANGED vars
  <2>1. live' = live /\ UNCHANGED pass  BY <1>9 DEF StatusChange, vars, server
  <2> QED  BY <1>a, <1>b, <2>1 DEF InLine, pass
<1> QED
  BY <1>1, <1>2, <1>3, <1>4, <1>5, <1>6, <1>7, <1>8, <1>9 DEF Next, Step, Environment

(* The first patch of such an object is remembered with the version that   *)
(* the object already had.                                                 *)
LEMMA PatchQuiets ==
  ASSUME InLine, InLine', UNCHANGED source, Patch
  PROVE  Quiet'
<1>1. last' = wanted /\ lastVersion' = version' /\ pc' = "idle"  BY DEF Patch, EndPass
<1>2. wanted = Desired(source)  BY DEF InLine, Patch
<1>3. (last = Desired(source))' /\ (lastVersion = version)'  BY <1>1, <1>2
<1> QED  BY <1>1, <1>3 DEF Quiet

(* From then on every pass finds its patch identical to the last one sent, *)
(* or finds that merging it changes nothing.                               *)
LEMMA QuietStays ==
  ASSUME TypeOK, LiveSound, Quiet, InLine', live' = live, [Next]_vars,
         UNCHANGED <<source, hands, updates, faults>>
  PROVE  Quiet' /\ ~Patch
<1>a. InLine  BY DEF Quiet
<1>b. Desired(source') = Desired(source)  OBVIOUS
<1>c. ~Patch  BY DEF Patch, Quiet
<1>d. ASSUME UNCHANGED <<version, memory>>, pc' # "listed" PROVE Quiet'
  BY <1>b, <1>d DEF Quiet, memory
<1>1. CASE ReadSource
  <2>1. UNCHANGED <<version, memory>> /\ pc' = "listing"  BY <1>1 DEF ReadSource, server
  <2> QED  BY <1>c, <1>d, <2>1
<1>2. CASE ListApplication
  <2>1. /\ UNCHANGED <<version, memory>> /\ wanted' = wanted
        /\ existing' = live /\ seen' = version
        /\ pc = "listing"
    BY <1>2 DEF ListApplication, server
  <2>2. wanted = Desired(source)  BY <1>a, <2>1 DEF InLine
  <2>3. live # None => version # 0  BY DEF LiveSound
  <2>4. CASE live = None  BY <1>b, <1>c, <2>1, <2>4 DEF Quiet
  <2>5. CASE live # None
    <3>1. \/ Merged(live, wanted) = live
          \/ last = wanted /\ lastVersion = version
      BY <2>2, <2>5 DEF Quiet
    <3>2. ~NeedsPatch(existing, wanted)'
      BY <2>1, <2>3, <2>5, <3>1 DEF NeedsPatch, Repeated, memory
    <3>3. \/ Merged(live', Desired(source')) = live'
          \/ last' = Desired(source') /\ lastVersion' = version'
      BY <1>b, <2>1, <2>2, <3>1 DEF memory
    <3> QED  BY <1>c, <3>2, <3>3 DEF Quiet
  <2> QED  BY <2>4, <2>5
<1>3. CASE Create
  <2>1. wanted # None /\ wanted = Desired(source) /\ live = None
    BY <1>3, <1>a DEF Create, InLine
  <2> QED  BY <1>a, <2>1, AgreeingIsFixed DEF InLine
<1>4. CASE Skip \/ NothingToDo
  <2>1. UNCHANGED <<version, memory>> /\ pc' = "idle"
    BY <1>4 DEF Skip, NothingToDo, EndPass, server
  <2> QED  BY <1>c, <1>d, <2>1
<1>5. CASE Prune
  <2>1. pc = "listed" /\ wanted = None /\ pc' = "idle"  BY <1>5 DEF Prune, EndPass
  <2>2. live = None  BY <1>a, <2>1 DEF InLine, Agrees
  <2> QED  BY <1>c, <2>1, <2>2 DEF Quiet
<1>6. CASE PatchLost \/ Abort \/ Restart
  BY <1>6, BudgetAssumption DEF PatchLost, Abort, Restart, TypeOK
<1>7. CASE EditSource  BY <1>7 DEF EditSource
<1>8. CASE EditByHand \/ DeleteByHand \/ StatusChange
  BY <1>8, BudgetAssumption DEF EditByHand, DeleteByHand, StatusChange, TypeOK
<1>9. CASE UNCHANGED vars
  <2>1. UNCHANGED <<version, pass, memory>>  BY <1>9 DEF vars, server
  <2> QED  BY <1>b, <1>c, <2>1 DEF Quiet, NeedsPatch, Repeated, pass, memory
<1> QED
  BY <1>c, <1>1, <1>2, <1>3, <1>4, <1>5, <1>6, <1>7, <1>8, <1>9 DEF Next, Step, Environment

(* An object in line with its source stays as it is, and is patched at most*)
(* once until the process restarts, Argo CD updates the status, a request  *)
(* fails or somebody edits (applicationNeedsPatch).                        *)
THEOREM QuietStaysSo == Spec => QuietLasts
<1>1. TypeOK /\ MemorySound /\ [Next]_vars =>
        [UNCHANGED <<source, hands>> /\ InLine =>
           /\ InLine' /\ live' = live
           /\ Patch => Quiet'
           /\ Quiet /\ UNCHANGED <<updates, faults>> => Quiet' /\ ~Patch]_vars
  <2> SUFFICES ASSUME TypeOK, MemorySound, [Next]_vars, UNCHANGED <<source, hands>>, InLine
               PROVE  /\ InLine' /\ live' = live
                      /\ Patch => Quiet'
                      /\ Quiet /\ UNCHANGED <<updates, faults>> => Quiet' /\ ~Patch
    OBVIOUS
  <2>1. LiveSound  BY DEF MemorySound, LiveSound
  <2>2. InLine' /\ live' = live  BY <2>1, InLineStays
  <2>3. Patch => Quiet'  BY <2>2, PatchQuiets
  <2>4. Quiet /\ UNCHANGED <<updates, faults>> => Quiet' /\ ~Patch
    BY <2>1, <2>2, QuietStays
  <2> QED  BY <2>2, <2>3, <2>4
<1> QED  BY <1>1, TypeCorrect, MemoryStaysSound, PTL DEF Spec, QuietLasts
==============================================================================
