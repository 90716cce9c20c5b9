-------------------------------- MODULE Naming --------------------------------
(***************************************************************************)
(* The names the controller derives (bindings.go:58-92, credentials.go:    *)
(* 38-55) and what a pass keeps under them.  A binding of a Cluster is     *)
(* named after its template and target and cut, one of an instance and an  *)
(* AccessKey get a digest when they are too long.  A pass puts its bindings*)
(* into a map by name, where the last one written stays (reconcile.go:63   *)
(* and 98); a key that is there already must be of the same instance.      *)
(*                                                                         *)
(* Words are sequences of characters.  A digest is the beginning of a hash,*)
(* of fixed length: any two words may have the same one, and a word may    *)
(* happen to end in the digest of another.                                 *)
(***************************************************************************)
EXTENDS Integers, Sequences, FiniteSets, SequencesExt

CONSTANTS
  Alnum,        \* a-z and 0-9
  Lower,        \* lower case of every character there is
  Dash, Dot,
  Fallback,     \* the word "binding"
  Infix,        \* the word "vci"
  Prefix,       \* the word "fleet-observability-writer"
  LoftNamespace, ProjectNamespace,  \* the words "loft-p-" and "p-"
  Limit, Cut,   \* 63 and 54 in the code; the digest with its dash fits between
  Digest(_),    \* the digits a name takes of the SHA-256 of a word: eight in the code
  Requests      \* sets of what one pass has to name

Allowed == Alnum \cup {Dash, Dot}
Words == Seq(DOMAIN Lower)
Name == Seq(Allowed)
Digits == [1 .. Limit - Cut - 1 -> Alnum]

(* The names Kubernetes takes: parts between dots begin and end with a     *)
(* letter or digit.                                                        *)
Subdomain(w) ==
  /\ w # <<>>
  /\ \A i \in DOMAIN w :
       /\ w[i] \in Allowed
       /\ i = 1 \/ w[i - 1] = Dot => w[i] \in Alnum
       /\ i = Len(w) \/ w[i + 1] = Dot => w[i] \in Alnum

ObjectNames == {w \in Words : Subdomain(w)}

(* A binding wanted for a target.  The bindings of Clusters are in the     *)
(* controller's namespace, those of an instance in its own.  Targets and   *)
(* namespaces were read from the API; a template is what a profile says.   *)
Kinds == {"Cluster", "VirtualClusterInstance"}
Request == [kind : Kinds, namespace : ObjectNames, template : Words, target : ObjectNames]

ASSUME LimitAssumption == Cut \in Nat /\ Limit \in Nat /\ 0 < Cut /\ Cut + 1 < Limit
ASSUME CharactersAssumption ==
  /\ Dash \notin Alnum /\ Dot \notin Alnum /\ Dash # Dot
  /\ Allowed \subseteq DOMAIN Lower
  /\ \A c \in DOMAIN Lower : Lower[c] \in DOMAIN Lower
  /\ \A c \in Allowed : Lower[c] = c
ASSUME WordsAssumption ==
  /\ {Fallback, Infix, Prefix} \subseteq ObjectNames
  /\ {LoftNamespace, ProjectNamespace} \subseteq Words \ {<<>>}
  /\ LoftNamespace[Len(LoftNamespace)] = Dash
  /\ ProjectNamespace[Len(ProjectNamespace)] = Dash
ASSUME RequestsAssumption == Requests \subseteq SUBSET Request

VARIABLES
  asked,     \* what the pass has left to name
  desired,   \* its map of bindings: <<namespace, name>> -> request
  keys,      \* the writer AccessKeys: name -> <<project, instance>>
  refused    \* requests whose key is another instance's

vars == <<asked, desired, keys, refused>>

------------------------------------------------------------------------------
(* From words to names. *)

TrimLeft(w, chars) ==
  LET kept == {i \in DOMAIN w : w[i] \notin chars}
  IN  IF kept = {} THEN <<>> ELSE SubSeq(w, Min(kept), Len(w))

TrimRight(w, chars) ==
  LET kept == {i \in DOMAIN w : w[i] \notin chars}
  IN  IF kept = {} THEN <<>> ELSE SubSeq(w, 1, Max(kept))

(* A bug, for the sensitivity of TypeOK: only the first is replaced. *)
ReplacedFirst(w) ==
  [i \in DOMAIN w |-> IF i = 1 /\ w[i] \notin Allowed THEN Dash ELSE w[i]]

(* Each run of characters a name cannot have becomes one dash: what stays  *)
(* are the allowed characters and the first of each run.                   *)
Replaced(w) ==
  LET stays  == {i \in DOMAIN w : w[i] \in Allowed \/ i = 1 \/ w[i - 1] \in Allowed}
      nth(n) == CHOOSE i \in stays : Cardinality({j \in stays : j <= i}) = n
  IN  [n \in 1 .. Cardinality(stays) |->
         IF w[nth(n)] \in Allowed THEN w[nth(n)] ELSE Dash]

dnsLabel(w) ==
  LET lowered == [i \in DOMAIN w |-> Lower[w[i]]]
      trimmed == TrimRight(TrimLeft(Replaced(lowered), {Dash, Dot}), {Dash, Dot})
  IN  IF trimmed = <<>> THEN Fallback ELSE trimmed

(* A bug, for the sensitivity of ClusterNamesSafe: the cut is not trimmed. *)
truncateOnly(w) == IF Len(w) > Limit THEN SubSeq(w, 1, Limit) ELSE w

truncateDNSLabel(w) ==
  TrimRight(IF Len(w) > Limit THEN SubSeq(w, 1, Limit) ELSE w, {Dash})

(* A bug, for the sensitivity of NothingLost: nothing between the words. *)
JoinClosely(a, b) == a \o b

Join(a, b) == a \o <<Dash>> \o b

(* A bug, for the sensitivity of InstanceNamesSafe: only dashes are trimmed. *)
DigestedDashes(w) ==
  IF Len(w) <= Limit THEN w
  ELSE Join(TrimRight(SubSeq(w, 1, Cut), {Dash}), Digest(w))

(* A name that is too long ends in its digest. *)
Digested(w) ==
  IF Len(w) <= Limit THEN w
  ELSE Join(TrimRight(SubSeq(w, 1, Cut), {Dash, Dot}), Digest(w))

bindingName(template, cluster) == truncateDNSLabel(dnsLabel(Join(template, cluster)))

virtualClusterBindingLabel(template, instance) == Join(Join(template, Infix), instance)
virtualClusterBindingName(template, instance) ==
  Digested(dnsLabel(virtualClusterBindingLabel(template, instance)))

(* A bug, for the sensitivity of KeysSeparate: the project is left out. *)
credentialNameOfInstance(project, instance) == Digested(dnsLabel(Join(Prefix, instance)))

credentialLabel(project, instance) == Join(Join(Prefix, project), instance)
credentialName(project, instance) ==
  Digested(dnsLabel(credentialLabel(project, instance)))

projectNameFromNamespace(namespace) ==
  CASE IsPrefix(LoftNamespace, namespace) ->
         SubSeq(namespace, Len(LoftNamespace) + 1, Len(namespace))
    [] ~IsPrefix(LoftNamespace, namespace) /\ IsPrefix(ProjectNamespace, namespace) ->
         SubSeq(namespace, Len(ProjectNamespace) + 1, Len(namespace))
    [] OTHER -> namespace

NameOf(r) ==
  IF r.kind = "Cluster" THEN bindingName(r.template, r.target)
  ELSE virtualClusterBindingName(r.template, r.target)

applicationKey(r) == <<r.namespace, NameOf(r)>>

OwnerOf(r) == <<projectNameFromNamespace(r.namespace), r.target>>
KeyName(r) == credentialName(OwnerOf(r)[1], OwnerOf(r)[2])

(* Whatever may be hashed has a digest. *)
ASSUME DigestAssumption ==
  \A r \in UNION Requests :
    /\ Digest(dnsLabel(virtualClusterBindingLabel(r.template, r.target))) \in Digits
    /\ Digest(dnsLabel(credentialLabel(OwnerOf(r)[1], r.target))) \in Digits

------------------------------------------------------------------------------
(* A pass. *)

Init ==
  /\ asked \in Requests
  /\ desired = [n \in {} |-> {}]
  /\ keys = [n \in {} |-> {}]
  /\ refused = {}

(* A map with a value under a key, whatever was there. *)
Put(map, key, value) ==
  [x \in DOMAIN map \cup {key} |-> IF x = key THEN value ELSE map[x]]

(* The bindings of Clusters are named first.  A list has no order. *)
NameForCluster(r) ==
  /\ r.kind = "Cluster"
  /\ desired' = Put(desired, applicationKey(r), r)
  /\ asked' = asked \ {r}
  /\ UNCHANGED <<keys, refused>>

(* An instance has its writer key first; that of another one is an error,  *)
(* which leaves the instance without new bindings.                         *)
NameForInstance(r) ==
  /\ r.kind = "VirtualClusterInstance"
  /\ \A q \in asked : q.kind = r.kind
  /\ asked' = asked \ {r}
  /\ LET n == KeyName(r)
     IN  IF n \in DOMAIN keys /\ keys[n] # OwnerOf(r)
         THEN refused' = refused \cup {r} /\ UNCHANGED <<desired, keys>>
         ELSE /\ keys' = Put(keys, n, OwnerOf(r))
              /\ desired' = Put(desired, applicationKey(r), r)
              /\ UNCHANGED refused

Next == \E r \in asked : NameForCluster(r) \/ NameForInstance(r)

Spec == Init /\ [][Next]_vars

------------------------------------------------------------------------------
(* What names are to be. *)

(* The template has a name of an object, as it must to exist.              *)
Proper(r) == Subdomain(r.template)

(* One word continues the other after a dash.                              *)
Continues(a, b) == Len(a) < Len(b) /\ IsPrefix(Append(a, Dash), b)
Nested(a, b) == Continues(a, b) \/ Continues(b, a)

(* Two words that digests do not tell apart: they have the same one, or one*)
(* is short enough and happens to end in the digest of the other.          *)
SpellsDigest(v, w) ==
  /\ Len(v) <= Limit /\ Len(w) > Limit
  /\ \E n \in 0 .. Len(v) : v = Join(SubSeq(v, 1, n), Digest(w))

DigestsClash(v, w) ==
  \/ Len(v) > Limit /\ Len(w) > Limit /\ v # w /\ Digest(v) = Digest(w)
  \/ SpellsDigest(v, w) \/ SpellsDigest(w, v)

TypeOK ==
  /\ asked \in SUBSET Request
  /\ \A k \in DOMAIN desired : k[1] \in Words /\ k[2] \in Name /\ desired[k] \in Request
  /\ \A n \in DOMAIN keys : n \in Name /\ keys[n] \in Words \X Words
  /\ refused \subseteq Request /\ refused \cap asked = {}

(* The names of instances' bindings and of AccessKeys are within the limit *)
(* and ones Kubernetes takes, wherever they are cut.                       *)
InstanceNamesSafe ==
  /\ \A k \in DOMAIN desired :
       desired[k].kind = "VirtualClusterInstance" /\ Proper(desired[k])
         => Len(k[2]) <= Limit /\ Subdomain(k[2])
  /\ \A n \in DOMAIN keys : Len(n) <= Limit /\ Subdomain(n)

(* Those of Clusters' bindings too, unless the cut leaves a dot at their   *)
(* end (truncateDNSLabel trims dashes only, bindings.go:74).               *)
ClusterNamesSafe ==
  \A k \in DOMAIN desired : desired[k].kind = "Cluster" =>
    /\ Len(k[2]) <= Limit
    /\ Proper(desired[k]) => Subdomain(k[2]) \/ k[2][Len(k[2])] = Dot

(* What the name of a binding is made from. *)
Label(r) ==
  IF r.kind = "Cluster" THEN Join(r.template, r.target)
  ELSE virtualClusterBindingLabel(r.template, r.target)

(* Bindings of one pass that may end up under one name: their templates    *)
(* differ by a dash and what follows it, they are names only after other   *)
(* characters were replaced, one is a Cluster's and too long, a Cluster is *)
(* called what the infix makes of an instance, or their digests clash.     *)
Confusable(r, q) ==
  \/ Nested(r.template, q.template)
  \/ ~Proper(r) \/ ~Proper(q)
  \/ \E x \in {r, q} : /\ x.kind = "Cluster"
                       /\ \/ Len(Label(x)) > Limit
                          \/ r.kind # q.kind /\ Continues(Infix, x.target)
  \/ DigestsClash(Label(r), Label(q))

(* No binding in the map of a pass is replaced by another one but by one   *)
(* it can be confused with: the dash keeps short names apart, the digest   *)
(* long ones (bindings_test.go:384), the infix the two kinds of targets.   *)
NothingLost ==
  [][\A k \in DOMAIN desired :
       desired'[k] = desired[k] \/ Confusable(desired[k], desired'[k])]_vars

(* An instance is refused its key only because another project's name      *)
(* continues its own, or the other way round (credentials_test.go:96), or  *)
(* because of their digests.                                               *)
KeysSeparate ==
  \A r \in refused :
    LET mine  == OwnerOf(r)
        other == keys[KeyName(r)]
    IN  \/ Nested(mine[1], other[1])
        \/ DigestsClash(credentialLabel(mine[1], mine[2]), credentialLabel(other[1], other[2]))
==============================================================================
