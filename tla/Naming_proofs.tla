----------------------------- MODULE Naming_proofs -----------------------------
(* Proofs about Naming, for words of any length over any characters and    *)
(* any limit.                                                              *)
EXTENDS Naming, SequenceTheorems, FiniteSetTheorems, WellFoundedInduction, TLAPS

(* The characters of two words joined by a dash.                           *)
LEMMA JoinCharacters ==
  ASSUME NEW C, Dash \in C, NEW a \in Seq(C), NEW b \in Seq(C)
  PROVE  /\ Join(a, b) \in Seq(C)
         /\ Len(Join(a, b)) = Len(a) + 1 + Len(b)
         /\ \A i \in 1 .. Len(a) : Join(a, b)[i] = a[i]
         /\ Join(a, b)[Len(a) + 1] = Dash
         /\ \A i \in 1 .. Len(b) : Join(a, b)[Len(a) + 1 + i] = b[i]
<1>1. <<Dash>> \in Seq(C) /\ Len(<<Dash>>) = 1 /\ <<Dash>>[1] = Dash
  OBVIOUS
<1>2. a \o <<Dash>> \in Seq(C) /\ Len(a \o <<Dash>>) = Len(a) + 1
  BY <1>1
<1> QED  BY <1>1, <1>2 DEF Join

(* A word that reaches beyond another one and its dash continues it.       *)
LEMMA LongerContinues ==
  ASSUME NEW C, Dash \in C, NEW a \in Seq(C), NEW b \in Seq(C),
         NEW c \in Seq(C), NEW d \in Seq(C),
         Join(a, b) = Join(c, d), Len(a) < Len(c)
  PROVE  Continues(a, c)
<1> DEFINE p == Append(a, Dash)
<1>1. /\ Len(a) \in Nat /\ Len(b) \in Nat
      /\ \A i \in 1 .. Len(a) : Join(a, b)[i] = a[i]
      /\ Join(a, b)[Len(a) + 1] = Dash
  BY JoinCharacters, LenProperties
<1>2. Len(c) \in Nat /\ \A i \in 1 .. Len(c) : Join(c, d)[i] = c[i]
  BY JoinCharacters, LenProperties
<1>3. /\ p \in Seq(C) /\ Len(p) = Len(a) + 1
      /\ \A i \in 1 .. Len(a) : p[i] = a[i]
      /\ p[Len(a) + 1] = Dash
  BY <1>1, AppendProperties
<1> HIDE DEF p
<1>4. \A i \in 1 .. Len(p) : p[i] = c[i]
  <2>1. \A i \in 1 .. Len(a) : p[i] = c[i]  BY <1>1, <1>2, <1>3
  <2>2. p[Len(a) + 1] = c[Len(a) + 1]
    <3>1. Len(a) + 1 \in 1 .. Len(c)  BY <1>1, <1>2
    <3>2. Join(c, d)[Len(a) + 1] = c[Len(a) + 1]  BY <1>2, <3>1
    <3> QED  BY <1>1, <1>3, <3>2
  <2> SUFFICES ASSUME NEW i \in 1 .. Len(p), i # Len(a) + 1  PROVE p[i] = c[i]
    BY <2>2
  <2>3. i \in 1 .. Len(a)  BY <1>1, <1>3
  <2> QED  BY <2>1, <2>3
<1>5. Len(p) <= Len(c)  BY <1>1, <1>2, <1>3
<1>6. SubSeq(p, 1, Len(p)) = SubSeq(c, 1, Len(p))
  BY <1>1, <1>2, <1>3, <1>4, <1>5
<1> QED  BY <1>5, <1>6 DEF Continues, IsPrefix, p

(* Two pairs of words that are joined to one name are the same pair, or    *)
(* one begins with the other and a dash: bindings of one namespace whose   *)
(* templates do not extend one another have different names until they are *)
(* cut (bindings.go:78 and 82).                                            *)
THEOREM JoinNests ==
  ASSUME NEW C, Dash \in C, NEW a \in Seq(C), NEW b \in Seq(C),
         NEW c \in Seq(C), NEW d \in Seq(C)
  PROVE  Join(a, b) = Join(c, d) => (a = c /\ b = d) \/ Nested(a, c)
<1>1. /\ Len(a) \in Nat /\ Len(b) \in Nat
      /\ Len(Join(a, b)) = Len(a) + 1 + Len(b)
      /\ \A i \in 1 .. Len(a) : Join(a, b)[i] = a[i]
      /\ \A i \in 1 .. Len(b) : Join(a, b)[Len(a) + 1 + i] = b[i]
  <2>1. Len(a) \in Nat /\ Len(b) \in Nat  BY LenProperties
  <2>2. Len(Join(a, b)) = Len(a) + 1 + Len(b)  BY JoinCharacters
  <2>3. \A i \in 1 .. Len(a) : Join(a, b)[i] = a[i]  BY JoinCharacters
  <2>4. \A i \in 1 .. Len(b) : Join(a, b)[Len(a) + 1 + i] = b[i]
    BY JoinCharacters
  <2> QED  BY <2>1, <2>2, <2>3, <2>4
<1>2. /\ Len(c) \in Nat /\ Len(d) \in Nat
      /\ Len(Join(c, d)) = Len(c) + 1 + Len(d)
      /\ \A i \in 1 .. Len(c) : Join(c, d)[i] = c[i]
      /\ \A i \in 1 .. Len(d) : Join(c, d)[Len(c) + 1 + i] = d[i]
  <2>1. Len(c) \in Nat /\ Len(d) \in Nat  BY LenProperties
  <2>2. Len(Join(c, d)) = Len(c) + 1 + Len(d)  BY JoinCharacters
  <2>3. \A i \in 1 .. Len(c) : Join(c, d)[i] = c[i]  BY JoinCharacters
  <2>4. \A i \in 1 .. Len(d) : Join(c, d)[Len(c) + 1 + i] = d[i]
    BY JoinCharacters
  <2> QED  BY <2>1, <2>2, <2>3, <2>4
<1> HAVE Join(a, b) = Join(c, d)
<1>3. CASE Len(a) = Len(c)
  <2>1. Len(b) = Len(d)  BY <1>1, <1>2, <1>3
  <2>2. \A i \in 1 .. Len(a) : a[i] = c[i]  BY <1>1, <1>2, <1>3
  <2>3. \A i \in 1 .. Len(b) : b[i] = d[i]
    <3> TAKE i \in 1 .. Len(b)
    <3>1. Join(a, b)[Len(a) + 1 + i] = b[i]  BY <1>1
    <3>2. Join(c, d)[Len(c) + 1 + i] = d[i]  BY <1>2, <2>1
    <3> QED  BY <1>3, <3>1, <3>2
  <2>4. a = c  BY <1>3, <2>2, SeqEqual
  <2>5. b = d  BY <2>1, <2>3, SeqEqual
  <2> QED  BY <2>4, <2>5
<1>4. CASE Len(a) < Len(c)  BY <1>4, LongerContinues DEF Nested
<1>5. CASE Len(c) < Len(a)  BY <1>5, LongerContinues DEF Nested
<1> QED  BY <1>1, <1>2, <1>3, <1>4, <1>5

------------------------------------------------------------------------------
(* What the parts of a name are made of. *)

(* The ends of a set of positions. *)
LEMMA Extremes ==
  ASSUME NEW n \in Nat, NEW S \in SUBSET (1 .. n), S # {}
  PROVE  /\ Min(S) \in S /\ \A i \in S : Min(S) <= i
         /\ Max(S) \in S /\ \A i \in S : i <= Max(S)
<1>1. ASSUME NEW T \in SUBSET Nat, T # {}
      PROVE  \E m \in T : \A i \in T : m <= i
  <2>1. PICK m \in T : \A i \in T : ~(<<i, m>> \in OpToRel(<, Nat))
    <3> HIDE DEF OpToRel
    <3> QED  BY <1>1, WFMin, NatLessThanWellFounded
  <2>2. \A i \in Nat : i < m => <<i, m>> \in OpToRel(<, Nat)
    BY <1>1 DEF OpToRel
  <2>3. \A i \in Nat : ~(i < m) => m <= i  BY <1>1
  <2> QED  BY <1>1, <2>1, <2>2, <2>3
<1>2. \E m \in S : \A i \in S : m <= i  BY <1>1
<1>3. \E m \in S : \A i \in S : i <= m
  <2> DEFINE T == {n - i : i \in S}
  <2>1. T \in SUBSET Nat /\ T # {}
    <3>1. \A i \in S : n - i \in Nat  OBVIOUS
    <3> QED  BY <3>1
  <2>2. PICK d \in T : \A i \in T : d <= i
    <3> HIDE DEF T
    <3> QED  BY <1>1, <2>1
  <2>3. PICK m \in S : d = n - m  OBVIOUS
  <2>4. \A i \in S : n - i \in T  OBVIOUS
  <2>5. \A i \in S : n - m <= n - i  BY <2>2, <2>3, <2>4
  <2>6. \A i \in S : i <= m  BY <2>5
  <2> QED  BY <2>6
<1> QED  BY <1>2, <1>3 DEF Min, Max

(* Trimming the right end leaves a beginning of the word that ends in a    *)
(* character that is not trimmed, or nothing.                              *)
LEMMA TrimsRight ==
  ASSUME NEW C, NEW w \in Seq(C), NEW chars
  PROVE  \/ TrimRight(w, chars) = <<>> /\ \A i \in DOMAIN w : w[i] \in chars
         \/ \E m \in DOMAIN w : /\ TrimRight(w, chars) = SubSeq(w, 1, m)
                                /\ w[m] \notin chars
                                /\ \A i \in DOMAIN w : m < i => w[i] \in chars
<1> DEFINE kept == {i \in DOMAIN w : w[i] \notin chars}
<1>1. Len(w) \in Nat /\ DOMAIN w = 1 .. Len(w)  BY LenProperties
<1>2. CASE kept = {}  BY <1>2 DEF TrimRight
<1>3. CASE kept # {}
  <2>1. Max(kept) \in kept /\ \A i \in kept : i <= Max(kept)
    <3>1. kept \in SUBSET (1 .. Len(w))  BY <1>1
    <3> HIDE DEF kept
    <3> QED  BY <1>1, <1>3, <3>1, Extremes
  <2>2. TrimRight(w, chars) = SubSeq(w, 1, Max(kept))  BY <1>3 DEF TrimRight
  <2>3. \A i \in DOMAIN w : i \notin kept => w[i] \in chars  OBVIOUS
  <2>4. \A i \in DOMAIN w : Max(kept) < i => i \notin kept
    <3>1. kept \subseteq 1 .. Len(w)  BY <1>1
    <3> HIDE DEF kept
    <3>2. \A i, m \in 1 .. Len(w) : i <= m => ~(m < i)  BY <1>1
    <3> QED  BY <1>1, <2>1, <3>1, <3>2
  <2>5. Max(kept) \in DOMAIN w /\ w[Max(kept)] \notin chars  BY <2>1
  <2> QED  BY <2>2, <2>3, <2>4, <2>5
<1> QED  BY <1>2, <1>3

(* Trimming the left end leaves an end of the word, or nothing.            *)
LEMMA TrimsLeft ==
  ASSUME NEW C, NEW w \in Seq(C), NEW chars
  PROVE  \/ TrimLeft(w, chars) = <<>> /\ \A i \in DOMAIN w : w[i] \in chars
         \/ \E m \in DOMAIN w : /\ TrimLeft(w, chars) = SubSeq(w, m, Len(w))
                                /\ w[m] \notin chars
                                /\ \A i \in DOMAIN w : i < m => w[i] \in chars
<1> DEFINE kept == {i \in DOMAIN w : w[i] \notin chars}
<1>1. Len(w) \in Nat /\ DOMAIN w = 1 .. Len(w)  BY LenProperties
<1>2. CASE kept = {}  BY <1>2 DEF TrimLeft
<1>3. CASE kept # {}
  <2>1. Min(kept) \in kept /\ \A i \in kept : Min(kept) <= i
    <3>1. kept \in SUBSET (1 .. Len(w))  BY <1>1
    <3> HIDE DEF kept
    <3> QED  BY <1>1, <1>3, <3>1, Extremes
  <2>2. TrimLeft(w, chars) = SubSeq(w, Min(kept), Len(w))  BY <1>3 DEF TrimLeft
  <2>3. \A i \in DOMAIN w : i \notin kept => w[i] \in chars  OBVIOUS
  <2>4. \A i \in DOMAIN w : i < Min(kept) => i \notin kept
    <3>1. kept \subseteq 1 .. Len(w)  BY <1>1
    <3> HIDE DEF kept
    <3>2. \A i, m \in 1 .. Len(w) : i <= m => ~(m < i)  BY <1>1
    <3> QED  BY <1>1, <2>1, <3>1, <3>2
  <2>5. Min(kept) \in DOMAIN w /\ w[Min(kept)] \notin chars  BY <2>1
  <2> QED  BY <2>2, <2>3, <2>4, <2>5
<1> QED  BY <1>2, <1>3

(* Trimming keeps the alphabet. *)
LEMMA TrimType ==
  ASSUME NEW C, NEW w \in Seq(C), NEW chars
  PROVE  TrimLeft(w, chars) \in Seq(C) /\ TrimRight(w, chars) \in Seq(C)
<1>1. Len(w) \in Nat /\ DOMAIN w = 1 .. Len(w)  BY LenProperties
<1>2. <<>> \in Seq(C)  OBVIOUS
<1>3. \A m \in DOMAIN w : SubSeq(w, 1, m) \in Seq(C) /\ SubSeq(w, m, Len(w)) \in Seq(C)
  BY <1>1, SubSeqProperties
<1>4. TrimLeft(w, chars) \in Seq(C)
  <2>1. TrimLeft(w, chars) = <<>> \/ \E m \in DOMAIN w : TrimLeft(w, chars) = SubSeq(w, m, Len(w))
    BY TrimsLeft
  <2> QED  BY <1>2, <1>3, <2>1
<1>5. TrimRight(w, chars) \in Seq(C)
  <2>1. TrimRight(w, chars) = <<>> \/ \E m \in DOMAIN w : TrimRight(w, chars) = SubSeq(w, 1, m)
    BY TrimsRight
  <2> QED  BY <1>2, <1>3, <2>1
<1> QED  BY <1>4, <1>5

(* The characters a name cannot have are replaced by one it can have.      *)
LEMMA ReplacedType ==
  ASSUME NEW C, NEW w \in Seq(C)
  PROVE  Replaced(w) \in Seq(Allowed)
<1> DEFINE stays == {i \in DOMAIN w : w[i] \in Allowed \/ i = 1 \/ w[i - 1] \in Allowed}
           nth(n) == CHOOSE i \in stays : Cardinality({j \in stays : j <= i}) = n
<1>1. Cardinality(stays) \in Nat
  <2>1. IsFiniteSet(DOMAIN w)  BY LenProperties, FS_Interval
  <2> QED  BY <2>1, FS_Subset, FS_CardinalityType
<1>2. \A n \in 1 .. Cardinality(stays) :
        (IF w[nth(n)] \in Allowed THEN w[nth(n)] ELSE Dash) \in Allowed
  BY DEF Allowed
<1>3. Replaced(w) = [n \in 1 .. Cardinality(stays) |->
                       IF w[nth(n)] \in Allowed THEN w[nth(n)] ELSE Dash]
  BY DEF Replaced
<1> HIDE DEF stays, nth
<1> QED  BY <1>1, <1>2, <1>3, IsASeq

(* A word of allowed characters stays as it is. *)
LEMMA ReplacedAllowed ==
  ASSUME NEW w \in Seq(Allowed)
  PROVE  Replaced(w) = w
<1> DEFINE stays == {i \in DOMAIN w : w[i] \in Allowed \/ i = 1 \/ w[i - 1] \in Allowed}
           nth(n) == CHOOSE i \in stays : Cardinality({j \in stays : j <= i}) = n
<1>1. Len(w) \in Nat /\ DOMAIN w = 1 .. Len(w) /\ \A i \in 1 .. Len(w) : w[i] \in Allowed
  BY LenProperties, ElementOfSeq
<1>2. stays = 1 .. Len(w)  BY <1>1
<1>3. \A n \in Nat : Cardinality(1 .. n) = n
  <2> TAKE n \in Nat
  <2>1. Cardinality(1 .. n) = IF 1 > n THEN 0 ELSE n - 1 + 1  BY FS_Interval
  <2> QED  BY <2>1
<1>4. \A i \in stays : Cardinality({j \in stays : j <= i}) = i
  <2> TAKE i \in stays
  <2>1. {j \in stays : j <= i} = 1 .. i  BY <1>1, <1>2
  <2>2. i \in Nat  BY <1>1, <1>2
  <2> QED  BY <1>3, <2>1, <2>2
<1>5. \A n \in 1 .. Len(w) : nth(n) = n
  <2> HIDE DEF stays
  <2> QED  BY <1>2, <1>4
<1>6. Replaced(w) = [n \in 1 .. Cardinality(stays) |->
                       IF w[nth(n)] \in Allowed THEN w[nth(n)] ELSE Dash]
  BY DEF Replaced
<1> HIDE DEF stays, nth
<1>7. Replaced(w) = [n \in 1 .. Len(w) |-> w[n]]
  BY <1>1, <1>2, <1>3, <1>5, <1>6
<1> QED  BY <1>1, <1>7, LenProperties

------------------------------------------------------------------------------
(* Words that are names of objects stay names. *)

(* The characters of a name. *)
LEMMA NameCharacters ==
  ASSUME NEW w \in ObjectNames
  PROVE  /\ w \in Words /\ w \in Seq(Allowed)
         /\ Len(w) \in Nat \ {0} /\ DOMAIN w = 1 .. Len(w)
         /\ w[1] \in Alnum /\ w[Len(w)] \in Alnum
<1>1. w \in Words /\ w # <<>> /\ Subdomain(w)  BY DEF ObjectNames, Subdomain
<1>2. Len(w) \in Nat \ {0} /\ DOMAIN w = 1 .. Len(w)
  BY <1>1, LenProperties, EmptySeq DEF Words
<1>3. \A i \in 1 .. Len(w) : w[i] \in Allowed  BY <1>1, <1>2 DEF Subdomain
<1>4. w \in Seq(Allowed)
  <2>1. w = [i \in 1 .. Len(w) |-> w[i]]  BY <1>1, <1>2, LenProperties DEF Words
  <2> QED  BY <1>2, <1>3, <2>1
<1>5. w[1] \in Alnum /\ w[Len(w)] \in Alnum
  BY <1>1, <1>2 DEF Subdomain
<1> QED  BY <1>1, <1>2, <1>4, <1>5

(* Neither trimming nor lower case nor replacement changes a name. *)
LEMMA LabelOfName ==
  ASSUME NEW w \in ObjectNames
  PROVE  dnsLabel(w) = w /\ TrimRight(w, {Dash}) = w
<1> DEFINE lowered == [i \in DOMAIN w |-> Lower[w[i]]]
           D == {Dash, Dot}
<1>1. /\ w \in Seq(Allowed) /\ Len(w) \in Nat \ {0} /\ DOMAIN w = 1 .. Len(w)
      /\ w[1] \in Alnum /\ w[Len(w)] \in Alnum
  BY NameCharacters
<1>2. lowered = w
  <2>1. \A i \in DOMAIN w : Lower[w[i]] = w[i]
    BY <1>1, ElementOfSeq, CharactersAssumption
  <2>2. w = [i \in DOMAIN w |-> w[i]]  BY <1>1, LenProperties
  <2> QED  BY <2>1, <2>2
<1>3. Replaced(w) = w  BY <1>1, ReplacedAllowed
<1>4. w[1] \notin D /\ w[Len(w)] \notin D  BY <1>1, CharactersAssumption
<1>5. SubSeq(w, 1, Len(w)) = w  BY <1>1, SubSeqFull
<1>6. TrimLeft(w, D) = w
  <2>1. 1 \in DOMAIN w  BY <1>1
  <2>2. PICK m \in DOMAIN w : /\ TrimLeft(w, D) = SubSeq(w, m, Len(w))
                             /\ \A i \in DOMAIN w : i < m => w[i] \in D
    BY <1>1, <1>4, <2>1, TrimsLeft
  <2>3. m = 1  BY <1>1, <1>4, <2>1, <2>2
  <2> QED  BY <1>5, <2>2, <2>3
<1>7. ASSUME NEW chars \in SUBSET D  PROVE TrimRight(w, chars) = w
  <2>1. Len(w) \in DOMAIN w /\ w[Len(w)] \notin chars  BY <1>1, <1>4
  <2>2. PICK m \in DOMAIN w : /\ TrimRight(w, chars) = SubSeq(w, 1, m)
                             /\ \A i \in DOMAIN w : m < i => w[i] \in chars
    BY <1>1, <2>1, TrimsRight
  <2>3. m = Len(w)  BY <1>1, <2>1, <2>2
  <2> QED  BY <1>5, <2>2, <2>3
<1>8. w # <<>>  BY <1>1, EmptySeq
<1> HIDE DEF lowered
<1> QED  BY <1>2, <1>3, <1>6, <1>7, <1>8 DEF dnsLabel, lowered

(* Every word becomes one of allowed characters. *)
LEMMA LabelType ==
  ASSUME NEW w \in Words
  PROVE  dnsLabel(w) \in Seq(Allowed)
<1> DEFINE lowered == [i \in DOMAIN w |-> Lower[w[i]]]
<1>1. lowered \in Words
  <2>1. Len(w) \in Nat /\ DOMAIN w = 1 .. Len(w)  BY LenProperties DEF Words
  <2>2. \A i \in 1 .. Len(w) : Lower[w[i]] \in DOMAIN Lower
    BY <2>1, ElementOfSeq, CharactersAssumption DEF Words
  <2> QED  BY <2>1, <2>2, IsASeq DEF Words
<1> HIDE DEF lowered
<1>2. Replaced(lowered) \in Seq(Allowed)  BY <1>1, ReplacedType DEF Words
<1>3. TrimRight(TrimLeft(Replaced(lowered), {Dash, Dot}), {Dash, Dot}) \in Seq(Allowed)
  BY <1>2, TrimType
<1>4. Fallback \in Seq(Allowed)  BY WordsAssumption, NameCharacters
<1> QED  BY <1>3, <1>4 DEF dnsLabel, lowered

(* The beginning of a name up to a letter or digit is a name.              *)
LEMMA BeginningIsName ==
  ASSUME NEW w \in ObjectNames, NEW m \in DOMAIN w, w[m] \in Alnum
  PROVE  /\ SubSeq(w, 1, m) \in ObjectNames
         /\ Len(SubSeq(w, 1, m)) = m
<1> DEFINE v == SubSeq(w, 1, m)
<1>1. /\ w \in Words /\ Len(w) \in Nat \ {0} /\ DOMAIN w = 1 .. Len(w)
  BY NameCharacters
<1>2. \A i \in 1 .. m : w[i] \in DOMAIN Lower  BY <1>1, ElementOfSeq DEF Words
<1>3. v \in Words /\ Len(v) = m /\ \A i \in 1 .. m : v[i] = w[i]
  BY <1>1, <1>2, SubSeqProperties DEF Words
<1>4. DOMAIN v = 1 .. m /\ v # <<>>  BY <1>1, <1>3, LenProperties, EmptySeq DEF Words
<1> HIDE DEF v
<1>5. Subdomain(v)
  <2> SUFFICES ASSUME NEW i \in 1 .. m
               PROVE  /\ v[i] \in Allowed
                      /\ i = 1 \/ v[i - 1] = Dot => v[i] \in Alnum
                      /\ i = Len(v) \/ v[i + 1] = Dot => v[i] \in Alnum
    BY <1>4 DEF Subdomain
  <2>1. /\ w[i] \in Allowed
        /\ i = 1 \/ w[i - 1] = Dot => w[i] \in Alnum
        /\ w[i + 1] = Dot => w[i] \in Alnum
    <3>1. Subdomain(w) /\ i \in DOMAIN w  BY <1>1 DEF ObjectNames
    <3> QED  BY <3>1 DEF Subdomain
  <2>2. i # 1 => v[i - 1] = w[i - 1]  BY <1>1, <1>3
  <2>3. i # m => v[i + 1] = w[i + 1]  BY <1>1, <1>3
  <2> QED  BY <1>3, <2>1, <2>2, <2>3
<1> QED  BY <1>3, <1>5 DEF ObjectNames, v

(* What may follow a dash in a name. *)
Ending(w) ==
  /\ w \in Words
  /\ w # <<>>
  /\ w[1] # Dot
  /\ \A i \in DOMAIN w :
       /\ w[i] \in Allowed
       /\ i # 1 /\ w[i - 1] = Dot => w[i] \in Alnum
       /\ i = Len(w) \/ w[i + 1] = Dot => w[i] \in Alnum

LEMMA NameIsEnding ==
  ASSUME NEW w \in ObjectNames
  PROVE  Ending(w)
<1>1. w[1] # Dot  BY NameCharacters, CharactersAssumption
<1> QED  BY <1>1 DEF Ending, ObjectNames, Subdomain

(* Two words joined by a dash are a word. *)
LEMMA JoinWords ==
  ASSUME NEW a \in Words, NEW b \in Words
  PROVE  /\ Join(a, b) \in Words
         /\ Len(Join(a, b)) = Len(a) + 1 + Len(b)
         /\ \A i \in 1 .. Len(a) : Join(a, b)[i] = a[i]
         /\ Join(a, b)[Len(a) + 1] = Dash
         /\ \A i \in 1 .. Len(b) : Join(a, b)[Len(a) + 1 + i] = b[i]
<1> DEFINE C == DOMAIN Lower
<1>1. Dash \in C  BY CharactersAssumption DEF Allowed
<1>2. a \in Seq(C) /\ b \in Seq(C)  BY DEF Words
<1> HIDE DEF C
<1>3. \A x, y \in Seq(C) :
        /\ Join(x, y) \in Seq(C)
        /\ Len(Join(x, y)) = Len(x) + 1 + Len(y)
        /\ Join(x, y)[Len(x) + 1] = Dash
  BY <1>1, JoinCharacters
<1>4. \A x, y \in Seq(C) : \A i \in 1 .. Len(x) : Join(x, y)[i] = x[i]
  BY <1>1, JoinCharacters
<1>5. \A x, y \in Seq(C) : \A i \in 1 .. Len(y) : Join(x, y)[Len(x) + 1 + i] = y[i]
  BY <1>1, JoinCharacters
<1> QED  BY <1>2, <1>3, <1>4, <1>5 DEF Words, C

(* A name, a dash and an ending are a name. *)
LEMMA JoinIsName ==
  ASSUME NEW a \in ObjectNames, NEW b, Ending(b)
  PROVE  Join(a, b) \in ObjectNames
<1> DEFINE C == DOMAIN Lower
           w == Join(a, b)
           m == Len(a)
           n == Len(b)
<1>1. Dash \in C /\ Dash \in Allowed /\ Dash # Dot /\ Dot \notin Alnum
  BY CharactersAssumption DEF Allowed
<1>2. a \in Seq(C) /\ m \in Nat \ {0} /\ DOMAIN a = 1 .. m /\ a[m] \in Alnum
  BY NameCharacters DEF Words
<1>3. b \in Seq(C) /\ n \in Nat \ {0} /\ DOMAIN b = 1 .. n
  BY LenProperties, EmptySeq DEF Ending, Words
<1>4. /\ w \in Seq(C) /\ Len(w) = m + 1 + n
      /\ \A i \in 1 .. m : w[i] = a[i]
      /\ w[m + 1] = Dash
      /\ \A i \in 1 .. n : w[m + 1 + i] = b[i]
  <2> HIDE DEF C
  <2>1. a \in Words /\ b \in Words  BY <1>2, <1>3 DEF Words, C
  <2>2. w \in Seq(C)  BY <2>1, JoinWords DEF Words, C
  <2> QED  BY <2>1, <2>2, JoinWords
<1> HIDE DEF w, m, n
<1>5. DOMAIN w = 1 .. m + 1 + n /\ w # <<>>
  BY <1>2, <1>3, <1>4, LenProperties, EmptySeq
<1> DEFINE Fits(i) == /\ w[i] \in Allowed
                      /\ i = 1 \/ w[i - 1] = Dot => w[i] \in Alnum
                      /\ i = Len(w) \/ w[i + 1] = Dot => w[i] \in Alnum
<1>6. ASSUME NEW i \in 1 .. m  PROVE Fits(i)
  <2>1. /\ a[i] \in Allowed
        /\ i = 1 \/ a[i - 1] = Dot => a[i] \in Alnum
        /\ a[i + 1] = Dot => a[i] \in Alnum
    BY <1>2 DEF ObjectNames, Subdomain
  <2>2. i # 1 => w[i - 1] = a[i - 1]  BY <1>2, <1>4
  <2>3. i # m => w[i + 1] = a[i + 1]  BY <1>2, <1>4
  <2>4. i = m => w[i + 1] = Dash  BY <1>4
  <2>5. i # Len(w)  BY <1>2, <1>3, <1>4
  <2> QED  BY <1>1, <1>4, <2>1, <2>2, <2>3, <2>4, <2>5
<1>7. Fits(m + 1)
  <2>1. w[(m + 1) - 1] = a[m]  BY <1>2, <1>4
  <2>2. w[m + 1 + 1] = b[1]  BY <1>3, <1>4
  <2>3. m + 1 # 1 /\ m + 1 # Len(w)  BY <1>2, <1>3, <1>4
  <2>4. b[1] # Dot  BY DEF Ending
  <2> QED  BY <1>1, <1>2, <1>4, <2>1, <2>2, <2>3, <2>4
<1>8. ASSUME NEW j \in 1 .. n  PROVE Fits(m + 1 + j)
  <2>1. /\ b[j] \in Allowed
        /\ j # 1 /\ b[j - 1] = Dot => b[j] \in Alnum
        /\ j = n \/ b[j + 1] = Dot => b[j] \in Alnum
    BY <1>3 DEF Ending, n
  <2>2. w[m + 1 + j] = b[j]  BY <1>4
  <2>3. j = 1 => w[(m + 1 + j) - 1] = Dash  BY <1>2, <1>4
  <2>4. j # 1 => w[(m + 1 + j) - 1] = b[j - 1]
    <3>1. ASSUME j # 1
          PROVE  j - 1 \in 1 .. n /\ (m + 1 + j) - 1 = m + 1 + (j - 1)
      BY <1>2, <1>3, <3>1
    <3> QED  BY <1>4, <3>1
  <2>5. j # n => w[m + 1 + j + 1] = b[j + 1]
    <3>1. ASSUME j # n
          PROVE  j + 1 \in 1 .. n /\ m + 1 + j + 1 = m + 1 + (j + 1)
      BY <1>2, <1>3, <3>1
    <3> QED  BY <1>4, <3>1
  <2>6. m + 1 + j # 1 /\ (m + 1 + j = Len(w) => j = n)  BY <1>2, <1>3, <1>4
  <2>7. w[m + 1 + j] \in Allowed  BY <2>1, <2>2
  <2>8. w[(m + 1 + j) - 1] = Dot => w[m + 1 + j] \in Alnum
    BY <1>1, <2>1, <2>2, <2>3, <2>4
  <2>9. m + 1 + j = Len(w) \/ w[m + 1 + j + 1] = Dot => w[m + 1 + j] \in Alnum
    BY <2>1, <2>2, <2>5, <2>6
  <2> QED  BY <2>6, <2>7, <2>8, <2>9, ZenonT(30)
<1>9. \A i \in 1 .. m + 1 + n :
        i \in 1 .. m \/ i = m + 1 \/ \E j \in 1 .. n : i = m + 1 + j
  <2> TAKE i \in 1 .. m + 1 + n
  <2>1. ASSUME i > m + 1
        PROVE  i - (m + 1) \in 1 .. n /\ i = m + 1 + (i - (m + 1))
    BY <1>2, <1>3, <2>1
  <2>2. i <= m + 1 => i \in 1 .. m \/ i = m + 1  BY <1>2
  <2> QED  BY <1>2, <2>1, <2>2
<1>10. Subdomain(w)
  <2>1. \A i \in 1 .. m + 1 + n : Fits(i)
    <3> HIDE DEF Fits
    <3> QED  BY <1>6, <1>7, <1>8, <1>9
  <2> QED  BY <1>5, <2>1 DEF Subdomain
<1> QED  BY <1>4, <1>10 DEF ObjectNames, Words, w

(* What follows a prefix that ends in a dash may follow a dash.            *)
LEMMA RestIsEnding ==
  ASSUME NEW w \in ObjectNames, NEW p \in Words \ {<<>>}, p[Len(p)] = Dash,
         IsPrefix(p, w)
  PROVE  Ending(SubSeq(w, Len(p) + 1, Len(w)))
<1> DEFINE l == Len(p)
           n == Len(w)
           v == SubSeq(w, l + 1, n)
<1>1. /\ w \in Words /\ n \in Nat \ {0} /\ DOMAIN w = 1 .. n /\ w[n] \in Alnum
      /\ Subdomain(w)
  BY NameCharacters DEF ObjectNames
<1>2. l \in Nat \ {0} /\ l <= n /\ SubSeq(p, 1, l) = SubSeq(w, 1, l)
  BY EmptySeq, LenProperties DEF IsPrefix, Words
<1>3. \A i \in 1 .. l : p[i] \in DOMAIN Lower /\ w[i] \in DOMAIN Lower
  BY <1>1, <1>2, ElementOfSeq DEF Words
<1>4. w[l] = Dash
  <2>1. SubSeq(p, 1, l)[l] = p[l]  BY <1>2, <1>3, SubSeqProperties
  <2>2. SubSeq(w, 1, l)[l] = w[l]  BY <1>2, <1>3, SubSeqProperties
  <2> QED  BY <1>2, <2>1, <2>2
<1>5. l < n  BY <1>1, <1>2, <1>4, CharactersAssumption
<1>6. v \in Words /\ Len(v) = n - l /\ \A i \in 1 .. n - l : v[i] = w[l + i]
  <2>1. \A i \in l + 1 .. n : w[i] \in DOMAIN Lower
    BY <1>1, <1>2, ElementOfSeq DEF Words
  <2>2. l + 1 \in Int /\ n \in Int /\ l + 1 <= n  BY <1>1, <1>2, <1>5
  <2>3. /\ v \in Seq(DOMAIN Lower)
        /\ Len(v) = n - (l + 1) + 1
        /\ \A i \in 1 .. n - (l + 1) + 1 : v[i] = w[(l + 1) + i - 1]
    BY <2>1, <2>2, SubSeqProperties
  <2> HIDE DEF l, n, v
  <2> QED  BY <1>1, <1>2, <2>3, SMTT(20) DEF Words
<1> HIDE DEF l, n, v
<1>7. DOMAIN v = 1 .. n - l /\ v # <<>>
  BY <1>1, <1>2, <1>5, <1>6, LenProperties, EmptySeq DEF Words
<1>8. v[1] # Dot
  <2>1. v[1] = w[l + 1] /\ l + 1 \in 1 .. n /\ w[(l + 1) - 1] = Dash
    BY <1>1, <1>2, <1>4, <1>5, <1>6
  <2>2. w[l + 1] = Dot => w[l] \in Alnum
    <3>1. l \in DOMAIN w  BY <1>1, <1>2
    <3> QED  BY <1>1, <3>1 DEF Subdomain
  <2> QED  BY <1>4, <2>1, <2>2, CharactersAssumption
<1>9. ASSUME NEW i \in 1 .. n - l
      PROVE  /\ v[i] \in Allowed
             /\ i # 1 /\ v[i - 1] = Dot => v[i] \in Alnum
             /\ i = Len(v) \/ v[i + 1] = Dot => v[i] \in Alnum
  <2>1. l + i \in DOMAIN w /\ v[i] = w[l + i]  BY <1>1, <1>2, <1>6
  <2>2. /\ w[l + i] \in Allowed
        /\ w[(l + i) - 1] = Dot => w[l + i] \in Alnum
        /\ l + i = n \/ w[(l + i) + 1] = Dot => w[l + i] \in Alnum
    BY <1>1, <2>1 DEF Subdomain, n
  <2>3. i # 1 => v[i - 1] = w[(l + i) - 1]  BY <1>1, <1>2, <1>6
  <2>4. i # n - l => v[i + 1] = w[(l + i) + 1]  BY <1>1, <1>2, <1>6
  <2>5. i = n - l => l + i = n  BY <1>1, <1>2
  <2> QED  BY <1>6, <2>1, <2>2, <2>3, <2>4, <2>5
<1> QED  BY <1>6, <1>7, <1>8, <1>9 DEF Ending, l, n, v

(* The project of a namespace: its name without the platform's prefix.     *)
LEMMA ProjectIsEnding ==
  ASSUME NEW w \in ObjectNames
  PROVE  Ending(projectNameFromNamespace(w))
<1>1. CASE IsPrefix(LoftNamespace, w)
  BY <1>1, RestIsEnding, WordsAssumption DEF projectNameFromNamespace
<1>2. CASE ~IsPrefix(LoftNamespace, w) /\ IsPrefix(ProjectNamespace, w)
  BY <1>2, RestIsEnding, WordsAssumption DEF projectNameFromNamespace
<1>3. CASE ~IsPrefix(LoftNamespace, w) /\ ~IsPrefix(ProjectNamespace, w)
  BY <1>3, NameIsEnding DEF projectNameFromNamespace
<1> QED  BY <1>1, <1>2, <1>3

------------------------------------------------------------------------------
(* What is cut stays within the limit and a name. *)

(* A beginning of a word, without its last dashes or dots.                 *)
LEMMA CutWord ==
  ASSUME NEW C, NEW w \in Seq(C), NEW n \in Nat, n <= Len(w), NEW chars
  PROVE  /\ TrimRight(SubSeq(w, 1, n), chars) \in Seq(C)
         /\ Len(TrimRight(SubSeq(w, 1, n), chars)) \in 0 .. n
<1> DEFINE v == SubSeq(w, 1, n)
<1>1. v \in Seq(C) /\ Len(v) = n
  <2>1. \A i \in 1 .. n : w[i] \in C  BY LenProperties, ElementOfSeq
  <2> QED  BY <2>1, SubSeqProperties
<1>2. DOMAIN v = 1 .. n /\ \A i \in 1 .. n : v[i] \in C
  BY <1>1, LenProperties, ElementOfSeq
<1> HIDE DEF v
<1>3. \A m \in 1 .. n : Len(SubSeq(v, 1, m)) = m
  BY <1>2, SubSeqProperties
<1>4. CASE TrimRight(v, chars) = <<>>
  <2>1. <<>> \in Seq(C) /\ Len(<<>>) = 0  BY EmptySeq
  <2>2. 0 \in 0 .. n  OBVIOUS
  <2> QED  BY <1>4, <2>1, <2>2 DEF v
<1>5. CASE \E m \in DOMAIN v : TrimRight(v, chars) = SubSeq(v, 1, m)
  <2>1. Len(TrimRight(v, chars)) \in 0 .. n  BY <1>2, <1>3, <1>5
  <2>2. TrimRight(v, chars) \in Seq(C)  BY <1>1, TrimType
  <2> QED  BY <2>1, <2>2 DEF v
<1> QED  BY <1>1, <1>4, <1>5, TrimsRight

(* ... and of a name. *)
LEMMA CutName ==
  ASSUME NEW w \in ObjectNames, NEW n \in 1 .. Len(w),
         NEW chars \in SUBSET {Dash, Dot}
  PROVE  \E m \in 1 .. n : /\ TrimRight(SubSeq(w, 1, n), chars) = SubSeq(w, 1, m)
                           /\ w[m] \notin chars
<1> DEFINE v == SubSeq(w, 1, n)
<1>1. w \in Words /\ Len(w) \in Nat /\ DOMAIN w = 1 .. Len(w) /\ w[1] \in Alnum
  BY NameCharacters
<1>2. \A i \in 1 .. n : w[i] \in DOMAIN Lower  BY <1>1, ElementOfSeq DEF Words
<1>3. v \in Words /\ Len(v) = n /\ \A i \in 1 .. n : v[i] = w[i]
  BY <1>1, <1>2, SubSeqProperties DEF Words
<1>4. DOMAIN v = 1 .. n  BY <1>3, LenProperties DEF Words
<1>5. v[1] \notin chars /\ 1 \in 1 .. n  BY <1>1, <1>3, CharactersAssumption
<1> HIDE DEF v
<1>6. PICK m \in 1 .. n : TrimRight(v, chars) = SubSeq(v, 1, m) /\ v[m] \notin chars
  BY <1>3, <1>4, <1>5, TrimsRight DEF Words
<1>7. SubSeq(v, 1, m) = SubSeq(w, 1, m)
  <2>1. \A i \in 1 .. m : v[i] = w[i] /\ v[i] \in DOMAIN Lower
    BY <1>2, <1>3, <1>6
  <2>2. /\ SubSeq(v, 1, m) \in Words /\ Len(SubSeq(v, 1, m)) = m
        /\ \A i \in 1 .. m : SubSeq(v, 1, m)[i] = v[i]
    BY <1>6, <2>1, SubSeqProperties DEF Words
  <2>3. /\ SubSeq(w, 1, m) \in Words /\ Len(SubSeq(w, 1, m)) = m
        /\ \A i \in 1 .. m : SubSeq(w, 1, m)[i] = w[i]
    BY <1>6, <2>1, SubSeqProperties DEF Words
  <2> QED  BY <2>1, <2>2, <2>3, SeqEqual DEF Words
<1> QED  BY <1>3, <1>6, <1>7 DEF v

(* A digest is a word of letters and digits. *)
LEMMA DigitsType ==
  ASSUME NEW d \in Digits
  PROVE  /\ d \in Seq(Allowed) /\ d \in Words
         /\ Len(d) = Limit - Cut - 1 /\ Len(d) \in Nat \ {0}
         /\ Ending(d)
<1>1. Limit - Cut - 1 \in Nat \ {0}  BY LimitAssumption
<1>2. d \in Seq(Alnum) /\ Len(d) = Limit - Cut - 1 /\ DOMAIN d = 1 .. Len(d)
  <2>1. d \in Seq(Alnum)  BY <1>1, IsASeq DEF Digits
  <2>2. Len(d) = Limit - Cut - 1  BY <1>1, <2>1, LenProperties DEF Digits
  <2> QED  BY <2>1, <2>2, LenProperties
<1>3. Alnum \subseteq Allowed /\ Allowed \subseteq DOMAIN Lower
  BY CharactersAssumption DEF Allowed
<1>4. d \in Seq(Allowed) /\ d \in Words  BY <1>2, <1>3, SeqMonotonic DEF Words
<1>5. \A i \in DOMAIN d : d[i] \in Alnum  BY <1>2, ElementOfSeq
<1>6. d # <<>> /\ d[1] # Dot
  <2>1. 1 \in DOMAIN d /\ Len(d) # 0  BY <1>1, <1>2, LimitAssumption
  <2>2. d[1] # Dot  BY <1>5, <2>1, CharactersAssumption
  <2>3. d # <<>>  BY <2>1, EmptySeq
  <2> QED  BY <2>2, <2>3
<1> QED  BY <1>1, <1>2, <1>3, <1>4, <1>5, <1>6 DEF Ending

(* What a word that is too long becomes: a beginning and its digest. *)
LEMMA DigestedParts ==
  ASSUME NEW C, Allowed \subseteq C, NEW w \in Seq(C), Len(w) > Limit, Digest(w) \in Digits
  PROVE  \E stem \in Seq(C) : /\ Digested(w) = Join(stem, Digest(w))
                              /\ stem = TrimRight(SubSeq(w, 1, Cut), {Dash, Dot})
                              /\ Len(stem) \in 0 .. Cut
                              /\ Digest(w) \in Seq(C)
                              /\ Len(Digested(w)) = Len(stem) + (Limit - Cut)
<1> DEFINE stem == TrimRight(SubSeq(w, 1, Cut), {Dash, Dot})
<1>1. Len(w) \in Nat /\ Limit \in Nat /\ Cut \in Nat /\ Cut < Limit
  BY LenProperties, LimitAssumption
<1>2. stem \in Seq(C) /\ Len(stem) \in 0 .. Cut  BY <1>1, CutWord
<1>3. Digested(w) = Join(stem, Digest(w))  BY <1>1 DEF Digested
<1>4. Digest(w) \in Seq(C) /\ Len(Digest(w)) = Limit - Cut - 1
  BY DigitsType, SeqMonotonic
<1>5. Dash \in C  BY DEF Allowed
<1> HIDE DEF stem
<1>6. \A x, y \in Seq(C) : Len(Join(x, y)) = Len(x) + 1 + Len(y)
  BY <1>5, JoinCharacters
<1>7. Len(Digested(w)) = Len(stem) + (Limit - Cut)
  <2>1. Len(Digested(w)) = Len(stem) + 1 + Len(Digest(w))  BY <1>2, <1>3, <1>4, <1>6
  <2> QED  BY <1>1, <1>2, <1>4, <2>1
<1> QED  BY <1>2, <1>3, <1>4, <1>7 DEF stem

LEMMA DigestedType ==
  ASSUME NEW w \in Seq(Allowed), Digest(w) \in Digits
  PROVE  Digested(w) \in Name /\ Len(Digested(w)) <= Limit
<1>1. Len(w) \in Nat /\ Limit \in Nat /\ Cut \in Nat /\ Cut < Limit
  BY LenProperties, LimitAssumption
<1>2. CASE Len(w) <= Limit  BY <1>2 DEF Digested, Name
<1>3. CASE ~(Len(w) <= Limit)
  <2>1. PICK stem \in Seq(Allowed) : /\ Digested(w) = Join(stem, Digest(w))
                                     /\ Len(stem) \in 0 .. Cut
                                     /\ Digest(w) \in Seq(Allowed)
                                     /\ Len(Digested(w)) = Len(stem) + (Limit - Cut)
    BY <1>1, <1>3, DigestedParts
  <2>2. Dash \in Allowed  BY DEF Allowed
  <2>3. Digested(w) \in Seq(Allowed)  BY <2>1, <2>2, JoinCharacters
  <2> QED  BY <1>1, <2>1, <2>3 DEF Name
<1> QED  BY <1>2, <1>3

LEMMA DigestedName ==
  ASSUME NEW w \in ObjectNames, Digest(w) \in Digits
  PROVE  Digested(w) \in ObjectNames
<1>1. Len(w) \in Nat /\ DOMAIN w = 1 .. Len(w) /\ \A i \in 1 .. Len(w) : w[i] \in Allowed
  BY NameCharacters, ElementOfSeq
<1>2. CASE Len(w) <= Limit  BY <1>2 DEF Digested
<1>3. CASE ~(Len(w) <= Limit)
  <2>1. Cut \in 1 .. Len(w)  BY <1>1, <1>3, LimitAssumption
  <2>2. PICK m \in 1 .. Cut :
          /\ TrimRight(SubSeq(w, 1, Cut), {Dash, Dot}) = SubSeq(w, 1, m)
          /\ w[m] \notin {Dash, Dot}
    BY <2>1, CutName
  <2>3. m \in DOMAIN w  BY <1>1, <2>1
  <2>4. w[m] \in Alnum  BY <1>1, <2>2, <2>3 DEF Allowed
  <2>5. SubSeq(w, 1, m) \in ObjectNames  BY <2>3, <2>4, BeginningIsName
  <2>6. Join(SubSeq(w, 1, m), Digest(w)) \in ObjectNames
    BY <2>5, DigitsType, JoinIsName
  <2> QED  BY <1>3, <2>2, <2>6 DEF Digested
<1> QED  BY <1>2, <1>3

(* A short word that is the name of a long one ends in its digest.         *)
LEMMA ShortSpells ==
  ASSUME NEW v \in Words, NEW w \in Words, Digest(w) \in Digits,
         Len(v) <= Limit, v = Digested(w)
  PROVE  v = w \/ SpellsDigest(v, w)
<1>1. CASE Len(w) <= Limit  BY <1>1 DEF Digested
<1>2. CASE ~(Len(w) <= Limit)
  <2>1. Allowed \subseteq DOMAIN Lower /\ Dash \in DOMAIN Lower
    BY CharactersAssumption DEF Allowed
  <2>2. Len(w) > Limit  BY <1>2, LenProperties, LimitAssumption DEF Words
  <2>3. PICK stem \in Words : v = Join(stem, Digest(w)) /\ Digest(w) \in Words
    BY <2>1, <2>2, DigestedParts DEF Words
  <2> DEFINE n == Len(stem)
  <2>4. /\ n \in Nat /\ n <= Len(v)
        /\ \A i \in 1 .. n : v[i] = stem[i]
    <3>1. \A x, y \in Words : /\ Len(x) \in Nat
                              /\ Len(Join(x, y)) = Len(x) + 1 + Len(y)
                              /\ \A i \in 1 .. Len(x) : Join(x, y)[i] = x[i]
      BY JoinWords, LenProperties DEF Words
    <3>2. Len(Digest(w)) \in Nat  BY <2>3, <3>1
    <3> QED  BY <2>3, <3>1, <3>2
  <2>5. \A i \in 1 .. n : stem[i] \in DOMAIN Lower  BY ElementOfSeq DEF Words
  <2>6. SubSeq(v, 1, n) = stem
    <3>1. /\ SubSeq(v, 1, n) \in Words /\ Len(SubSeq(v, 1, n)) = n
          /\ \A i \in 1 .. n : SubSeq(v, 1, n)[i] = v[i]
      BY <2>4, <2>5, SubSeqProperties DEF Words
    <3> QED  BY <2>4, <3>1, SeqEqual DEF Words
  <2>7. n \in 0 .. Len(v)  BY <2>4
  <2> QED  BY <2>2, <2>3, <2>6, <2>7 DEF SpellsDigest
<1> QED  BY <1>1, <1>2

(* The names of instances' bindings and of AccessKeys, cut and with the    *)
(* digest behind their dash, are equal only if the words they are made from*)
(* are: but for two words with one digest, and a short one that ends in the*)
(* digest of the other (bindings.go:82-92, credentials.go:48-55).          *)
THEOREM DigestsSeparate ==
  ASSUME NEW v \in Words, NEW w \in Words,
         Digest(v) \in Digits, Digest(w) \in Digits, Digested(v) = Digested(w)
  PROVE  v = w \/ DigestsClash(v, w)
<1> DEFINE C == DOMAIN Lower
<1>1. Len(v) \in Nat /\ Len(w) \in Nat /\ Limit \in Nat /\ Cut \in Nat
  BY LenProperties, LimitAssumption DEF Words
<1>2. CASE Len(v) <= Limit
  BY <1>2, ShortSpells DEF Digested, DigestsClash
<1>3. CASE Len(w) <= Limit
  BY <1>3, ShortSpells DEF Digested, DigestsClash
<1>4. CASE Len(v) > Limit /\ Len(w) > Limit
  <2>1. Allowed \subseteq C /\ Dash \in C  BY CharactersAssumption DEF Allowed
  <2>2. v \in Seq(C) /\ w \in Seq(C)  BY DEF Words
  <2> HIDE DEF C
  <2>3. PICK a \in Seq(C) : /\ Digested(v) = Join(a, Digest(v))
                            /\ Digest(v) \in Seq(C)
                            /\ Len(Digested(v)) = Len(a) + (Limit - Cut)
    BY <1>4, <2>1, <2>2, DigestedParts
  <2>4. PICK b \in Seq(C) : /\ Digested(w) = Join(b, Digest(w))
                            /\ Digest(w) \in Seq(C)
                            /\ Len(Digested(w)) = Len(b) + (Limit - Cut)
    BY <1>4, <2>1, <2>2, DigestedParts
  <2>5. Len(a) \in Nat /\ Len(b) \in Nat  BY LenProperties
  <2>6. Len(a) = Len(b)  BY <1>1, <2>3, <2>4, <2>5
  <2>7. ~Nested(a, b)  BY <2>5, <2>6 DEF Nested, Continues
  <2>8. Digest(v) = Digest(w)  BY <2>1, <2>3, <2>4, <2>7, JoinNests
  <2> QED  BY <1>4, <2>8 DEF DigestsClash
<1> QED  BY <1>1, <1>2, <1>3, <1>4

(* A name of a Cluster's binding, which is only cut. *)
LEMMA TruncatedType ==
  ASSUME NEW w \in Seq(Allowed)
  PROVE  truncateDNSLabel(w) \in Seq(Allowed) /\ Len(truncateDNSLabel(w)) <= Limit
<1>1. Len(w) \in Nat /\ Limit \in Nat  BY LenProperties, LimitAssumption
<1>2. CASE Len(w) > Limit
  <2>1. truncateDNSLabel(w) = TrimRight(SubSeq(w, 1, Limit), {Dash})
    BY <1>2 DEF truncateDNSLabel
  <2> QED  BY <1>1, <1>2, <2>1, CutWord
<1>3. CASE ~(Len(w) > Limit)
  <2>1. truncateDNSLabel(w) = TrimRight(SubSeq(w, 1, Len(w)), {Dash})
    BY <1>3, SubSeqFull DEF truncateDNSLabel
  <2> QED  BY <1>1, <1>3, <2>1, CutWord
<1> QED  BY <1>2, <1>3

LEMMA TruncatedName ==
  ASSUME NEW w \in ObjectNames
  PROVE  LET v == truncateDNSLabel(w)
         IN  /\ v \in ObjectNames \/ v[Len(v)] = Dot
             /\ Len(w) <= Limit => v = w
<1> DEFINE v == truncateDNSLabel(w)
<1>1. /\ w \in Words /\ Len(w) \in Nat /\ DOMAIN w = 1 .. Len(w)
      /\ \A i \in 1 .. Len(w) : w[i] \in Allowed /\ w[i] \in DOMAIN Lower
  BY NameCharacters, ElementOfSeq, CharactersAssumption
<1>2. CASE Len(w) > Limit
  <2>1. Limit \in 1 .. Len(w)  BY <1>1, <1>2, LimitAssumption
  <2>2. v = TrimRight(SubSeq(w, 1, Limit), {Dash})  BY <1>2 DEF truncateDNSLabel
  <2>3. PICK m \in 1 .. Limit : v = SubSeq(w, 1, m) /\ w[m] \notin {Dash}
    BY <2>1, <2>2, CutName
  <2>4. m \in DOMAIN w /\ m \in Nat  BY <1>1, <2>1
  <2>5. CASE w[m] = Dot
    <3>1. Len(v) = m /\ v[m] = w[m]
      BY <1>1, <2>1, <2>3, <2>4, SubSeqProperties
    <3> QED  BY <1>2, <2>5, <3>1, <1>1, LimitAssumption
  <2>6. CASE w[m] # Dot
    <3>1. w[m] \in Alnum  BY <1>1, <2>3, <2>4, <2>6 DEF Allowed
    <3>2. v \in ObjectNames  BY <2>3, <2>4, <3>1, BeginningIsName
    <3> QED  BY <1>1, <1>2, <3>2, LimitAssumption
  <2> QED  BY <2>5, <2>6
<1>3. CASE ~(Len(w) > Limit)
  BY <1>3, LabelOfName DEF truncateDNSLabel
<1> QED  BY <1>2, <1>3

------------------------------------------------------------------------------
(* What a pass names. *)

(* Three words one after another, grouped either way.                      *)
LEMMA Regroup ==
  ASSUME NEW C
  PROVE  \A s, t, u \in Seq(C) : (s \o t) \o u = s \o (t \o u)
BY ConcatAssociative

(* A word and its dash may stand on either side of another join.           *)
LEMMA JoinAssociative ==
  ASSUME NEW a \in Words, NEW b \in Words, NEW c \in Words
  PROVE  Join(Join(a, b), c) = Join(a, Join(b, c))
<1>1. PICK C : C = DOMAIN Lower  OBVIOUS
<1>2. PICK d : d = <<Dash>>  OBVIOUS
<1>3. PICK S : S = Seq(C)  OBVIOUS
<1>4. a \in S /\ b \in S /\ c \in S  BY <1>1, <1>3 DEF Words
<1>5. d \in S  BY <1>1, <1>2, <1>3, CharactersAssumption DEF Allowed
<1>6. \A s, t \in S : s \o t \in S  BY <1>3, ConcatProperties
<1>7. \A s, t, u \in S : (s \o t) \o u = s \o (t \o u)  BY <1>3, Regroup
<1>8. PICK x : x = a \o d  OBVIOUS
<1>9. PICK y : y = d \o c  OBVIOUS
<1>10. x \in S /\ y \in S  BY <1>4, <1>5, <1>6, <1>8, <1>9
<1>11. x \o b \in S  BY <1>4, <1>6, <1>10
<1>12. ((x \o b) \o d) \o c = (x \o b) \o y  BY <1>4, <1>5, <1>7, <1>9, <1>11
<1>13. (x \o b) \o y = x \o (b \o y)  BY <1>4, <1>7, <1>10, SMTT(20)
<1>14. b \o y = (b \o d) \o c  BY <1>4, <1>5, <1>7, <1>9
<1>15. Join(Join(a, b), c) = ((x \o b) \o d) \o c /\ Join(a, Join(b, c)) = x \o ((b \o d) \o c)
  BY <1>2, <1>8 DEF Join
<1> QED  BY <1>12, <1>13, <1>14, <1>15

(* The words of a request. *)
LEMMA RequestWords ==
  ASSUME NEW r \in Request
  PROVE  /\ r.target \in ObjectNames /\ r.target \in Words /\ Ending(r.target)
         /\ r.template \in Words
         /\ Proper(r) => r.template \in ObjectNames
         /\ OwnerOf(r)[1] \in Words /\ Ending(OwnerOf(r)[1])
         /\ OwnerOf(r)[2] = r.target
         /\ OwnerOf(r) = <<OwnerOf(r)[1], OwnerOf(r)[2]>>
<1>1. r.target \in ObjectNames /\ r.namespace \in ObjectNames /\ r.template \in Words
  BY DEF Request
<1>2. r.target \in Words /\ Ending(r.target)  BY <1>1, NameIsEnding DEF ObjectNames
<1>3. Proper(r) => r.template \in ObjectNames  BY <1>1 DEF Proper, ObjectNames
<1>4. Ending(projectNameFromNamespace(r.namespace))  BY <1>1, ProjectIsEnding
<1>5. projectNameFromNamespace(r.namespace) \in Words  BY <1>4 DEF Ending
<1> QED  BY <1>1, <1>2, <1>3, <1>4, <1>5 DEF OwnerOf

LEMMA FixedWords ==
  /\ Infix \in ObjectNames /\ Infix \in Words /\ Ending(Infix)
  /\ Prefix \in ObjectNames /\ Prefix \in Words
BY WordsAssumption, NameIsEnding DEF ObjectNames

(* The label a Cluster's binding is named after. *)
LEMMA ClusterLabel ==
  ASSUME NEW r \in Request
  PROVE  LET w == Join(r.template, r.target)
         IN  /\ dnsLabel(w) \in Seq(Allowed)
             /\ Proper(r) => w \in ObjectNames /\ dnsLabel(w) = w
<1> DEFINE w == Join(r.template, r.target)
<1>1. w \in Words  BY RequestWords, JoinWords
<1>2. Proper(r) => w \in ObjectNames  BY RequestWords, JoinIsName
<1> HIDE DEF w
<1>3. dnsLabel(w) \in Seq(Allowed)  BY <1>1, LabelType
<1>4. Proper(r) => dnsLabel(w) = w  BY <1>2, LabelOfName
<1> QED  BY <1>2, <1>3, <1>4 DEF w

(* ... an instance's binding ... *)
LEMMA InstanceLabel ==
  ASSUME NEW r \in Request
  PROVE  LET w == virtualClusterBindingLabel(r.template, r.target)
         IN  /\ dnsLabel(w) \in Seq(Allowed)
             /\ Proper(r) => w \in ObjectNames /\ dnsLabel(w) = w
<1> DEFINE w == Join(Join(r.template, Infix), r.target)
<1>1. w \in Words  BY RequestWords, FixedWords, JoinWords
<1>2. Proper(r) => w \in ObjectNames
  <2>1. Proper(r) => Join(r.template, Infix) \in ObjectNames
    BY RequestWords, FixedWords, JoinIsName
  <2> QED  BY <2>1, RequestWords, JoinIsName
<1> HIDE DEF w, virtualClusterBindingLabel
<1>3. dnsLabel(w) \in Seq(Allowed)  BY <1>1, LabelType
<1>4. Proper(r) => dnsLabel(w) = w  BY <1>2, LabelOfName
<1> QED  BY <1>2, <1>3, <1>4 DEF w, virtualClusterBindingLabel

(* ... and an AccessKey.                                                   *)
LEMMA KeyLabel ==
  ASSUME NEW r \in Request
  PROVE  LET w == credentialLabel(OwnerOf(r)[1], r.target)
         IN  /\ w \in ObjectNames /\ dnsLabel(w) = w /\ KeyName(r) = Digested(w)
             /\ w = Join(Join(Prefix, OwnerOf(r)[1]), r.target)
<1> DEFINE w == Join(Join(Prefix, OwnerOf(r)[1]), r.target)
<1>1. Join(Prefix, OwnerOf(r)[1]) \in ObjectNames
  BY RequestWords, FixedWords, JoinIsName
<1>2. w \in ObjectNames  BY <1>1, RequestWords, JoinIsName
<1>3. KeyName(r) = Digested(dnsLabel(w))
  BY RequestWords DEF KeyName, credentialName, credentialLabel
<1> HIDE DEF w
<1>4. dnsLabel(w) = w  BY <1>2, LabelOfName
<1> QED  BY <1>2, <1>3, <1>4 DEF w, credentialLabel

(* The requests of passes, and their digests. *)
LEMMA Hashed ==
  ASSUME NEW r \in UNION Requests
  PROVE  /\ r \in Request
         /\ Digest(dnsLabel(virtualClusterBindingLabel(r.template, r.target))) \in Digits
         /\ Digest(credentialLabel(OwnerOf(r)[1], r.target)) \in Digits
<1>1. r \in Request  BY RequestsAssumption
<1>2. /\ Digest(dnsLabel(virtualClusterBindingLabel(r.template, r.target))) \in Digits
      /\ Digest(dnsLabel(credentialLabel(OwnerOf(r)[1], r.target))) \in Digits
  BY DigestAssumption
<1>3. dnsLabel(credentialLabel(OwnerOf(r)[1], r.target))
        = credentialLabel(OwnerOf(r)[1], r.target)
  BY <1>1, KeyLabel
<1> QED  BY <1>1, <1>2, <1>3

(* Names are names. *)
LEMMA NamesTyped ==
  ASSUME NEW r \in UNION Requests
  PROVE  /\ NameOf(r) \in Name /\ applicationKey(r) = <<r.namespace, NameOf(r)>>
         /\ Len(NameOf(r)) <= Limit
         /\ KeyName(r) \in Name /\ Len(KeyName(r)) <= Limit
         /\ KeyName(r) \in ObjectNames
<1>1. r \in Request  BY Hashed
<1>2. /\ KeyName(r) \in Name /\ Len(KeyName(r)) <= Limit
      /\ KeyName(r) \in ObjectNames
  <2> DEFINE w == credentialLabel(OwnerOf(r)[1], r.target)
  <2>1. w \in ObjectNames /\ KeyName(r) = Digested(w) /\ Digest(w) \in Digits
    BY <1>1, KeyLabel, Hashed
  <2> HIDE DEF w
  <2> QED  BY <2>1, NameCharacters, DigestedType, DigestedName
<1>3. CASE r.kind = "Cluster"
  <2> DEFINE v == truncateDNSLabel(dnsLabel(Join(r.template, r.target)))
  <2>1. v \in Seq(Allowed) /\ Len(v) <= Limit  BY <1>1, ClusterLabel, TruncatedType
  <2>2. NameOf(r) = v  BY <1>3 DEF NameOf, bindingName
  <2> QED  BY <1>2, <2>1, <2>2 DEF applicationKey, Name
<1>4. CASE r.kind # "Cluster"
  <2> DEFINE w == dnsLabel(virtualClusterBindingLabel(r.template, r.target))
  <2>1. NameOf(r) = Digested(w)  BY <1>4 DEF NameOf, virtualClusterBindingName
  <2>2. w \in Seq(Allowed) /\ Digest(w) \in Digits  BY <1>1, InstanceLabel, Hashed
  <2> HIDE DEF w
  <2> QED  BY <1>2, <2>1, <2>2, DigestedType DEF applicationKey
<1> QED  BY <1>3, <1>4

------------------------------------------------------------------------------
(* The inductive invariant: the maps of a pass hold requests and owners    *)
(* under their own names, and a refused key is there, of another owner.    *)
Kept ==
  /\ \A k \in DOMAIN desired : desired[k] \in UNION Requests /\ k = applicationKey(desired[k])
  /\ \A n \in DOMAIN keys :
       \E q \in UNION Requests : n = KeyName(q) /\ keys[n] = OwnerOf(q)
  /\ \A r \in refused : /\ r \in UNION Requests
                        /\ KeyName(r) \in DOMAIN keys
                        /\ keys[KeyName(r)] # OwnerOf(r)
  /\ asked \subseteq UNION Requests
  /\ refused \cap asked = {}

LEMMA KeptInit == Init => Kept
BY DEF Init, Kept

LEMMA KeptStep ==
  ASSUME Kept, [Next]_vars
  PROVE  Kept'
<1>1. CASE UNCHANGED vars
  BY <1>1 DEF Kept, vars, applicationKey, NameOf, KeyName, OwnerOf
<1>2. ASSUME NEW r \in asked, NameForCluster(r)
      PROVE  Kept'
  <2>1. r \in UNION Requests /\ asked' \subseteq asked /\ UNCHANGED <<keys, refused>>
    BY <1>2 DEF Kept, NameForCluster
  <2>2. \A k \in DOMAIN desired' : desired'[k] \in UNION Requests /\ k = applicationKey(desired'[k])
    BY <1>2, <2>1 DEF Kept, NameForCluster, Put
  <2> QED  BY <2>1, <2>2 DEF Kept
<1>3. ASSUME NEW r \in asked, NameForInstance(r)
      PROVE  Kept'
  <2>1. r \in UNION Requests /\ asked' = asked \ {r}  BY <1>3 DEF Kept, NameForInstance
  <2>2. CASE KeyName(r) \in DOMAIN keys /\ keys[KeyName(r)] # OwnerOf(r)
    <3>1. refused' = refused \cup {r} /\ UNCHANGED <<desired, keys>>
      BY <1>3, <2>2 DEF NameForInstance
    <3> QED  BY <2>1, <2>2, <3>1 DEF Kept
  <2>3. CASE ~(KeyName(r) \in DOMAIN keys /\ keys[KeyName(r)] # OwnerOf(r))
    <3>1. /\ keys' = Put(keys, KeyName(r), OwnerOf(r))
          /\ desired' = Put(desired, applicationKey(r), r)
          /\ UNCHANGED refused
      BY <1>3, <2>3 DEF NameForInstance
    <3>2. \A k \in DOMAIN desired' : desired'[k] \in UNION Requests /\ k = applicationKey(desired'[k])
      BY <2>1, <3>1 DEF Kept, Put
    <3>3. /\ DOMAIN keys' = {KeyName(r)} \cup DOMAIN keys
          /\ \A n \in DOMAIN keys : keys'[n] = keys[n]
          /\ keys'[KeyName(r)] = OwnerOf(r)
      BY <2>3, <3>1 DEF Put
    <3>4. \A n \in DOMAIN keys' :
            \E q \in UNION Requests : n = KeyName(q) /\ keys'[n] = OwnerOf(q)
      BY <2>1, <3>3 DEF Kept
    <3> QED  BY <2>1, <3>1, <3>2, <3>3, <3>4 DEF Kept
  <2> QED  BY <2>2, <2>3
<1> QED  BY <1>1, <1>2, <1>3 DEF Next

LEMMA PassKept == Spec => []Kept
<1> QED  BY KeptInit, KeptStep, PTL DEF Spec

------------------------------------------------------------------------------
(* Types, for every pass: whatever characters a profile's templates have,  *)
(* a name has allowed ones only (bindings.go:58-92).                       *)
THEOREM TypeCorrect == Spec => []TypeOK
<1>1. Kept => TypeOK
  <2> SUFFICES ASSUME Kept  PROVE TypeOK
    OBVIOUS
  <2>1. ASSUME NEW k \in DOMAIN desired
        PROVE  k[1] \in Words /\ k[2] \in Name /\ desired[k] \in Request
    <3>1. /\ desired[k] \in UNION Requests /\ desired[k] \in Request
          /\ k = <<desired[k].namespace, NameOf(desired[k])>>
      BY NamesTyped, Hashed DEF Kept
    <3>2. desired[k].namespace \in Words  BY <3>1 DEF Request, ObjectNames
    <3> QED  BY <3>1, <3>2, NamesTyped
  <2>2. ASSUME NEW n \in DOMAIN keys
        PROVE  n \in Name /\ keys[n] \in Words \X Words
    <3>1. PICK q \in UNION Requests : n = KeyName(q) /\ keys[n] = OwnerOf(q)
      BY DEF Kept
    <3>2. OwnerOf(q) \in Words \X Words  BY RequestWords, Hashed
    <3> QED  BY <3>1, <3>2, NamesTyped
  <2>3. asked \subseteq Request /\ refused \subseteq Request  BY Hashed DEF Kept
  <2> QED  BY <2>1, <2>2, <2>3 DEF Kept, TypeOK
<1> QED  BY <1>1, PassKept, PTL

(* A cut name with a digest is one Kubernetes takes and within the limit,  *)
(* for words of any length and any limit (bindings.go:82, credentials.go:  *)
(* 48).                                                                    *)
THEOREM InstancesNamedSafely == Spec => []InstanceNamesSafe
<1>1. Kept => InstanceNamesSafe
  <2> SUFFICES ASSUME Kept  PROVE InstanceNamesSafe
    OBVIOUS
  <2>1. ASSUME NEW k \in DOMAIN desired,
               desired[k].kind = "VirtualClusterInstance", Proper(desired[k])
        PROVE  Len(k[2]) <= Limit /\ Subdomain(k[2])
    <3> DEFINE r == desired[k]
               w == virtualClusterBindingLabel(r.template, r.target)
    <3>1. r \in UNION Requests /\ k[2] = NameOf(r)  BY NamesTyped DEF Kept
    <3>2. k[2] = Digested(dnsLabel(w))
      BY <2>1, <3>1 DEF NameOf, virtualClusterBindingName
    <3>3. w \in ObjectNames /\ dnsLabel(w) = w /\ Digest(w) \in Digits
      BY <2>1, <3>1, InstanceLabel, Hashed
    <3>4. Len(k[2]) <= Limit  BY <3>1, NamesTyped
    <3> HIDE DEF w
    <3>5. k[2] \in ObjectNames  BY <3>2, <3>3, DigestedName
    <3> QED  BY <3>4, <3>5 DEF ObjectNames
  <2>2. ASSUME NEW n \in DOMAIN keys
        PROVE  Len(n) <= Limit /\ Subdomain(n)
    <3>1. PICK q \in UNION Requests : n = KeyName(q)  BY DEF Kept
    <3> QED  BY <3>1, NamesTyped DEF ObjectNames
  <2> QED  BY <2>1, <2>2 DEF InstanceNamesSafe
<1> QED  BY <1>1, PassKept, PTL

(* A cut name without a digest is too, but for a dot the cut may leave at  *)
(* its end (bindings.go:71 and 78).                                        *)
THEOREM ClustersNamedSafely == Spec => []ClusterNamesSafe
<1>1. Kept => ClusterNamesSafe
  <2> SUFFICES ASSUME Kept, NEW k \in DOMAIN desired, desired[k].kind = "Cluster"
               PROVE  /\ Len(k[2]) <= Limit
                      /\ Proper(desired[k]) =>
                           Subdomain(k[2]) \/ k[2][Len(k[2])] = Dot
    BY DEF ClusterNamesSafe
  <2> DEFINE r == desired[k]
             w == Join(r.template, r.target)
  <2>1. r \in UNION Requests /\ r \in Request /\ k[2] = NameOf(r)
    BY NamesTyped, Hashed DEF Kept
  <2>2. Len(k[2]) <= Limit  BY <2>1, NamesTyped
  <2>3. ASSUME Proper(r)
        PROVE  Subdomain(k[2]) \/ k[2][Len(k[2])] = Dot
    <3>1. w \in ObjectNames /\ dnsLabel(w) = w  BY <2>1, <2>3, ClusterLabel
    <3>2. k[2] = truncateDNSLabel(w)
      BY <2>1, <3>1 DEF NameOf, bindingName
    <3> HIDE DEF w
    <3> QED  BY <3>1, <3>2, TruncatedName DEF ObjectNames
  <2> QED  BY <2>2, <2>3
<1> QED  BY <1>1, PassKept, PTL

(* No word continues itself. *)
LEMMA NotNestedInItself ==
  ASSUME NEW w \in Words
  PROVE  ~Nested(w, w)
BY LenProperties DEF Nested, Continues, Words

(* Two requests with one key name whose projects are not nested and whose  *)
(* digests do not clash have one owner.                                    *)
LEMMA KeysApart ==
  ASSUME NEW r \in UNION Requests, NEW q \in UNION Requests, KeyName(r) = KeyName(q),
         ~Nested(OwnerOf(r)[1], OwnerOf(q)[1]),
         ~DigestsClash(credentialLabel(OwnerOf(r)[1], r.target),
                       credentialLabel(OwnerOf(q)[1], q.target))
  PROVE  OwnerOf(r) = OwnerOf(q)
<1> DEFINE p1 == OwnerOf(r)[1]
           p2 == OwnerOf(q)[1]
           w1 == credentialLabel(p1, r.target)
           w2 == credentialLabel(p2, q.target)
           C == DOMAIN Lower
<1>1. r \in Request /\ q \in Request  BY Hashed
<1>2. /\ w1 \in ObjectNames /\ KeyName(r) = Digested(w1) /\ Digest(w1) \in Digits
      /\ w2 \in ObjectNames /\ KeyName(q) = Digested(w2) /\ Digest(w2) \in Digits
      /\ w1 = Join(Join(Prefix, p1), r.target)
      /\ w2 = Join(Join(Prefix, p2), q.target)
  BY <1>1, KeyLabel, Hashed
<1>3. /\ p1 \in Words /\ p2 \in Words /\ r.target \in Words /\ q.target \in Words
      /\ OwnerOf(r) = <<p1, r.target>> /\ OwnerOf(q) = <<p2, q.target>>
      /\ Prefix \in Words
  BY <1>1, RequestWords, FixedWords
<1>4. /\ w1 = Join(Prefix, Join(p1, r.target))
      /\ w2 = Join(Prefix, Join(p2, q.target))
  BY <1>2, <1>3, JoinAssociative
<1>5. w1 = w2
  <2>1. ~DigestsClash(w1, w2)  OBVIOUS
  <2> HIDE DEF w1, w2
  <2>2. w1 \in Words /\ w2 \in Words  BY <1>2 DEF ObjectNames
  <2> QED  BY <1>2, <2>1, <2>2, DigestsSeparate
<1>6. Dash \in C  BY CharactersAssumption DEF Allowed
<1> HIDE DEF p1, p2, w1, w2
<1>7. Join(p1, r.target) = Join(p2, q.target)
  <2>1. Join(p1, r.target) \in Words /\ Join(p2, q.target) \in Words
    BY <1>3, JoinWords
  <2>2. ~Nested(Prefix, Prefix)  BY <1>3, NotNestedInItself
  <2>3. Join(Prefix, Join(p1, r.target)) = Join(Prefix, Join(p2, q.target))
    BY <1>4, <1>5
  <2> QED  BY <1>3, <1>6, <2>1, <2>2, <2>3, JoinNests DEF Words
<1>8. p1 = p2 /\ r.target = q.target
  <2>1. ~Nested(p1, p2)  BY DEF p1, p2
  <2> QED  BY <1>3, <1>6, <1>7, <2>1, JoinNests DEF Words
<1> QED  BY <1>3, <1>8

(* An AccessKey is refused to an instance for its name only where project  *)
(* names are nested or digests clash, for names of any length: the dashes  *)
(* and the digest tell all other instances apart (credentials.go:48,       *)
(* credentials_test.go:96).                                                *)
THEOREM KeysApartAlways == Spec => []KeysSeparate
<1>1. Kept => KeysSeparate
  <2> SUFFICES ASSUME Kept, NEW r \in refused
               PROVE  LET mine  == OwnerOf(r)
                          other == keys[KeyName(r)]
                      IN  \/ Nested(mine[1], other[1])
                          \/ DigestsClash(credentialLabel(mine[1], mine[2]),
                                          credentialLabel(other[1], other[2]))
    BY DEF KeysSeparate
  <2>1. /\ r \in UNION Requests
        /\ KeyName(r) \in DOMAIN keys /\ keys[KeyName(r)] # OwnerOf(r)
    BY DEF Kept
  <2>2. PICK q \in UNION Requests :
          KeyName(r) = KeyName(q) /\ keys[KeyName(r)] = OwnerOf(q)
    BY <2>1 DEF Kept
  <2>3. OwnerOf(r)[2] = r.target /\ OwnerOf(q)[2] = q.target
    BY <2>1, Hashed, RequestWords
  <2> QED  BY <2>1, <2>2, <2>3, KeysApart
<1> QED  BY <1>1, PassKept, PTL

(* A word that begins with another one and a dash continues it. *)
LEMMA JoinContinues ==
  ASSUME NEW a \in Words, NEW b \in Words
  PROVE  Continues(a, Join(a, b))
<1> DEFINE p == Append(a, Dash)
           w == Join(a, b)
<1>1. /\ w \in Words /\ Len(w) = Len(a) + 1 + Len(b) /\ w[Len(a) + 1] = Dash
      /\ \A i \in 1 .. Len(a) : w[i] = a[i]
  BY JoinWords
<1>2. Len(a) \in Nat /\ Len(b) \in Nat  BY LenProperties DEF Words
<1>3. /\ p \in Words /\ Len(p) = Len(a) + 1 /\ p[Len(a) + 1] = Dash
      /\ \A i \in 1 .. Len(a) : p[i] = a[i]
  <2>1. a \in Seq(DOMAIN Lower) /\ Dash \in DOMAIN Lower
    BY CharactersAssumption DEF Words, Allowed
  <2> QED  BY <2>1, <1>2, AppendProperties DEF Words
<1> HIDE DEF p, w
<1>4. \A i \in 1 .. Len(p) : p[i] = w[i] /\ p[i] \in DOMAIN Lower
  <2>1. \A i \in 1 .. Len(p) : p[i] \in DOMAIN Lower
    BY <1>3, ElementOfSeq DEF Words
  <2>2. \A i \in 1 .. Len(a) + 1 : i \in 1 .. Len(a) \/ i = Len(a) + 1  BY <1>2
  <2> QED  BY <1>1, <1>3, <2>1, <2>2
<1>5. Len(p) <= Len(w) /\ Len(a) < Len(w) /\ Len(p) \in Nat  BY <1>1, <1>2, <1>3
<1>6. SubSeq(p, 1, Len(p)) = SubSeq(w, 1, Len(p))
  <2>1. /\ SubSeq(p, 1, Len(p)) \in Words /\ Len(SubSeq(p, 1, Len(p))) = Len(p)
        /\ \A i \in 1 .. Len(p) : SubSeq(p, 1, Len(p))[i] = p[i]
    BY <1>4, <1>5, SubSeqProperties DEF Words
  <2>2. /\ SubSeq(w, 1, Len(p)) \in Words /\ Len(SubSeq(w, 1, Len(p))) = Len(p)
        /\ \A i \in 1 .. Len(p) : SubSeq(w, 1, Len(p))[i] = w[i]
    BY <1>4, <1>5, SubSeqProperties DEF Words
  <2> QED  BY <1>4, <2>1, <2>2, SeqEqual DEF Words
<1> QED  BY <1>5, <1>6 DEF Continues, IsPrefix, p, w

(* What the names of proper requests are, as long as they are not cut.     *)
LEMMA ProperNames ==
  ASSUME NEW r \in Request, Proper(r)
  PROVE  /\ r.kind = "Cluster" /\ Len(Label(r)) <= Limit => NameOf(r) = Label(r)
         /\ r.kind = "Cluster" => Label(r) = Join(r.template, r.target)
         /\ r.kind # "Cluster" =>
              /\ NameOf(r) = Digested(Label(r))
              /\ Label(r) = Join(r.template, Join(Infix, r.target))
              /\ dnsLabel(virtualClusterBindingLabel(r.template, r.target)) = Label(r)
         /\ Label(r) \in Words
<1>1. CASE r.kind = "Cluster"
  <2> DEFINE w == Join(r.template, r.target)
  <2>1. w \in ObjectNames /\ dnsLabel(w) = w /\ w \in Words
    BY ClusterLabel DEF ObjectNames
  <2>2. NameOf(r) = truncateDNSLabel(w)
    BY <1>1, <2>1 DEF NameOf, bindingName
  <2>3. Label(r) = w  BY <1>1 DEF Label
  <2> HIDE DEF w
  <2>4. Len(w) <= Limit => NameOf(r) = w  BY <2>1, <2>2, TruncatedName
  <2> QED  BY <1>1, <2>1, <2>3, <2>4 DEF w
<1>2. CASE r.kind # "Cluster"
  <2> DEFINE w == virtualClusterBindingLabel(r.template, r.target)
  <2>1. w \in ObjectNames /\ dnsLabel(w) = w /\ w \in Words
    BY <1>2, InstanceLabel DEF ObjectNames
  <2>2. NameOf(r) = Digested(w) /\ Label(r) = w
    BY <1>2, <2>1 DEF NameOf, virtualClusterBindingName, Label
  <2>3. w = Join(r.template, Join(Infix, r.target))
    BY RequestWords, FixedWords, JoinAssociative DEF virtualClusterBindingLabel
  <2> QED  BY <1>2, <2>1, <2>2, <2>3
<1> QED  BY <1>1, <1>2

(* Two bindings of one name are one binding, or they can be confused. *)
LEMMA NamesApart ==
  ASSUME NEW r \in UNION Requests, NEW q \in UNION Requests,
         applicationKey(r) = applicationKey(q), ~Confusable(r, q)
  PROVE  r = q
<1> DEFINE C == DOMAIN Lower
<1>1. r \in Request /\ q \in Request  BY Hashed
<1>2. /\ ~Nested(r.template, q.template) /\ Proper(r) /\ Proper(q)
      /\ ~DigestsClash(Label(r), Label(q))
      /\ r.kind = "Cluster" => Len(Label(r)) <= Limit
      /\ q.kind = "Cluster" => Len(Label(q)) <= Limit
      /\ r.kind # q.kind /\ r.kind = "Cluster" => ~Continues(Infix, r.target)
      /\ r.kind # q.kind /\ q.kind = "Cluster" => ~Continues(Infix, q.target)
  <2>1. /\ ~Nested(r.template, q.template) /\ Proper(r) /\ Proper(q)
        /\ ~DigestsClash(Label(r), Label(q))
    BY DEF Confusable
  <2>2. ASSUME NEW x \in {r, q}, x.kind = "Cluster"
        PROVE  /\ ~(Len(Label(x)) > Limit)
               /\ r.kind # q.kind => ~Continues(Infix, x.target)
    BY <2>2 DEF Confusable
  <2>3. \A x \in {r, q} : Len(Label(x)) \in Nat
    <3>1. Label(r) \in Words /\ Label(q) \in Words  BY <1>1, <2>1, ProperNames
    <3> QED  BY <3>1, LenProperties DEF Words
  <2>4. \A x \in {r, q} : x.kind = "Cluster" => Len(Label(x)) <= Limit
    BY <2>2, <2>3, LimitAssumption
  <2> QED  BY <2>1, <2>2, <2>4
<1>3. r.namespace = q.namespace /\ NameOf(r) = NameOf(q)  BY DEF applicationKey
<1>4. /\ r.template \in Words /\ r.target \in Words
      /\ q.template \in Words /\ q.target \in Words /\ Infix \in Words
      /\ Dash \in C
  BY <1>1, RequestWords, FixedWords, CharactersAssumption DEF Allowed
<1>5. ASSUME NEW v \in Words, NEW w \in Words, Join(r.template, v) = Join(q.template, w)
      PROVE  r.template = q.template /\ v = w
  BY <1>2, <1>4, <1>5, JoinNests DEF Words
<1>6. Join(Infix, r.target) \in Words /\ Join(Infix, q.target) \in Words
  BY <1>4, JoinWords
<1> HIDE DEF C
<1>7. Label(r) = Label(q)
  <2>1. /\ Label(r) \in Words /\ Label(q) \in Words
        /\ r.kind = "Cluster" => NameOf(r) = Label(r)
        /\ q.kind = "Cluster" => NameOf(q) = Label(q)
        /\ r.kind # "Cluster" => NameOf(r) = Digested(Label(r)) /\ Digest(Label(r)) \in Digits
        /\ q.kind # "Cluster" => NameOf(q) = Digested(Label(q)) /\ Digest(Label(q)) \in Digits
    BY <1>1, <1>2, ProperNames, Hashed
  <2>2. CASE r.kind = "Cluster" /\ q.kind = "Cluster"  BY <1>3, <2>1, <2>2
  <2>3. CASE r.kind # "Cluster" /\ q.kind # "Cluster"
    BY <1>2, <1>3, <2>1, <2>3, DigestsSeparate
  <2>4. CASE r.kind = "Cluster" /\ q.kind # "Cluster"
    BY <1>2, <1>3, <2>1, <2>4, ShortSpells DEF DigestsClash
  <2>5. CASE r.kind # "Cluster" /\ q.kind = "Cluster"
    BY <1>2, <1>3, <2>1, <2>5, ShortSpells DEF DigestsClash
  <2> QED  BY <2>2, <2>3, <2>4, <2>5
<1>8. /\ r.kind = "Cluster" => Label(r) = Join(r.template, r.target)
      /\ q.kind = "Cluster" => Label(q) = Join(q.template, q.target)
      /\ r.kind # "Cluster" => Label(r) = Join(r.template, Join(Infix, r.target))
      /\ q.kind # "Cluster" => Label(q) = Join(q.template, Join(Infix, q.target))
  BY <1>1, <1>2, ProperNames
<1>9. CASE r.kind = "Cluster" /\ q.kind = "Cluster"
  BY <1>1, <1>3, <1>4, <1>5, <1>7, <1>8, <1>9 DEF Request
<1>10. CASE r.kind # "Cluster" /\ q.kind # "Cluster"
  <2>1. r.template = q.template /\ Join(Infix, r.target) = Join(Infix, q.target)
    BY <1>5, <1>6, <1>7, <1>8, <1>10
  <2>2. ~Nested(Infix, Infix)  BY <1>4, NotNestedInItself
  <2>3. r.target = q.target
    BY <1>4, <2>1, <2>2, JoinNests DEF Words, C
  <2>4. r.kind = "VirtualClusterInstance" /\ q.kind = "VirtualClusterInstance"
    BY <1>1, <1>10 DEF Request, Kinds
  <2> QED  BY <1>1, <1>3, <2>1, <2>3, <2>4 DEF Request
<1>11. CASE r.kind = "Cluster" /\ q.kind # "Cluster"
  <2>1. r.target = Join(Infix, q.target)
    BY <1>4, <1>5, <1>6, <1>7, <1>8, <1>11
  <2> QED  BY <1>2, <1>4, <1>11, <2>1, JoinContinues
<1>12. CASE r.kind # "Cluster" /\ q.kind = "Cluster"
  <2>1. q.target = Join(Infix, r.target)
    BY <1>4, <1>5, <1>6, <1>7, <1>8, <1>12
  <2> QED  BY <1>2, <1>4, <1>12, <2>1, JoinContinues
<1> QED  BY <1>9, <1>10, <1>11, <1>12

(* No binding of a pass takes the place of another one it cannot be        *)
(* confused with, for targets, templates and namespaces of any length      *)
(* (reconcile.go:63 and 98, bindings_test.go:384).                         *)
THEOREM NothingLostAlways == Spec => NothingLost
<1>1. ASSUME Kept, [Next]_vars, NEW k \in DOMAIN desired, desired'[k] # desired[k]
      PROVE  Confusable(desired[k], desired'[k])
  <2>1. PICK r \in asked : desired' = Put(desired, applicationKey(r), r)
    BY <1>1 DEF Next, NameForCluster, NameForInstance, vars
  <2>2. k = applicationKey(r) /\ desired'[k] = r  BY <1>1, <2>1 DEF Put
  <2>3. desired[k] \in UNION Requests /\ k = applicationKey(desired[k]) /\ r \in UNION Requests
    BY <1>1, <2>1 DEF Kept
  <2> QED  BY <1>1, <2>2, <2>3, NamesApart
<1>2. Kept /\ [Next]_vars =>
        [\A k \in DOMAIN desired :
           desired'[k] = desired[k] \/ Confusable(desired[k], desired'[k])]_vars
  BY <1>1
<1> QED  BY <1>2, PassKept, PTL DEF Spec, NothingLost
==============================================================================
