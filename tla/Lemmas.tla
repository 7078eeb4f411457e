-------------------------------- MODULE Lemmas -------------------------------
(***************************************************************************)
(* Facts about numbers and sequences that the proofs of several components *)
(* need.  Where a textbook would use induction, these take an extreme      *)
(* element of a finite set.                                                *)
(***************************************************************************)
EXTENDS Integers, SequencesExt, TLAPS, SequenceTheorems, FiniteSetTheorems

\* A finite nonempty set of numbers has a maximum: the last key of the store
\* and the last value that could be parsed exist.
LEMMA MaximumExists ==
  ASSUME NEW S \in SUBSET Nat, S # {}, IsFiniteSet(S)
  PROVE  \E i \in S : \A j \in S : j <= i
<1> DEFINE Above(i) == {j \in S : j > i}
<1> DEFINE T == {Above(i) : i \in S}
<1>1. PICK x \in T : \A y \in T : ~ (<<y, x>> \in StrictSubsetOrdering(S))
  <2>1. T \subseteq SUBSET S /\ T # {}
    OBVIOUS
  <2>2. IsWellFoundedOn(StrictSubsetOrdering(S), SUBSET S)
    BY FS_StrictSubsetOrderingWellFounded, FS_FiniteSubsetsOfFinite
  <2> HIDE DEF T
  <2> QED BY <2>1, <2>2, WFMin
<1>2. PICK i \in S : x = Above(i)
  OBVIOUS
<1>3. ASSUME NEW j \in S, j > i
      PROVE  FALSE
  <2>1. Above(j) \in T
    OBVIOUS
  <2>2. Above(j) \subseteq x /\ Above(j) # x
    <3>1. i \in Nat /\ \A k \in S : k \in Nat
      OBVIOUS
    <3>2. \A k \in Above(j) : k \in S /\ k > i
      BY <1>3, <3>1
    <3>3. j \in x /\ j \notin Above(j)
      BY <1>2, <1>3, <3>1
    <3> QED BY <1>2, <3>2, <3>3
  <2>3. <<Above(j), x>> \in StrictSubsetOrdering(S)
    BY <1>2, <2>2 DEF StrictSubsetOrdering
  <2> QED BY <1>1, <2>1, <2>3
<1> QED BY <1>3

\* A nonempty set of numbers has a minimum: among the timers that are due there
\* is a first one.
LEMMA MinimumExists ==
  ASSUME NEW S \in SUBSET Nat, S # {}
  PROVE  \E i \in S : \A j \in S : i <= j
<1>1. PICK n \in S : n \in Nat
  OBVIOUS
<1> DEFINE T == {n - i : i \in {k \in S : k <= n}}
<1>2. T \subseteq 0 .. n /\ n - n \in T
  BY <1>1
<1>3. IsFiniteSet(0 .. n)
  BY <1>1, FS_Interval
<1>4. IsFiniteSet(T) /\ T \in SUBSET Nat /\ T # {}
  BY <1>1, <1>2, <1>3, FS_Subset
<1> HIDE DEF T
<1>5. PICK t \in T : \A s \in T : s <= t
  BY <1>4, MaximumExists
<1>6. PICK i \in S : i <= n /\ t = n - i
  BY <1>5 DEF T
<1>7. ASSUME NEW j \in S
      PROVE  i <= j
  <2>1. CASE j <= n
    <3>1. n - j \in T
      BY <2>1 DEF T
    <3> QED BY <1>1, <1>5, <1>6, <2>1, <3>1
  <2>2. CASE ~(j <= n)
    BY <1>1, <1>6, <2>2
  <2> QED BY <2>1, <2>2
<1> QED BY <1>7
-----------------------------------------------------------------------------
(* Sequences without one of their elements. *)

LEMMA RemoveAtFacts ==
  ASSUME NEW S, NEW q \in Seq(S), NEW k \in 1 .. Len(q)
  PROVE  /\ RemoveAt(q, k) \in Seq(S)
         /\ Len(RemoveAt(q, k)) = Len(q) - 1
         /\ \A j \in 1 .. (Len(q) - 1) :
              RemoveAt(q, k)[j] = IF j < k THEN q[j] ELSE q[j + 1]
<1> DEFINE a == SubSeq(q, 1, k - 1)
<1> DEFINE b == SubSeq(q, k + 1, Len(q))
<1>1. Len(q) \in Nat /\ \A j \in 1 .. Len(q) : q[j] \in S
  BY LenProperties, ElementOfSeq
<1>2. a \in Seq(S) /\ Len(a) = k - 1 /\ \A j \in 1 .. (k - 1) : a[j] = q[j]
  <2>1. \A j \in 1 .. (k - 1) : q[j] \in S
    BY <1>1
  <2>2. /\ a \in Seq(S) /\ Len(a) = IF 1 <= k - 1 THEN k - 1 - 1 + 1 ELSE 0
        /\ \A j \in 1 .. k - 1 - 1 + 1 : a[j] = q[1 + j - 1]
    BY <2>1, <1>1, SubSeqProperties
  <2> HIDE DEF a
  <2> QED BY <2>2, <1>1
<1>3. b \in Seq(S) /\ Len(b) = Len(q) - k /\ \A j \in 1 .. (Len(q) - k) : b[j] = q[k + j]
  <2>1. \A j \in (k + 1) .. Len(q) : q[j] \in S
    BY <1>1
  <2>2. /\ b \in Seq(S) /\ Len(b) = IF k + 1 <= Len(q) THEN Len(q) - (k + 1) + 1 ELSE 0
        /\ \A j \in 1 .. Len(q) - (k + 1) + 1 : b[j] = q[(k + 1) + j - 1]
    BY <2>1, <1>1, SubSeqProperties
  <2> HIDE DEF b
  <2> QED BY <2>2, <1>1
<1>4. RemoveAt(q, k) = a \o b
  BY DEF RemoveAt
<1> HIDE DEF a, b
<1>5. /\ a \o b \in Seq(S) /\ Len(a \o b) = Len(a) + Len(b)
      /\ \A j \in 1 .. Len(a) + Len(b) :
           (a \o b)[j] = IF j <= Len(a) THEN a[j] ELSE b[j - Len(a)]
  BY <1>2, <1>3, ConcatProperties
<1> QED BY <1>1, <1>2, <1>3, <1>4, <1>5

LEMMA RemoveFirstAbsent ==
  ASSUME NEW q, NEW x, \A j \in 1 .. Len(q) : q[j] # x
  PROVE  RemoveFirst(q, x) = q
  BY DEF RemoveFirst

LEMMA RemoveFirstOnly ==
  ASSUME NEW q, Len(q) \in Nat, NEW x, NEW k \in 1 .. Len(q),
         {j \in 1 .. Len(q) : q[j] = x} = {k}
  PROVE  RemoveFirst(q, x) = RemoveAt(q, k)
<1>1. Min({k}) = k
  BY DEF Min
<1>2. SelectInSeq(q, LAMBDA v : v = x) = k
  BY <1>1 DEF SelectInSeq
<1>3. \E i \in 1 .. Len(q) : q[i] = x
  OBVIOUS
<1> QED BY <1>2, <1>3 DEF RemoveFirst

LEMMA AppendFacts ==
  ASSUME NEW S, NEW q \in Seq(S), NEW x \in S
  PROVE  /\ Append(q, x) \in Seq(S)
         /\ Len(q) \in Nat /\ Len(Append(q, x)) = Len(q) + 1
         /\ \A j \in 1 .. Len(q) : Append(q, x)[j] = q[j]
         /\ Append(q, x)[Len(q) + 1] = x
  BY AppendProperties, LenProperties

LEMMA TailFacts ==
  ASSUME NEW S, NEW q \in Seq(S), q # <<>>
  PROVE  /\ Tail(q) \in Seq(S)
         /\ Len(q) \in Nat /\ Len(q) >= 1 /\ Len(Tail(q)) = Len(q) - 1
         /\ Head(q) = q[1] /\ Head(q) \in S
         /\ \A j \in 1 .. Len(Tail(q)) : Tail(q)[j] = q[j + 1]
  BY HeadTailProperties, LenProperties, EmptySeq

\* Removing an element and adding another one at the end.
LEMMA RemoveAtAppend ==
  ASSUME NEW S, NEW q \in Seq(S), NEW x \in S, NEW k \in 1 .. Len(q)
  PROVE  RemoveAt(Append(q, x), k) = Append(RemoveAt(q, k), x)
<1> DEFINE a == Append(q, x)
<1> DEFINE r == RemoveAt(q, k)
<1> DEFINE l == RemoveAt(a, k)
<1>1. /\ a \in Seq(S) /\ Len(q) \in Nat /\ Len(a) = Len(q) + 1
      /\ \A j \in 1 .. Len(q) : a[j] = q[j]
      /\ a[Len(q) + 1] = x
  BY AppendFacts
<1>2. /\ r \in Seq(S) /\ Len(r) = Len(q) - 1
      /\ \A j \in 1 .. (Len(q) - 1) : r[j] = IF j < k THEN q[j] ELSE q[j + 1]
  BY RemoveAtFacts
<1> HIDE DEF a
<1>3. /\ l \in Seq(S) /\ Len(l) = Len(a) - 1
      /\ \A j \in 1 .. (Len(a) - 1) : l[j] = IF j < k THEN a[j] ELSE a[j + 1]
  <2>1. k \in 1 .. Len(a)
    BY <1>1
  <2> QED BY <1>1, <2>1, RemoveAtFacts, Zenon
<1> HIDE DEF r, l
<1>4. /\ Append(r, x) \in Seq(S) /\ Len(Append(r, x)) = Len(r) + 1
      /\ \A j \in 1 .. Len(r) : Append(r, x)[j] = r[j]
      /\ Append(r, x)[Len(r) + 1] = x
  BY <1>2, AppendFacts
<1>5. ASSUME NEW j \in 1 .. Len(l)
      PROVE  l[j] = Append(r, x)[j]
  <2>1. CASE j <= Len(r)
    BY <1>1, <1>2, <1>3, <1>4, <2>1
  <2>2. CASE j = Len(r) + 1
    BY <1>1, <1>2, <1>3, <1>4, <2>2
  <2> QED BY <1>1, <1>2, <1>3, <2>1, <2>2
<1>6. Len(l) = Len(Append(r, x))
  BY <1>1, <1>2, <1>3, <1>4
<1>7. l = Append(r, x)
  BY <1>3, <1>4, <1>5, <1>6, SeqEqual
<1> QED BY <1>7 DEF l, r, a

LEMMA RemoveAtLast ==
  ASSUME NEW S, NEW q \in Seq(S), NEW x \in S
  PROVE  RemoveAt(Append(q, x), Len(q) + 1) = q
<1> DEFINE a == Append(q, x)
<1> DEFINE l == RemoveAt(a, Len(q) + 1)
<1>1. /\ a \in Seq(S) /\ Len(q) \in Nat /\ Len(a) = Len(q) + 1
      /\ \A j \in 1 .. Len(q) : a[j] = q[j]
  BY AppendFacts
<1> HIDE DEF a
<1>2. /\ l \in Seq(S) /\ Len(l) = Len(a) - 1
      /\ \A j \in 1 .. (Len(a) - 1) : l[j] = IF j < Len(q) + 1 THEN a[j] ELSE a[j + 1]
  <2>1. Len(q) + 1 \in 1 .. Len(a)
    BY <1>1
  <2> QED BY <1>1, <2>1, RemoveAtFacts, Zenon
<1> HIDE DEF l
<1>3. Len(l) = Len(q) /\ \A j \in 1 .. Len(l) : l[j] = q[j]
  BY <1>1, <1>2
<1>4. l = q
  BY <1>2, <1>3, SeqEqual
<1> QED BY <1>4 DEF l, a

LEMMA RemoveAtFirst ==
  ASSUME NEW S, NEW q \in Seq(S), q # <<>>
  PROVE  RemoveAt(q, 1) = Tail(q)
<1>1. /\ Tail(q) \in Seq(S) /\ Len(q) \in Nat /\ Len(q) >= 1 /\ Len(Tail(q)) = Len(q) - 1
      /\ \A j \in 1 .. Len(Tail(q)) : Tail(q)[j] = q[j + 1]
  BY TailFacts
<1> DEFINE l == RemoveAt(q, 1)
<1>2. /\ l \in Seq(S) /\ Len(l) = Len(q) - 1
      /\ \A j \in 1 .. (Len(q) - 1) : l[j] = IF j < 1 THEN q[j] ELSE q[j + 1]
  <2>1. 1 \in 1 .. Len(q)
    BY <1>1
  <2> QED BY <2>1, RemoveAtFacts, Zenon
<1> HIDE DEF l
<1>3. l = Tail(q)
  BY <1>1, <1>2, SeqEqual
<1> QED BY <1>3 DEF l

\* Taking away the first element, and removing a later one.
LEMMA RemoveAtTail ==
  ASSUME NEW S, NEW q \in Seq(S), NEW k \in 2 .. Len(q)
  PROVE  /\ RemoveAt(q, k) # <<>>
         /\ Tail(RemoveAt(q, k)) = RemoveAt(Tail(q), k - 1)
<1>1. q # <<>> /\ k \in 1 .. Len(q) /\ Len(q) \in Nat
  BY LenProperties, EmptySeq
<1>2. /\ Tail(q) \in Seq(S) /\ Len(Tail(q)) = Len(q) - 1
      /\ \A j \in 1 .. Len(Tail(q)) : Tail(q)[j] = q[j + 1]
  BY <1>1, TailFacts
<1> DEFINE r == RemoveAt(q, k)
<1> DEFINE l == RemoveAt(Tail(q), k - 1)
<1>3. /\ r \in Seq(S) /\ Len(r) = Len(q) - 1
      /\ \A j \in 1 .. (Len(q) - 1) : r[j] = IF j < k THEN q[j] ELSE q[j + 1]
  BY <1>1, RemoveAtFacts
<1>4. k - 1 \in 1 .. Len(Tail(q))
  BY <1>1, <1>2
<1>5. /\ l \in Seq(S) /\ Len(l) = Len(Tail(q)) - 1
      /\ \A j \in 1 .. (Len(Tail(q)) - 1) :
           l[j] = IF j < k - 1 THEN Tail(q)[j] ELSE Tail(q)[j + 1]
  BY <1>2, <1>4, RemoveAtFacts
<1> HIDE DEF r, l
<1>6. r # <<>>
  BY <1>1, <1>3, EmptySeq
<1>7. /\ Tail(r) \in Seq(S) /\ Len(Tail(r)) = Len(r) - 1
      /\ \A j \in 1 .. Len(Tail(r)) : Tail(r)[j] = r[j + 1]
  BY <1>3, <1>6, TailFacts
<1>8. Len(l) = Len(Tail(r))
  BY <1>1, <1>2, <1>3, <1>5, <1>7
<1>9. ASSUME NEW j \in 1 .. Len(l)
      PROVE  l[j] = Tail(r)[j]
  BY <1>1, <1>2, <1>3, <1>5, <1>7
<1>10. l = Tail(r)
  BY <1>5, <1>7, <1>8, <1>9, SeqEqual
<1> QED BY <1>6, <1>10 DEF l, r
-----------------------------------------------------------------------------
(* Sequences that hold each of their elements once, as sets. *)

LEMMA ToSetSeq ==
  ASSUME NEW S, NEW q \in Seq(S)
  PROVE  ToSet(q) = {q[j] : j \in 1 .. Len(q)} /\ ToSet(q) \subseteq S
  BY LenProperties, ElementOfSeq DEF ToSet

LEMMA ToSetAppend ==
  ASSUME NEW S, NEW q \in Seq(S), NEW x \in S
  PROVE  /\ ToSet(Append(q, x)) = ToSet(q) \cup {x}
         /\ IsInjective(q) /\ x \notin ToSet(q) => IsInjective(Append(q, x))
<1> DEFINE a == Append(q, x)
<1>1. /\ a \in Seq(S) /\ Len(q) \in Nat /\ Len(a) = Len(q) + 1
      /\ \A j \in 1 .. Len(q) : a[j] = q[j]
      /\ a[Len(q) + 1] = x
  BY AppendFacts
<1>2. DOMAIN a = 1 .. (Len(q) + 1) /\ DOMAIN q = 1 .. Len(q)
  BY <1>1, LenProperties
<1> HIDE DEF a
<1>3. \A j \in DOMAIN a : j \in DOMAIN q \/ j = Len(q) + 1
  BY <1>1, <1>2
<1>4. \A j \in DOMAIN q : j \in DOMAIN a /\ a[j] = q[j]
  BY <1>1, <1>2
<1>5. Len(q) + 1 \in DOMAIN a
  BY <1>1, <1>2
<1>6. ToSet(a) = ToSet(q) \cup {x}
  BY <1>1, <1>3, <1>4, <1>5 DEF ToSet
<1>7. ASSUME IsInjective(q), x \notin ToSet(q)
      PROVE  IsInjective(a)
  <2> SUFFICES ASSUME NEW i \in DOMAIN a, NEW j \in DOMAIN a, a[i] = a[j]
               PROVE  i = j
    BY DEF IsInjective
  <2>1. \A k \in DOMAIN q : q[k] # x
    BY <1>7 DEF ToSet
  <2>2. CASE i \in DOMAIN q /\ j \in DOMAIN q
    BY <1>4, <1>7, <2>2 DEF IsInjective
  <2>3. CASE i = Len(q) + 1 /\ j \in DOMAIN q
    BY <1>1, <1>4, <2>1, <2>3
  <2>4. CASE j = Len(q) + 1 /\ i \in DOMAIN q
    BY <1>1, <1>4, <2>1, <2>4
  <2> QED BY <1>3, <2>2, <2>3, <2>4
<1> QED BY <1>6, <1>7 DEF a

LEMMA RemoveAtSet ==
  ASSUME NEW S, NEW q \in Seq(S), NEW k \in 1 .. Len(q), IsInjective(q)
  PROVE  /\ ToSet(RemoveAt(q, k)) = ToSet(q) \ {q[k]}
         /\ IsInjective(RemoveAt(q, k))
<1> DEFINE r == RemoveAt(q, k)
<1>1. /\ r \in Seq(S) /\ Len(r) = Len(q) - 1
      /\ \A j \in 1 .. (Len(q) - 1) : r[j] = IF j < k THEN q[j] ELSE q[j + 1]
  BY RemoveAtFacts
<1>2. DOMAIN r = 1 .. (Len(q) - 1) /\ DOMAIN q = 1 .. Len(q) /\ Len(q) \in Nat
  BY <1>1, LenProperties
<1> HIDE DEF r
<1>3. \A i, j \in DOMAIN q : q[i] = q[j] => i = j
  BY DEF IsInjective
<1>4. ASSUME NEW j \in DOMAIN r
      PROVE  \E i \in DOMAIN q : i # k /\ r[j] = q[i]
  <2>1. CASE j < k
    BY <1>1, <1>2, <2>1
  <2>2. CASE ~(j < k)
    <3>1. j + 1 \in DOMAIN q /\ j + 1 # k /\ r[j] = q[j + 1]
      BY <1>1, <1>2, <2>2
    <3> QED BY <3>1
  <2> QED BY <2>1, <2>2
<1>5. ASSUME NEW i \in DOMAIN q, i # k
      PROVE  \E j \in DOMAIN r : r[j] = q[i]
  <2>1. CASE i < k
    BY <1>1, <1>2, <2>1
  <2>2. CASE ~(i < k)
    <3>1. i - 1 \in DOMAIN r /\ ~(i - 1 < k) /\ i - 1 + 1 = i
      BY <1>2, <1>5, <2>2
    <3>2. r[i - 1] = q[i]
      BY <1>1, <1>2, <3>1
    <3> QED BY <3>1, <3>2
  <2> QED BY <2>1, <2>2
<1>6. ToSet(r) = ToSet(q) \ {q[k]}
  <2>1. \A i \in DOMAIN q : q[i] = q[k] => i = k
    BY <1>2, <1>3
  <2> QED BY <1>2, <1>4, <1>5, <2>1 DEF ToSet
<1>7. IsInjective(r)
  <2> SUFFICES ASSUME NEW i \in DOMAIN r, NEW j \in DOMAIN r, r[i] = r[j]
               PROVE  i = j
    BY DEF IsInjective
  <2> DEFINE At(l) == IF l < k THEN l ELSE l + 1
  <2>1. \A l \in DOMAIN r : At(l) \in DOMAIN q /\ r[l] = q[At(l)]
    BY <1>1, <1>2
  <2>2. At(i) = At(j)
    BY <1>3, <2>1
  <2> QED BY <1>2, <2>2
<1> QED BY <1>6, <1>7 DEF r

LEMMA ToSetTail ==
  ASSUME NEW S, NEW q \in Seq(S), q # <<>>, IsInjective(q)
  PROVE  ToSet(Tail(q)) = ToSet(q) \ {Head(q)} /\ Head(q) \in ToSet(q) /\ IsInjective(Tail(q))
<1>1. Len(q) >= 1 /\ Len(q) \in Nat /\ Head(q) = q[1]
  BY TailFacts
<1>2. 1 \in 1 .. Len(q)
  BY <1>1
<1>3. RemoveAt(q, 1) = Tail(q)
  BY RemoveAtFirst
<1>4. ToSet(RemoveAt(q, 1)) = ToSet(q) \ {q[1]} /\ IsInjective(RemoveAt(q, 1))
  BY <1>2, RemoveAtSet
<1>5. q[1] \in ToSet(q)
  BY <1>2, ToSetSeq
<1> QED BY <1>1, <1>3, <1>4, <1>5

LEMMA RemoveFirstSet ==
  ASSUME NEW S, NEW q \in Seq(S), NEW x \in ToSet(q), IsInjective(q)
  PROVE  /\ \E k \in 1 .. Len(q) : q[k] = x /\ RemoveFirst(q, x) = RemoveAt(q, k)
         /\ RemoveFirst(q, x) \in Seq(S)
         /\ ToSet(RemoveFirst(q, x)) = ToSet(q) \ {x}
         /\ IsInjective(RemoveFirst(q, x))
<1>1. PICK k \in 1 .. Len(q) : q[k] = x
  BY ToSetSeq
<1>2. Len(q) \in Nat /\ DOMAIN q = 1 .. Len(q)
  BY LenProperties
<1>3. {j \in 1 .. Len(q) : q[j] = x} = {k}
  BY <1>1, <1>2 DEF IsInjective
<1>4. RemoveFirst(q, x) = RemoveAt(q, k)
  BY <1>2, <1>3, RemoveFirstOnly
<1>5. RemoveAt(q, k) \in Seq(S)
  BY RemoveAtFacts
<1> QED BY <1>1, <1>4, <1>5, RemoveAtSet
=============================================================================
