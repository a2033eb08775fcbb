--------------------------- MODULE SequenceLemmas ---------------------------
(***************************************************************************)
(* Facts about sequences of any length: induction over it, and what the    *)
(* two operations on the action queue do, Append (Enqueue) and RemoveFirst *)
(* (Acknowledge).                                                          *)
(***************************************************************************)
EXTENDS Integers, SequencesExt, SequenceTheorems, WellFoundedInduction, TLAPS

\* A set that holds 0 and the successor of each of its members holds every
\* natural number.
LEMMA NatSetInduction ==
    ASSUME NEW S, 0 \in S, \A n \in Nat : n \in S => n + 1 \in S
    PROVE  Nat \subseteq S
<1> DEFINE R == OpToRel(<, Nat)
           T == Nat \ S
<1>1. IsWellFoundedOn(R, Nat)
    BY NatLessThanWellFounded, Zenon
<1>2. \A x, y \in Nat : x < y => <<x, y>> \in R
    BY DEF OpToRel
<1> SUFFICES ASSUME T # {} PROVE FALSE
    OBVIOUS
<1> HIDE DEF R
<1>3. PICK x \in T : \A y \in T : <<y, x>> \notin R
  <2>1. T \subseteq Nat
      OBVIOUS
  <2> HIDE DEF T
  <2> QED BY <1>1, <2>1, WFMin
<1>4. x \in Nat /\ x # 0 /\ x - 1 \in Nat /\ x - 1 < x
    BY <1>3
<1>5. x - 1 \in S
    BY <1>2, <1>3, <1>4
<1> QED BY <1>3, <1>4, <1>5

\* No action is in the queue twice.
Distinct(s) == \A i, j \in DOMAIN s : s[i] = s[j] => i = j

\* The elements of a sequence, by index.
LEMMA ToSetOf ==
    ASSUME NEW S, NEW s \in Seq(S)
    PROVE  /\ DOMAIN s = 1 .. Len(s)
           /\ Len(s) \in Nat
           /\ ToSet(s) \subseteq S
           /\ \A i \in 1 .. Len(s) : s[i] \in ToSet(s)
           /\ \A e \in ToSet(s) : \E i \in 1 .. Len(s) : s[i] = e
BY LenProperties, ElementOfSeq DEF ToSet

\* Enqueue adds one element, and keeps the others apart if it is new.
LEMMA AppendToSet ==
    ASSUME NEW S, NEW s \in Seq(S), NEW e \in S
    PROVE  /\ Append(s, e) \in Seq(S)
           /\ ToSet(Append(s, e)) = ToSet(s) \cup {e}
           /\ Distinct(s) /\ e \notin ToSet(s) => Distinct(Append(s, e))
<1> DEFINE t == Append(s, e)
<1>1. /\ t \in Seq(S) /\ Len(t) = Len(s) + 1 /\ Len(s) \in Nat
      /\ \A i \in 1 .. Len(s) : t[i] = s[i]
      /\ t[Len(s) + 1] = e /\ DOMAIN t = 1 .. Len(s) + 1 /\ DOMAIN s = 1 .. Len(s)
    BY AppendProperties, LenProperties
<1> HIDE DEF t
<1>2. ToSet(t) = ToSet(s) \cup {e}
    BY <1>1 DEF ToSet
<1>3. Distinct(s) /\ e \notin ToSet(s) => Distinct(t)
    BY <1>1 DEF Distinct, ToSet
<1> QED BY <1>1, <1>2, <1>3 DEF t

\* Acknowledge's loop stops at the first element that matches; the slices
\* around it are joined.
LEMMA RemoveFirstAt ==
    ASSUME NEW S, NEW s \in Seq(S), NEW e, NEW n \in 1 .. Len(s), s[n] = e,
           \A i \in 1 .. n - 1 : s[i] # e
    PROVE  /\ RemoveFirst(s, e) \in Seq(S)
           /\ Len(RemoveFirst(s, e)) = Len(s) - 1
           /\ \A i \in 1 .. Len(s) - 1 :
                 RemoveFirst(s, e)[i] = IF i < n THEN s[i] ELSE s[i + 1]
<1> DEFINE I == {i \in 1 .. Len(s) : s[i] = e}
<1>0. Len(s) \in Nat
    BY LenProperties
<1>1. n \in I /\ \A i \in I : n <= i
    BY <1>0
<1>2. \A x \in I : (\A y \in I : x <= y) => x = n
    BY <1>0, <1>1
<1>3. Min(I) = n
    BY <1>1, <1>2 DEF Min
<1>4. SelectInSeq(s, LAMBDA v : v = e) = n
    BY <1>1, <1>3 DEF SelectInSeq
<1>5. RemoveFirst(s, e) = RemoveAt(s, n)
    BY <1>4 DEF RemoveFirst
<1> DEFINE a == SubSeq(s, 1, n - 1)
           b == SubSeq(s, n + 1, Len(s))
<1>6. a \in Seq(S) /\ Len(a) = n - 1 /\ \A i \in 1 .. n - 1 : a[i] = s[i]
    BY <1>0, SubSeqProperties, ElementOfSeq
<1>7. b \in Seq(S) /\ Len(b) = Len(s) - n /\ \A i \in 1 .. Len(s) - n : b[i] = s[n + i]
    BY <1>0, SubSeqProperties, ElementOfSeq
<1> HIDE DEF a, b
<1>8. /\ a \o b \in Seq(S) /\ Len(a \o b) = Len(s) - 1
      /\ \A i \in 1 .. Len(s) - 1 : (a \o b)[i] = IF i < n THEN s[i] ELSE s[i + 1]
  <2>1. /\ a \o b \in Seq(S) /\ Len(a \o b) = Len(a) + Len(b)
        /\ \A i \in 1 .. Len(a) + Len(b) :
              (a \o b)[i] = IF i <= Len(a) THEN a[i] ELSE b[i - Len(a)]
      BY <1>6, <1>7, ConcatProperties
  <2> QED BY <2>1, <1>0, <1>6, <1>7
<1> QED BY <1>5, <1>8 DEF RemoveAt, a, b

\* A GUID that is not queued is looked for in vain.
LEMMA RemoveFirstMissing ==
    ASSUME NEW S, NEW s \in Seq(S), NEW e, e \notin ToSet(s)
    PROVE  RemoveFirst(s, e) = s
BY LenProperties DEF RemoveFirst, ToSet

\* With distinct GUIDs, Acknowledge removes the one it was asked for, and
\* the others keep their order.
LEMMA RemoveFirstDistinct ==
    ASSUME NEW S, NEW s \in Seq(S), NEW e, Distinct(s)
    PROVE  /\ RemoveFirst(s, e) \in Seq(S)
           /\ Distinct(RemoveFirst(s, e))
           /\ ToSet(RemoveFirst(s, e)) = ToSet(s) \ {e}
           /\ \A i, j \in DOMAIN RemoveFirst(s, e) : i < j =>
                 \E k, l \in DOMAIN s : /\ k < l
                                        /\ s[k] = RemoveFirst(s, e)[i]
                                        /\ s[l] = RemoveFirst(s, e)[j]
<1> DEFINE t == RemoveFirst(s, e)
<1>0. DOMAIN s = 1 .. Len(s) /\ Len(s) \in Nat
    BY LenProperties
<1>1. CASE e \notin ToSet(s)
    BY <1>1, RemoveFirstMissing
<1>2. CASE e \in ToSet(s)
  <2>1. PICK n \in 1 .. Len(s) : s[n] = e
      BY <1>0, <1>2 DEF ToSet
  <2>2. \A i \in 1 .. Len(s) : i # n => s[i] # e
      BY <1>0, <2>1 DEF Distinct
  <2>3. /\ t \in Seq(S) /\ Len(t) = Len(s) - 1
        /\ \A i \in 1 .. Len(s) - 1 : t[i] = IF i < n THEN s[i] ELSE s[i + 1]
    <3>1. s[n] = e /\ \A i \in 1 .. n - 1 : s[i] # e
        BY <1>0, <2>1, <2>2
    <3> QED BY <3>1, RemoveFirstAt DEF t
  <2>4. DOMAIN t = 1 .. Len(s) - 1
      BY <2>3, LenProperties
  <2> HIDE DEF t
  <2> DEFINE at(i) == IF i < n THEN i ELSE i + 1
  <2>5. \A i \in DOMAIN t : at(i) \in DOMAIN s /\ at(i) # n /\ t[i] = s[at(i)]
      BY <1>0, <2>3, <2>4
  <2>6. \A i, j \in DOMAIN t : i < j => at(i) < at(j)
      BY <2>4
  <2>7. Distinct(t)
      BY <1>0, <2>4, <2>5, <2>6 DEF Distinct
  <2>8. ToSet(t) = ToSet(s) \ {e}
    <3>1. ASSUME NEW k \in DOMAIN s, k # n PROVE \E i \in DOMAIN t : t[i] = s[k]
      <4>1. CASE k < n
          BY <1>0, <2>3, <2>4, <3>1, <4>1
      <4>2. CASE k > n
        <5>1. k - 1 \in DOMAIN t /\ t[k - 1] = s[k]
            BY <1>0, <2>3, <2>4, <4>2
        <5> QED BY <5>1
      <4> QED BY <1>0, <3>1, <4>1, <4>2
    <3>2. ToSet(s) \ {e} \subseteq ToSet(t)
        BY <2>1, <3>1 DEF ToSet
    <3>3. ToSet(t) \subseteq ToSet(s) \ {e}
        BY <1>0, <2>2, <2>5 DEF ToSet
    <3> QED BY <3>2, <3>3
  <2> QED BY <2>3, <2>5, <2>6, <2>7, <2>8 DEF t
<1> QED BY <1>1, <1>2

\* What remains of a list once its head has been taken.
LEMMA TailOf ==
    ASSUME NEW S, NEW s \in Seq(S), s # <<>>
    PROVE  /\ Head(s) \in S /\ Head(s) = s[1] /\ Tail(s) \in Seq(S)
           /\ Len(s) \in Nat \ {0} /\ Len(Tail(s)) = Len(s) - 1
           /\ DOMAIN s = 1 .. Len(s) /\ DOMAIN Tail(s) = 1 .. Len(s) - 1
           /\ \A i \in 1 .. Len(s) - 1 : Tail(s)[i] = s[i + 1]
           /\ Tail(s) # <<>> <=> Len(s) > 1
<1>1. /\ Tail(s) \in Seq(S) /\ Len(Tail(s)) = Len(s) - 1 /\ Len(s) \in Nat \ {0}
      /\ \A i \in 1 .. Len(Tail(s)) : Tail(s)[i] = s[i + 1]
    BY HeadTailProperties, EmptySeq
<1>2. DOMAIN s = 1 .. Len(s) /\ DOMAIN Tail(s) = 1 .. Len(s) - 1
    BY <1>1, LenProperties
<1>3. Head(s) = s[1] /\ Head(s) \in S
    BY HeadTailProperties
<1>4. Tail(s) # <<>> <=> Len(s) > 1
  <2>1. Len(<<>>) = 0
      BY EmptySeq
  <2>2. Tail(s) # <<>> => Len(Tail(s)) # 0
      BY <1>1, EmptySeq
  <2> QED BY <1>1, <2>1, <2>2
<1> QED BY <1>1, <1>2, <1>3, <1>4

-----------------------------------------------------------------------------
(* The order of injection.                                                 *)

\* What comes before e in s.
Before(s, e) == {s[i] : i \in {i \in DOMAIN s : \E j \in DOMAIN s : i < j /\ s[j] = e}}

\* The queue q keeps the order of s.
KeepsOrder(q, s) == \A i, j \in DOMAIN q : q[j] \in Before(s, q[i]) => j < i

\* The elements before e are those at a smaller index than some occurrence of e.
LEMMA BeforeAt ==
    ASSUME NEW s, NEW e, NEW f
    PROVE  f \in Before(s, e) <=> \E i, j \in DOMAIN s : i < j /\ s[i] = f /\ s[j] = e
BY DEF Before

\* With distinct elements this is a strict order.
LEMMA BeforeStrict ==
    ASSUME NEW S, NEW s \in Seq(S), Distinct(s), NEW e
    PROVE  e \notin Before(s, e)
<1>1. \A i, j \in DOMAIN s : s[i] = s[j] => ~(i < j)
    BY LenProperties DEF Distinct
<1> QED BY <1>1, BeforeAt

\* What is appended comes before nothing, and the others keep their places.
LEMMA BeforeAppend ==
    ASSUME NEW S, NEW s \in Seq(S), NEW e \in S \ ToSet(s), NEW f
    PROVE  /\ f # e => Before(Append(s, e), f) = Before(s, f)
           /\ e \notin Before(Append(s, e), f)
<1> DEFINE n == Len(s)
           t == Append(s, e)
<1>1. /\ DOMAIN s = 1 .. n /\ DOMAIN t = 1 .. n + 1 /\ n \in Nat
      /\ \A i \in 1 .. n : t[i] = s[i] /\ s[i] # e
      /\ t[n + 1] = e
  <2>1. DOMAIN s = 1 .. n /\ n \in Nat /\ \A i \in 1 .. n : s[i] # e
      BY LenProperties DEF ToSet
  <2>2. /\ t \in Seq(S) /\ Len(t) = n + 1 /\ t[n + 1] = e
        /\ \A i \in 1 .. n : t[i] = s[i]
      BY <2>1, AppendProperties
  <2>3. DOMAIN t = 1 .. n + 1
      BY <2>2, LenProperties
  <2> QED BY <2>1, <2>2, <2>3
<1> HIDE DEF n, t
<1>2. \A k : k \in Before(t, f) <=> \E i, j \in DOMAIN t : i < j /\ t[i] = k /\ t[j] = f
    BY BeforeAt
<1>3. \A k : k \in Before(s, f) <=> \E i, j \in DOMAIN s : i < j /\ s[i] = k /\ s[j] = f
    BY BeforeAt
<1>4. f # e => \A k : k \in Before(t, f) <=> k \in Before(s, f)
    BY <1>1, <1>2, <1>3
<1>5. e \notin Before(t, f)
    BY <1>1, <1>2
<1> QED BY <1>4, <1>5 DEF t

\* An acknowledgement leaves the rest of the queue in order.
LEMMA OrderAfterRemove ==
    ASSUME NEW S, NEW s \in Seq(S), Distinct(s), NEW q \in Seq(S), Distinct(q),
           KeepsOrder(q, s), NEW e
    PROVE  KeepsOrder(RemoveFirst(q, e), s)
<1> DEFINE r == RemoveFirst(q, e)
<1>1. /\ r \in Seq(S)
      /\ \A i, j \in DOMAIN r : i < j =>
            \E k, l \in DOMAIN q : k < l /\ q[k] = r[i] /\ q[l] = r[j]
    BY RemoveFirstDistinct
<1> HIDE DEF r
<1>2. DOMAIN r = 1 .. Len(r) /\ Len(r) \in Nat /\ DOMAIN q = 1 .. Len(q) /\ Len(q) \in Nat
    BY <1>1, LenProperties
<1>3. ASSUME NEW i \in DOMAIN r, NEW j \in DOMAIN r, r[j] \in Before(s, r[i]), ~(j < i)
      PROVE  FALSE
  <2>1. i # j
      BY <1>3, BeforeStrict
  <2>2. i < j
      BY <1>2, <1>3, <2>1
  <2>3. PICK k \in DOMAIN q, l \in DOMAIN q : k < l /\ q[k] = r[i] /\ q[l] = r[j]
      BY <1>1, <2>2
  <2>4. l < k
      BY <1>3, <2>3 DEF KeepsOrder
  <2> QED BY <1>2, <2>3, <2>4
<1> QED BY <1>3 DEF KeepsOrder, r

\* So does a new injection.
LEMMA OrderAfterAppend ==
    ASSUME NEW S, NEW s \in Seq(S), NEW q \in Seq(S), ToSet(q) \subseteq ToSet(s),
           KeepsOrder(q, s), NEW e \in S \ ToSet(s)
    PROVE  KeepsOrder(Append(q, e), Append(s, e))
<1> DEFINE n == Len(q)
           r == Append(q, e)
<1>1. /\ DOMAIN r = 1 .. n + 1 /\ DOMAIN q = 1 .. n /\ r[n + 1] = e /\ n \in Nat
      /\ \A i \in 1 .. n : r[i] = q[i] /\ q[i] # e
  <2>1. DOMAIN q = 1 .. n /\ n \in Nat /\ \A i \in 1 .. n : q[i] # e
      BY LenProperties DEF ToSet
  <2>2. /\ r \in Seq(S) /\ Len(r) = n + 1 /\ r[n + 1] = e
        /\ \A i \in 1 .. n : r[i] = q[i]
      BY <2>1, AppendProperties
  <2>3. DOMAIN r = 1 .. n + 1
      BY <2>2, LenProperties
  <2> QED BY <2>1, <2>2, <2>3
<1> HIDE DEF n, r
<1>2. ASSUME NEW i \in DOMAIN r, NEW j \in DOMAIN r, r[j] \in Before(Append(s, e), r[i])
      PROVE  j < i
  <2>1. r[j] # e
      BY <1>2, BeforeAppend
  <2>2. j \in 1 .. n /\ r[j] = q[j]
      BY <1>1, <2>1
  <2>3. CASE i = n + 1
      BY <1>1, <2>2, <2>3
  <2>4. CASE i # n + 1
    <3>1. i \in 1 .. n /\ r[i] = q[i] /\ q[i] # e
        BY <1>1, <2>4
    <3>2. Before(Append(s, e), q[i]) = Before(s, q[i])
        BY <3>1, BeforeAppend
    <3> QED BY <1>1, <1>2, <2>2, <3>1, <3>2 DEF KeepsOrder
  <2> QED BY <2>3, <2>4
<1> QED BY <1>2 DEF KeepsOrder, r

=============================================================================
