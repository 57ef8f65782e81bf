--------------------------- MODULE SequenceLemmas ---------------------------
(***************************************************************************)
(* Facts about sequences and numbers that the proofs share: what a log or  *)
(* a queue becomes when events enter or leave it.                          *)
(***************************************************************************)
EXTENDS Integers, Sequences, FiniteSets, SequenceTheorems, FiniteSetTheorems,
        WellFoundedInduction, TLAPS

\* What there is of a sequence that is appended to.
LEMMA AppendLemma ==
    ASSUME NEW S, NEW s \in Seq(S), NEW e, e \in S
    PROVE  /\ Append(s, e) \in Seq(S)
           /\ DOMAIN s = 1..Len(s) /\ Len(s) \in Nat
           /\ DOMAIN Append(s, e) = 1..(Len(s) + 1)
           /\ \A i \in DOMAIN s : i \in DOMAIN Append(s, e) /\ Append(s, e)[i] = s[i]
           /\ \A i \in DOMAIN Append(s, e) : i \in DOMAIN s \/ i = Len(s) + 1
           /\ Append(s, e)[Len(s) + 1] = e
<1> QED BY AppendProperties, LenProperties

\* t is s and one more element.
Longer(t, s, S, e) ==
    /\ t \in Seq(S)
    /\ \A i \in DOMAIN s : i \in DOMAIN t /\ t[i] = s[i]
    /\ \A i \in DOMAIN t : i \in DOMAIN s \/ i = Len(s) + 1
    /\ t[Len(s) + 1] = e

\* What a sequence becomes that is appended to.
LEMMA PushLemma ==
    \A S, s, t, e : s \in Seq(S) /\ e \in S /\ t = Append(s, e) => Longer(t, s, S, e)
<1> SUFFICES ASSUME NEW S, NEW s, NEW t, NEW e, s \in Seq(S), e \in S, t = Append(s, e)
             PROVE  Longer(t, s, S, e)
    OBVIOUS
<1>1. t \in Seq(S) BY AppendLemma
<1>2. \A i \in DOMAIN s : i \in DOMAIN t /\ t[i] = s[i] BY AppendLemma
<1>3. \A i \in DOMAIN t : i \in DOMAIN s \/ i = Len(s) + 1 BY AppendLemma
<1>4. t[Len(s) + 1] = e BY AppendLemma
<1> QED BY <1>1, <1>2, <1>3, <1>4 DEF Longer

\* What there is of a sequence whose head is taken away.
LEMMA TailLemma ==
    ASSUME NEW S, NEW s \in Seq(S), s # << >>
    PROVE  /\ Tail(s) \in Seq(S) /\ Head(s) = s[1]
           /\ 1 \in DOMAIN s /\ s[1] \in S
           /\ \A i \in DOMAIN Tail(s) : i + 1 \in DOMAIN s /\ i \in Nat \ {0} /\ Tail(s)[i] = s[i + 1]
           /\ \A i \in DOMAIN s : i # 1 => i - 1 \in DOMAIN Tail(s) /\ Tail(s)[i - 1] = s[i]
<1>1. Len(s) \in Nat \ {0} /\ DOMAIN s = 1..Len(s) BY EmptySeq, LenProperties
<1>2. /\ Tail(s) \in Seq(S) /\ Head(s) = s[1] /\ Len(Tail(s)) = Len(s) - 1
      /\ \A i \in 1..Len(Tail(s)) : Tail(s)[i] = s[i + 1]
    BY HeadTailProperties
<1>3. DOMAIN Tail(s) = 1..Len(Tail(s)) BY <1>2, LenProperties
<1>4. ASSUME NEW i \in DOMAIN s, i # 1 PROVE i - 1 \in DOMAIN Tail(s) /\ Tail(s)[i - 1] = s[i]
  <2>1. i - 1 \in 1..Len(Tail(s)) /\ i - 1 + 1 = i BY <1>1, <1>2, <1>4
  <2> QED BY <1>2, <1>3, <2>1
<1> QED BY <1>1, <1>2, <1>3, <1>4, ElementOfSeq

\* A set of natural numbers that has an upper bound has a greatest element.
LEMMA GreatestLemma ==
    ASSUME NEW n \in Nat, NEW S \in SUBSET (0..n), S # {}
    PROVE  \E i \in S : \A j \in S : j <= i
<1> DEFINE T == {n - i : i \in S}
<1>1. T \subseteq Nat /\ T # {}
  <2>1. T \subseteq Nat OBVIOUS
  <2>2. PICK i \in S : TRUE OBVIOUS
  <2>3. n - i \in T BY <2>2
  <2> QED BY <2>1, <2>3
<1>2. PICK x \in T : \A y \in T : ~(<<y, x>> \in OpToRel(<, Nat))
    BY ONLY <1>1, NatLessThanWellFounded, WFMin
<1>3. \A y \in T : ~(y < x) BY <1>1, <1>2 DEF OpToRel
<1>4. PICK i \in S : x = n - i OBVIOUS
<1>5. ASSUME NEW j \in S PROVE j <= i
  <2>1. ~(n - j < x) BY <1>3
  <2> QED BY <2>1, <1>4
<1> QED BY <1>5

\* The place of an element of a set in the order of a key.
Place(I, key, i) == Cardinality({j \in I : key[j] <= key[i]})

\* A key that tells the elements of a finite set apart numbers them from 1
\* without gaps, in the order of the key.
LEMMA PlaceLemma ==
    ASSUME NEW I, IsFiniteSet(I), NEW key, \A i \in I : key[i] \in Nat,
           \A i, j \in I : key[i] = key[j] => i = j
    PROVE  /\ Cardinality(I) \in Nat
           /\ \A i \in I : Place(I, key, i) \in 1..Cardinality(I)
           /\ \A k \in 1..Cardinality(I) : \E i \in I : Place(I, key, i) = k
           /\ \A i, j \in I : Place(I, key, i) = Place(I, key, j) => i = j
           /\ \A i, j \in I : Place(I, key, i) < Place(I, key, j) => key[i] < key[j]
<1> DEFINE n == Cardinality(I)
           Upto(i) == {j \in I : key[j] <= key[i]}
           f == [i \in I |-> Cardinality(Upto(i))]
<1>1. n \in Nat BY FS_CardinalityType
<1>2. ASSUME NEW i \in I PROVE IsFiniteSet(Upto(i)) /\ Cardinality(Upto(i)) \in 1..n
  <2>1. IsFiniteSet(Upto(i)) /\ Cardinality(Upto(i)) <= n BY Upto(i) \subseteq I, FS_Subset
  <2>2. i \in Upto(i) OBVIOUS
  <2> HIDE DEF Upto
  <2>3. Cardinality(Upto(i)) \in Nat /\ Cardinality(Upto(i)) # 0
      BY <2>1, <2>2, FS_CardinalityType, FS_EmptySet
  <2> QED BY <1>1, <2>1, <2>3
<1>3. ASSUME NEW i \in I, NEW j \in I, key[i] < key[j]
      PROVE  Cardinality(Upto(i)) < Cardinality(Upto(j))
  <2>1. Upto(i) \subseteq Upto(j)
    <3> SUFFICES ASSUME NEW x \in I, key[x] <= key[i] PROVE key[x] <= key[j] OBVIOUS
    <3> key[x] \in Nat /\ key[i] \in Nat /\ key[j] \in Nat OBVIOUS
    <3> QED BY <1>3
  <2>2. j \in Upto(j) /\ j \notin Upto(i) BY <1>3
  <2> HIDE DEF Upto
  <2>3. /\ Cardinality(Upto(i)) <= Cardinality(Upto(j))
        /\ Cardinality(Upto(i)) # Cardinality(Upto(j))
      BY <1>2, <2>1, <2>2, FS_Subset
  <2> QED BY <1>1, <1>2, <2>3
<1>4. f \in [I -> 1..n] BY <1>2
<1>5. \A i, j \in I : i # j => f[i] # f[j]
  <2> TAKE i, j \in I
  <2>1. key[i] < key[j] \/ key[j] < key[i] \/ i = j OBVIOUS
  <2> HIDE DEF Upto
  <2>2. i # j => Cardinality(Upto(i)) # Cardinality(Upto(j)) BY <1>1, <1>2, <1>3, <2>1
  <2> QED BY <2>2
<1>6. f \in Injection(I, 1..n) BY <1>4, <1>5 DEF Injection, IsInjective
<1>7. IsFiniteSet(1..n) /\ Cardinality(1..n) = n BY <1>1, FS_Interval
<1>8. f \in Surjection(I, 1..n)
  <2> HIDE DEF f
  <2> QED BY <1>6, <1>7, FS_Injection
<1>9. \A i \in I : f[i] = Cardinality(Upto(i)) OBVIOUS
<1> HIDE DEF f
<1>10. \A k \in 1..n : \E i \in I : Cardinality(Upto(i)) = k BY <1>8, <1>9 DEF Surjection
<1> HIDE DEF Upto
<1>11. \A i, j \in I : Cardinality(Upto(i)) = Cardinality(Upto(j)) => i = j BY <1>5, <1>9
<1>12. ASSUME NEW i \in I, NEW j \in I, Cardinality(Upto(i)) < Cardinality(Upto(j))
       PROVE  key[i] < key[j]
  <2>1. Cardinality(Upto(i)) \in Nat /\ Cardinality(Upto(j)) \in Nat BY <1>1, <1>2
  <2>2. ~(key[j] < key[i]) /\ i # j BY <1>3, <1>12, <2>1
  <2>3. key[i] \in Nat /\ key[j] \in Nat /\ key[i] # key[j] BY <2>2
  <2> QED BY <2>2, <2>3
<1> QED BY <1>1, <1>2, <1>10, <1>11, <1>12 DEF Place, Upto

\* m goes on where l ends.
Prefix(l, m) == Len(l) <= Len(m) /\ \A i \in 1..Len(l) : m[i] = l[i]

\* What there is of a sequence that another one is put after.
LEMMA ConcatLemma ==
    ASSUME NEW S, NEW s \in Seq(S), NEW n \in Seq(S), NEW t, t = s \o n
    PROVE  /\ t \in Seq(S) /\ Prefix(s, t)
           /\ DOMAIN s = 1..Len(s) /\ DOMAIN n = 1..Len(n) /\ DOMAIN t = 1..Len(t)
           /\ Len(s) \in Nat /\ Len(n) \in Nat /\ Len(t) = Len(s) + Len(n)
           /\ \A i \in DOMAIN s : i \in DOMAIN t /\ t[i] = s[i]
           /\ \A i \in DOMAIN n : Len(s) + i \in DOMAIN t /\ t[Len(s) + i] = n[i]
           /\ \A i \in DOMAIN t : i \in DOMAIN s \/ i - Len(s) \in DOMAIN n
<1>1. /\ DOMAIN s = 1..Len(s) /\ DOMAIN n = 1..Len(n)
      /\ Len(s) \in Nat /\ Len(n) \in Nat
    BY LenProperties
<1>2. /\ t \in Seq(S) /\ Len(t) = Len(s) + Len(n)
      /\ \A i \in 1..Len(s) + Len(n) : t[i] = IF i <= Len(s) THEN s[i] ELSE n[i - Len(s)]
    BY ConcatProperties
<1>3. DOMAIN t = 1..Len(t) BY <1>2, LenProperties
<1>4. \A i \in DOMAIN s : i \in DOMAIN t /\ t[i] = s[i] BY <1>1, <1>2, <1>3
<1>5. \A i \in DOMAIN n : Len(s) + i \in DOMAIN t /\ t[Len(s) + i] = n[i]
  <2>1. SUFFICES ASSUME NEW i \in 1..Len(n)
                 PROVE  Len(s) + i \in DOMAIN t /\ t[Len(s) + i] = n[i]
      BY <1>1
  <2>2. Len(s) + i \in 1..Len(s) + Len(n) /\ ~(Len(s) + i <= Len(s)) /\ Len(s) + i - Len(s) = i
      BY <1>1
  <2> QED BY <1>2, <1>3, <2>2
<1>6. \A i \in DOMAIN t : i \in DOMAIN s \/ i - Len(s) \in DOMAIN n BY <1>1, <1>2, <1>3
<1>7. Prefix(s, t) BY <1>1, <1>2, <1>4 DEF Prefix
<1> QED BY <1>1, <1>2, <1>3, <1>4, <1>5, <1>6, <1>7

\* The beginning of a sequence is a prefix of it, and of what it grows to.
LEMMA BeginningLemma ==
    ASSUME NEW S, NEW s \in Seq(S), NEW n \in 0..Len(s)
    PROVE  /\ SubSeq(s, 1, n) \in Seq(S) /\ Prefix(SubSeq(s, 1, n), s)
           /\ \A t \in Seq(S) : Prefix(s, t) => SubSeq(t, 1, n) = SubSeq(s, 1, n)
<1>1. Len(s) \in Nat /\ n \in Nat /\ \A i \in 1..n : s[i] \in S BY LenProperties, ElementOfSeq
<1>2. /\ SubSeq(s, 1, n) \in Seq(S) /\ Len(SubSeq(s, 1, n)) = n
      /\ \A i \in 1..n : SubSeq(s, 1, n)[i] = s[i]
  <2>1. /\ SubSeq(s, 1, n) \in Seq(S)
        /\ Len(SubSeq(s, 1, n)) = IF 1 <= n THEN n - 1 + 1 ELSE 0
        /\ \A i \in 1..n - 1 + 1 : SubSeq(s, 1, n)[i] = s[1 + i - 1]
      BY <1>1, SubSeqProperties
  <2> QED BY <1>1, <2>1
<1>3. ASSUME NEW t \in Seq(S), Prefix(s, t) PROVE SubSeq(t, 1, n) = SubSeq(s, 1, n)
  <2>1. Len(t) \in Nat /\ \A i \in 1..n : t[i] = s[i] /\ t[i] \in S BY <1>1, <1>3, LenProperties DEF Prefix
  <2>2. /\ SubSeq(t, 1, n) \in Seq(S)
        /\ Len(SubSeq(t, 1, n)) = IF 1 <= n THEN n - 1 + 1 ELSE 0
        /\ \A i \in 1..n - 1 + 1 : SubSeq(t, 1, n)[i] = t[1 + i - 1]
      BY <1>1, <2>1, SubSeqProperties
  <2>3. Len(SubSeq(t, 1, n)) = n /\ \A i \in 1..n : SubSeq(t, 1, n)[i] = s[i] BY <1>1, <2>1, <2>2
  <2> QED BY <1>2, <2>2, <2>3, SeqEqual
<1> QED BY <1>1, <1>2, <1>3 DEF Prefix
=============================================================================
