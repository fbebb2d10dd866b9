--------------------------- MODULE SequenceFacts ---------------------------
(***************************************************************************)
(* Facts about naturals, finite sets and sequences that the proofs about   *)
(* the adapter and about paging share: least and greatest elements, the    *)
(* set of a sequence, a sequence of a set.                                 *)
(***************************************************************************)
EXTENDS SequencesExt, FiniteSetTheorems, FunctionTheorems, SequenceTheorems, TLAPS

----------------------------------------------------------------------------
(* Least and greatest numbers.                                              *)

\* A set of naturals that is not empty has a least element.
LEMMA LeastNatural ==
    ASSUME NEW T, T \subseteq Nat, T # {}
    PROVE  \E m \in T : \A n \in T : m <= n
<1> DEFINE R == OpToRel(<, Nat)
<1>1. IsWellFoundedOn(R, Nat)
  BY NatLessThanWellFounded
<1>2. PICK m \in T : \A n \in T : ~(<<n, m>> \in R)
  <2> HIDE DEF R
  <2> QED
    BY <1>1, WFMin
<1>3. \A n \in T : ~(n < m)
  BY <1>2 DEF OpToRel
<1> QED
  BY <1>3

\* Min is that element.
LEMMA MinOf ==
    ASSUME NEW T, T \subseteq Nat, T # {}
    PROVE  Min(T) \in T /\ \A n \in T : Min(T) <= n
  BY LeastNatural DEF Min

\* Max is the greatest element of a set with a bound.
LEMMA MaxOf ==
    ASSUME NEW k \in Nat, NEW T, T \subseteq 1..k, T # {}
    PROVE  Max(T) \in T /\ \A n \in T : n <= Max(T)
<1> DEFINE D == {k - n : n \in T}
<1>1. D \subseteq Nat /\ D # {}
  <2>1. \A n \in T : n \in 1..k /\ k - n \in Nat
    OBVIOUS
  <2> QED
    BY <2>1
<1>2. PICK d \in D : \A e \in D : d <= e
  BY <1>1, LeastNatural
<1>3. PICK m \in T : d = k - m
  OBVIOUS
<1>4. \A n \in T : m >= n
  <2> SUFFICES ASSUME NEW n \in T
               PROVE  m >= n
    OBVIOUS
  <2>1. k - n \in D
    OBVIOUS
  <2>2. k - m <= k - n
    BY <1>2, <1>3, <2>1
  <2> QED
    BY <2>2
<1>5. Max(T) \in T /\ \A n \in T : Max(T) >= n
  BY <1>4 DEF Max
<1> QED
  BY <1>5

----------------------------------------------------------------------------
(* Sequences and sets.                                                      *)

\* A sequence of one element.
LEMMA SeqOfOne ==
    ASSUME NEW S, NEW x \in S
    PROVE  <<x>> \in Seq(S) /\ Len(<<x>>) = 1 /\ <<x>>[1] = x
  OBVIOUS

\* A sequence over a set is one over a larger set.
LEMMA SeqWider ==
    ASSUME NEW S, NEW T, S \subseteq T, NEW s \in Seq(S)
    PROVE  s \in Seq(T)
  OBVIOUS

\* The elements of a sequence over S.
LEMMA ToSetOf ==
    ASSUME NEW S, NEW s \in Seq(S)
    PROVE  /\ ToSet(s) \subseteq S
           /\ DOMAIN s = 1..Len(s) /\ Len(s) \in Nat
           /\ \A i \in DOMAIN s : s[i] \in S /\ s[i] \in ToSet(s)
           /\ \A x \in ToSet(s) : \E i \in DOMAIN s : x = s[i]
  BY DEF ToSet

\* They are finitely many.
LEMMA ToSetFinite ==
    ASSUME NEW S, NEW s \in Seq(S)
    PROVE  IsFiniteSet(ToSet(s))
<1>1. Len(s) \in Nat /\ s \in [1..Len(s) -> ToSet(s)]
  BY DEF ToSet
<1>2. \A x \in ToSet(s) : \E i \in 1..Len(s) : s[i] = x
  BY DEF ToSet
<1>3. s \in Surjection(1..Len(s), ToSet(s))
  BY <1>1, <1>2, Fun_IsSurj
<1>4. IsFiniteSet(1..Len(s))
  BY <1>1, FS_Interval
<1> QED
  BY <1>3, <1>4, FS_Surjection

\* The values a function has on a finite set are finitely many.
LEMMA ImageFinite ==
    ASSUME NEW S, IsFiniteSet(S), NEW f, DOMAIN f = S
    PROVE  IsFiniteSet({f[x] : x \in S})
<1> DEFINE T == {f[x] : x \in S}
           g == [x \in S |-> f[x]]
<1>1. g \in [S -> T] /\ \A y \in T : \E x \in S : g[x] = y
  OBVIOUS
<1>2. g \in Surjection(S, T)
  BY <1>1, Fun_IsSurj
<1> QED
  BY <1>2, FS_Surjection

\* What is in a concatenation.
LEMMA ToSetConcat ==
    ASSUME NEW S, NEW s \in Seq(S), NEW t \in Seq(S)
    PROVE  ToSet(s \o t) = ToSet(s) \cup ToSet(t)
<1>1. /\ s \o t \in Seq(S) /\ Len(s \o t) = Len(s) + Len(t)
      /\ \A i \in 1..(Len(s) + Len(t)) :
            (s \o t)[i] = IF i <= Len(s) THEN s[i] ELSE t[i - Len(s)]
  BY ConcatProperties
<1>2. ToSet(s \o t) \subseteq ToSet(s) \cup ToSet(t)
  <2> SUFFICES ASSUME NEW i \in 1..(Len(s) + Len(t))
               PROVE  (s \o t)[i] \in ToSet(s) \cup ToSet(t)
    BY <1>1 DEF ToSet
  <2>1. CASE i <= Len(s)
    BY <1>1, <2>1 DEF ToSet
  <2>2. CASE i > Len(s)
    <3>1. i - Len(s) \in 1..Len(t)
      BY <2>2, ToSetOf
    <3> QED
      BY <1>1, <2>2, <3>1 DEF ToSet
  <2> QED
    BY <2>1, <2>2
<1>3. ToSet(s) \subseteq ToSet(s \o t)
  <2> SUFFICES ASSUME NEW i \in 1..Len(s)
               PROVE  s[i] \in ToSet(s \o t)
    BY DEF ToSet
  <2>1. i \in 1..(Len(s) + Len(t)) /\ (s \o t)[i] = s[i]
    BY <1>1
  <2> QED
    BY <1>1, <2>1 DEF ToSet
<1>4. ToSet(t) \subseteq ToSet(s \o t)
  <2> SUFFICES ASSUME NEW i \in 1..Len(t)
               PROVE  t[i] \in ToSet(s \o t)
    BY DEF ToSet
  <2>1. Len(s) + i \in 1..(Len(s) + Len(t)) /\ (s \o t)[Len(s) + i] = t[i]
    BY <1>1
  <2>2. Len(s) + i \in DOMAIN (s \o t)
    BY <1>1, <2>1
  <2>3. (s \o t)[Len(s) + i] \in ToSet(s \o t)
    BY <2>2 DEF ToSet
  <2> QED
    BY <2>1, <2>3
<1> QED
  BY <1>2, <1>3, <1>4

\* SetToSeq puts a finite set in some order.
LEMMA SetToSeqOf ==
    ASSUME NEW S, IsFiniteSet(S)
    PROVE  /\ SetToSeq(S) \in Seq(S)
           /\ ToSet(SetToSeq(S)) = S
           /\ \A i, j \in DOMAIN SetToSeq(S) : SetToSeq(S)[i] = SetToSeq(S)[j] => i = j
<1> DEFINE N == Cardinality(S)
           s == SetToSeq(S)
<1>1. N \in Nat /\ \E f : f \in Bijection(1..N, S)
  BY FS_CardinalityType DEF ExistsBijection
<1>2. \E f \in [1..N -> S] : IsInjective(f)
  BY <1>1 DEF Bijection, Injection, IsInjective
<1>3. s \in [1..N -> S] /\ IsInjective(s)
  BY <1>2 DEF SetToSeq
<1>4. s \in Injection(1..N, S)
  BY <1>3 DEF Injection, IsInjective
<1>5. Cardinality(1..N) = N
  BY <1>1, FS_Interval
<1>6. s \in Surjection(1..N, S)
  BY <1>1, <1>4, <1>5, FS_Injection
<1>7. ToSet(s) = S
  BY <1>3, <1>6 DEF ToSet, Surjection
<1> QED
  BY <1>1, <1>3, <1>7 DEF IsInjective

\* What lies between two places of a sequence, and what it holds.
LEMMA SliceOf ==
    ASSUME NEW S, NEW s \in Seq(S), NEW a \in Nat, NEW b \in Nat, b <= Len(s)
    PROVE  /\ SubSeq(s, a + 1, b) \in Seq(S)
           /\ Len(SubSeq(s, a + 1, b)) = IF a < b THEN b - a ELSE 0
           /\ \A i \in 1..(b - a) : SubSeq(s, a + 1, b)[i] = s[a + i]
<1>1. Len(s) \in Nat /\ \A i \in (a + 1)..b : i \in 1..Len(s)
  OBVIOUS
<1>2. \A i \in (a + 1)..b : s[i] \in S
  BY <1>1
<1>3. /\ SubSeq(s, a + 1, b) \in Seq(S)
      /\ Len(SubSeq(s, a + 1, b)) = IF a + 1 <= b THEN b - (a + 1) + 1 ELSE 0
      /\ \A i \in 1..(b - (a + 1) + 1) : SubSeq(s, a + 1, b)[i] = s[(a + 1) + i - 1]
  BY <1>2, SubSeqProperties
<1>4. b - (a + 1) + 1 = b - a
  OBVIOUS
<1>5. \A i \in 1..(b - a) : (a + 1) + i - 1 = a + i
  OBVIOUS
<1> QED
  BY <1>3, <1>4, <1>5

\* A beginning and what follows it make a longer beginning.
LEMMA BeginningGrows ==
    ASSUME NEW S, NEW s \in Seq(S), NEW a \in Nat, NEW b \in Nat, a <= b, b <= Len(s)
    PROVE  SubSeq(s, 1, a) \o SubSeq(s, a + 1, b) = SubSeq(s, 1, b)
<1> DEFINE front == SubSeq(s, 1, a)
           next == SubSeq(s, a + 1, b)
           all == SubSeq(s, 1, b)
<1>1. /\ front \in Seq(S) /\ Len(front) = a /\ \A i \in 1..a : front[i] = s[i]
      /\ all \in Seq(S) /\ Len(all) = b /\ \A i \in 1..b : all[i] = s[i]
  <2>1. Len(s) \in Nat /\ \A i \in 1..b : s[i] \in S
    OBVIOUS
  <2>2. \A i \in 1..a : s[i] \in S
    BY <2>1
  <2>3. /\ front \in Seq(S) /\ Len(front) = (IF 1 <= a THEN a - 1 + 1 ELSE 0)
        /\ \A i \in 1..(a - 1 + 1) : front[i] = s[1 + i - 1]
    BY <2>2, SubSeqProperties
  <2>4. /\ all \in Seq(S) /\ Len(all) = (IF 1 <= b THEN b - 1 + 1 ELSE 0)
        /\ \A i \in 1..(b - 1 + 1) : all[i] = s[1 + i - 1]
    BY <2>1, SubSeqProperties
  <2>5. a - 1 + 1 = a /\ b - 1 + 1 = b /\ \A i \in Int : 1 + i - 1 = i
    OBVIOUS
  <2> HIDE DEF front, all
  <2> QED
    BY <2>3, <2>4, <2>5
<1>2. next \in Seq(S) /\ Len(next) = b - a /\ \A i \in 1..(b - a) : next[i] = s[a + i]
  BY SliceOf
<1> HIDE DEF front, next, all
<1>3. /\ front \o next \in Seq(S) /\ Len(front \o next) = b
      /\ \A i \in 1..b : (front \o next)[i] = IF i <= a THEN front[i] ELSE next[i - a]
  <2>1. /\ front \o next \in Seq(S) /\ Len(front \o next) = Len(front) + Len(next)
        /\ \A i \in 1..(Len(front) + Len(next)) :
              (front \o next)[i] = IF i <= Len(front) THEN front[i] ELSE next[i - Len(front)]
    <3>1. front \in Seq(S) /\ next \in Seq(S)
      BY <1>1, <1>2
    <3> QED
      BY <3>1, ConcatProperties
  <2>2. Len(front) = a /\ Len(front) + Len(next) = b
    BY <1>1, <1>2
  <2> QED
    BY <2>1, <2>2
<1>4. Len(front \o next) = Len(all)
  BY <1>1, <1>3
<1>5. ASSUME NEW i \in 1..b
      PROVE  (front \o next)[i] = all[i]
  <2>1. (front \o next)[i] = IF i <= a THEN front[i] ELSE next[i - a]
    BY <1>3
  <2>2. CASE i <= a
    BY <1>1, <2>1, <2>2
  <2>3. CASE i > a
    <3>1. i - a \in 1..(b - a) /\ a + (i - a) = i /\ ~(i <= a)
      BY <2>3
    <3>2. next[i - a] = s[a + (i - a)]
      BY <1>2, <3>1
    <3>3. (front \o next)[i] = next[i - a] /\ all[i] = s[i]
      BY <1>1, <2>1, <3>1
    <3> QED
      BY <3>1, <3>2, <3>3
  <2>4. a \in Int /\ i \in Int /\ (i <= a \/ i > a)
    OBVIOUS
  <2> QED
    BY <2>2, <2>3, <2>4
<1>6. front \o next = all
  BY <1>1, <1>3, <1>4, <1>5, SeqEqual
<1> QED
  BY <1>6 DEF front, next, all

\* The longest beginning is all of it.
LEMMA BeginningWhole ==
    ASSUME NEW S, NEW s \in Seq(S)
    PROVE  SubSeq(s, 1, Len(s)) = s
<1> DEFINE all == SubSeq(s, 1, Len(s))
<1>1. Len(s) \in Nat /\ \A i \in 1..Len(s) : s[i] \in S
  OBVIOUS
<1>2. /\ all \in Seq(S) /\ Len(all) = (IF 1 <= Len(s) THEN Len(s) - 1 + 1 ELSE 0)
      /\ \A i \in 1..(Len(s) - 1 + 1) : all[i] = s[1 + i - 1]
  BY <1>1, SubSeqProperties
<1> HIDE DEF all
<1>3. Len(all) = Len(s) /\ \A i \in 1..Len(s) : all[i] = s[i]
  BY <1>1, <1>2
<1>4. all = s
  BY <1>2, <1>3, SeqEqual
<1> QED
  BY <1>4 DEF all

----------------------------------------------------------------------------
(* Counting.                                                                *)

\* Two sets apart from one another are together no more than two that cover them.
LEMMA ApartCount ==
    ASSUME NEW X, NEW T, NEW Y, NEW Z, IsFiniteSet(Y), IsFiniteSet(Z),
           X \subseteq Y \cup Z, T \subseteq Y \cup Z, X \cap T = {}
    PROVE  /\ IsFiniteSet(X) /\ IsFiniteSet(T)
           /\ Cardinality(X) \in Nat /\ Cardinality(T) \in Nat
           /\ Cardinality(Y) \in Nat /\ Cardinality(Z) \in Nat
           /\ Cardinality(X) + Cardinality(T) <= Cardinality(Y) + Cardinality(Z)
<1>1. /\ IsFiniteSet(Y \cup Z) /\ IsFiniteSet(Y \cap Z)
      /\ Cardinality(Y \cup Z) = Cardinality(Y) + Cardinality(Z) - Cardinality(Y \cap Z)
  <2>1. Y \cap Z \in SUBSET Y
    OBVIOUS
  <2> QED
    BY <2>1, FS_Union, FS_Subset
<1>2. IsFiniteSet(X) /\ IsFiniteSet(T)
  BY <1>1, FS_Subset
<1>3. /\ IsFiniteSet(X \cup T)
      /\ Cardinality(X \cup T) = Cardinality(X) + Cardinality(T) - Cardinality(X \cap T)
  BY <1>2, FS_Union
<1>4. Cardinality(X \cap T) = 0
  BY FS_EmptySet
<1>5. Cardinality(X \cup T) <= Cardinality(Y \cup Z)
  <2>1. X \cup T \in SUBSET (Y \cup Z)
    OBVIOUS
  <2> QED
    BY <1>1, <2>1, FS_Subset
<1>6. /\ Cardinality(X) \in Nat /\ Cardinality(T) \in Nat /\ Cardinality(Y) \in Nat
      /\ Cardinality(Z) \in Nat /\ Cardinality(Y \cap Z) \in Nat
      /\ Cardinality(X \cup T) \in Nat /\ Cardinality(Y \cup Z) \in Nat
  BY <1>1, <1>2, <1>3, FS_CardinalityType
<1> QED
  BY <1>1, <1>2, <1>3, <1>4, <1>5, <1>6

\* A set is no more than two that cover it.
LEMMA CoverCount ==
    ASSUME NEW X, NEW Y, NEW Z, IsFiniteSet(Y), IsFiniteSet(Z), X \subseteq Y \cup Z
    PROVE  /\ IsFiniteSet(X) /\ Cardinality(X) \in Nat
           /\ Cardinality(Y) \in Nat /\ Cardinality(Z) \in Nat
           /\ Cardinality(X) <= Cardinality(Y) + Cardinality(Z)
<1>1. X \cap {} = {} /\ {} \subseteq Y \cup Z
  OBVIOUS
<1>2. Cardinality({}) = 0
  BY FS_EmptySet
<1>3. /\ IsFiniteSet(X) /\ Cardinality(X) \in Nat
      /\ Cardinality(Y) \in Nat /\ Cardinality(Z) \in Nat
      /\ Cardinality(X) + Cardinality({}) <= Cardinality(Y) + Cardinality(Z)
  BY <1>1, ApartCount
<1> QED
  BY <1>2, <1>3

\* What an injection maps is no more than what it maps to.
LEMMA InjectionCount ==
    ASSUME NEW X, NEW Y, IsFiniteSet(Y), NEW f \in [X -> Y],
           \A x, y \in X : f[x] = f[y] => x = y
    PROVE  /\ IsFiniteSet(X) /\ Cardinality(X) \in Nat /\ Cardinality(Y) \in Nat
           /\ Cardinality(X) <= Cardinality(Y)
<1>1. f \in Injection(X, Y)
  BY Fun_IsInj
<1> QED
  BY <1>1, FS_Injection, FS_CardinalityType
=============================================================================
