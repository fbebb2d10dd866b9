---------------------------- MODULE PagingProofs ----------------------------
(***************************************************************************)
(* Proofs about Paging for every list, every limit and every size of a     *)
(* page of Playerok, however often the list changes: the types, that a     *)
(* quiet list is read exactly, that arrivals alone hide nothing, and that  *)
(* no more is delivered twice, or missed, than the list has changed.       *)
(***************************************************************************)
EXTENDS Paging, SequenceFacts

----------------------------------------------------------------------------
(* The inductive invariant.                                                 *)

\* Entries are told apart by their times; none is later than now, and every change has
\* taken one.
Clocked ==
    /\ gone <= Changes
    /\ \A e \in Entries : at[e] <= now
    /\ \A e, f \in Present : at[e] = at[f] => e = f

\* So are what a request has loaded, all of it later than what is still to load: an
\* entry that moves or comes back meanwhile is later too.
Apart(loadings) ==
    \A l, m \in loadings : l.entry = m.entry \/ l.at = m.at => l = m

Gathered ==
    /\ IsFiniteSet(loaded) /\ Apart(loaded)
    /\ state # "loads" => loaded = {}
    /\ state = "loads" => LimitAccepted(limit)
    /\ loaded = {} \/ after <= now
    /\ \A l \in loaded :
          l.at >= after /\ (at[l.entry] # 0 => at[l.entry] >= after)

\* While nothing changes the caller has a beginning of the list it began with, and a
\* request has loaded a beginning of that.
Quiet ==
    moved = {} /\ gone = 0 =>
        /\ base = Sorted(Filtered(Snapshot))
        /\ state = "loads" => loaded = {l \in Snapshot : l.at >= after}
        /\ state \in {"asks", "loads"} =>
              cursor <= Len(base) /\ got = SubSeq(base, 1, cursor)
        /\ state = "done" => got = base

Inv == TypeOK /\ Clocked /\ Gathered /\ Quiet

\* The list that the running request will cut its page out of, or the next one would.
View == Filtered(IF state = "loads" THEN loaded \cup Older ELSE Snapshot)

\* Nothing has left the list, and conversations fit in one page of Playerok.
Steady == gone = 0 /\ (list = "conversations" => Cardinality(Present) <= PlatformPage)

\* What has been loaded still shows as it did.
LoadedStays ==
    \A l \in loaded : at[l.entry] = l.at /\ (l.passes => l.entry \in passes)

\* What the caller has not got yet is not before its cursor.
Ahead ==
    \A e \in Entries : IsIn(e, base) /\ e \notin moved /\ ~IsIn(e, got) =>
        \E l \in View : l.entry = e /\ Rank(View, l) >= cursor

Kept ==
    Steady =>
        /\ list = "conversations" /\ state = "loads" => loaded = {} /\ after = MaxTime + 1
        /\ list # "conversations" => LoadedStays
        /\ state \in {"asks", "loads"} => Ahead
        /\ NothingOvertaken

----------------------------------------------------------------------------
(* Sorting.                                                                 *)

\* Loadings that are told apart, in finite number.
IsLoading(loadings) ==
    loadings \subseteq Loadings /\ IsFiniteSet(loadings) /\ Apart(loadings)

\* What comes before l, among loadings.
BeforeIn(loadings, l) == {m \in loadings : Before(m, l)}

\* A loading has an entry and a time.
LEMMA LoadingParts ==
    ASSUME NEW l \in Loadings
    PROVE  l.entry \in Entries /\ l.entry \in Nat /\ l.at \in 1..MaxTime /\ l.at \in Nat
           /\ l.passes \in BOOLEAN /\ l = [entry |-> l.entry, at |-> l.at, passes |-> l.passes]
<1>1. PICK e \in Entries, t \in 1..MaxTime, b \in BOOLEAN : l = [entry |-> e, at |-> t, passes |-> b]
  BY DEF Loadings
<1>2. l.entry = e /\ l.at = t /\ l.passes = b
  BY <1>1
<1>3. e \in Nat /\ t \in Nat
  BY EntriesAssumption, BoundsAssumption
<1> QED
  BY <1>1, <1>2, <1>3

\* Some of them are loadings too.
LEMMA FewerLoadings ==
    ASSUME NEW L, IsLoading(L), NEW M, M \subseteq L
    PROVE  IsLoading(M)
  BY FS_Subset DEF IsLoading, Apart

\* Such a list has one order.
LEMMA BeforeOrders ==
    ASSUME NEW L, IsLoading(L), NEW l \in L, NEW m \in L
    PROVE  /\ ~Before(l, l)
           /\ l # m => Before(l, m) \/ Before(m, l)
           /\ \A k \in L : Before(k, l) /\ Before(l, m) => Before(k, m)
<1>1. /\ l \in Loadings /\ m \in Loadings /\ \A k \in L : k \in Loadings
      /\ l.entry = m.entry \/ l.at = m.at => l = m
  BY DEF IsLoading, Apart
<1>2. /\ l.entry \in Nat /\ l.at \in Nat /\ m.entry \in Nat /\ m.at \in Nat
      /\ \A k \in L : k.entry \in Nat /\ k.at \in Nat
  BY <1>1, LoadingParts
<1>3. CASE list = "products"
  BY <1>1, <1>2, <1>3 DEF Before
<1>4. CASE list # "products"
  BY <1>1, <1>2, <1>4 DEF Before
<1> QED
  BY <1>3, <1>4

\* Ranks count from none to all but one, and differ.
LEMMA RankOf ==
    ASSUME NEW L, IsLoading(L)
    PROVE  /\ Cardinality(L) \in Nat
           /\ \A l \in L : Rank(L, l) \in Nat /\ Rank(L, l) < Cardinality(L)
           /\ \A l, m \in L : Before(l, m) => Rank(L, l) < Rank(L, m)
           /\ \A l, m \in L : Rank(L, l) = Rank(L, m) => l = m
<1>1. IsFiniteSet(L) /\ Cardinality(L) \in Nat
  BY FS_CardinalityType DEF IsLoading
<1>2. ASSUME NEW l \in L
      PROVE  /\ Rank(L, l) = Cardinality(BeforeIn(L, l)) /\ IsFiniteSet(BeforeIn(L, l))
             /\ Rank(L, l) \in Nat /\ Rank(L, l) < Cardinality(L)
  <2>1. BeforeIn(L, l) \in SUBSET L /\ l \notin BeforeIn(L, l)
    BY BeforeOrders DEF BeforeIn
  <2>2. /\ IsFiniteSet(BeforeIn(L, l)) /\ Cardinality(BeforeIn(L, l)) \in Nat
        /\ Cardinality(BeforeIn(L, l)) <= Cardinality(L)
        /\ Cardinality(L) = Cardinality(BeforeIn(L, l)) => L = BeforeIn(L, l)
    BY <1>1, <2>1, FS_Subset, FS_CardinalityType
  <2>3. Rank(L, l) = Cardinality(BeforeIn(L, l))
    BY DEF Rank, BeforeIn
  <2> QED
    BY <1>1, <2>1, <2>2, <2>3
<1>3. ASSUME NEW l \in L, NEW m \in L, Before(l, m)
      PROVE  Rank(L, l) < Rank(L, m)
  <2>1. /\ BeforeIn(L, l) \in SUBSET BeforeIn(L, m)
        /\ l \in BeforeIn(L, m) /\ l \notin BeforeIn(L, l)
    BY <1>3, BeforeOrders DEF BeforeIn
  <2>2. /\ Cardinality(BeforeIn(L, l)) <= Cardinality(BeforeIn(L, m))
        /\ Cardinality(BeforeIn(L, m)) = Cardinality(BeforeIn(L, l)) =>
              BeforeIn(L, m) = BeforeIn(L, l)
    BY <1>2, <2>1, FS_Subset
  <2> QED
    BY <1>2, <2>1, <2>2
<1>4. ASSUME NEW l \in L, NEW m \in L, Rank(L, l) = Rank(L, m), l # m
      PROVE  FALSE
  <2>1. Before(l, m) \/ Before(m, l)
    BY <1>4, BeforeOrders
  <2> QED
    BY <1>2, <1>3, <1>4, <2>1
<1> QED
  BY <1>1, <1>2, <1>3, <1>4

\* Every rank up to the number of loadings is taken.
LEMMA RankTaken ==
    ASSUME NEW L, IsLoading(L), NEW i \in 1..Cardinality(L)
    PROVE  \E l \in L : Rank(L, l) = i - 1
<1> DEFINE n == Cardinality(L)
           f == [l \in L |-> Rank(L, l) + 1]
<1>1. IsFiniteSet(L) /\ n \in Nat
  BY RankOf DEF IsLoading
<1>2. f \in [L -> 1..n] /\ \A l, m \in L : f[l] = f[m] => l = m
  BY <1>1, RankOf
<1>3. f \in Injection(L, 1..n)
  BY <1>2, Fun_IsInj
<1>4. IsFiniteSet(1..n) /\ Cardinality(1..n) = n
  BY <1>1, FS_Interval
<1>5. f \in Surjection(L, 1..n)
  BY <1>3, <1>4, FS_Injection
<1>6. PICK l \in L : f[l] = i
  BY <1>5 DEF Surjection
<1>7. Rank(L, l) + 1 = i /\ Rank(L, l) \in Nat
  BY <1>6, RankOf
<1> QED
  BY <1>7

\* The sorted list has each of them once, at its rank.
LEMMA SortedOf ==
    ASSUME NEW L, IsLoading(L)
    PROVE  /\ Sorted(L) \in Seq(Entries) /\ Len(Sorted(L)) = Cardinality(L)
           /\ Cardinality(L) \in Nat
           /\ \A l \in L : /\ Rank(L, l) \in Nat /\ Rank(L, l) + 1 \in 1..Cardinality(L)
                           /\ Sorted(L)[Rank(L, l) + 1] = l.entry
           /\ \A i \in 1..Cardinality(L) : \E l \in L : Sorted(L)[i] = l.entry
<1>0. Cardinality(L) \in Nat
  BY RankOf
<1> DEFINE At(i) == CHOOSE l \in L : Rank(L, l) = i - 1
<1>1. ASSUME NEW i \in 1..Cardinality(L)
      PROVE  At(i) \in L /\ Rank(L, At(i)) = i - 1
  BY RankTaken
<1>2. Sorted(L) = [i \in 1..Cardinality(L) |-> At(i).entry]
  BY DEF Sorted
<1>3. \A i \in 1..Cardinality(L) : At(i) \in L /\ At(i).entry \in Entries
  BY <1>1, LoadingParts DEF IsLoading
<1>4. ASSUME NEW l \in L
      PROVE  Rank(L, l) \in Nat /\ Rank(L, l) + 1 \in 1..Cardinality(L) /\ At(Rank(L, l) + 1) = l
  <2>1. Rank(L, l) \in Nat /\ Rank(L, l) + 1 \in 1..Cardinality(L)
    BY <1>0, RankOf
  <2>2. Rank(L, At(Rank(L, l) + 1)) = Rank(L, l) /\ At(Rank(L, l) + 1) \in L
    BY <1>1, <2>1
  <2> QED
    BY <2>1, <2>2, RankOf
<1> HIDE DEF At
<1>5. Sorted(L) \in [1..Cardinality(L) -> Entries]
  BY <1>2, <1>3
<1>6. Sorted(L) \in Seq(Entries) /\ Len(Sorted(L)) = Cardinality(L)
  BY <1>0, <1>5
<1> QED
  BY <1>0, <1>2, <1>3, <1>4, <1>6

\* In a set of loadings where each has another of its entry, not earlier in the list,
\* nothing comes to a lower rank.
LEMMA RankGrows ==
    ASSUME NEW V, NEW W, IsLoading(V), IsLoading(W), NEW l \in V, NEW m \in W,
           \A k \in V : Before(k, l) => \E j \in W : j.entry = k.entry /\ Before(j, m)
    PROVE  Rank(V, l) <= Rank(W, m)
<1> DEFINE A == BeforeIn(V, l)
           B == BeforeIn(W, m)
           f == [k \in A |-> CHOOSE j \in B : j.entry = k.entry]
<1>1. A \subseteq V /\ B \subseteq W /\ IsLoading(A) /\ IsLoading(B)
  BY FewerLoadings DEF BeforeIn
<1>2. \A k \in A : f[k] \in B /\ f[k].entry = k.entry
  <2> SUFFICES ASSUME NEW k \in A
               PROVE  f[k] \in B /\ f[k].entry = k.entry
    OBVIOUS
  <2>1. \E j \in B : j.entry = k.entry
    BY DEF BeforeIn
  <2>2. f[k] = CHOOSE j \in B : j.entry = k.entry
    OBVIOUS
  <2> HIDE DEF f
  <2> QED
    BY <2>1, <2>2
<1>3. DOMAIN f = A /\ f \in [A -> B]
  BY <1>2
<1> HIDE DEF f, A, B
<1>4. \A j, k \in A : f[j] = f[k] => j = k
  <2> SUFFICES ASSUME NEW j \in A, NEW k \in A, f[j] = f[k]
               PROVE  j = k
    OBVIOUS
  <2>1. j.entry = k.entry
    BY <1>2
  <2> QED
    BY <1>1, <2>1 DEF IsLoading, Apart
<1>5. f \in Injection(A, B)
  BY <1>3, <1>4, Fun_IsInj
<1>6. Cardinality(A) <= Cardinality(B)
  BY <1>1, <1>5, FS_Injection DEF IsLoading
<1> QED
  BY <1>6 DEF Rank, BeforeIn, A, B

\* Nor in a larger set.
LEMMA RankWider ==
    ASSUME NEW V, NEW W, V \subseteq W, IsLoading(W), NEW l \in V
    PROVE  Rank(V, l) <= Rank(W, l)
<1>1. IsLoading(V) /\ l \in W
  BY FewerLoadings
<1>2. \A k \in V : Before(k, l) => \E j \in W : j.entry = k.entry /\ Before(j, l)
  OBVIOUS
<1> QED
  BY <1>1, <1>2, RankGrows

----------------------------------------------------------------------------
(* What Playerok shows.                                                     *)

\* The list at times t, when the entries of p pass the filter.
Shown(t, p) ==
    {[entry |-> e, at |-> t[e], passes |-> e \in p] : e \in {e \in Entries : t[e] # 0}}

\* Different entries have different times.
TimesDiffer(t) == \A e, f \in Entries : t[e] # 0 /\ t[e] = t[f] => e = f

\* A snapshot is what shows now.
LEMMA SnapshotShown == Snapshot = Shown(at, passes)
  BY DEF Snapshot, Shown, Present

\* Every entry that is there shows once, as it is.
LEMMA ShownParts ==
    ASSUME NEW t, NEW p
    PROVE  /\ \A l \in Shown(t, p) :
                 l.entry \in Entries /\ l.at = t[l.entry] /\ l.at # 0 /\ l.passes = (l.entry \in p)
           /\ \A e \in Entries : t[e] # 0 =>
                 [entry |-> e, at |-> t[e], passes |-> e \in p] \in Shown(t, p)
           /\ \A l, m \in Shown(t, p) : l.entry = m.entry => l = m
<1> DEFINE Of(e) == [entry |-> e, at |-> t[e], passes |-> e \in p]
<1>1. \A e : Of(e).entry = e /\ Of(e).at = t[e] /\ Of(e).passes = (e \in p)
  OBVIOUS
<1>2. Shown(t, p) = {Of(e) : e \in {e \in Entries : t[e] # 0}}
  BY DEF Shown
<1> HIDE DEF Of
<1>3. \A l \in Shown(t, p) : l.entry \in Entries /\ t[l.entry] # 0 /\ l = Of(l.entry)
  BY <1>1, <1>2
<1>4. \A e \in Entries : t[e] # 0 => Of(e) \in Shown(t, p)
  BY <1>2
<1>5. \A l, m \in Shown(t, p) : l.entry = m.entry => l = m
  BY <1>3
<1>6. \A l \in Shown(t, p) : l.at = t[l.entry] /\ l.passes = (l.entry \in p)
  BY <1>1, <1>3
<1> QED
  BY <1>3, <1>4, <1>5, <1>6 DEF Of

\* What shows is told apart.
LEMMA ShownLoads ==
    ASSUME NEW t \in [Entries -> 0..MaxTime], NEW p \in SUBSET Entries, TimesDiffer(t)
    PROVE  IsLoading(Shown(t, p))
<1> DEFINE There == {e \in Entries : t[e] # 0}
           f == [e \in There |-> [entry |-> e, at |-> t[e], passes |-> e \in p]]
<1>1. IsFiniteSet(There) /\ DOMAIN f = There
  BY EntriesAssumption, FS_Subset
<1>2. Shown(t, p) = {f[e] : e \in There}
  BY DEF Shown
<1>3. IsFiniteSet(Shown(t, p))
  <2> HIDE DEF f, There
  <2> QED
    BY <1>1, <1>2, ImageFinite
<1>4. Shown(t, p) \subseteq Loadings
  <2>1. ASSUME NEW e \in There
        PROVE  [entry |-> e, at |-> t[e], passes |-> e \in p] \in Loadings
    <3>1. e \in Entries /\ t[e] \in 1..MaxTime
      BY BoundsAssumption
    <3> QED
      BY <3>1 DEF Loadings
  <2> QED
    BY <2>1 DEF Shown
<1>5. Apart(Shown(t, p))
  <2> SUFFICES ASSUME NEW l \in Shown(t, p), NEW m \in Shown(t, p), l.entry = m.entry \/ l.at = m.at
               PROVE  l = m
    BY DEF Apart
  <2>1. l.entry \in Entries /\ m.entry \in Entries /\ l.at = t[l.entry] /\ l.at # 0 /\ m.at = t[m.entry]
    BY ShownParts
  <2>2. l.entry = m.entry
    BY <2>1 DEF TimesDiffer
  <2> QED
    BY <2>2, ShownParts
<1> QED
  BY <1>3, <1>4, <1>5 DEF IsLoading

\* There are as many as entries.
LEMMA ShownCount ==
    ASSUME NEW t, NEW p, NEW V, IsLoading(V), V \subseteq Shown(t, p)
    PROVE  Cardinality(V) <= Cardinality({e \in Entries : t[e] # 0})
<1> DEFINE There == {e \in Entries : t[e] # 0}
           f == [l \in V |-> l.entry]
<1>1. f \in [V -> There] /\ \A l, m \in V : f[l] = f[m] => l = m
  BY ShownParts
<1>2. IsFiniteSet(There)
  BY EntriesAssumption, FS_Subset
<1>3. f \in Injection(V, There)
  BY <1>1, Fun_IsInj
<1> HIDE DEF f, There
<1>4. Cardinality(V) <= Cardinality(There)
  BY <1>2, <1>3, FS_Injection DEF IsLoading
<1> QED
  BY <1>4 DEF There

\* What shows at the times of a state: told apart, and no later than now.
LEMMA SnapshotOf ==
    ASSUME TypeOK, Clocked
    PROVE  /\ IsLoading(Snapshot) /\ Snapshot = Shown(at, passes)
           /\ \A l \in Snapshot : l.entry \in Entries /\ l.at \in 1..MaxTime /\ l.at <= now
                                  /\ l.at = at[l.entry] /\ l.passes = (l.entry \in passes)
           /\ \A e \in Entries : at[e] # 0 =>
                 [entry |-> e, at |-> at[e], passes |-> e \in passes] \in Snapshot
           /\ \A l, m \in Snapshot : l.entry = m.entry => l = m
<1>1. at \in [Entries -> 0..MaxTime] /\ passes \in SUBSET Entries /\ TimesDiffer(at)
  BY DEF TypeOK, Clocked, TimesDiffer, Present
<1>2. IsLoading(Snapshot) /\ Snapshot = Shown(at, passes)
  BY <1>1, ShownLoads, SnapshotShown
<1>3. \A l \in Snapshot : l.entry \in Entries /\ l.at \in 1..MaxTime
  BY <1>2, LoadingParts DEF IsLoading
<1> QED
  BY <1>2, <1>3, ShownParts DEF Clocked

\* What is still to load is what shows before the last page; the next page is its later part.
LEMMA OlderOf ==
    ASSUME TypeOK, Clocked
    PROVE  /\ IsLoading(Older) /\ Older \subseteq Snapshot
           /\ Cardinality(Older) \in Nat /\ PlatformEntries \subseteq Older
<1>1. Older \subseteq Snapshot /\ IsLoading(Snapshot)
  BY SnapshotOf DEF Older
<1>2. IsLoading(Older)
  BY <1>1, FewerLoadings
<1> QED
  BY <1>1, <1>2, FS_CardinalityType DEF IsLoading, PlatformEntries

\* Whatever is later than an entry of the page is in the page.
LEMMA PageIsLatest ==
    ASSUME TypeOK, Clocked, NEW l \in Older, NEW m \in PlatformEntries, l.at >= m.at
    PROVE  l \in PlatformEntries
<1> DEFINE Later(k) == {j \in Older : j.at > k.at}
<1>1. IsFiniteSet(Older) /\ m \in Older /\ l.at \in Nat /\ m.at \in Nat
      /\ \A j \in Older : j.at \in Nat
  <2>1. \A j \in Older : j \in Loadings
    BY OlderOf DEF IsLoading
  <2> QED
    BY <2>1, OlderOf, LoadingParts DEF IsLoading, PlatformEntries
<1>2. Later(l) \subseteq Later(m) /\ Later(m) \subseteq Older
  BY <1>1
<1>3. Cardinality(Later(m)) < PlatformPage
  BY DEF PlatformEntries
<1>4. /\ IsFiniteSet(Later(m)) /\ IsFiniteSet(Later(l))
      /\ Cardinality(Later(l)) <= Cardinality(Later(m))
      /\ Cardinality(Later(l)) \in Nat /\ Cardinality(Later(m)) \in Nat
  <2> HIDE DEF Later
  <2>1. IsFiniteSet(Later(m))
    BY <1>1, <1>2, FS_Subset
  <2>2. IsFiniteSet(Later(l)) /\ Cardinality(Later(l)) <= Cardinality(Later(m))
    BY <1>2, <2>1, FS_Subset
  <2> QED
    BY <2>1, <2>2, FS_CardinalityType
<1>5. Cardinality(Later(l)) < PlatformPage
  <2> HIDE DEF Later
  <2> QED
    BY <1>3, <1>4, BoundsAssumption
<1> QED
  BY <1>5 DEF PlatformEntries

\* A page that ends at last leaves what is older.
LEMMA PageSplits ==
    ASSUME TypeOK, Clocked, NEW last \in PlatformEntries, \A l \in PlatformEntries : last.at <= l.at
    PROVE  PlatformEntries = {l \in Older : l.at >= last.at}
<1>1. \A l \in Older : l.at \in Nat
  <2>1. \A j \in Older : j \in Loadings
    BY OlderOf DEF IsLoading
  <2> QED
    BY <2>1, LoadingParts
<1>2. PlatformEntries \subseteq Older
  BY OlderOf
<1>3. \A l \in PlatformEntries : l.at >= last.at
  BY <1>1, <1>2
<1>4. \A l \in Older : l.at >= last.at => l \in PlatformEntries
  BY PageIsLatest
<1> QED
  BY <1>2, <1>3, <1>4

\* A page holds what is left if that is not more.
LEMMA LastPage ==
    ASSUME TypeOK, Clocked, Cardinality(Older) <= PlatformPage
    PROVE  PlatformEntries = Older
<1> SUFFICES ASSUME NEW l \in Older
             PROVE  Cardinality({m \in Older : m.at > l.at}) < PlatformPage
  BY DEF PlatformEntries
<1> DEFINE Later == {m \in Older : m.at > l.at}
<1>1. Later \subseteq Older /\ l \notin Later
  <2>1. l \in Loadings
    BY OlderOf DEF IsLoading
  <2>2. l.at \in Nat
    BY <2>1, LoadingParts
  <2> QED
    BY <2>2
<1>2. IsFiniteSet(Older) /\ Cardinality(Older) \in Nat
  BY OlderOf DEF IsLoading
<1> HIDE DEF Later
<1>3. /\ IsFiniteSet(Later) /\ Cardinality(Later) <= Cardinality(Older)
      /\ Cardinality(Older) = Cardinality(Later) => Older = Later
  BY <1>1, <1>2, FS_Subset
<1>4. Cardinality(Later) \in Nat /\ Later # Older
  BY <1>1, <1>3, FS_CardinalityType
<1>5. Cardinality(Later) < PlatformPage
  BY <1>2, <1>3, <1>4, BoundsAssumption
<1> QED
  BY <1>5 DEF Later

\* What a request has loaded and what it will load are told apart.
LEMMA MergedLoads ==
    ASSUME TypeOK, Clocked, Gathered
    PROVE  IsLoading(loaded \cup Older)
<1>1. IsLoading(Older) /\ loaded \subseteq Loadings /\ IsFiniteSet(loaded) /\ Apart(loaded)
  BY OlderOf DEF Gathered, TypeOK
<1>2. ASSUME NEW l \in loaded, NEW m \in Older, l.entry = m.entry \/ l.at = m.at
      PROVE  FALSE
  <2>1. m \in Snapshot /\ m.at < after
    BY DEF Older
  <2>2. m.at = at[m.entry] /\ m.at \in 1..MaxTime
    BY <2>1, SnapshotOf
  <2>3. l.at >= after /\ (at[l.entry] # 0 => at[l.entry] >= after) /\ after \in Nat
    BY BoundsAssumption DEF Gathered, TypeOK
  <2>4. l.at \in Nat
    BY <1>1, LoadingParts
  <2> QED
    BY <1>2, <2>1, <2>2, <2>3, <2>4
<1>3. IsFiniteSet(loaded \cup Older)
  BY <1>1, FS_Union DEF IsLoading
<1>4. Apart(loaded \cup Older)
  BY <1>1, <1>2 DEF IsLoading, Apart
<1> QED
  BY <1>1, <1>3, <1>4 DEF IsLoading

\* So is what a page is cut out of, whose entries and order it has.
LEMMA CutOf ==
    ASSUME TypeOK, Clocked, Gathered, Cardinality(Older) <= PlatformPage
    PROVE  /\ IsLoading(Filtered(loaded \cup PlatformEntries))
           /\ loaded \cup PlatformEntries = loaded \cup Older
           /\ Sorted(Filtered(loaded \cup PlatformEntries)) \in Seq(Entries)
<1>1. IsLoading(loaded \cup PlatformEntries) /\ PlatformEntries = Older
  BY MergedLoads, LastPage
<1>2. IsLoading(Filtered(loaded \cup PlatformEntries))
  BY <1>1, FewerLoadings DEF Filtered
<1> QED
  BY <1>1, <1>2, SortedOf

----------------------------------------------------------------------------
(* Types, times, and what has been loaded.                                  *)

LEMMA InitTyped == Init => TypeOK /\ Clocked /\ Gathered
<1> SUFFICES ASSUME Init
             PROVE  TypeOK /\ Clocked /\ Gathered
  OBVIOUS
<1> DEFINE N == Cardinality(Entries)
<1>1. N \in Nat /\ MaxTime \in Nat /\ N <= MaxTime
  BY EntriesAssumption, BoundsAssumption, FS_CardinalityType
<1> HIDE DEF N
<1>2. /\ at \in [Entries -> 0..N] /\ now = N /\ moved = {} /\ gone = 0
      /\ list \in Lists /\ filtered \in BOOLEAN /\ passes \subseteq Entries /\ limit \in Limits
      /\ cursor = 0 /\ state = "asks" /\ loaded = {} /\ after = 0 /\ got = <<>>
      /\ base = Sorted(Filtered(Snapshot))
  BY DEF Init, N
<1>3. at \in [Entries -> 0..MaxTime] /\ \A e \in Entries : at[e] <= N
  BY <1>1, <1>2
<1>4. \A e, f \in Present : at[e] = at[f] => e = f
  BY DEF Init
<1>5. TimesDiffer(at)
  BY <1>4 DEF TimesDiffer, Present
<1>6. IsLoading(Filtered(Snapshot))
  <2>1. IsLoading(Snapshot)
    BY <1>2, <1>3, <1>5, ShownLoads, SnapshotShown
  <2> QED
    BY <2>1, FewerLoadings DEF Filtered
<1>7. base \in Seq(Entries)
  BY <1>2, <1>6, SortedOf
<1>8. got \in Seq(Entries)
  BY <1>2
<1>9. TypeOK
  BY <1>1, <1>2, <1>3, <1>7, <1>8 DEF TypeOK
<1>10. Clocked
  BY <1>1, <1>2, <1>3, <1>4 DEF Clocked, Changes, N
<1>11. Gathered
  BY <1>2, FS_EmptySet DEF Gathered, Apart
<1> QED
  BY <1>9, <1>10, <1>11

LEMMA ActiveTyped ==
    ASSUME TypeOK, Clocked, Gathered, NEW e \in Entries, Active(e)
    PROVE  TypeOK' /\ Clocked' /\ Gathered'
<1>0. Cardinality(Entries) \in Nat /\ MaxTime \in Nat
  BY EntriesAssumption, BoundsAssumption, FS_CardinalityType
<1>1. /\ at \in [Entries -> 0..MaxTime] /\ now \in Nat /\ now + 1 \in 1..MaxTime /\ now' = now + 1
      /\ at' = [at EXCEPT ![e] = now + 1]
      /\ \A d \in Entries : at[d] <= now /\ at[d] \in 0..MaxTime
  BY <1>0 DEF Active, TypeOK, Clocked
<1>2. /\ at' \in [Entries -> 0..MaxTime] /\ at'[e] = now + 1
      /\ \A d \in Entries : d # e => at'[d] = at[d]
  BY <1>0, <1>1
<1>3. TypeOK'
  BY <1>0, <1>1, <1>2 DEF Active, TypeOK
<1>4. Clocked'
  <2>1. \A d \in Entries : at'[d] <= now'
    BY <1>0, <1>1, <1>2
  <2>2. \A d, f \in Present' : at'[d] = at'[f] => d = f
    BY <1>0, <1>1, <1>2 DEF Clocked, Present
  <2>3. (gone <= Changes)'
    BY <1>0, <1>1 DEF Active, Clocked, Changes, TypeOK
  <2> QED
    BY <2>1, <2>2, <2>3 DEF Clocked
<1>5. Gathered'
  <2>1. UNCHANGED <<loaded, after, state, limit>> /\ after \in Nat
    BY <1>0 DEF Active, TypeOK
  <2>2. loaded = {} \/ after <= now'
    BY <1>1, <2>1 DEF Gathered
  <2>3. ASSUME NEW l \in loaded
        PROVE  at'[l.entry] # 0 => at'[l.entry] >= after
    <3>1. l.entry \in Entries
      BY LoadingParts DEF TypeOK
    <3>2. CASE l.entry = e
      BY <1>1, <1>2, <2>1, <3>2 DEF Gathered
    <3>3. CASE l.entry # e
      BY <1>2, <3>1, <3>3 DEF Gathered
    <3> QED
      BY <3>2, <3>3
  <2> QED
    BY <2>1, <2>2, <2>3 DEF Gathered, LimitAccepted
<1> QED
  BY <1>3, <1>4, <1>5

LEMMA VanishTyped ==
    ASSUME TypeOK, Clocked, Gathered, NEW e \in Entries, Vanish(e)
    PROVE  TypeOK' /\ Clocked' /\ Gathered'
<1>0. Cardinality(Entries) \in Nat /\ MaxTime \in Nat /\ Cardinality(Entries) <= MaxTime
  BY EntriesAssumption, BoundsAssumption, FS_CardinalityType
<1>1. /\ at \in [Entries -> 0..MaxTime] /\ now \in Nat /\ now + 1 \in 1..MaxTime /\ now' = now + 1
      /\ at' = [at EXCEPT ![e] = 0]
      /\ \A d \in Entries : at[d] <= now /\ at[d] \in 0..MaxTime
      /\ gone \in Nat /\ gone' = gone + 1 /\ gone <= now - Cardinality(Entries)
  BY <1>0 DEF Vanish, TypeOK, Clocked, Changes
<1>2. /\ at' \in [Entries -> 0..MaxTime] /\ at'[e] = 0
      /\ \A d \in Entries : d # e => at'[d] = at[d]
  BY <1>0, <1>1
<1>3. TypeOK'
  <2>1. now' \in 0..MaxTime /\ gone' \in 0..MaxTime
    BY <1>0, <1>1
  <2> QED
    BY <1>2, <2>1 DEF Vanish, TypeOK
<1>4. Clocked'
  <2>1. \A d \in Entries : at'[d] <= now'
    BY <1>0, <1>1, <1>2
  <2>2. \A d, f \in Present' : at'[d] = at'[f] => d = f
    BY <1>0, <1>1, <1>2 DEF Clocked, Present
  <2>3. (gone <= Changes)'
    BY <1>0, <1>1 DEF Changes
  <2> QED
    BY <2>1, <2>2, <2>3 DEF Clocked
<1>5. Gathered'
  <2>1. UNCHANGED <<loaded, after, state, limit>> /\ after \in Nat
    BY <1>0 DEF Vanish, TypeOK
  <2>2. loaded = {} \/ after <= now'
    BY <1>1, <2>1 DEF Gathered
  <2>3. \A l \in loaded : at'[l.entry] # 0 => at'[l.entry] >= after
    <3>1. \A l \in loaded : l.entry \in Entries
      BY LoadingParts DEF TypeOK
    <3> QED
      BY <1>2, <3>1 DEF Gathered
  <2> QED
    BY <2>1, <2>2, <2>3 DEF Gathered, LimitAccepted
<1> QED
  BY <1>3, <1>4, <1>5

LEMMA ChangeTyped ==
    ASSUME TypeOK, Clocked, Gathered, NEW e \in Entries, Change(e)
    PROVE  TypeOK' /\ Clocked' /\ Gathered'
<1>0. Cardinality(Entries) \in Nat /\ MaxTime \in Nat /\ Cardinality(Entries) <= MaxTime
  BY EntriesAssumption, BoundsAssumption, FS_CardinalityType
<1>1. /\ now \in Nat /\ now + 1 \in 1..MaxTime /\ now' = now + 1
      /\ \A d \in Entries : at[d] <= now /\ at[d] \in 0..MaxTime
      /\ gone \in Nat /\ gone <= now - Cardinality(Entries) /\ gone' \in {gone, gone + 1}
      /\ passes' \subseteq Entries /\ moved' \subseteq Entries
  BY <1>0 DEF Change, TypeOK, Clocked, Changes
<1>2. UNCHANGED <<list, at, filtered, limit, cursor, state, loaded, after, got, base>>
  BY DEF Change
<1>3. TypeOK'
  <2>1. now' \in 0..MaxTime /\ gone' \in 0..MaxTime
    BY <1>0, <1>1
  <2> QED
    BY <1>1, <1>2, <2>1 DEF TypeOK
<1>4. Clocked'
  <2>1. (gone <= Changes)'
    BY <1>0, <1>1 DEF Changes
  <2>2. \A d \in Entries : at[d] <= now'
    BY <1>1
  <2> QED
    BY <1>2, <2>1, <2>2 DEF Clocked, Present
<1>5. Gathered'
  <2>1. after \in Nat
    BY <1>0 DEF TypeOK
  <2>2. loaded = {} \/ after <= now'
    BY <1>1, <2>1 DEF Gathered
  <2> QED
    BY <1>2, <2>2 DEF Gathered, LimitAccepted
<1> QED
  BY <1>3, <1>4, <1>5

LEMMA LoadTyped ==
    ASSUME TypeOK, Clocked, Gathered, Load
    PROVE  TypeOK' /\ Clocked' /\ Gathered'
<1>0. MaxTime \in Nat
  BY BoundsAssumption
<1>1. PICK last \in PlatformEntries :
         /\ \A l \in PlatformEntries : last.at <= l.at
         /\ after' = last.at
  BY DEF Load
<1>2. /\ state = "loads" /\ loaded' = loaded \cup PlatformEntries
      /\ UNCHANGED <<list, at, now, filtered, passes, limit, cursor, state, got, base, moved, gone>>
  BY DEF Load
<1>3. PlatformEntries \subseteq Older /\ IsLoading(PlatformEntries)
  BY OlderOf, FewerLoadings
<1>4. /\ last \in Snapshot /\ last.at < after
      /\ \A l \in PlatformEntries : l \in Snapshot
  BY <1>3 DEF Older
<1>5. /\ after' \in 1..MaxTime /\ after' <= now /\ after' < after /\ after \in Nat /\ now \in Nat
      /\ \A l \in PlatformEntries : l.at >= after' /\ l.at = at[l.entry] /\ l.at \in Nat
  <2>1. last.at \in 1..MaxTime /\ last.at <= now
    BY <1>4, SnapshotOf
  <2>2. \A l \in PlatformEntries : l.at \in 1..MaxTime /\ l.at = at[l.entry]
    BY <1>4, SnapshotOf
  <2> QED
    BY <1>0, <1>1, <1>4, <2>1, <2>2 DEF TypeOK
<1>6. TypeOK'
  <2>1. loaded' \subseteq Loadings /\ after' \in 0..(MaxTime + 1)
    BY <1>0, <1>2, <1>3, <1>5 DEF TypeOK, IsLoading
  <2> QED
    BY <1>2, <2>1 DEF TypeOK
<1>7. Clocked'
  BY <1>2 DEF Clocked, Changes, Present
<1>8. Gathered'
  <2>1. IsLoading(loaded \cup PlatformEntries)
    <3>1. loaded \cup PlatformEntries \subseteq loaded \cup Older
      BY <1>3
    <3> QED
      BY <3>1, MergedLoads, FewerLoadings
  <2>2. ASSUME NEW l \in loaded'
        PROVE  l.at >= after' /\ (at[l.entry] # 0 => at[l.entry] >= after')
    <3>1. CASE l \in PlatformEntries
      BY <1>5, <3>1
    <3>2. CASE l \in loaded
      <4>1. l.at \in Nat /\ at[l.entry] \in Nat
        BY <1>0, <3>2, LoadingParts DEF TypeOK
      <4> QED
        BY <1>5, <3>2, <4>1 DEF Gathered
    <3> QED
      BY <1>2, <3>1, <3>2
  <2> QED
    BY <1>2, <1>5, <2>1, <2>2 DEF Gathered, LimitAccepted, IsLoading
<1> QED
  BY <1>6, <1>7, <1>8

LEMMA DeliverTyped ==
    ASSUME TypeOK, Clocked, Gathered, Deliver
    PROVE  TypeOK' /\ Clocked' /\ Gathered'
<1> DEFINE entries == Sorted(Filtered(loaded \cup PlatformEntries))
           end == cursor + limit
           last == IF end < Len(entries) THEN end ELSE Len(entries)
<1>1. entries \in Seq(Entries)
  BY CutOf DEF Deliver
<1>2. limit \in Nat /\ limit > 0 /\ cursor \in Nat
  BY BoundsAssumption DEF Deliver, Gathered, LimitAccepted, TypeOK
<1>3. /\ got' = got \o SubSeq(entries, cursor + 1, last)
      /\ (state' = "asks" /\ cursor' = end) \/ (state' = "done" /\ cursor' = cursor)
      /\ loaded' = {} /\ after' = 0
      /\ UNCHANGED <<list, at, now, filtered, passes, limit, base, moved, gone>>
  BY DEF Deliver, Page
<1> HIDE DEF entries
<1>4. SubSeq(entries, cursor + 1, last) \in Seq(Entries)
  <2>1. last \in Nat /\ last <= Len(entries)
    BY <1>1, <1>2
  <2> HIDE DEF last
  <2> QED
    BY <1>1, <1>2, <2>1, SliceOf
<1>5. got' \in Seq(Entries)
  BY <1>3, <1>4 DEF TypeOK
<1>6. TypeOK'
  <2>1. cursor' \in Nat /\ state' \in {"asks", "done"}
    BY <1>2, <1>3
  <2>2. after' \in 0..(MaxTime + 1)
    BY <1>3, BoundsAssumption
  <2> QED
    BY <1>3, <1>5, <2>1, <2>2 DEF TypeOK
<1>7. Clocked'
  BY <1>3 DEF Clocked, Changes, Present
<1>8. Gathered'
  BY <1>3, FS_EmptySet DEF Gathered, Apart
<1> QED
  BY <1>6, <1>7, <1>8

LEMMA RestTyped ==
    ASSUME TypeOK, Clocked, Gathered, Refuse \/ Ask \/ UNCHANGED vars
    PROVE  TypeOK' /\ Clocked' /\ Gathered'
<1>1. CASE Refuse
  BY <1>1 DEF Refuse, TypeOK, Clocked, Gathered, Changes, Present, Apart
<1>2. CASE Ask
  <2>1. MaxTime + 1 \in 0..(MaxTime + 1)
    BY BoundsAssumption
  <2>2. TypeOK'
    BY <1>2, <2>1 DEF Ask, TypeOK
  <2>3. Clocked'
    BY <1>2 DEF Ask, Clocked, Changes, Present
  <2>4. Gathered'
    BY <1>2, FS_EmptySet DEF Ask, Gathered, Apart, LimitAccepted
  <2> QED
    BY <2>2, <2>3, <2>4
<1>3. CASE UNCHANGED vars
  <2>1. TypeOK'
    BY <1>3 DEF vars, TypeOK
  <2>2. Clocked'
    BY <1>3 DEF vars, Clocked, Changes, Present
  <2>3. Gathered'
    BY <1>3 DEF vars, Gathered, Apart, LimitAccepted
  <2> QED
    BY <2>1, <2>2, <2>3
<1> QED
  BY <1>1, <1>2, <1>3

LEMMA StepTyped ==
    TypeOK /\ Clocked /\ Gathered /\ [Next]_vars => TypeOK' /\ Clocked' /\ Gathered'
  BY ActiveTyped, VanishTyped, ChangeTyped, LoadTyped, DeliverTyped, RestTyped DEF Next, Read

\* The types of every variable, in a list of any length read with any limits.
THEOREM TypesHold == Spec => []TypeOK
<1>1. Spec => [](TypeOK /\ Clocked /\ Gathered)
  BY InitTyped, StepTyped, PTL DEF Spec
<1> QED
  BY <1>1, PTL

----------------------------------------------------------------------------
(* A list that does not change.                                             *)

LEMMA InitQuiet == Init => Quiet
<1> SUFFICES ASSUME Init
             PROVE  Quiet
  OBVIOUS
<1>1. TypeOK
  BY InitTyped
<1>2. Len(base) \in Nat
  BY <1>1 DEF TypeOK
<1>3. SubSeq(base, 1, 0) = <<>>
  BY SubSeqEmpty
<1> QED
  BY <1>2, <1>3 DEF Init, Quiet

LEMMA LoadQuiet ==
    ASSUME TypeOK, Clocked, Gathered, Quiet, Load
    PROVE  Quiet'
<1>1. PICK last \in PlatformEntries :
         /\ \A l \in PlatformEntries : last.at <= l.at
         /\ after' = last.at
  BY DEF Load
<1>2. /\ state = "loads" /\ loaded' = loaded \cup PlatformEntries
      /\ UNCHANGED <<list, at, now, filtered, passes, limit, cursor, state, got, base, moved, gone>>
  BY DEF Load
<1>3. PlatformEntries = {l \in Older : l.at >= last.at}
  BY <1>1, PageSplits
<1>4. last \in Older /\ last.at < after /\ after \in Nat /\ last.at \in Nat
      /\ \A l \in Snapshot : l.at \in Nat
  <2>1. last \in Older /\ last \in Snapshot /\ last.at < after
    BY OlderOf DEF Older
  <2>2. \A l \in Snapshot : l.at \in 1..MaxTime
    BY SnapshotOf
  <2> QED
    BY <2>1, <2>2, BoundsAssumption DEF TypeOK
<1>5. loaded = {l \in Snapshot : l.at >= after} =>
         loaded' = {l \in Snapshot : l.at >= after'}
  <2> SUFFICES ASSUME loaded = {l \in Snapshot : l.at >= after}
               PROVE  loaded \cup PlatformEntries = {l \in Snapshot : l.at >= last.at}
    BY <1>1, <1>2
  <2>1. PlatformEntries = {l \in Snapshot : l.at < after /\ l.at >= last.at}
    BY <1>3 DEF Older
  <2> QED
    BY <1>4, <2>1
<1>6. /\ Snapshot' = Snapshot /\ Sorted(Filtered(Snapshot))' = Sorted(Filtered(Snapshot))
  BY <1>2 DEF Snapshot, Present, Sorted, Filtered, Rank, Before
<1> QED
  BY <1>2, <1>5, <1>6 DEF Quiet

LEMMA DeliverQuiet ==
    ASSUME TypeOK, Clocked, Gathered, Quiet, Deliver
    PROVE  Quiet'
<1> DEFINE entries == Sorted(Filtered(loaded \cup PlatformEntries))
           end == cursor + limit
           last == IF end < Len(entries) THEN end ELSE Len(entries)
<1>1. /\ state = "loads" /\ Cardinality(Older) <= PlatformPage
      /\ got' = got \o SubSeq(entries, cursor + 1, last)
      /\ \/ end < Len(entries) /\ state' = "asks" /\ cursor' = end
         \/ ~(end < Len(entries)) /\ state' = "done" /\ cursor' = cursor
      /\ loaded' = {} /\ after' = 0
      /\ UNCHANGED <<list, at, now, filtered, passes, limit, base, moved, gone>>
  BY DEF Deliver, Page, HasNext
<1> HIDE DEF entries
<1>2. limit \in Nat /\ limit > 0 /\ cursor \in Nat /\ base \in Seq(Entries)
  BY BoundsAssumption DEF Deliver, Gathered, LimitAccepted, TypeOK
<1>3. Snapshot' = Snapshot /\ Sorted(Filtered(Snapshot))' = Sorted(Filtered(Snapshot))
  BY <1>1 DEF Snapshot, Present, Sorted, Filtered, Rank, Before
<1>4. SUFFICES ASSUME moved = {}, gone = 0
               PROVE  /\ state' = "asks" => cursor' <= Len(base) /\ got' = SubSeq(base, 1, cursor')
                      /\ state' = "done" => got' = base
  BY <1>1, <1>3 DEF Quiet
<1>5. /\ base = Sorted(Filtered(Snapshot)) /\ loaded = {l \in Snapshot : l.at >= after}
      /\ cursor <= Len(base) /\ got = SubSeq(base, 1, cursor)
  BY <1>1, <1>4 DEF Quiet
<1>6. loaded \cup PlatformEntries = Snapshot
  <2>1. \A l \in Snapshot : l.at \in 1..MaxTime
    BY SnapshotOf
  <2>2. after \in Nat /\ \A l \in Snapshot : l.at \in Nat
    BY <2>1, BoundsAssumption DEF TypeOK
  <2>3. loaded \cup PlatformEntries = loaded \cup Older
    BY <1>1, CutOf
  <2> QED
    BY <1>5, <2>2, <2>3 DEF Older
<1>7. entries = base
  BY <1>5, <1>6 DEF entries
<1>8. /\ Len(base) \in Nat /\ last \in Nat /\ cursor <= last /\ last <= Len(base)
      /\ end < Len(entries) => last = end
      /\ ~(end < Len(entries)) => last = Len(base)
  BY <1>2, <1>5, <1>7
<1>9. got' = SubSeq(base, 1, last)
  <2> HIDE DEF last
  <2> QED
    BY <1>1, <1>2, <1>5, <1>7, <1>8, BeginningGrows
<1>10. SubSeq(base, 1, Len(base)) = base
  BY <1>2, BeginningWhole
<1> QED
  BY <1>1, <1>8, <1>9, <1>10

LEMMA StepQuiet ==
    ASSUME TypeOK, Clocked, Gathered, Quiet, [Next]_vars
    PROVE  Quiet'
<1>1. gone \in Nat
  BY BoundsAssumption DEF TypeOK
<1>2. CASE \E e \in Entries : Active(e) \/ Vanish(e) \/ Change(e)
  <2>1. moved' # {} \/ gone' # 0
    BY <1>1, <1>2 DEF Active, Vanish, Change
  <2> QED
    BY <2>1 DEF Quiet
<1>3. CASE Refuse
  <2>1. Snapshot' = Snapshot /\ Sorted(Filtered(Snapshot))' = Sorted(Filtered(Snapshot))
    BY <1>3 DEF Refuse, Snapshot, Present, Sorted, Filtered, Rank, Before
  <2> QED
    BY <1>3, <2>1 DEF Refuse, Quiet
<1>4. CASE Ask
  <2>1. Snapshot' = Snapshot /\ Sorted(Filtered(Snapshot))' = Sorted(Filtered(Snapshot))
    BY <1>4 DEF Ask, Snapshot, Present, Sorted, Filtered, Rank, Before
  <2>2. \A l \in Snapshot : l.at \in 1..MaxTime
    BY SnapshotOf
  <2>3. \A l \in Snapshot : ~(l.at >= MaxTime + 1)
    BY <2>2, BoundsAssumption
  <2> QED
    BY <1>4, <2>1, <2>3 DEF Ask, Quiet
<1>5. CASE UNCHANGED vars
  <2>1. Snapshot' = Snapshot /\ Sorted(Filtered(Snapshot))' = Sorted(Filtered(Snapshot))
    BY <1>5 DEF vars, Snapshot, Present, Sorted, Filtered, Rank, Before
  <2> QED
    BY <1>5, <2>1 DEF vars, Quiet
<1> QED
  BY <1>2, <1>3, <1>4, <1>5, LoadQuiet, DeliverQuiet DEF Next, Read

\* The inductive invariant.
THEOREM InvHolds == Spec => []Inv
<1>1. Init => Inv
  BY InitTyped, InitQuiet DEF Inv
<1>2. Inv /\ [Next]_vars => Inv'
  BY StepTyped, StepQuiet DEF Inv
<1> QED
  BY <1>1, <1>2, PTL DEF Spec

\* A list that does not change is delivered once, complete and in its order, whatever its
\* length, the caller's limit and the pages of Playerok.
THEOREM QuietExact == Spec => []QuietListExact
<1>1. Inv => QuietListExact
  BY DEF Inv, Quiet, QuietListExact
<1> QED
  BY <1>1, InvHolds, PTL

----------------------------------------------------------------------------
(* Counting ranks: what a change of the list carries over a cursor.         *)

\* The first c of a list.
Top(V, c) == {l \in V : Rank(V, l) < c}

\* They are c, or all.
LEMMA TopCount ==
    ASSUME NEW V, IsLoading(V), NEW c \in Nat
    PROVE  /\ IsFiniteSet(Top(V, c)) /\ Cardinality(Top(V, c)) <= c
           /\ Cardinality(Top(V, c)) \in Nat
           /\ c <= Cardinality(V) => Cardinality(Top(V, c)) = c
           /\ \A l \in V : Rank(V, l) >= c => c <= Cardinality(V)
<1> DEFINE T == Top(V, c)
           f == [l \in T |-> Rank(V, l) + 1]
<1>1. /\ Cardinality(V) \in Nat
      /\ \A l \in V : Rank(V, l) \in Nat /\ Rank(V, l) < Cardinality(V)
      /\ \A l, m \in V : Rank(V, l) = Rank(V, m) => l = m
  BY RankOf
<1>2. T \subseteq V /\ \A l \in T : Rank(V, l) < c
  BY DEF Top
<1>3. f \in [T -> 1..c] /\ \A l, m \in T : f[l] = f[m] => l = m
  <2>1. \A l \in T : Rank(V, l) + 1 \in 1..c
    BY <1>1, <1>2
  <2>2. \A l, m \in T : Rank(V, l) + 1 = Rank(V, m) + 1 => l = m
    BY <1>1, <1>2
  <2> HIDE DEF T
  <2> QED
    BY <2>1, <2>2
<1>4. IsFiniteSet(1..c) /\ Cardinality(1..c) = c
  BY FS_Interval
<1>5. f \in Injection(T, 1..c)
  BY <1>3, Fun_IsInj
<1>6. IsFiniteSet(T) /\ Cardinality(T) <= c /\ Cardinality(T) \in Nat
      /\ (Cardinality(T) = c <=> f \in Surjection(T, 1..c))
  <2> HIDE DEF T, f
  <2> QED
    BY <1>4, <1>5, FS_Injection, FS_CardinalityType
<1>7. ASSUME c <= Cardinality(V)
      PROVE  Cardinality(T) = c
  <2>1. ASSUME NEW i \in 1..c
        PROVE  \E l \in T : f[l] = i
    <3>1. i \in 1..Cardinality(V)
      BY <1>1, <1>7
    <3>2. PICK l \in V : Rank(V, l) = i - 1
      BY <3>1, RankTaken
    <3>3. l \in T /\ f[l] = i
      BY <3>2 DEF Top
    <3> QED
      BY <3>3
  <2>2. f \in Surjection(T, 1..c)
    BY <1>3, <2>1, Fun_IsSurj
  <2> QED
    BY <1>6, <2>2
<1>8. \A l \in V : Rank(V, l) >= c => c <= Cardinality(V)
  BY <1>1
<1> QED
  BY <1>6, <1>7, <1>8

\* What is left of a list, with what was not in it, holds the first c of a later list; and
\* an earlier list's first c are in what is left, or gone.
LEMMA TopMoves ==
    ASSUME NEW V, NEW W, IsLoading(V), IsLoading(W), NEW c \in Nat
    PROVE  /\ IsLoading(V \cap W)
           /\ Top(W, c) \subseteq Top(V \cap W, c) \cup (W \ V)
           /\ Top(V, c) \subseteq Top(V \cap W, c) \cup (V \ W)
           /\ Top(V, c) \cap W \subseteq Top(V \cap W, c)
<1>1. IsLoading(V \cap W)
  BY FewerLoadings
<1>2. ASSUME NEW l \in V \cap W
      PROVE  /\ Rank(V \cap W, l) \in Nat /\ Rank(V, l) \in Nat /\ Rank(W, l) \in Nat
             /\ Rank(V \cap W, l) <= Rank(V, l) /\ Rank(V \cap W, l) <= Rank(W, l)
  BY <1>1, RankOf, RankWider
<1> QED
  BY <1>1, <1>2 DEF Top

\* No more comes over a cursor than has joined the list.
LEMMA RiseAbove ==
    ASSUME NEW V, NEW W, IsLoading(V), IsLoading(W), NEW c \in Nat
    PROVE  LET X == {l \in W : Rank(W, l) >= c /\ (l \in V => Rank(V, l) < c)} IN
           IsFiniteSet(X) /\ Cardinality(X) \in Nat /\ Cardinality(X) <= Cardinality(W \ V)
<1> DEFINE X == {l \in W : Rank(W, l) >= c /\ (l \in V => Rank(V, l) < c)}
           left == Top(V \cap W, c)
<1>1. /\ IsLoading(V \cap W) /\ Top(W, c) \subseteq left \cup (W \ V)
      /\ Top(V, c) \cap W \subseteq left
  BY TopMoves
<1>2. /\ IsFiniteSet(left) /\ Cardinality(left) <= c /\ Cardinality(left) \in Nat
      /\ IsFiniteSet(Top(W, c))
      /\ c <= Cardinality(W) => Cardinality(Top(W, c)) = c
      /\ \A l \in W : Rank(W, l) >= c => c <= Cardinality(W)
  BY <1>1, TopCount
<1>3. IsFiniteSet(W \ V) /\ Cardinality(W \ V) \in Nat
  <2>1. IsLoading(W \ V)
    BY FewerLoadings
  <2> QED
    BY <2>1, FS_CardinalityType DEF IsLoading
<1>4. X \subseteq left \cup (W \ V)
  BY <1>1 DEF Top
<1>5. X \cap Top(W, c) = {}
  <2>1. \A l \in W : Rank(W, l) \in Nat
    BY RankOf
  <2> QED
    BY <2>1 DEF Top
<1>6. CASE X = {}
  BY <1>3, <1>6, FS_EmptySet
<1>7. CASE X # {}
  <2>1. c <= Cardinality(W)
    BY <1>2, <1>7
  <2>2. Cardinality(Top(W, c)) = c
    BY <1>2, <2>1
  <2> HIDE DEF X, left
  <2>3. /\ IsFiniteSet(X) /\ Cardinality(X) \in Nat
        /\ Cardinality(X) + Cardinality(Top(W, c)) <= Cardinality(left) + Cardinality(W \ V)
    BY <1>1, <1>2, <1>3, <1>4, <1>5, ApartCount
  <2>4. Cardinality(X) <= Cardinality(W \ V)
    BY <1>2, <1>3, <2>2, <2>3
  <2> QED
    BY <2>3, <2>4 DEF X
<1> QED
  BY <1>6, <1>7

\* No more falls below a cursor than has left the list.
LEMMA FallBelow ==
    ASSUME NEW V, NEW W, IsLoading(V), IsLoading(W), NEW c \in Nat
    PROVE  LET X == {l \in V \cap W : Rank(V, l) >= c /\ Rank(W, l) < c} IN
           IsFiniteSet(X) /\ Cardinality(X) \in Nat /\ Cardinality(X) <= Cardinality(V \ W)
<1> DEFINE X == {l \in V \cap W : Rank(V, l) >= c /\ Rank(W, l) < c}
           left == Top(V \cap W, c)
<1>1. /\ IsLoading(V \cap W) /\ Top(V, c) \subseteq left \cup (V \ W)
      /\ Top(W, c) \cap V \subseteq left
  <2>1. Top(W, c) \cap V \subseteq Top(W \cap V, c)
    BY TopMoves
  <2>2. W \cap V = V \cap W
    OBVIOUS
  <2> QED
    BY <2>1, <2>2, TopMoves
<1>2. /\ IsFiniteSet(left) /\ Cardinality(left) <= c /\ Cardinality(left) \in Nat
      /\ IsFiniteSet(Top(V, c))
      /\ c <= Cardinality(V) => Cardinality(Top(V, c)) = c
      /\ \A l \in V : Rank(V, l) >= c => c <= Cardinality(V)
  BY <1>1, TopCount
<1>3. IsFiniteSet(V \ W) /\ Cardinality(V \ W) \in Nat
  <2>1. IsLoading(V \ W)
    BY FewerLoadings
  <2> QED
    BY <2>1, FS_CardinalityType DEF IsLoading
<1>4. X \subseteq left \cup (V \ W)
  BY <1>1 DEF Top
<1>5. X \cap Top(V, c) = {}
  <2>1. \A l \in V : Rank(V, l) \in Nat
    BY RankOf
  <2> QED
    BY <2>1 DEF Top
<1>6. CASE X = {}
  BY <1>3, <1>6, FS_EmptySet
<1>7. CASE X # {}
  <2>1. c <= Cardinality(V)
    BY <1>2, <1>7
  <2>2. Cardinality(Top(V, c)) = c
    BY <1>2, <2>1
  <2> HIDE DEF X, left
  <2>3. /\ IsFiniteSet(X) /\ Cardinality(X) \in Nat
        /\ Cardinality(X) + Cardinality(Top(V, c)) <= Cardinality(left) + Cardinality(V \ W)
    BY <1>1, <1>2, <1>3, <1>4, <1>5, ApartCount
  <2>4. Cardinality(X) <= Cardinality(V \ W)
    BY <1>2, <1>3, <2>2, <2>3
  <2> QED
    BY <2>3, <2>4 DEF X
<1> QED
  BY <1>6, <1>7

\* Of the entries of G, those that a list still has behind a cursor.
Behind(V, c, G) == {l \in V : l.entry \in G /\ Rank(V, l) >= c}

\* They grow by no more than joins the list.
LEMMA BehindGrows ==
    ASSUME NEW V, NEW W, IsLoading(V), IsLoading(W), NEW c \in Nat, NEW G
    PROVE  /\ Cardinality(Behind(W, c, G)) \in Nat /\ Cardinality(Behind(V, c, G)) \in Nat
           /\ Cardinality(W \ V) \in Nat
           /\ Cardinality(Behind(W, c, G)) <= Cardinality(Behind(V, c, G)) + Cardinality(W \ V)
<1> DEFINE X == {l \in W : Rank(W, l) >= c /\ (l \in V => Rank(V, l) < c)}
<1>1. IsFiniteSet(X) /\ Cardinality(X) \in Nat /\ Cardinality(X) <= Cardinality(W \ V)
  BY RiseAbove
<1>2. Behind(W, c, G) \subseteq Behind(V, c, G) \cup X
  <2>1. \A l \in V : Rank(V, l) \in Nat
    BY RankOf
  <2> QED
    BY <2>1 DEF Behind
<1>3. IsFiniteSet(Behind(V, c, G)) /\ IsFiniteSet(W \ V)
  <2>1. IsLoading(Behind(V, c, G)) /\ IsLoading(W \ V)
    BY FewerLoadings DEF Behind
  <2> QED
    BY <2>1 DEF IsLoading
<1> HIDE DEF X
<1>4. /\ Cardinality(Behind(W, c, G)) \in Nat /\ Cardinality(Behind(V, c, G)) \in Nat
      /\ Cardinality(Behind(W, c, G)) <= Cardinality(Behind(V, c, G)) + Cardinality(X)
  BY <1>1, <1>2, <1>3, CoverCount
<1>5. Cardinality(W \ V) \in Nat
  BY <1>3, FS_CardinalityType
<1> QED
  BY <1>1, <1>4, <1>5

\* Of the entries of C, those that a list does not have behind a cursor.
Skipped(V, c, C) == {e \in C : \A l \in V : l.entry = e => Rank(V, l) < c}

\* They grow by no more than leaves the list, while the entries of C stay.
LEMMA SkippedGrow ==
    ASSUME NEW V, NEW W, IsLoading(V), IsLoading(W), NEW c \in Nat, NEW C, IsFiniteSet(C),
           \A e \in C : \E l \in V \cap W : l.entry = e
    PROVE  /\ Cardinality(Skipped(W, c, C)) \in Nat /\ Cardinality(Skipped(V, c, C)) \in Nat
           /\ Cardinality(V \ W) \in Nat
           /\ Cardinality(Skipped(W, c, C)) <= Cardinality(Skipped(V, c, C)) + Cardinality(V \ W)
<1> DEFINE X == {l \in V \cap W : Rank(V, l) >= c /\ Rank(W, l) < c}
           New == Skipped(W, c, C) \ Skipped(V, c, C)
           f == [e \in New |-> CHOOSE l \in X : l.entry = e]
<1>1. IsFiniteSet(X) /\ Cardinality(X) \in Nat /\ Cardinality(X) <= Cardinality(V \ W)
  BY FallBelow
<1>2. ASSUME NEW e \in New
      PROVE  \E l \in X : l.entry = e
  <2>1. e \in C /\ \A l \in W : l.entry = e => Rank(W, l) < c
    BY DEF Skipped
  <2>2. PICK m \in V : m.entry = e /\ ~(Rank(V, m) < c)
    BY <2>1 DEF Skipped
  <2>3. PICK l \in V \cap W : l.entry = e
    BY <2>1
  <2>4. m = l
    BY <2>2, <2>3 DEF IsLoading, Apart
  <2>5. Rank(V, l) \in Nat
    BY RankOf
  <2>6. l \in X
    BY <2>1, <2>2, <2>3, <2>4, <2>5
  <2> QED
    BY <2>3, <2>6
<1>3. \A e \in New : f[e] \in X /\ f[e].entry = e
  <2> SUFFICES ASSUME NEW e \in New
               PROVE  f[e] \in X /\ f[e].entry = e
    OBVIOUS
  <2>1. f[e] = CHOOSE l \in X : l.entry = e
    OBVIOUS
  <2> HIDE DEF f, X, New
  <2> QED
    BY <1>2, <2>1
<1>4. f \in [New -> X] /\ \A d, e \in New : f[d] = f[e] => d = e
  <2>1. DOMAIN f = New /\ f = [e \in New |-> f[e]]
    OBVIOUS
  <2> HIDE DEF f, X, New
  <2> QED
    BY <1>3, <2>1
<1>5. IsFiniteSet(Skipped(V, c, C)) /\ IsFiniteSet(V \ W) /\ IsFiniteSet(New)
  <2>1. IsLoading(V \ W)
    BY FewerLoadings
  <2>2. Skipped(V, c, C) \subseteq C /\ New \subseteq C
    BY DEF Skipped
  <2> QED
    BY <2>1, <2>2, FS_Subset DEF IsLoading
<1>6. Skipped(W, c, C) \subseteq Skipped(V, c, C) \cup New
  OBVIOUS
<1> HIDE DEF X, New, f
<1>7. Cardinality(New) \in Nat /\ Cardinality(New) <= Cardinality(X)
  BY <1>1, <1>4, InjectionCount
<1>8. /\ Cardinality(Skipped(W, c, C)) \in Nat /\ Cardinality(Skipped(V, c, C)) \in Nat
      /\ Cardinality(Skipped(W, c, C)) <= Cardinality(Skipped(V, c, C)) + Cardinality(New)
  BY <1>5, <1>6, CoverCount
<1>9. Cardinality(V \ W) \in Nat
  BY <1>5, FS_CardinalityType
<1> QED
  BY <1>1, <1>7, <1>8, <1>9

----------------------------------------------------------------------------
(* What a step does to what Playerok shows, and to what a page is cut from. *)

\* What the caller's page is cut out of is told apart, and all of it passes.
LEMMA ViewLoads == Inv => IsLoading(View)
<1> SUFFICES ASSUME Inv
             PROVE  IsLoading(View)
  OBVIOUS
<1>1. IsLoading(Snapshot) /\ IsLoading(loaded \cup Older)
  BY SnapshotOf, MergedLoads DEF Inv
<1>2. CASE state = "loads"
  BY <1>1, <1>2, FewerLoadings DEF View, Filtered
<1>3. CASE state # "loads"
  BY <1>1, <1>3, FewerLoadings DEF View, Filtered
<1> QED
  BY <1>2, <1>3

\* The list as it would be loaded now.
Current == Filtered(Snapshot)

\* The two lists are told apart.
Shows == IsLoading(View) /\ IsLoading(Current)

LEMMA ShowsLoad == Inv => Shows
<1> SUFFICES ASSUME Inv
             PROVE  Shows
  OBVIOUS
<1>1. IsLoading(Snapshot)
  BY SnapshotOf DEF Inv
<1> QED
  BY <1>1, ViewLoads, FewerLoadings DEF Shows, Current, Filtered

\* The view has the current list, but for what came after its place was loaded.
LEMMA ViewParts ==
    ASSUME Inv
    PROVE  View = IF state = "loads" THEN Filtered(loaded) \cup {l \in Current : l.at < after}
                                     ELSE Current
  BY DEF View, Current, Filtered, Older

\* A change at Playerok is one of one entry.
ChangesOf(e) == Active(e) \/ Vanish(e) \/ Change(e)

LEMMA OthersStay ==
    ASSUME Inv, NEW e \in Entries, ChangesOf(e)
    PROVE  /\ UNCHANGED <<list, limit, cursor, state, loaded, after, got, base>>
           /\ \A l \in Snapshot : l.entry # e => l \in Snapshot'
           /\ \A l \in Snapshot' : l.entry # e => l \in Snapshot
<1>1. /\ UNCHANGED <<list, limit, cursor, state, loaded, after, got, base>>
      /\ \A d \in Entries : d # e => at'[d] = at[d] /\ (d \in passes' <=> d \in passes)
  <2>1. at \in [Entries -> 0..MaxTime]
    BY DEF Inv, TypeOK
  <2>2. CASE Active(e)
    BY <2>1, <2>2 DEF Active
  <2>3. CASE Vanish(e)
    BY <2>1, <2>3 DEF Vanish
  <2>4. CASE Change(e)
    BY <2>1, <2>4 DEF Change
  <2> QED
    BY <2>2, <2>3, <2>4 DEF ChangesOf
<1>2. Snapshot = Shown(at, passes) /\ Snapshot' = Shown(at', passes')
  BY DEF Snapshot, Shown, Present
<1>3. ASSUME NEW d \in Entries, d # e
      PROVE  /\ [entry |-> d, at |-> at'[d], passes |-> d \in passes']
                   = [entry |-> d, at |-> at[d], passes |-> d \in passes]
             /\ at'[d] = at[d]
  BY <1>1, <1>3
<1>4. ASSUME NEW t, NEW p, NEW l \in Shown(t, p)
      PROVE  /\ l.entry \in Entries /\ t[l.entry] # 0
             /\ l = [entry |-> l.entry, at |-> t[l.entry], passes |-> l.entry \in p]
  <2>1. PICK d \in {d \in Entries : t[d] # 0} : l = [entry |-> d, at |-> t[d], passes |-> d \in p]
    BY DEF Shown
  <2>2. l.entry = d
    BY <2>1
  <2> QED
    BY <2>1, <2>2
<1>5. \A l \in Snapshot : l.entry # e => l \in Snapshot'
  <2> SUFFICES ASSUME NEW l \in Snapshot, l.entry # e
               PROVE  l \in Snapshot'
    OBVIOUS
  <2>1. /\ l.entry \in Entries /\ at[l.entry] # 0
        /\ l = [entry |-> l.entry, at |-> at[l.entry], passes |-> l.entry \in passes]
    BY <1>2, <1>4
  <2>2. [entry |-> l.entry, at |-> at'[l.entry], passes |-> l.entry \in passes'] \in Snapshot'
    BY <1>2, <1>3, <2>1, ShownParts
  <2> QED
    BY <1>3, <2>1, <2>2
<1>6. \A l \in Snapshot' : l.entry # e => l \in Snapshot
  <2> SUFFICES ASSUME NEW l \in Snapshot', l.entry # e
               PROVE  l \in Snapshot
    OBVIOUS
  <2>1. /\ l.entry \in Entries /\ at'[l.entry] # 0
        /\ l = [entry |-> l.entry, at |-> at'[l.entry], passes |-> l.entry \in passes']
    BY <1>2, <1>4
  <2>2. [entry |-> l.entry, at |-> at[l.entry], passes |-> l.entry \in passes] \in Snapshot
    BY <1>2, <1>3, <2>1, ShownParts
  <2> QED
    BY <1>3, <2>1, <2>2
<1> QED
  BY <1>1, <1>5, <1>6

\* One entry shows once at most.
LEMMA OneOf ==
    ASSUME NEW V, IsLoading(V), NEW e
    PROVE  LET X == {l \in V : l.entry = e} IN
           IsFiniteSet(X) /\ Cardinality(X) \in Nat /\ Cardinality(X) <= 1
<1> DEFINE X == {l \in V : l.entry = e}
<1>1. IsFiniteSet({e}) /\ Cardinality({e}) = 1
  BY FS_Singleton
<1> DEFINE f == [l \in X |-> e]
<1>2. f \in [X -> {e}]
  OBVIOUS
<1>3. \A l, m \in X : f[l] = f[m] => l = m
  BY DEF IsLoading, Apart
<1> HIDE DEF X, f
<1>4. IsFiniteSet(X) /\ Cardinality(X) \in Nat /\ Cardinality(X) <= Cardinality({e})
  BY <1>1, <1>2, <1>3, InjectionCount
<1> QED
  BY <1>1, <1>4 DEF X

\* What a change brings is in the view, or waits to be, once; what it takes leaves the view,
\* or will, once.
LEMMA ChangeMoves ==
    ASSUME Inv, NEW e \in Entries, ChangesOf(e)
    PROVE  /\ (View' \ View) \cup (Current' \ View') \subseteq
                 (Current \ View) \cup {l \in Current' : l.entry = e}
           /\ (View \ View') \cup (View' \ Current') \subseteq
                 (View \ Current) \cup {l \in Current : l.entry = e}
<1>1. /\ UNCHANGED <<list, limit, cursor, state, loaded, after, got, base>>
      /\ \A l \in Current : l.entry # e => l \in Current'
      /\ \A l \in Current' : l.entry # e => l \in Current
  BY OthersStay DEF Current, Filtered
<1>2. View = IF state = "loads" THEN Filtered(loaded) \cup {l \in Current : l.at < after}
                                ELSE Current
  BY ViewParts
<1>3. View' = IF state = "loads" THEN Filtered(loaded) \cup {l \in Current' : l.at < after}
                                 ELSE Current'
  BY <1>1 DEF View, Current, Filtered, Older
<1> HIDE DEF Current, View
<1> QED
  BY <1>1, <1>2, <1>3

\* Loading goes on in the same view.
LEMMA LoadSame ==
    ASSUME Inv, Load
    PROVE  View' = View /\ Current' = Current
<1>1. PICK last \in PlatformEntries :
         /\ \A l \in PlatformEntries : last.at <= l.at
         /\ after' = last.at
  BY DEF Load
<1>2. /\ state = "loads" /\ loaded' = loaded \cup PlatformEntries
      /\ UNCHANGED <<list, at, now, filtered, passes, limit, cursor, state, got, base, moved, gone>>
  BY DEF Load
<1>3. PlatformEntries = {l \in Older : l.at >= last.at}
  BY <1>1, PageSplits DEF Inv
<1>4. /\ last.at \in Nat /\ after \in Nat /\ last.at < after
      /\ \A l \in Snapshot : l.at \in Nat
  <2>1. last \in Snapshot /\ last.at < after
    BY <1>3 DEF Older
  <2>2. \A l \in Snapshot : l.at \in 1..MaxTime
    BY SnapshotOf DEF Inv
  <2> QED
    BY <2>1, <2>2, BoundsAssumption DEF Inv, TypeOK
<1>5. loaded' \cup Older' = loaded \cup Older
  <2>1. Older' = {l \in Snapshot : l.at < last.at}
    BY <1>1, <1>2 DEF Older, Snapshot, Present
  <2> QED
    BY <1>2, <1>3, <1>4, <2>1 DEF Older
<1> QED
  BY <1>2, <1>5 DEF View, Filtered, Current, Snapshot, Present

\* So does a request begin.
LEMMA AskSame ==
    ASSUME Inv, Ask
    PROVE  View' = View /\ Current' = Current /\ View = Current
<1>1. /\ state = "asks" /\ state' = "loads" /\ loaded' = {} /\ after' = MaxTime + 1
      /\ UNCHANGED <<list, at, now, filtered, passes, limit, cursor, got, base, moved, gone>>
  BY DEF Ask
<1>2. \A l \in Snapshot : l.at < MaxTime + 1
  <2>1. \A l \in Snapshot : l.at \in 1..MaxTime
    BY SnapshotOf DEF Inv
  <2> QED
    BY <2>1, BoundsAssumption
<1>3. Snapshot' = Snapshot
  BY <1>1 DEF Snapshot, Present
<1>4. loaded' \cup Older' = Snapshot
  BY <1>1, <1>2, <1>3 DEF Older
<1> QED
  BY <1>1, <1>3, <1>4 DEF View, Filtered, Current

----------------------------------------------------------------------------
(* What a page delivers.                                                    *)

PageEnd ==
    IF cursor + limit < Cardinality(View) THEN cursor + limit ELSE Cardinality(View)

OnPage == {l \in View : Rank(View, l) >= cursor /\ Rank(View, l) < PageEnd}

LEMMA DeliverIs ==
    ASSUME Inv, IsLoading(View), Deliver
    PROVE  /\ UNCHANGED <<list, at, now, filtered, passes, limit, base, moved, gone>>
           /\ state = "loads" /\ cursor \in Nat /\ PageEnd \in Nat /\ got' \in Seq(Entries)
           /\ \/ /\ state' = "asks" /\ cursor' = PageEnd /\ cursor <= PageEnd
              \/ /\ state' = "done" /\ \A l \in View : Rank(View, l) < PageEnd
           /\ \A x : IsIn(x, got') <=> IsIn(x, got) \/ \E l \in OnPage : l.entry = x
           /\ Len(got') = Len(got) + Cardinality(OnPage) /\ Cardinality(OnPage) \in Nat
<1> DEFINE entries == Sorted(View)
           end == cursor + limit
           page == SubSeq(entries, cursor + 1, PageEnd)
<1>1. /\ state = "loads" /\ Cardinality(Older) <= PlatformPage
      /\ UNCHANGED <<list, at, now, filtered, passes, limit, base, moved, gone>>
  BY DEF Deliver
<1>2. View = Filtered(loaded \cup PlatformEntries)
  BY <1>1, CutOf DEF Inv, View
<1>3. /\ entries \in Seq(Entries) /\ Len(entries) = Cardinality(View) /\ Cardinality(View) \in Nat
      /\ \A l \in View : /\ Rank(View, l) \in Nat /\ Rank(View, l) + 1 \in 1..Len(entries)
                         /\ entries[Rank(View, l) + 1] = l.entry
  BY SortedOf
<1>4. /\ got' = got \o page
      /\ \/ end < Cardinality(View) /\ state' = "asks" /\ cursor' = end
         \/ ~(end < Cardinality(View)) /\ state' = "done" /\ cursor' = cursor
  BY <1>2, <1>3 DEF Deliver, Page, HasNext, PageEnd
<1>5. /\ limit \in Nat /\ cursor \in Nat /\ got \in Seq(Entries)
  BY BoundsAssumption DEF Deliver, Inv, Gathered, LimitAccepted, TypeOK
<1> HIDE DEF entries
<1>6. PageEnd \in Nat /\ PageEnd <= Len(entries) /\ end \in Nat
      /\ (end < Cardinality(View) => PageEnd = end)
      /\ (~(end < Cardinality(View)) => PageEnd = Cardinality(View))
  BY <1>3, <1>5 DEF PageEnd
<1>7. /\ page \in Seq(Entries) /\ Len(page) = IF cursor < PageEnd THEN PageEnd - cursor ELSE 0
      /\ \A i \in 1..(PageEnd - cursor) : page[i] = entries[cursor + i]
  BY <1>3, <1>5, <1>6, SliceOf
<1> HIDE DEF page
<1>8. /\ got' \in Seq(Entries) /\ Len(got') = Len(got) + Len(page)
      /\ \A i \in 1..(Len(got) + Len(page)) :
            got'[i] = IF i <= Len(got) THEN got[i] ELSE page[i - Len(got)]
  BY <1>4, <1>5, <1>7, ConcatProperties
<1>9. /\ DOMAIN got = 1..Len(got) /\ DOMAIN got' = 1..Len(got') /\ DOMAIN page = 1..Len(page)
      /\ Len(got) \in Nat /\ Len(page) \in Nat
  BY <1>5, <1>7, <1>8
<1>10. \A x : IsIn(x, got') <=> IsIn(x, got) \/ IsIn(x, page)
  <2>1. ToSet(got') = ToSet(got) \cup ToSet(page)
    BY <1>4, <1>5, <1>7, ToSetConcat
  <2>2. \A x : /\ IsIn(x, got') <=> x \in ToSet(got')
               /\ IsIn(x, got) <=> x \in ToSet(got)
               /\ IsIn(x, page) <=> x \in ToSet(page)
    BY DEF IsIn, ToSet
  <2> QED
    BY <2>1, <2>2
<1>11. ASSUME NEW l \in OnPage
       PROVE  IsIn(l.entry, page)
  <2>1. l \in View /\ Rank(View, l) >= cursor /\ Rank(View, l) < PageEnd
    BY DEF OnPage
  <2>2. Rank(View, l) \in Nat /\ entries[Rank(View, l) + 1] = l.entry
    BY <1>3, <2>1
  <2> DEFINE r == Rank(View, l)
             i == r + 1 - cursor
  <2>3. r \in Nat /\ r >= cursor /\ r < PageEnd /\ entries[r + 1] = l.entry
    BY <2>1, <2>2
  <2> HIDE DEF r
  <2>4. i \in 1..(PageEnd - cursor) /\ cursor + i = r + 1 /\ cursor < PageEnd
    BY <1>5, <1>6, <2>3
  <2> HIDE DEF i
  <2>5. page[i] = l.entry /\ i \in 1..Len(page)
    BY <1>7, <2>3, <2>4
  <2> QED
    BY <1>9, <2>5 DEF IsIn
<1>12. ASSUME NEW x, IsIn(x, page)
       PROVE  \E l \in OnPage : l.entry = x
  <2>1. PICK i \in 1..Len(page) : page[i] = x
    BY <1>9, <1>12 DEF IsIn
  <2>2. i \in 1..(PageEnd - cursor) /\ cursor < PageEnd
    BY <1>5, <1>6, <1>7
  <2>3. cursor + i \in 1..Cardinality(View) /\ cursor + i \in Nat
        /\ (cursor + i) - 1 >= cursor /\ (cursor + i) - 1 < PageEnd /\ ((cursor + i) - 1) + 1 = cursor + i
    BY <1>3, <1>5, <1>6, <2>2
  <2>4. PICK l \in View : Rank(View, l) = (cursor + i) - 1
    BY <2>3, RankTaken
  <2>5. entries[cursor + i] = l.entry
    BY <1>3, <2>3, <2>4
  <2>6. l.entry = x
    BY <1>7, <2>1, <2>2, <2>5
  <2>7. l \in OnPage
    BY <2>3, <2>4 DEF OnPage
  <2> QED
    BY <2>6, <2>7
<1>13. Cardinality(OnPage) = Len(page)
  <2>1. \A l \in View : Rank(View, l) \in Nat
    BY <1>3
  <2>2. CASE cursor < PageEnd
    <3>1. /\ IsFiniteSet(Top(View, cursor)) /\ Cardinality(Top(View, cursor)) = cursor
          /\ IsFiniteSet(Top(View, PageEnd)) /\ Cardinality(Top(View, PageEnd)) = PageEnd
      <4>1. cursor <= Cardinality(View) /\ PageEnd <= Cardinality(View)
        BY <1>3, <1>5, <1>6, <2>2
      <4> QED
        BY <1>5, <1>6, <4>1, TopCount
    <3>2. /\ Top(View, cursor) \cup OnPage = Top(View, PageEnd)
          /\ Top(View, cursor) \cap OnPage = {}
      BY <1>5, <1>6, <2>1, <2>2 DEF Top, OnPage
    <3>3. IsFiniteSet(OnPage)
      <4>1. OnPage \in SUBSET Top(View, PageEnd)
        BY <3>2
      <4> QED
        BY <3>1, <4>1, FS_Subset
    <3>4. PageEnd = cursor + Cardinality(OnPage) - Cardinality({}) /\ Cardinality({}) = 0
      BY <3>1, <3>2, <3>3, FS_Union, FS_EmptySet
    <3>5. Cardinality(OnPage) \in Nat
      BY <3>3, FS_CardinalityType
    <3> QED
      BY <1>5, <1>6, <1>7, <2>2, <3>4, <3>5
  <2>3. CASE ~(cursor < PageEnd)
    <3>1. OnPage = {}
      BY <1>5, <1>6, <2>1, <2>3 DEF OnPage
    <3> QED
      BY <1>7, <2>3, <3>1, FS_EmptySet
  <2> QED
    BY <2>2, <2>3
<1>14. \/ state' = "asks" /\ cursor' = PageEnd /\ cursor <= PageEnd
       \/ (state' = "done" /\ \A l \in View : Rank(View, l) < PageEnd)
  <2>1. CASE end < Cardinality(View)
    <3>1. state' = "asks" /\ cursor' = PageEnd
      BY <1>4, <1>6, <2>1
    <3>2. cursor <= PageEnd
      BY <1>5, <1>6, <2>1
    <3> QED
      BY <3>1, <3>2
  <2>2. CASE ~(end < Cardinality(View))
    <3>1. state' = "done" /\ PageEnd = Cardinality(View)
      BY <1>4, <1>6, <2>2
    <3>2. \A l \in View : Rank(View, l) < PageEnd
      BY <3>1, RankOf
    <3> QED
      BY <3>1, <3>2
  <2> QED
    BY <2>1, <2>2
<1> QED
  BY <1>1, <1>5, <1>6, <1>8, <1>9, <1>10, <1>11, <1>12, <1>13, <1>14

----------------------------------------------------------------------------
(* A list that entries only join.                                           *)

\* Ahead of the next state, in terms of its view.
LEMMA AheadNext ==
    ASSUME list' = list,
           \A x \in Entries : IsIn(x, base') /\ x \notin moved' /\ ~IsIn(x, got') =>
               \E l \in View' : l.entry = x /\ Rank(View', l) >= cursor'
    PROVE  Ahead'
  BY DEF Ahead, Rank, Before, IsIn

\* If nothing has left after a step, nothing had before.
LEMMA SteadyBefore ==
    ASSUME Inv, [Next]_vars, Steady'
    PROVE  Steady /\ gone' = gone /\ \A e \in Entries : ~Vanish(e)
<1>1. gone \in Nat /\ gone' = 0
  BY BoundsAssumption DEF Inv, TypeOK, Steady
<1>2. gone = 0 /\ \A e \in Entries : ~Vanish(e)
  <2>1. CASE \E e \in Entries : Active(e) \/ Vanish(e) \/ Change(e)
    BY <1>1, <2>1 DEF Active, Vanish, Change
  <2>2. CASE Read
    BY <1>1, <2>2 DEF Read, Refuse, Ask, Load, Deliver, Vanish
  <2>3. CASE UNCHANGED vars
    BY <1>1, <2>3 DEF vars, Vanish
  <2> QED
    BY <2>1, <2>2, <2>3 DEF Next
<1>3. list' = list
  BY DEF Next, Read, Refuse, Ask, Load, Deliver, Active, Vanish, Change, vars
<1>4. Present \subseteq Present'
  <2>1. now \in Nat
    BY BoundsAssumption DEF Inv, TypeOK
  <2>2. \A d \in Entries : at[d] # 0 => at'[d] # 0
    <3>1. CASE \E e \in Entries : Active(e) \/ Change(e)
      BY <2>1, <3>1 DEF Active, Change, Inv, TypeOK
    <3>2. CASE Read \/ UNCHANGED vars
      BY <3>2 DEF Read, Refuse, Ask, Load, Deliver, vars
    <3> QED
      BY <1>2, <3>1, <3>2 DEF Next
  <2> QED
    BY <2>2 DEF Present
<1>5. IsFiniteSet(Present') /\ Present' \subseteq Entries
  <2>1. Present' \subseteq Entries
    BY DEF Present
  <2> QED
    BY <2>1, EntriesAssumption, FS_Subset
<1>6. Cardinality(Present) <= Cardinality(Present')
      /\ Cardinality(Present) \in Nat /\ Cardinality(Present') \in Nat
  BY <1>4, <1>5, FS_Subset, FS_CardinalityType
<1>7. list = "conversations" => Cardinality(Present') <= PlatformPage
  BY <1>3 DEF Steady
<1> QED
  BY <1>1, <1>2, <1>6, <1>7, BoundsAssumption DEF Steady

\* An entry that joins or moves comes to the front; the others stay as they were.
Joins(e) ==
    /\ UNCHANGED <<list, cursor, state, loaded, after, got, base>>
    /\ moved' = moved \cup {e} /\ passes \subseteq passes'
    /\ at'[e] \in 1..MaxTime /\ at'[e] >= at[e]
    /\ list # "conversations" => at[e] = 0 \/ at'[e] = at[e]
    /\ \A d \in Entries \ {e} : at'[d] = at[d] /\ (d \in passes' <=> d \in passes)

LEMMA ArrivalJoins ==
    ASSUME Inv, NEW e \in Entries, Active(e) \/ Change(e), gone' = gone
    PROVE  Joins(e)
<1>0. /\ MaxTime \in Nat /\ now \in Nat /\ gone \in Nat /\ at \in [Entries -> 0..MaxTime]
      /\ at[e] \in Nat /\ at[e] <= now
  BY BoundsAssumption DEF Inv, TypeOK, Clocked
<1>1. CASE Active(e)
  <2>1. /\ now + 1 \in 1..MaxTime /\ at' = [at EXCEPT ![e] = now + 1]
        /\ list = "conversations" \/ at[e] = 0
    BY <1>0, <1>1 DEF Active
  <2>2. at'[e] = now + 1 /\ \A d \in Entries \ {e} : at'[d] = at[d]
    BY <1>0, <2>1
  <2>3. passes \subseteq passes' /\ \A d \in Entries \ {e} : d \in passes' <=> d \in passes
    BY <1>1 DEF Active
  <2> QED
    BY <1>0, <1>1, <2>1, <2>2, <2>3 DEF Active, Joins
<1>2. CASE Change(e)
  <2>1. e \notin passes /\ passes' = passes \cup {e} /\ moved' = moved \cup {e}
    BY <1>0, <1>2 DEF Change
  <2>2. at' = at /\ at[e] \in 1..MaxTime
    BY <1>0, <1>2 DEF Change
  <2> QED
    BY <1>0, <1>2, <2>1, <2>2 DEF Change, Joins
<1> QED
  BY <1>1, <1>2

\* What shows still shows when an entry joins, and no earlier.
LEMMA JoinShows ==
    ASSUME Inv, NEW e \in Entries, Joins(e), NEW k \in Snapshot, k.passes
    PROVE  \E j \in Snapshot' : /\ j.entry = k.entry /\ j.passes /\ j.at >= k.at /\ j.at \in 1..MaxTime
                                /\ k.entry # e \/ list # "conversations" => j = k
<1>1. /\ k.entry \in Entries /\ k.at \in 1..MaxTime
      /\ k.at = at[k.entry] /\ k.entry \in passes /\ k \in Loadings
  BY SnapshotOf DEF Inv, IsLoading
<1>2. k = [entry |-> k.entry, at |-> k.at, passes |-> TRUE]
  BY <1>1, LoadingParts
<1> DEFINE j == [entry |-> k.entry, at |-> at'[k.entry], passes |-> k.entry \in passes']
<1>3. k.entry \in passes' /\ at'[k.entry] \in 1..MaxTime /\ at'[k.entry] >= k.at
      /\ (k.entry # e \/ list # "conversations" => at'[k.entry] = k.at)
  BY <1>1, BoundsAssumption DEF Joins
<1>4. j \in Shown(at', passes')
  BY <1>1, <1>3, ShownParts
<1>5. Snapshot' = Shown(at', passes')
  BY DEF Snapshot, Shown, Present
<1>6. j.entry = k.entry /\ j.passes /\ j.at = at'[k.entry]
  BY <1>3
<1>7. at'[k.entry] = k.at => j = k
  BY <1>2, <1>3
<1> HIDE DEF j
<1> QED
  BY <1>3, <1>4, <1>5, <1>6, <1>7

LEMMA JoinKeeps ==
    ASSUME Inv, IsLoading(View), IsLoading(View)', Kept, Steady, Steady', NEW e \in Entries, Joins(e)
    PROVE  Kept'
<1>1. /\ list' = list /\ state' = state /\ loaded' = loaded /\ after' = after /\ cursor' = cursor
      /\ got' = got /\ base' = base
  BY DEF Joins
<1>2. after \in Nat /\ MaxTime \in Nat
  BY BoundsAssumption DEF Inv, TypeOK
<1>3. ASSUME NEW k \in View
      PROVE  \E j \in View' : /\ j.entry = k.entry /\ j.at >= k.at
                              /\ k.entry # e => j = k
  <2>1. k.passes /\ k \in Loadings
    BY DEF View, Filtered, IsLoading
  <2>2. k.at \in Nat
    BY <2>1, LoadingParts
  <2>3. CASE state = "loads" /\ k \in loaded
    <3>1. k \in View'
      BY <1>1, <2>1, <2>3 DEF View, Filtered
    <3> QED
      BY <2>2, <3>1
  <2>4. CASE state = "loads" /\ k \notin loaded
    <3>1. k \in Snapshot /\ k.at < after
      BY <2>4 DEF View, Filtered, Older
    <3>2. PICK j \in Snapshot' :
             /\ j.entry = k.entry /\ j.passes /\ j.at >= k.at /\ j.at \in 1..MaxTime
             /\ k.entry # e \/ list # "conversations" => j = k
      BY <2>1, <3>1, JoinShows
    <3>3. j.at < after'
      <4>1. CASE list = "conversations"
        BY <1>1, <1>2, <2>4, <3>2, <4>1 DEF Kept
      <4>2. CASE list # "conversations"
        BY <1>1, <3>1, <3>2, <4>2
      <4> QED
        BY <4>1, <4>2
    <3>4. j \in View'
      BY <1>1, <2>4, <3>2, <3>3 DEF View, Filtered, Older
    <3> QED
      BY <3>2, <3>4
  <2>5. CASE state # "loads"
    <3>1. k \in Snapshot
      BY <2>5 DEF View, Filtered
    <3>2. PICK j \in Snapshot' :
             /\ j.entry = k.entry /\ j.passes /\ j.at >= k.at /\ j.at \in 1..MaxTime
             /\ k.entry # e \/ list # "conversations" => j = k
      BY <2>1, <3>1, JoinShows
    <3>3. j \in View'
      BY <1>1, <2>5, <3>2 DEF View, Filtered
    <3> QED
      BY <3>2, <3>3
  <2> QED
    BY <2>3, <2>4, <2>5
<1>4. IsLoading(View')
  BY DEF IsLoading, Apart, Loadings
<1>5. ASSUME NEW l \in View, l.entry # e
      PROVE  l \in View' /\ Rank(View, l) <= Rank(View', l)
  <2>1. l \in View'
    BY <1>3, <1>5
  <2>2. \A k \in View : Before(k, l) => \E j \in View' : j.entry = k.entry /\ Before(j, l)
    <3> SUFFICES ASSUME NEW k \in View, Before(k, l)
                 PROVE  \E j \in View' : j.entry = k.entry /\ Before(j, l)
      OBVIOUS
    <3>1. PICK j \in View' : j.entry = k.entry /\ j.at >= k.at
      BY <1>3
    <3>2. j.at \in Nat /\ k.at \in Nat /\ l.at \in Nat
      BY <1>4, LoadingParts DEF IsLoading
    <3> QED
      BY <3>1, <3>2 DEF Before
  <2> HIDE DEF View
  <2> QED
    BY <1>4, <2>1, <2>2, RankGrows
<1>6. state \in {"asks", "loads"} => Ahead'
  <2> SUFFICES ASSUME state \in {"asks", "loads"}
               PROVE  Ahead'
    OBVIOUS
  <2>1. ASSUME NEW x \in Entries, IsIn(x, base'), x \notin moved', ~IsIn(x, got')
        PROVE  \E l \in View' : l.entry = x /\ Rank(View', l) >= cursor'
    <3>1. IsIn(x, base) /\ x \notin moved /\ ~IsIn(x, got) /\ x # e
      BY <1>1, <2>1 DEF Joins
    <3>2. PICK l \in View : l.entry = x /\ Rank(View, l) >= cursor
      BY <3>1 DEF Kept, Ahead
    <3>3. l \in View' /\ Rank(View, l) <= Rank(View', l)
      BY <1>5, <3>1, <3>2
    <3>4. Rank(View, l) \in Nat /\ Rank(View', l) \in Nat /\ cursor \in Nat
      BY <1>4, <3>3, RankOf DEF Inv, TypeOK
    <3>5. Rank(View', l) >= cursor'
      BY <1>1, <3>2, <3>3, <3>4
    <3> QED
      BY <3>2, <3>3, <3>5
  <2> QED
    BY <1>1, <2>1, AheadNext
<1>7. list # "conversations" => LoadedStays'
  <2> SUFFICES ASSUME list # "conversations", NEW l \in loaded
               PROVE  at'[l.entry] = l.at /\ (l.passes => l.entry \in passes')
    BY <1>1 DEF LoadedStays
  <2>1. /\ at[l.entry] = l.at /\ (l.passes => l.entry \in passes)
        /\ l.entry \in Entries /\ l.at \in 1..MaxTime
    BY LoadingParts DEF Kept, LoadedStays, Inv, TypeOK
  <2> QED
    BY <1>2, <2>1 DEF Joins
<1>8. NothingOvertaken'
  <2> SUFFICES ASSUME state = "done", NEW x \in Entries, IsIn(x, base), x \notin moved'
               PROVE  IsIn(x, got)
    BY <1>1 DEF NothingOvertaken, IsIn
  <2>1. x \notin moved
    BY DEF Joins
  <2> QED
    BY <2>1 DEF Kept, Steady, NothingOvertaken
<1> QED
  BY <1>1, <1>6, <1>7, <1>8 DEF Kept

\* A list that fits in one page of Playerok is not loaded in parts.
LEMMA NoLoadOfFew ==
    ASSUME Inv, Steady, list = "conversations"
    PROVE  Cardinality(Older) <= PlatformPage
<1>1. IsLoading(Older) /\ Older \subseteq Shown(at, passes)
  BY OlderOf, SnapshotOf DEF Inv
<1>2. Cardinality(Older) <= Cardinality(Present)
  BY <1>1, ShownCount DEF Present
<1>3. IsFiniteSet(Present)
  BY EntriesAssumption, FS_Subset DEF Present
<1>4. Cardinality(Present) \in Nat /\ Cardinality(Older) \in Nat
  BY <1>1, <1>3, FS_CardinalityType DEF IsLoading
<1> QED
  BY <1>2, <1>4, BoundsAssumption DEF Steady

LEMMA LoadKept ==
    ASSUME Inv, Kept, Steady, Load
    PROVE  Kept'
<1>1. /\ state = "loads" /\ Cardinality(Older) > PlatformPage
      /\ loaded' = loaded \cup PlatformEntries
      /\ UNCHANGED <<list, at, now, filtered, passes, limit, cursor, state, got, base, moved, gone>>
  BY DEF Load
<1>2. list # "conversations" /\ PlatformEntries \subseteq Snapshot
  <2>1. Cardinality(Older) \in Nat /\ PlatformEntries \subseteq Older
    BY OlderOf DEF Inv
  <2> QED
    BY <1>1, <2>1, NoLoadOfFew, BoundsAssumption DEF Older
<1>3. Ahead'
  <2>1. View' = View /\ Ahead
    BY <1>1, LoadSame DEF Kept
  <2> HIDE DEF View
  <2> QED
    BY <1>1, <2>1, AheadNext DEF Ahead, IsIn
<1>4. LoadedStays'
  <2> SUFFICES ASSUME NEW l \in loaded \cup PlatformEntries
               PROVE  at[l.entry] = l.at /\ (l.passes => l.entry \in passes)
    BY <1>1 DEF LoadedStays
  <2>1. CASE l \in loaded
    BY <1>2, <2>1 DEF Kept, LoadedStays
  <2>2. CASE l \in PlatformEntries
    BY <1>2, <2>2, SnapshotOf DEF Inv
  <2> QED
    BY <2>1, <2>2
<1> QED
  BY <1>1, <1>2, <1>3, <1>4 DEF Kept, NothingOvertaken

LEMMA AskKept ==
    ASSUME Inv, Kept, Steady, Ask
    PROVE  Kept'
<1>1. /\ state = "asks" /\ state' = "loads" /\ loaded' = {} /\ after' = MaxTime + 1
      /\ UNCHANGED <<list, at, now, filtered, passes, limit, cursor, got, base, moved, gone>>
  BY DEF Ask
<1>2. Ahead'
  <2>1. View' = View /\ Ahead
    BY <1>1, AskSame DEF Kept
  <2> HIDE DEF View
  <2> QED
    BY <1>1, <2>1, AheadNext DEF Ahead, IsIn
<1> QED
  BY <1>1, <1>2 DEF Kept, NothingOvertaken, LoadedStays

\* All that a request has loaded still shows, when nothing has left the list.
LEMMA ViewCurrent ==
    ASSUME Inv, Kept, Steady, state = "loads"
    PROVE  View \subseteq Current
<1> SUFFICES ASSUME NEW l \in View
             PROVE  l \in Current
  OBVIOUS
<1>1. l \in loaded \cup Older /\ l.passes
  BY DEF View, Filtered
<1>2. CASE l \in Older
  BY <1>1, <1>2 DEF Older, Filtered, Current
<1>3. CASE l \in loaded
  <2>1. list # "conversations"
    BY <1>3 DEF Kept
  <2>2. at[l.entry] = l.at /\ l.entry \in passes /\ l \in Loadings
    BY <1>1, <1>3, <2>1 DEF Kept, LoadedStays, Inv, TypeOK
  <2>3. /\ l.entry \in Entries /\ l.at \in 1..MaxTime /\ l.passes \in BOOLEAN
        /\ l = [entry |-> l.entry, at |-> l.at, passes |-> l.passes]
    BY <2>2, LoadingParts
  <2>4. (l.entry \in passes) = l.passes
    BY <1>1, <2>2, <2>3
  <2>5. /\ l.entry \in Entries /\ l.at # 0
        /\ l = [entry |-> l.entry, at |-> at[l.entry], passes |-> l.entry \in passes]
    BY <2>2, <2>3, <2>4, BoundsAssumption
  <2>6. l \in Snapshot
    BY <2>2, <2>5, SnapshotOf DEF Inv
  <2> QED
    BY <1>1, <2>6 DEF Filtered, Current
<1> QED
  BY <1>1, <1>2, <1>3

\* A page holds what lies before its end, and the rest is not before the next cursor.
LEMMA DeliverKept ==
    ASSUME Inv, IsLoading(View), IsLoading(View)', Kept, Steady, Deliver
    PROVE  Kept'
<1>1. /\ UNCHANGED <<list, at, now, filtered, passes, limit, base, moved, gone>>
      /\ state = "loads" /\ cursor \in Nat /\ PageEnd \in Nat
      /\ \/ state' = "asks" /\ cursor' = PageEnd /\ cursor <= PageEnd
         \/ (state' = "done" /\ \A l \in View : Rank(View, l) < PageEnd)
      /\ \A x : IsIn(x, got') <=> IsIn(x, got) \/ \E l \in OnPage : l.entry = x
  BY DeliverIs
<1>2. loaded' = {}
  BY DEF Deliver
<1>3. ASSUME NEW x \in Entries, IsIn(x, base), x \notin moved, ~IsIn(x, got')
      PROVE  \E l \in View : l.entry = x /\ Rank(View, l) >= PageEnd /\ Rank(View, l) \in Nat
  <2>1. PICK l \in View : l.entry = x /\ Rank(View, l) >= cursor
    BY <1>1, <1>3 DEF Kept, Ahead
  <2>2. Rank(View, l) \in Nat
    BY RankOf
  <2>3. ~(Rank(View, l) < PageEnd)
    BY <1>1, <1>3, <2>1 DEF OnPage
  <2> QED
    BY <1>1, <2>1, <2>2, <2>3
<1>4. CASE state' = "asks"
  <2>1. View' = Current /\ View \subseteq View'
    BY <1>1, <1>4, ViewCurrent DEF View, Current, Filtered, Snapshot, Present
  <2>2. IsLoading(View')
    BY DEF IsLoading, Apart, Loadings
  <2>3. ASSUME NEW x \in Entries, IsIn(x, base'), x \notin moved', ~IsIn(x, got')
        PROVE  \E l \in View' : l.entry = x /\ Rank(View', l) >= cursor'
    <3>1. PICK l \in View : l.entry = x /\ Rank(View, l) >= PageEnd /\ Rank(View, l) \in Nat
      BY <1>1, <1>3, <2>3 DEF IsIn
    <3>2. l \in View' /\ Rank(View, l) <= Rank(View', l)
      <4> HIDE DEF View
      <4> QED
        BY <2>1, <2>2, RankWider
    <3>3. Rank(View', l) \in Nat
      BY <2>2, <3>2, RankOf
    <3>4. Rank(View', l) >= cursor'
      BY <1>1, <1>4, <3>1, <3>2, <3>3
    <3> QED
      BY <3>1, <3>2, <3>4
  <2>4. Ahead'
    BY <1>1, <2>3, AheadNext
  <2> QED
    BY <1>1, <1>2, <1>4, <2>4 DEF Kept, NothingOvertaken, LoadedStays
<1>5. CASE state' = "done"
  <2>1. ASSUME NEW x \in Entries, IsIn(x, base), x \notin moved, ~IsIn(x, got')
        PROVE  FALSE
    <3>1. PICK l \in View : l.entry = x /\ Rank(View, l) >= PageEnd /\ Rank(View, l) \in Nat
      BY <1>3, <2>1
    <3> QED
      BY <1>1, <1>5, <3>1
  <2>2. NothingOvertaken'
    BY <1>1, <2>1 DEF NothingOvertaken, IsIn
  <2> QED
    BY <1>1, <1>2, <1>5, <2>2 DEF Kept, LoadedStays
<1> QED
  BY <1>1, <1>4, <1>5

LEMMA StepKept ==
    ASSUME Inv, IsLoading(View), IsLoading(View)', Kept, [Next]_vars
    PROVE  Kept'
<1> SUFFICES ASSUME Steady'
             PROVE  Kept'
  BY DEF Kept
<1>1. Steady /\ gone' = gone /\ \A e \in Entries : ~Vanish(e)
  BY SteadyBefore
<1>2. CASE \E e \in Entries : Active(e) \/ Change(e)
  BY <1>1, <1>2, ArrivalJoins, JoinKeeps
<1>3. CASE Refuse
  BY <1>1, <1>3 DEF Refuse, Kept, NothingOvertaken, LoadedStays
<1>4. CASE UNCHANGED vars
  <2>1. View' = View
    BY <1>4 DEF vars, View, Filtered, Older, Snapshot, Present
  <2>2. Ahead => Ahead'
    <3> HIDE DEF View
    <3> QED
      BY <1>4, <2>1, AheadNext DEF vars, Ahead, IsIn
  <2> QED
    BY <1>1, <1>4, <2>2 DEF vars, Kept, Steady, NothingOvertaken, LoadedStays, IsIn, Present
<1> QED
  BY <1>1, <1>2, <1>3, <1>4, LoadKept, AskKept, DeliverKept DEF Next, Read

\* At the start the caller has everything ahead of it.
LEMMA InitKept == Init => Kept
<1> SUFFICES ASSUME Init
             PROVE  Kept
  OBVIOUS
<1>1. Inv
  BY InitTyped, InitQuiet DEF Inv
<1>2. state = "asks" /\ loaded = {} /\ cursor = 0 /\ base = Sorted(View)
  BY DEF Init, View
<1>3. IsLoading(View)
  BY <1>1, ViewLoads
<1>4. Ahead
  <2> SUFFICES ASSUME NEW x \in Entries, IsIn(x, base)
               PROVE  \E l \in View : l.entry = x /\ Rank(View, l) >= cursor
    BY DEF Ahead
  <2> HIDE DEF View
  <2>1. PICK i \in 1..Cardinality(View) : base[i] = x
    <3>1. DOMAIN Sorted(View) = 1..Cardinality(View)
      BY <1>3, SortedOf
    <3> QED
      BY <1>2, <3>1 DEF IsIn
  <2>2. PICK l \in View : l.entry = x
    BY <1>2, <1>3, <2>1, SortedOf
  <2>3. Rank(View, l) \in Nat
    BY <1>3, RankOf
  <2> QED
    BY <1>2, <2>2, <2>3
<1> QED
  BY <1>2, <1>4 DEF Kept, LoadedStays, NothingOvertaken

\* While entries only arrive, and conversations fit in one page of Playerok, everything
\* that was there when the caller began is delivered.
THEOREM NothingIsOvertaken == Spec => []NothingOvertaken
<1>1. Spec => []Inv
  BY InvHolds
<1>2. Inv => IsLoading(View)
  BY ViewLoads
<1>3. Inv /\ IsLoading(View) /\ IsLoading(View)' /\ Kept /\ [Next]_vars => Kept'
  BY StepKept
<1>4. Init => Kept
  BY InitKept
<1>5. Kept => NothingOvertaken
  BY DEF Kept, NothingOvertaken, Steady
<1> QED
  BY <1>1, <1>2, <1>3, <1>4, <1>5, PTL DEF Spec

----------------------------------------------------------------------------
(* Entries that are delivered twice.                                        *)

Got == {got[j] : j \in DOMAIN got}

\* Every entry delivered twice stands for a change, and so does every one that still may be:
\* those the caller has behind its cursor, and what joined while the list was loaded, which
\* will push one more there.
RepeatsCounted ==
    /\ DuplicatesFromArrivals
    /\ state \in {"asks", "loads"} =>
          Len(got) + Cardinality(Behind(View, cursor, Got)) + Cardinality(Current \ View)
             <= Cardinality(Got) + Changes

\* The two lists of the next state.
LEMMA ShowsNext ==
    ASSUME Shows'
    PROVE  IsLoading(View') /\ IsLoading(Current')
  BY DEF Shows, IsLoading, Apart, Loadings

LEMMA BehindNext ==
    ASSUME list' = list
    PROVE  Behind(View, cursor, Got)' = Behind(View', cursor', Got')
  BY DEF Behind, Rank, Before

\* The numbers that are counted with.
LEMMA Numbers ==
    ASSUME Inv
    PROVE  /\ Len(got) \in Nat /\ IsFiniteSet(Got) /\ Cardinality(Got) \in Nat
           /\ \A x : IsIn(x, got) <=> x \in Got
           /\ now \in Nat /\ gone \in Nat /\ Cardinality(Entries) \in Nat /\ Changes \in Int
           /\ cursor \in Nat
<1>1. got \in Seq(Entries) /\ Got = ToSet(got)
  BY DEF Inv, TypeOK, Got, ToSet
<1>2. IsFiniteSet(Got) /\ Cardinality(Got) \in Nat
  BY <1>1, ToSetFinite, FS_CardinalityType
<1>3. Len(got) \in Nat
  BY <1>1
<1>4. now \in Nat /\ gone \in Nat /\ cursor \in Nat
  BY BoundsAssumption DEF Inv, TypeOK
<1>5. Cardinality(Entries) \in Nat
  BY EntriesAssumption, FS_CardinalityType
<1> QED
  BY <1>2, <1>3, <1>4, <1>5 DEF Changes, IsIn, Got

LEMMA InitRepeats == Init => RepeatsCounted
<1> SUFFICES ASSUME Init
             PROVE  RepeatsCounted
  OBVIOUS
<1>1. got = <<>> /\ state = "asks" /\ Changes = 0
  <2>1. Cardinality(Entries) \in Nat
    BY EntriesAssumption, FS_CardinalityType
  <2> QED
    BY <2>1 DEF Init, Changes
<1>2. Got = {} /\ Len(got) = 0
  BY <1>1 DEF Got
<1>3. Behind(View, cursor, Got) = {} /\ Current \ View = {}
  BY <1>1, <1>2 DEF Behind, View, Current
<1>4. Cardinality(Behind(View, cursor, Got)) = 0 /\ Cardinality(Current \ View) = 0
      /\ Cardinality(Got) = 0
  BY <1>2, <1>3, FS_EmptySet
<1>5. Len(got) <= Cardinality(Got) + Changes
  BY <1>1, <1>2, <1>4
<1>6. Len(got) + Cardinality(Behind(View, cursor, Got)) + Cardinality(Current \ View)
         <= Cardinality(Got) + Changes
  BY <1>1, <1>2, <1>4
<1>7. DuplicatesFromArrivals
  BY <1>5 DEF DuplicatesFromArrivals, Got
<1> QED
  BY <1>6, <1>7 DEF RepeatsCounted

\* The balance of RepeatsCounted moves by one on both sides.
LEMMA OneMore ==
    ASSUME NEW l \in Nat, NEW b \in Nat, NEW bb \in Nat, NEW c \in Nat, NEW cc \in Nat,
           NEW g \in Nat, NEW n \in Int,
           l + b + c <= g + n, bb + cc <= b + c + 1
    PROVE  l + bb + cc <= g + (n + 1)
  OBVIOUS

LEMMA ChangeRepeats ==
    ASSUME Inv, Shows, Shows', RepeatsCounted, NEW e \in Entries, ChangesOf(e)
    PROVE  RepeatsCounted'
<1>1. /\ list' = list /\ cursor' = cursor /\ state' = state /\ got' = got /\ Got' = Got
      /\ now' = now + 1
  BY OthersStay DEF ChangesOf, Active, Vanish, Change, Got
<1>2. /\ Len(got) \in Nat /\ Cardinality(Got) \in Nat /\ Changes \in Int /\ cursor \in Nat
      /\ Changes' = Changes + 1
  <2>1. now \in Nat /\ Cardinality(Entries) \in Nat
    BY Numbers
  <2> QED
    BY <1>1, <2>1, Numbers DEF Changes
<1>3. DuplicatesFromArrivals'
  <2>1. Len(got) <= Cardinality(Got) + Changes
    BY DEF RepeatsCounted, DuplicatesFromArrivals, Got
  <2>2. Len(got') <= Cardinality(Got') + Changes'
    BY <1>1, <1>2, <2>1
  <2> QED
    BY <2>2 DEF DuplicatesFromArrivals, Got
<1>4. ASSUME state \in {"asks", "loads"}
      PROVE  Len(got) + Cardinality(Behind(View', cursor, Got)) + Cardinality(Current' \ View')
                <= Cardinality(Got) + Changes'
  <2>1. IsLoading(View) /\ IsLoading(View') /\ IsLoading(Current) /\ IsLoading(Current')
    BY ShowsNext DEF Shows
  <2>2. /\ Cardinality(Behind(View', cursor, Got)) \in Nat
        /\ Cardinality(Behind(View, cursor, Got)) \in Nat
        /\ Cardinality(Behind(View', cursor, Got))
              <= Cardinality(Behind(View, cursor, Got)) + Cardinality(View' \ View)
    BY <1>2, <2>1, BehindGrows
  <2> DEFINE new == {l \in Current' : l.entry = e}
  <2>3. IsFiniteSet(new) /\ Cardinality(new) \in Nat /\ Cardinality(new) <= 1
    BY <2>1, OneOf
  <2>4. IsFiniteSet(Current \ View)
    <3>1. IsLoading(Current \ View)
      BY <2>1, FewerLoadings
    <3> QED
      BY <3>1 DEF IsLoading
  <2>5. /\ View' \ View \subseteq (Current \ View) \cup new
        /\ Current' \ View' \subseteq (Current \ View) \cup new
        /\ (View' \ View) \cap (Current' \ View') = {}
    BY ChangeMoves
  <2> HIDE DEF new
  <2>6. /\ Cardinality(View' \ View) \in Nat /\ Cardinality(Current' \ View') \in Nat
        /\ Cardinality(Current \ View) \in Nat
        /\ Cardinality(View' \ View) + Cardinality(Current' \ View')
              <= Cardinality(Current \ View) + Cardinality(new)
    BY <2>3, <2>4, <2>5, ApartCount
  <2>7. Len(got) + Cardinality(Behind(View, cursor, Got)) + Cardinality(Current \ View)
           <= Cardinality(Got) + Changes
    BY <1>4 DEF RepeatsCounted
  <2>8. Cardinality(Behind(View', cursor, Got)) + Cardinality(Current' \ View')
           <= Cardinality(Behind(View, cursor, Got)) + Cardinality(Current \ View) + 1
    BY <2>2, <2>3, <2>6
  <2>9. Len(got) + Cardinality(Behind(View', cursor, Got)) + Cardinality(Current' \ View')
           <= Cardinality(Got) + (Changes + 1)
    BY <1>2, <2>2, <2>6, <2>7, <2>8, OneMore
  <2> QED
    BY <1>2, <2>9
<1>5. Behind(View, cursor, Got)' = Behind(View', cursor, Got)
  BY <1>1, BehindNext
<1> QED
  BY <1>1, <1>3, <1>4, <1>5 DEF RepeatsCounted

LEMMA DeliverRepeats ==
    ASSUME Inv, Shows, Shows', RepeatsCounted, Deliver
    PROVE  RepeatsCounted'
<1>0. IsLoading(View) /\ IsLoading(Current)
  BY DEF Shows
<1>1. /\ UNCHANGED <<list, at, now, filtered, passes, limit, base, moved, gone>>
      /\ state = "loads" /\ cursor \in Nat /\ PageEnd \in Nat /\ got' \in Seq(Entries)
      /\ \/ state' = "asks" /\ cursor' = PageEnd /\ cursor <= PageEnd
         \/ state' = "done"
      /\ \A x : IsIn(x, got') <=> IsIn(x, got) \/ \E l \in OnPage : l.entry = x
      /\ Len(got') = Len(got) + Cardinality(OnPage) /\ Cardinality(OnPage) \in Nat
  BY <1>0, DeliverIs
<1>2. /\ Len(got) \in Nat /\ IsFiniteSet(Got) /\ Cardinality(Got) \in Nat /\ Changes \in Int
      /\ Changes' = Changes /\ Len(got') \in Nat
      /\ \A x : IsIn(x, got) <=> x \in Got
  BY <1>1, Numbers DEF Changes
<1>3. /\ IsFiniteSet(Got') /\ Cardinality(Got') \in Nat /\ Got \subseteq Got'
      /\ \A x : x \in Got' <=> x \in Got \/ \E l \in OnPage : l.entry = x
  <2>1. Got' = ToSet(got')
    BY DEF Got, ToSet
  <2>2. \A x : IsIn(x, got') <=> x \in Got'
    BY DEF IsIn, Got
  <2>3. IsFiniteSet(Got')
    BY <1>1, <2>1, ToSetFinite
  <2> QED
    BY <1>1, <1>2, <2>2, <2>3, FS_CardinalityType
<1> DEFINE twice == {l \in OnPage : l.entry \in Got}
           once == OnPage \ twice
<1>4. OnPage \subseteq View /\ \A l \in View : Rank(View, l) \in Nat
  BY <1>0, RankOf DEF OnPage
<1>5. IsFiniteSet(twice) /\ IsFiniteSet(once)
      /\ Cardinality(OnPage) <= Cardinality(twice) + Cardinality(once)
      /\ Cardinality(twice) \in Nat /\ Cardinality(once) \in Nat
  <2>1. IsLoading(twice) /\ IsLoading(once)
    BY <1>0, <1>4, FewerLoadings
  <2>2. OnPage \subseteq twice \cup once
    OBVIOUS
  <2> HIDE DEF twice, once
  <2> QED
    BY <2>1, <2>2, CoverCount DEF IsLoading
<1>6. Cardinality(Got) + Cardinality(once) <= Cardinality(Got')
  <2> DEFINE f == [l \in once |-> l.entry]
             New == Got' \ Got
  <2>1. f \in [once -> New]
    BY <1>3
  <2>2. \A l, m \in once : f[l] = f[m] => l = m
    BY <1>0, <1>4 DEF IsLoading, Apart
  <2>3. IsFiniteSet(New) /\ IsFiniteSet({}) /\ Cardinality({}) = 0
    <3>1. New \in SUBSET Got'
      OBVIOUS
    <3> QED
      BY <1>3, <3>1, FS_Subset, FS_EmptySet
  <2>4. Got \cap New = {} /\ Got \subseteq Got' \cup {} /\ New \subseteq Got' \cup {}
    BY <1>3
  <2> HIDE DEF f, New, once
  <2>5. Cardinality(once) <= Cardinality(New)
    BY <2>1, <2>2, <2>3, InjectionCount
  <2>6. Cardinality(New) \in Nat
        /\ Cardinality(Got) + Cardinality(New) <= Cardinality(Got') + Cardinality({})
    BY <1>3, <2>3, <2>4, ApartCount
  <2> QED
    BY <1>2, <1>3, <1>5, <2>3, <2>5, <2>6
<1>7. /\ Cardinality(Behind(View, cursor, Got)) \in Nat
      /\ Cardinality(twice) <= Cardinality(Behind(View, cursor, Got))
      /\ cursor <= PageEnd =>
            /\ Cardinality(Behind(View, PageEnd, Got')) \in Nat
            /\ Cardinality(twice) + Cardinality(Behind(View, PageEnd, Got'))
                  <= Cardinality(Behind(View, cursor, Got))
  <2>1. IsFiniteSet(Behind(View, cursor, Got)) /\ IsFiniteSet({}) /\ Cardinality({}) = 0
    <3>1. IsLoading(Behind(View, cursor, Got))
      BY <1>0, FewerLoadings DEF Behind
    <3> QED
      BY <3>1, FS_EmptySet DEF IsLoading
  <2>2. twice \subseteq Behind(View, cursor, Got) \cup {}
    BY DEF Behind, OnPage
  <2>3. ASSUME cursor <= PageEnd
        PROVE  /\ Behind(View, PageEnd, Got') \subseteq Behind(View, cursor, Got) \cup {}
               /\ twice \cap Behind(View, PageEnd, Got') = {}
    <3>1. ASSUME NEW l \in Behind(View, PageEnd, Got')
          PROVE  l \in Behind(View, cursor, Got) /\ l \notin twice
      <4>1. l \in View /\ Rank(View, l) >= PageEnd /\ l.entry \in Got' /\ Rank(View, l) \in Nat
        BY <1>4 DEF Behind
      <4>2. l \notin OnPage
        BY <1>1, <4>1 DEF OnPage
      <4>3. l.entry \in Got
        <5> SUFFICES ASSUME NEW m \in OnPage, m.entry = l.entry
                     PROVE  FALSE
          BY <1>3, <4>1
        <5>1. m = l
          BY <1>0, <1>4, <4>1 DEF IsLoading, Apart
        <5> QED
          BY <4>2, <5>1
      <4>4. Rank(View, l) >= cursor
        BY <1>1, <2>3, <4>1
      <4> QED
        BY <4>1, <4>2, <4>3, <4>4 DEF Behind
    <3> QED
      BY <3>1
  <2> HIDE DEF twice, once
  <2>4. /\ Cardinality(Behind(View, cursor, Got)) \in Nat
        /\ Cardinality(twice) <= Cardinality(Behind(View, cursor, Got)) + Cardinality({})
    BY <2>1, <2>2, CoverCount
  <2>5. ASSUME cursor <= PageEnd
        PROVE  /\ Cardinality(Behind(View, PageEnd, Got')) \in Nat
               /\ Cardinality(twice) + Cardinality(Behind(View, PageEnd, Got'))
                     <= Cardinality(Behind(View, cursor, Got)) + Cardinality({})
    BY <2>1, <2>2, <2>3, <2>5, ApartCount
  <2> QED
    BY <1>5, <2>1, <2>4, <2>5
<1> HIDE DEF twice, once
<1>8. /\ Cardinality(Current \ View) \in Nat
      /\ Len(got) + Cardinality(Behind(View, cursor, Got)) + Cardinality(Current \ View)
            <= Cardinality(Got) + Changes
  <2>1. IsLoading(Current \ View)
    BY <1>0, FewerLoadings
  <2> QED
    BY <1>1, <2>1, FS_CardinalityType DEF RepeatsCounted, IsLoading
<1>9. DuplicatesFromArrivals'
  <2>1. Len(got') <= Cardinality(Got') + Changes'
    BY <1>1, <1>2, <1>3, <1>5, <1>6, <1>7, <1>8
  <2> QED
    BY <2>1 DEF DuplicatesFromArrivals, Got
<1>10. ASSUME state' = "asks"
       PROVE  Len(got') + Cardinality(Behind(View', cursor', Got')) + Cardinality(Current' \ View')
                 <= Cardinality(Got') + Changes'
  <2>1. View' = Current /\ Current' = Current /\ cursor' = PageEnd /\ cursor <= PageEnd
    BY <1>1, <1>10 DEF View, Current, Snapshot, Present, Filtered
  <2>2. /\ Cardinality(Behind(Current, PageEnd, Got')) \in Nat
        /\ Cardinality(Behind(View, PageEnd, Got')) \in Nat
        /\ Cardinality(Behind(Current, PageEnd, Got'))
              <= Cardinality(Behind(View, PageEnd, Got')) + Cardinality(Current \ View)
    BY <1>0, <1>1, BehindGrows
  <2>3. Current' \ View' = {} /\ Cardinality({}) = 0
    BY <2>1, FS_EmptySet
  <2>4. Len(got') = Len(got) + Cardinality(OnPage) /\ Cardinality(OnPage) \in Nat
    BY <1>1
  <2>5. Cardinality(twice) + Cardinality(Behind(View, PageEnd, Got'))
           <= Cardinality(Behind(View, cursor, Got))
    BY <1>7, <2>1
  <2>6. Len(got') + Cardinality(Behind(View, PageEnd, Got')) + Cardinality(Current \ View)
           <= Cardinality(Got') + Changes
    <3> DEFINE p == Cardinality(OnPage)
               t == Cardinality(twice)
               o == Cardinality(once)
               b == Cardinality(Behind(View, cursor, Got))
               d == Cardinality(Behind(View, PageEnd, Got'))
               w == Cardinality(Current \ View)
               n == Len(got)
               g == Cardinality(Got)
               h == Cardinality(Got')
               c == Changes
    <3>1. n \in Nat /\ g \in Nat /\ h \in Nat /\ c \in Int
      BY <1>2, <1>3
    <3>2. p \in Nat /\ t \in Nat /\ o \in Nat /\ b \in Nat /\ d \in Nat /\ w \in Nat
      BY <1>5, <1>7, <1>8, <2>2, <2>4
    <3>3. p <= t + o /\ t + d <= b /\ g + o <= h /\ n + b + w <= g + c
      BY <1>5, <1>6, <1>8, <2>5
    <3>4. Len(got') = n + p
      BY <2>4
    <3> HIDE DEF p, t, o, b, d, w, n, g, h, c
    <3>5. n + p + d + w <= h + c
      BY <3>1, <3>2, <3>3
    <3> QED
      BY <3>4, <3>5 DEF d, w, h, c
  <2>7. Len(got') + Cardinality(Behind(Current, PageEnd, Got')) + 0 <= Cardinality(Got') + Changes'
    BY <1>2, <1>3, <1>8, <2>2, <2>6
  <2> QED
    BY <2>1, <2>3, <2>7
<1>11. Behind(View, cursor, Got)' = Behind(View', cursor', Got')
  BY <1>1, BehindNext
<1> QED
  BY <1>1, <1>9, <1>10, <1>11 DEF RepeatsCounted

LEMMA RestRepeats ==
    ASSUME Inv, RepeatsCounted, Refuse \/ Ask \/ Load \/ UNCHANGED vars
    PROVE  RepeatsCounted'
<1>1. /\ list' = list /\ got' = got /\ Got' = Got /\ cursor' = cursor /\ Changes' = Changes
      /\ DuplicatesFromArrivals'
  BY DEF Refuse, Ask, Load, vars, Got, Changes, RepeatsCounted, DuplicatesFromArrivals
<1>2. Behind(View, cursor, Got)' = Behind(View', cursor, Got)
  BY <1>1, BehindNext
<1>3. CASE Refuse
  BY <1>1, <1>3 DEF Refuse, RepeatsCounted
<1>4. CASE Ask
  <2>1. View' = View /\ Current' = Current /\ state = "asks"
    BY <1>4, AskSame DEF Ask
  <2> QED
    BY <1>1, <1>2, <2>1 DEF RepeatsCounted
<1>5. CASE Load
  <2>1. View' = View /\ Current' = Current /\ state = "loads"
    BY <1>5, LoadSame DEF Load
  <2> QED
    BY <1>1, <1>2, <2>1 DEF RepeatsCounted
<1>6. CASE UNCHANGED vars
  <2>1. View' = View /\ Current' = Current /\ state' = state
    BY <1>6 DEF vars, View, Current, Filtered, Older, Snapshot, Present
  <2> QED
    BY <1>1, <1>2, <2>1 DEF RepeatsCounted
<1> QED
  BY <1>3, <1>4, <1>5, <1>6

LEMMA StepRepeats ==
    Inv /\ Shows /\ Shows' /\ RepeatsCounted /\ [Next]_vars => RepeatsCounted'
  BY ChangeRepeats, DeliverRepeats, RestRepeats DEF Next, Read, ChangesOf

\* Entries are delivered twice no more often than the list has changed, however often and
\* between whatever pages it did.
THEOREM RepeatsHaveCause == Spec => []DuplicatesFromArrivals
<1>1. Spec => []Inv
  BY InvHolds
<1>2. Inv => Shows
  BY ShowsLoad
<1>3. Inv /\ Shows /\ Shows' /\ RepeatsCounted /\ [Next]_vars => RepeatsCounted'
  BY StepRepeats
<1>4. Init => RepeatsCounted
  BY InitRepeats
<1>5. RepeatsCounted => DuplicatesFromArrivals
  BY DEF RepeatsCounted
<1> QED
  BY <1>1, <1>2, <1>3, <1>4, <1>5, PTL DEF Spec

----------------------------------------------------------------------------
(* Entries that are missed.                                                 *)

\* Who does not move stays in the view until its page.
Staying == \A l \in Current : l.entry \notin moved => l \in View

\* What was there at the beginning, is there and has not moved, but is not delivered.
Missing == {e \in Present \cap passes : IsIn(e, base) /\ e \notin moved /\ ~IsIn(e, got)}

MayMiss == IF list = "conversations" THEN Changes ELSE gone

\* Every entry that the cursor has passed over stands for a change, and so does every one
\* that still may be: what left while the list was loaded will pull one more over it.
MissesCounted ==
    /\ MissesBounded
    /\ state \in {"asks", "loads"} =>
          Cardinality(Skipped(View, cursor, Missing)) + Cardinality(View \ Current) <= MayMiss

LEMMA SkippedNext ==
    ASSUME list' = list
    PROVE  Skipped(View, cursor, Missing)' = Skipped(View', cursor', Missing')
  BY DEF Skipped, Rank, Before

\* What is current is there and passes.
LEMMA CurrentParts ==
    ASSUME Inv
    PROVE  /\ \A l \in Current : l.entry \in Present \cap passes
           /\ \A e \in Present \cap passes : \E l \in Current : l.entry = e
<1>1. Snapshot = Shown(at, passes)
  BY SnapshotShown
<1>2. ASSUME NEW l \in Current
      PROVE  l.entry \in Present \cap passes
  <2>1. l \in Snapshot /\ l.passes
    BY DEF Current, Filtered
  <2>2. /\ l.entry \in Entries /\ l.at = at[l.entry] /\ l.at # 0
        /\ l.passes = (l.entry \in passes)
    BY <1>1, <2>1, ShownParts
  <2>3. l.entry \in passes
    BY <2>1, <2>2, Zenon
  <2> QED
    BY <2>2, <2>3 DEF Present
<1>3. ASSUME NEW e \in Present \cap passes
      PROVE  \E l \in Current : l.entry = e
  <2> DEFINE l == [entry |-> e, at |-> at[e], passes |-> e \in passes]
  <2>1. l \in Snapshot
    BY <1>1, ShownParts DEF Present
  <2>2. l.passes /\ l.entry = e
    OBVIOUS
  <2> HIDE DEF l
  <2> QED
    BY <2>1, <2>2 DEF Current, Filtered
<1> QED
  BY <1>2, <1>3

\* An entry that a change brings has moved; and unless it is one of a conversation, a change
\* that takes one is counted.
LEMMA ChangeCounts ==
    ASSUME Inv, NEW e \in Entries, ChangesOf(e)
    PROVE  /\ moved \subseteq moved'
           /\ \A x \in Present' \cap passes' : x \notin moved' => x \in Present \cap passes /\ x # e
           /\ MayMiss \in Int /\ MayMiss' \in {MayMiss, MayMiss + 1}
           /\ e \in Present \cap passes => MayMiss' = MayMiss + 1
<1>1. now \in Nat /\ gone \in Nat /\ Cardinality(Entries) \in Nat /\ Changes \in Int
  BY Numbers
<1>2. at \in [Entries -> 0..MaxTime] /\ passes \in SUBSET Entries /\ list' = list
  BY OthersStay DEF Inv, TypeOK
<1>3. Present' = {x \in Entries : at'[x] # 0}
  BY DEF Present
<1>4. now' = now + 1 /\ Changes' = Changes + 1
  BY <1>1 DEF ChangesOf, Active, Vanish, Change, Changes
<1>5. CASE Active(e)
  <2>1. moved' = moved \cup {e} /\ gone' = gone /\ (list # "conversations" => e \notin Present)
        /\ passes' \in {passes, passes \cup {e}} /\ \A x \in Entries : x # e => at'[x] = at[x]
    BY <1>2, <1>5 DEF Active, Present
  <2> QED
    BY <1>1, <1>2, <1>3, <1>4, <2>1 DEF MayMiss, Present
<1>6. CASE Vanish(e)
  <2>1. moved' = moved /\ gone' = gone + 1 /\ passes' = passes /\ e \notin Present'
        /\ \A x \in Entries : x # e => at'[x] = at[x]
    BY <1>2, <1>6 DEF Vanish, Present
  <2> QED
    BY <1>1, <1>2, <1>3, <1>4, <2>1 DEF MayMiss, Present
<1>7. CASE Change(e)
  <2>1. at' = at /\ \/ e \in passes /\ passes' = passes \ {e} /\ gone' = gone + 1 /\ moved' = moved
                    \/ e \notin passes /\ passes' = passes \cup {e} /\ moved' = moved \cup {e} /\ gone' = gone
    BY <1>7 DEF Change
  <2>2. MayMiss \in Int /\ MayMiss' \in {MayMiss, MayMiss + 1} /\ (e \in passes => MayMiss' = MayMiss + 1)
    <3>1. list = "conversations" => MayMiss = Changes /\ MayMiss' = Changes'
      BY <1>2 DEF MayMiss
    <3>2. list # "conversations" => MayMiss = gone /\ MayMiss' = gone'
      BY <1>2 DEF MayMiss
    <3> QED
      BY <1>1, <1>4, <2>1, <3>1, <3>2
  <2>3. \A x \in Present' \cap passes' : x \notin moved' => x \in Present \cap passes /\ x # e
    BY <1>3, <2>1 DEF Present
  <2> QED
    BY <2>1, <2>2, <2>3
<1> QED
  BY <1>5, <1>6, <1>7 DEF ChangesOf

\* The view of the next state has the view of this one, where it is still current.
LEMMA StayingStep ==
    ASSUME Inv, Shows, Staying, [Next]_vars
    PROVE  Staying'
<1>1. ASSUME NEW e \in Entries, ChangesOf(e)
      PROVE  Staying'
  <2> SUFFICES ASSUME NEW l \in Current', l.entry \notin moved'
               PROVE  l \in View'
    BY DEF Staying
  <2>1. l.entry \in Present' \cap passes'
    <3>1. Snapshot' = Shown(at', passes')
      BY DEF Snapshot, Shown, Present
    <3>2. l \in Snapshot' /\ l.passes
      BY DEF Current, Filtered
    <3>3. /\ l.entry \in Entries /\ l.at = at'[l.entry] /\ l.at # 0
          /\ l.passes = (l.entry \in passes')
      BY <3>1, <3>2, ShownParts
    <3>4. l.entry \in passes'
      BY <3>2, <3>3, Zenon
    <3> QED
      BY <3>3, <3>4 DEF Present
  <2>2. l.entry # e /\ l.entry \notin moved
    BY <1>1, <2>1, ChangeCounts
  <2>3. /\ UNCHANGED <<list, state, loaded, after>> /\ l \in Current
    BY <1>1, <2>2, OthersStay DEF Current, Filtered
  <2>4. l \in View
    BY <2>2, <2>3 DEF Staying
  <2>5. View = IF state = "loads" THEN Filtered(loaded) \cup {m \in Current : m.at < after}
                                  ELSE Current
    BY ViewParts
  <2>6. View' = IF state = "loads" THEN Filtered(loaded) \cup {m \in Current' : m.at < after}
                                   ELSE Current'
    BY <2>3 DEF View, Current, Filtered, Older
  <2> HIDE DEF Current, View
  <2> QED
    BY <2>3, <2>4, <2>5, <2>6
<1>2. CASE Refuse \/ Deliver
  <2>1. state' # "loads"
    BY <1>2 DEF Refuse, Deliver
  <2> QED
    BY <2>1 DEF Staying, View, Current
<1>3. CASE Ask
  BY <1>3, AskSame DEF Staying, Ask
<1>4. CASE Load
  BY <1>4, LoadSame DEF Staying, Load
<1>5. CASE UNCHANGED vars
  BY <1>5 DEF vars, Staying, View, Current, Filtered, Older, Snapshot, Present
<1> QED
  BY <1>1, <1>2, <1>3, <1>4, <1>5 DEF Next, Read, ChangesOf

LEMMA InitStaying == Init => Staying
  BY DEF Init, Staying, View, Current

LEMMA InitMisses == Init => MissesCounted
<1> SUFFICES ASSUME Init
             PROVE  MissesCounted
  OBVIOUS
<1>1. state = "asks" /\ gone = 0 /\ Changes = 0 /\ cursor = 0
  <2>1. Cardinality(Entries) \in Nat
    BY EntriesAssumption, FS_CardinalityType
  <2> QED
    BY <2>1 DEF Init, Changes
<1>2. Inv
  BY InitTyped, InitQuiet DEF Inv
<1>3. View = Current
  BY <1>1 DEF View, Current
<1>4. Skipped(View, cursor, Missing) = {}
  <2> SUFFICES ASSUME NEW x \in Skipped(View, cursor, Missing)
               PROVE  FALSE
    OBVIOUS
  <2>1. x \in Present \cap passes
    BY DEF Skipped, Missing
  <2>2. PICK l \in View : l.entry = x
    BY <1>2, <1>3, <2>1, CurrentParts
  <2>3. Rank(View, l) < cursor
    BY <2>2 DEF Skipped
  <2>4. Rank(View, l) \in Nat
    BY <1>2, ShowsLoad, RankOf DEF Shows
  <2> QED
    BY <1>1, <2>3, <2>4
<1>5. Cardinality(View \ Current) = 0
  <2>1. View \ Current = {}
    BY <1>3
  <2> QED
    BY <2>1, FS_EmptySet
<1>6. Cardinality(Skipped(View, cursor, Missing)) = 0
  BY <1>4, FS_EmptySet
<1>7. MayMiss = 0
  BY <1>1 DEF MayMiss
<1> QED
  BY <1>1, <1>5, <1>6, <1>7 DEF MissesCounted, MissesBounded

LEMMA MissingFinite == IsFiniteSet(Missing) /\ Cardinality(Missing) \in Nat
<1>1. Missing \in SUBSET Entries
  BY DEF Missing, Present
<1> QED
  BY <1>1, EntriesAssumption, FS_Subset, FS_CardinalityType

\* Fewer are missing when something changes, and those have their place in both views.
LEMMA ChangeMissing ==
    ASSUME Inv, Staying, Staying', NEW e \in Entries, ChangesOf(e)
    PROVE  /\ Missing' \subseteq Missing
           /\ \A x \in Missing' : \E l \in View \cap View' : l.entry = x
<1> SUFFICES ASSUME NEW x \in Missing'
             PROVE  x \in Missing /\ \E l \in View \cap View' : l.entry = x
  OBVIOUS
<1>1. /\ got' = got /\ base' = base
      /\ \A l \in Current : l.entry # e => l \in Current'
  BY OthersStay DEF Current, Filtered
<1>2. x \in Present' \cap passes' /\ x \notin moved' /\ IsIn(x, base) /\ ~IsIn(x, got)
  BY <1>1 DEF Missing, IsIn
<1>3. x \in Present \cap passes /\ x # e /\ x \notin moved
  BY <1>2, ChangeCounts
<1>4. x \in Missing
  BY <1>2, <1>3 DEF Missing
<1>5. PICK l \in Current : l.entry = x
  BY <1>3, CurrentParts
<1>6. l \in Current'
  BY <1>1, <1>3, <1>5
<1>7. l \in View
  BY <1>3, <1>5 DEF Staying
<1>8. l \in View'
  BY <1>2, <1>5, <1>6 DEF Staying
<1> QED
  BY <1>4, <1>5, <1>7, <1>8

LEMMA ChangeMisses ==
    ASSUME Inv, Shows, Shows', Staying, Staying', MissesCounted, NEW e \in Entries, ChangesOf(e)
    PROVE  MissesCounted'
<1>1. list' = list /\ cursor' = cursor /\ state' = state /\ cursor \in Nat
  BY OthersStay, Numbers
<1>2. /\ Missing' \subseteq Missing
      /\ \A x \in Missing' : \E l \in View \cap View' : l.entry = x
  BY ChangeMissing
<1>3. /\ MayMiss \in Int /\ MayMiss' \in {MayMiss, MayMiss + 1}
      /\ e \in Present \cap passes => MayMiss' = MayMiss + 1
  BY ChangeCounts
<1>4. IsFiniteSet(Missing') /\ Cardinality(Missing') \in Nat
      /\ Cardinality(Missing) \in Nat /\ Cardinality(Missing') <= Cardinality(Missing)
  BY <1>2, MissingFinite, FS_Subset, FS_CardinalityType
<1>5. MissesBounded'
  <2>1. state = "done" => Cardinality(Missing) <= MayMiss
    BY DEF MissesCounted, MissesBounded, Missing, MayMiss
  <2>2. state' = "done" => Cardinality(Missing') <= MayMiss'
    BY <1>1, <1>3, <1>4, <2>1
  <2> QED
    BY <2>2 DEF MissesBounded, Missing, MayMiss
<1>6. ASSUME state \in {"asks", "loads"}
      PROVE  Cardinality(Skipped(View', cursor, Missing')) + Cardinality(View' \ Current') <= MayMiss'
  <2>1. IsLoading(View) /\ IsLoading(View') /\ IsLoading(Current) /\ IsLoading(Current')
    BY ShowsNext DEF Shows
  <2>2. /\ Cardinality(Skipped(View', cursor, Missing')) \in Nat
        /\ Cardinality(Skipped(View, cursor, Missing')) \in Nat
        /\ Cardinality(Skipped(View', cursor, Missing'))
              <= Cardinality(Skipped(View, cursor, Missing')) + Cardinality(View \ View')
    BY <1>1, <1>2, <1>4, <2>1, SkippedGrow
  <2>3. /\ Cardinality(Skipped(View, cursor, Missing)) \in Nat
        /\ Cardinality(Skipped(View, cursor, Missing')) <= Cardinality(Skipped(View, cursor, Missing))
    <3>1. Skipped(View, cursor, Missing) \in SUBSET Missing
          /\ Skipped(View, cursor, Missing') \in SUBSET Skipped(View, cursor, Missing)
      BY <1>2 DEF Skipped
    <3> QED
      BY <3>1, MissingFinite, FS_Subset, FS_CardinalityType
  <2> DEFINE old == {l \in Current : l.entry = e}
  <2>4. /\ IsFiniteSet(old) /\ Cardinality(old) \in Nat
        /\ MayMiss + Cardinality(old) <= MayMiss'
    <3>1. IsFiniteSet(old) /\ Cardinality(old) \in Nat /\ Cardinality(old) <= 1
      BY <2>1, OneOf
    <3>2. CASE e \in Present \cap passes
      BY <1>3, <3>1, <3>2
    <3>3. CASE e \notin Present \cap passes
      <4>1. old = {}
        BY <3>3, CurrentParts
      <4>2. Cardinality(old) = 0
        BY <4>1, FS_EmptySet
      <4> QED
        BY <1>3, <3>1, <4>2
    <3> QED
      BY <3>2, <3>3
  <2>5. IsFiniteSet(View \ Current)
    <3>1. IsLoading(View \ Current)
      BY <2>1, FewerLoadings
    <3> QED
      BY <3>1 DEF IsLoading
  <2>6. /\ View \ View' \subseteq (View \ Current) \cup old
        /\ View' \ Current' \subseteq (View \ Current) \cup old
        /\ (View \ View') \cap (View' \ Current') = {}
    BY ChangeMoves
  <2> HIDE DEF old
  <2>7. /\ Cardinality(View \ View') \in Nat /\ Cardinality(View' \ Current') \in Nat
        /\ Cardinality(View \ Current) \in Nat
        /\ Cardinality(View \ View') + Cardinality(View' \ Current')
              <= Cardinality(View \ Current) + Cardinality(old)
    BY <2>4, <2>5, <2>6, ApartCount
  <2>8. Cardinality(Skipped(View, cursor, Missing)) + Cardinality(View \ Current) <= MayMiss
    BY <1>6 DEF MissesCounted
  <2> QED
    BY <1>3, <2>2, <2>3, <2>4, <2>7, <2>8
<1>7. Skipped(View, cursor, Missing)' = Skipped(View', cursor, Missing')
  BY <1>1, SkippedNext
<1> QED
  BY <1>1, <1>5, <1>6, <1>7 DEF MissesCounted

LEMMA DeliverMisses ==
    ASSUME Inv, Shows, Staying, MissesCounted, Deliver
    PROVE  MissesCounted'
<1>0. IsLoading(View) /\ IsLoading(Current)
  BY DEF Shows
<1>1. /\ UNCHANGED <<list, at, now, filtered, passes, limit, base, moved, gone>>
      /\ state = "loads" /\ cursor \in Nat /\ PageEnd \in Nat
      /\ \/ state' = "asks" /\ cursor' = PageEnd /\ cursor <= PageEnd
         \/ (state' = "done" /\ \A l \in View : Rank(View, l) < PageEnd)
      /\ \A x : IsIn(x, got') <=> IsIn(x, got) \/ \E l \in OnPage : l.entry = x
  BY <1>0, DeliverIs
<1>2. MayMiss' = MayMiss /\ MayMiss \in Int
  BY <1>1, Numbers DEF MayMiss, Changes
<1>3. /\ Missing' \subseteq Missing
      /\ \A x \in Missing' : ~\E l \in OnPage : l.entry = x
  BY <1>1 DEF Missing, Present, IsIn
<1>4. IsFiniteSet(Missing') /\ IsFiniteSet(Missing)
  BY <1>3, MissingFinite, FS_Subset
<1>5. \A x \in Missing : \E l \in View \cap Current : l.entry = x
  <2> SUFFICES ASSUME NEW x \in Missing
               PROVE  \E l \in View \cap Current : l.entry = x
    OBVIOUS
  <2>1. x \in Present \cap passes /\ x \notin moved
    BY DEF Missing
  <2>2. PICK l \in Current : l.entry = x
    BY <2>1, CurrentParts
  <2> QED
    BY <2>1, <2>2 DEF Staying
<1>6. Skipped(View, PageEnd, Missing') \subseteq Skipped(View, cursor, Missing)
  <2> SUFFICES ASSUME NEW x \in Skipped(View, PageEnd, Missing'), NEW l \in View, l.entry = x
               PROVE  x \in Missing /\ Rank(View, l) < cursor
    BY <1>3 DEF Skipped
  <2>1. x \in Missing' /\ Rank(View, l) < PageEnd
    BY DEF Skipped
  <2>2. l \notin OnPage
    BY <1>3, <2>1
  <2>3. Rank(View, l) \in Nat
    BY <1>0, RankOf
  <2> QED
    BY <1>1, <1>3, <2>1, <2>2, <2>3 DEF OnPage
<1>7. /\ Cardinality(Skipped(View, PageEnd, Missing')) \in Nat
      /\ Cardinality(Skipped(View, cursor, Missing)) \in Nat
      /\ Cardinality(Skipped(View, PageEnd, Missing')) <= Cardinality(Skipped(View, cursor, Missing))
  <2>1. Skipped(View, cursor, Missing) \in SUBSET Missing
    BY DEF Skipped
  <2> QED
    BY <1>4, <1>6, <2>1, FS_Subset, FS_CardinalityType
<1>8. /\ Cardinality(View \ Current) \in Nat
      /\ Cardinality(Skipped(View, cursor, Missing)) + Cardinality(View \ Current) <= MayMiss
  <2>1. IsLoading(View \ Current)
    BY <1>0, FewerLoadings
  <2> QED
    BY <1>1, <2>1, FS_CardinalityType DEF MissesCounted, IsLoading
<1>9. CASE state' = "done"
  <2>1. \A l \in View : Rank(View, l) < PageEnd
    BY <1>1, <1>9
  <2>2. Skipped(View, PageEnd, Missing') = Missing'
    BY <2>1 DEF Skipped
  <2>3. Cardinality(Missing') <= MayMiss'
    BY <1>2, <1>7, <1>8, <2>2
  <2>4. MissesBounded'
    BY <2>3 DEF MissesBounded, Missing, MayMiss
  <2> QED
    BY <1>9, <2>4 DEF MissesCounted
<1>10. CASE state' = "asks"
  <2>1. View' = Current /\ Current' = Current /\ cursor' = PageEnd
    BY <1>1, <1>10 DEF View, Current, Snapshot, Present, Filtered
  <2>2. /\ Cardinality(Skipped(Current, PageEnd, Missing')) \in Nat
        /\ Cardinality(Skipped(Current, PageEnd, Missing'))
              <= Cardinality(Skipped(View, PageEnd, Missing')) + Cardinality(View \ Current)
    <3>1. \A x \in Missing' : \E l \in View \cap Current : l.entry = x
      BY <1>3, <1>5
    <3> QED
      BY <1>0, <1>1, <1>4, <3>1, SkippedGrow
  <2>3. View' \ Current' = {} /\ Cardinality({}) = 0
    BY <2>1, FS_EmptySet
  <2>4. Cardinality(Skipped(View', cursor', Missing')) + Cardinality(View' \ Current') <= MayMiss'
    <3>1. Cardinality(Skipped(Current, PageEnd, Missing')) + 0 <= MayMiss
      BY <1>2, <1>7, <1>8, <2>2
    <3> QED
      BY <1>2, <2>1, <2>3, <3>1
  <2>5. Skipped(View, cursor, Missing)' = Skipped(View', cursor', Missing')
    BY <1>1, SkippedNext
  <2>6. MissesBounded'
    BY <1>10 DEF MissesBounded
  <2> QED
    BY <2>4, <2>5, <2>6 DEF MissesCounted
<1> QED
  BY <1>1, <1>9, <1>10

LEMMA RestMisses ==
    ASSUME Inv, MissesCounted, Refuse \/ Ask \/ Load \/ UNCHANGED vars
    PROVE  MissesCounted'
<1>1. /\ list' = list /\ cursor' = cursor /\ Missing' = Missing /\ MayMiss' = MayMiss
      /\ state' # "done" \/ state' = state
  BY DEF Refuse, Ask, Load, vars, Missing, Present, IsIn, MayMiss, Changes
<1>2. Skipped(View, cursor, Missing)' = Skipped(View', cursor, Missing)
  BY <1>1, SkippedNext
<1>3. MissesBounded'
  <2>1. state = "done" => Cardinality(Missing) <= MayMiss
    BY DEF MissesCounted, MissesBounded, Missing, MayMiss
  <2>2. state' = "done" => Cardinality(Missing') <= MayMiss'
    BY <1>1, <2>1
  <2> QED
    BY <2>2 DEF MissesBounded, Missing, MayMiss
<1>4. CASE Refuse
  BY <1>3, <1>4 DEF Refuse, MissesCounted
<1>5. CASE Ask
  <2>1. View' = View /\ Current' = Current /\ state = "asks"
    BY <1>5, AskSame DEF Ask
  <2> QED
    BY <1>1, <1>2, <1>3, <2>1 DEF MissesCounted
<1>6. CASE Load
  <2>1. View' = View /\ Current' = Current /\ state = "loads"
    BY <1>6, LoadSame DEF Load
  <2> QED
    BY <1>1, <1>2, <1>3, <2>1 DEF MissesCounted
<1>7. CASE UNCHANGED vars
  <2>1. View' = View /\ Current' = Current /\ state' = state
    BY <1>7 DEF vars, View, Current, Filtered, Older, Snapshot, Present
  <2> QED
    BY <1>1, <1>2, <1>3, <2>1 DEF MissesCounted
<1> QED
  BY <1>4, <1>5, <1>6, <1>7

LEMMA StepMisses ==
    Inv /\ Shows /\ Shows' /\ Staying /\ Staying' /\ MissesCounted /\ [Next]_vars => MissesCounted'
  BY ChangeMisses, DeliverMisses, RestMisses DEF Next, Read, ChangesOf

\* A caller misses no more of what stayed than has left the list, in conversations than the list
\* has changed.
THEOREM MissesHaveCause == Spec => []MissesBounded
<1>1. Spec => []Inv
  BY InvHolds
<1>2. Inv => Shows
  BY ShowsLoad
<1>3. Inv /\ Shows /\ Staying /\ [Next]_vars => Staying'
  BY StayingStep
<1>4. Inv /\ Shows /\ Shows' /\ Staying /\ Staying' /\ MissesCounted /\ [Next]_vars => MissesCounted'
  BY StepMisses
<1>5. Init => Staying /\ MissesCounted
  BY InitStaying, InitMisses
<1>6. MissesCounted => MissesBounded
  BY DEF MissesCounted
<1> QED
  BY <1>1, <1>2, <1>3, <1>4, <1>5, <1>6, PTL DEF Spec

=============================================================================
