---------------------------- MODULE IndexProofs ----------------------------
(* Proofs about module Index, for every value of its constants.            *)
EXTENDS Index, TLAPS, FiniteSetTheorems, WellFoundedInduction, FunctionTheorems

-----------------------------------------------------------------------------
(* Least numbers, positions and compaction.                                *)

\* A non-empty set of natural numbers has a least element.
LEMMA LeastNat ==
  ASSUME NEW T, T \subseteq Nat, T # {}
  PROVE  \E m \in T : \A k \in T : m <= k
<1> DEFINE R == OpToRel(<, Nat)
<1>1. IsWellFoundedOn(R, Nat)
  BY NatLessThanWellFounded
<1>2. \A k, m \in Nat : k < m => <<k, m>> \in R
  BY DEF OpToRel
<1> HIDE DEF R
<1>3. PICK m \in T : \A k \in T : <<k, m>> \notin R
  BY <1>1, WFMin
<1>4. ASSUME NEW k \in T
      PROVE  m <= k
  <2>1. k \in Nat /\ m \in Nat
    OBVIOUS
  <2>2. ~ (k < m)
    BY <1>2, <1>3, <2>1
  <2> QED BY <2>1, <2>2
<1> QED BY <1>3, <1>4

\* Locate maps every path of a vector to a position where it stands, the
\* first one.
LEMMA LocateFinds ==
  ASSUME NEW s \in Seq(FileEntry)
  PROVE  /\ DOMAIN Locate(s) = {s[i].path : i \in DOMAIN s}
         /\ \A p \in DOMAIN Locate(s) :
              /\ Locate(s)[p] \in DOMAIN s
              /\ s[Locate(s)[p]].path = p
<1>1. ASSUME NEW p \in {s[i].path : i \in DOMAIN s}
      PROVE  \E i \in DOMAIN s : s[i].path = p /\ \A j \in 1..(i - 1) : s[j].path # p
  <2> DEFINE T == {i \in DOMAIN s : s[i].path = p}
  <2>1. T \subseteq Nat /\ T # {}
    OBVIOUS
  <2> HIDE DEF T
  <2>2. PICK m \in T : \A k \in T : m <= k
    BY <2>1, LeastNat
  <2> USE DEF T
  <2>3. \A j \in 1..(m - 1) : s[j].path # p
    BY <2>2
  <2> QED BY <2>2, <2>3
<1> QED BY <1>1 DEF Locate

\* The rank of a member of a set of positions, and its bounds.
UpTo(D, i) == {k \in D : k <= i}

LEMMA RankBounds ==
  ASSUME NEW n \in Nat, NEW D \in SUBSET (1..n)
  PROVE  /\ IsFiniteSet(D) /\ Cardinality(D) \in Nat
         /\ \A i \in D : IsFiniteSet(UpTo(D, i)) /\ Cardinality(UpTo(D, i)) \in 1..Cardinality(D)
<1>1. IsFiniteSet(D) /\ Cardinality(D) \in Nat
  <2>1. IsFiniteSet(1..n)
    BY FS_Interval
  <2> QED BY <2>1, FS_Subset, FS_CardinalityType
<1>2. ASSUME NEW i \in D
      PROVE  IsFiniteSet(UpTo(D, i)) /\ Cardinality(UpTo(D, i)) \in 1..Cardinality(D)
  <2>1. UpTo(D, i) \in SUBSET D /\ i \in UpTo(D, i)
    BY DEF UpTo
  <2>2. IsFiniteSet(UpTo(D, i)) /\ Cardinality(UpTo(D, i)) <= Cardinality(D)
    BY <1>1, <2>1, FS_Subset
  <2>3. Cardinality(UpTo(D, i)) \in Nat /\ Cardinality(UpTo(D, i)) # 0
    BY <2>1, <2>2, FS_CardinalityType, FS_EmptySet
  <2> QED BY <2>2, <2>3, <1>1
<1> QED BY <1>1, <1>2

LEMMA RankOneToOne ==
  ASSUME NEW n \in Nat, NEW D \in SUBSET (1..n), NEW i \in D, NEW k \in D,
         Cardinality(UpTo(D, i)) = Cardinality(UpTo(D, k))
  PROVE  i = k
<1>1. ASSUME NEW a \in D, NEW b \in D, a < b
      PROVE  Cardinality(UpTo(D, a)) # Cardinality(UpTo(D, b))
  <2>1. a \in Int /\ b \in Int /\ \A m \in D : m \in Int
    OBVIOUS
  <2>2. UpTo(D, a) \in SUBSET UpTo(D, b) /\ b \in UpTo(D, b) /\ b \notin UpTo(D, a)
    <3>1. \A m \in D : m <= a => m <= b
      BY <1>1, <2>1
    <3>2. b <= b /\ ~ (b <= a)
      BY <1>1, <2>1
    <3> QED BY <3>1, <3>2 DEF UpTo
  <2> QED BY <2>2, RankBounds, FS_Subset
<1>2. i \in Int /\ k \in Int
  OBVIOUS
<1>3. ~ (i < k) /\ ~ (k < i)
  BY <1>1
<1> QED BY <1>2, <1>3

\* Every rank from 1 to the number of members of D is that of a member: the
\* rank of a member in D is one-to-one, hence onto.
LEMMA NthExists ==
  ASSUME NEW n \in Nat, NEW D \in SUBSET (1..n), NEW j \in 1..Cardinality(D)
  PROVE  /\ Nth(D, j) \in D
         /\ Cardinality(UpTo(D, Nth(D, j))) = j
<1> DEFINE N    == Cardinality(D)
           rank == [i \in D |-> Cardinality(UpTo(D, i))]
<1>1. IsFiniteSet(D) /\ N \in Nat
  BY RankBounds
<1>2. rank \in Injection(D, 1..N)
  <2>1. rank \in [D -> 1..N]
    BY RankBounds
  <2>2. \A i, k \in D : rank[i] = rank[k] => i = k
    BY RankOneToOne
  <2> HIDE DEF rank
  <2> QED BY <2>1, <2>2 DEF Injection, IsInjective
<1>3. rank \in Surjection(D, 1..N)
  <2>1. IsFiniteSet(1..N) /\ Cardinality(1..N) = N
    BY <1>1, FS_Interval
  <2> HIDE DEF rank
  <2> QED BY <1>2, <2>1, FS_Injection
<1>4. \E i \in D : Cardinality(UpTo(D, i)) = j
  <2>1. PICK i \in D : rank[i] = j
    <3> HIDE DEF rank
    <3> QED BY <1>3 DEF Surjection
  <2> QED BY <2>1
<1> QED BY <1>4 DEF Nth, UpTo

\* Compaction keeps entries only, and each of the kept ones once.
LEMMA KeptIsSeq ==
  ASSUME NEW s \in Seq(FileEntry), NEW D \in SUBSET DOMAIN s
  PROVE  /\ Kept(s, D) \in Seq(FileEntry)
         /\ DOMAIN Kept(s, D) = 1..Cardinality(D)
         /\ \A j \in 1..Cardinality(D) : Nth(D, j) \in D /\ Kept(s, D)[j] = s[Nth(D, j)]
<1>1. D \in SUBSET (1..Len(s)) /\ Len(s) \in Nat /\ DOMAIN s = 1..Len(s)
  OBVIOUS
<1>2. Cardinality(D) \in Nat
  <2>1. IsFiniteSet(1..Len(s))
    BY <1>1, FS_Interval
  <2> QED BY <1>1, <2>1, FS_Subset, FS_CardinalityType
<1>3. \A j \in 1..Cardinality(D) : Nth(D, j) \in D
  BY <1>1, NthExists
<1>4. \A j \in 1..Cardinality(D) : s[Nth(D, j)] \in FileEntry
  BY <1>1, <1>3
<1> QED BY <1>2, <1>3, <1>4 DEF Kept

\* No kept entry is lost.
LEMMA KeptRange ==
  ASSUME NEW s \in Seq(FileEntry), NEW D \in SUBSET DOMAIN s
  PROVE  {Kept(s, D)[j] : j \in DOMAIN Kept(s, D)} = {s[i] : i \in D}
<1>1. Len(s) \in Nat /\ D \in SUBSET (1..Len(s))
  OBVIOUS
<1>2. ASSUME NEW i \in D
      PROVE  \E j \in 1..Cardinality(D) : Nth(D, j) = i
  <2> DEFINE r == Cardinality(UpTo(D, i))
  <2>1. r \in 1..Cardinality(D)
    BY <1>1, RankBounds
  <2>2. Nth(D, r) \in D /\ Cardinality(UpTo(D, Nth(D, r))) = r
    BY <1>1, <2>1, NthExists
  <2>3. Nth(D, r) = i
    <3> HIDE DEF r
    <3>1. Cardinality(UpTo(D, Nth(D, r))) = Cardinality(UpTo(D, i))
      BY <2>2 DEF r
    <3> QED BY <1>1, <2>2, <3>1, RankOneToOne
  <2> QED BY <2>1, <2>3
<1>3. /\ DOMAIN Kept(s, D) = 1..Cardinality(D)
      /\ \A j \in 1..Cardinality(D) : Nth(D, j) \in D /\ Kept(s, D)[j] = s[Nth(D, j)]
  BY KeptIsSeq
<1> QED BY <1>2, <1>3

LEMMA EntryOfVector ==
  ASSUME NEW s \in Seq(FileEntry), NEW i \in DOMAIN s
  PROVE  s[i] \in FileEntry /\ s[i].path \in Paths
<1>1. s[i] \in FileEntry
  OBVIOUS
<1> QED BY <1>1 DEF FileEntry

-----------------------------------------------------------------------------
(* Every call, whatever its arguments, keeps the map's positions valid.    *)

\* The invariant of an index value: entries, positions, and every position
\* that of an entry of its path.
Sound(x) ==
  /\ x.entries \in Seq(FileEntry)
  /\ DOMAIN x.at \subseteq Paths
  /\ x.at \in [DOMAIN x.at -> Nat]
  /\ \A p \in DOMAIN x.at : x.at[p] \in DOMAIN x.entries /\ x.entries[x.at[p]].path = p

LEMMA SoundEmpty == Sound(Empty)
BY DEF Sound, Empty

LEMMA SoundLocated ==
  ASSUME NEW s \in Seq(FileEntry), NEW n, NEW m
  PROVE  Sound([entries |-> s, at |-> Locate(s), dirs |-> n, bytes |-> m])
<1>1. \A i \in DOMAIN s : s[i].path \in Paths
  BY EntryOfVector
<1>2. Locate(s) \in [DOMAIN Locate(s) -> Nat]
  <2>1. Locate(s) = [p \in DOMAIN Locate(s) |-> Locate(s)[p]]
    BY DEF Locate
  <2>2. \A i \in DOMAIN s : i \in Nat
    OBVIOUS
  <2>3. \A p \in DOMAIN Locate(s) : Locate(s)[p] \in Nat
    BY LocateFinds, <2>2
  <2> QED BY <2>1, <2>3
<1> QED BY <1>1, <1>2, LocateFinds DEF Sound

LEMMA SoundAdded ==
  ASSUME NEW x, Sound(x), NEW f \in FileEntry
  PROVE  Sound(Added(x, f))
<1>1. f.path \in Paths
  BY DEF FileEntry
<1>2. CASE f.path \in DOMAIN x.at
  <2> DEFINE i == x.at[f.path]
             s == [x.entries EXCEPT ![i] = f]
  <2>1. i \in DOMAIN x.entries
    BY <1>2 DEF Sound
  <2>2. s \in Seq(FileEntry) /\ DOMAIN s = DOMAIN x.entries /\ s[i] = f
    BY <2>1 DEF Sound
  <2>3. \A j \in DOMAIN s : s[j].path = x.entries[j].path
    BY <1>2, <2>2 DEF Sound
  <2>4. Added(x, f).entries = s /\ Added(x, f).at = x.at
    BY <1>2 DEF Added, Overwritten
  <2> HIDE DEF s
  <2> QED BY <2>2, <2>3, <2>4 DEF Sound
<1>3. CASE f.path \notin DOMAIN x.at
  <2> DEFINE s == Append(x.entries, f)
             a == [p \in DOMAIN x.at \cup {f.path} |->
                     IF p = f.path THEN Len(x.entries) + 1 ELSE x.at[p]]
  <2>1. s \in Seq(FileEntry) /\ Len(s) = Len(x.entries) + 1 /\ s[Len(s)] = f
    BY DEF Sound
  <2>2. \A j \in DOMAIN x.entries : j \in DOMAIN s /\ s[j] = x.entries[j]
    BY DEF Sound
  <2>3. DOMAIN a \subseteq Paths /\ a \in [DOMAIN a -> Nat]
    BY <1>1 DEF Sound
  <2>4. \A p \in DOMAIN a : a[p] \in DOMAIN s /\ s[a[p]].path = p
    BY <2>1, <2>2 DEF Sound
  <2>5. Added(x, f).entries = s /\ Added(x, f).at = a
    BY <1>3 DEF Added, Appended
  <2> HIDE DEF s, a
  <2> QED BY <2>1, <2>3, <2>4, <2>5 DEF Sound
<1> QED BY <1>2, <1>3

LEMMA SoundRemoved ==
  ASSUME NEW x, Sound(x), NEW p
  PROVE  Sound(Removed(x, p))
<1>1. CASE p \notin DOMAIN x.at
  BY <1>1 DEF Removed
<1>2. CASE p \in DOMAIN x.at
  <2> DEFINE i     == x.at[p]
             n     == Len(x.entries)
             moved == x.entries[n].path
             s     == [j \in 1..(n - 1) |-> x.entries[IF j = i THEN n ELSE j]]
             a     == Repointed(x, p)
  <2>1. n \in Nat /\ DOMAIN x.entries = 1..n /\ i \in 1..n /\ x.entries[i].path = p
    BY <1>2 DEF Sound
  <2>2. \A j \in 1..n : x.entries[j] \in FileEntry /\ x.entries[j].path \in Paths
    BY <2>1, EntryOfVector DEF Sound
  <2>3. s \in Seq(FileEntry) /\ DOMAIN s = 1..(n - 1)
    BY <2>1, <2>2
  <2>4. DOMAIN a = (DOMAIN x.at \cup {moved}) \ {p}
    BY DEF Repointed
  <2>5. ASSUME NEW q \in DOMAIN a
        PROVE  a[q] \in DOMAIN s /\ s[a[q]].path = q
    <3>1. CASE q = moved
      <4>1. a[q] = i /\ q # p
        BY <2>4, <3>1 DEF Repointed
      <4>2. i # n
        BY <2>1, <3>1, <4>1
      <4> QED BY <2>1, <2>3, <3>1, <4>1, <4>2
    <3>2. CASE q # moved
      <4>1. a[q] = x.at[q] /\ q \in DOMAIN x.at /\ q # p
        BY <2>4, <3>2 DEF Repointed
      <4>2. x.at[q] \in 1..n /\ x.entries[x.at[q]].path = q
        BY <2>1, <4>1 DEF Sound
      <4>3. x.at[q] # n /\ x.at[q] # i
        BY <2>1, <3>2, <4>1, <4>2
      <4> QED BY <2>1, <2>3, <4>1, <4>2, <4>3
    <3> QED BY <3>1, <3>2
  <2>6. DOMAIN a \subseteq Paths /\ a \in [DOMAIN a -> Nat]
    <3>1. moved \in Paths
      BY <2>1, <2>2
    <3>2. a = [q \in DOMAIN a |-> a[q]]
      BY DEF Repointed
    <3>3. \A q \in DOMAIN a : a[q] \in Nat
      <4>1. \A j \in DOMAIN s : j \in Nat
        BY <2>1, <2>3
      <4> HIDE DEF s, a
      <4> QED BY <2>5, <4>1
    <3> HIDE DEF a
    <3> QED BY <2>4, <3>1, <3>2, <3>3 DEF Sound
  <2>7. Removed(x, p).entries = s /\ Removed(x, p).at = a
    BY <1>2 DEF Removed
  <2> HIDE DEF s, a
  <2> QED BY <2>3, <2>5, <2>6, <2>7 DEF Sound
<1> QED BY <1>1, <1>2

LEMMA SoundPruned ==
  ASSUME NEW x, Sound(x), NEW p
  PROVE  Sound(Pruned(x, p))
<1> DEFINE marked == {i \in DOMAIN x.entries : x.entries[i].path \in {p} \cup Below[p]}
           keep   == Kept(x.entries, DOMAIN x.entries \ marked)
<1>1. keep \in Seq(FileEntry)
  BY KeptIsSeq DEF Sound
<1>2. CASE marked = {}
  BY <1>2 DEF Pruned
<1>3. CASE marked # {}
  <2> HIDE DEF keep
  <2> QED BY <1>1, <1>3, SoundLocated DEF Pruned, keep
<1> QED BY <1>2, <1>3

LEMMA SoundReplaced ==
  ASSUME NEW x, Sound(x), NEW p, NEW f \in FileEntry
  PROVE  Sound(Replaced(x, p, f))
BY SoundAdded, SoundRemoved DEF Replaced

\* Whatever the daemon asks of the index, and even when build() is handed a
\* vector with a path in it twice, every position the map holds is inside the
\* vector and is that of its path: no call ever reads or writes entries_ out
\* of bounds or updates the entry of another path.
THEOREM PositionsAlwaysValid == Spec => [](ShapeOK /\ PointersValid)
<1>1. ShapeOK /\ PointersValid <=> Sound(index)
  BY DEF ShapeOK, PointersValid, Sound
<1>2. Init => Sound(index)
  BY SoundEmpty DEF Init
<1>3. Sound(index) /\ [Next]_vars => Sound(index)'
  <2> SUFFICES ASSUME Sound(index), [Next]_vars
               PROVE  Sound(index')
    OBVIOUS
  <2>1. CASE Clear
    BY <2>1, SoundEmpty DEF Clear
  <2>2. ASSUME NEW s \in Snapshots, Build(s)
        PROVE  Sound(index')
    BY <2>2, IndexAssumption, SoundLocated DEF Build, Built
  <2>3. ASSUME NEW f \in FileEntry, Add(f)
        PROVE  Sound(index')
    BY <2>3, SoundAdded DEF Add
  <2>4. ASSUME NEW p \in Paths, Remove(p)
        PROVE  Sound(index')
    BY <2>4, SoundRemoved DEF Remove
  <2>5. ASSUME NEW p \in Paths, NEW f \in FileEntry, Replace(p, f)
        PROVE  Sound(index')
    BY <2>5, SoundReplaced DEF Replace
  <2>6. ASSUME NEW p \in Paths, RemoveSubtree(p)
        PROVE  Sound(index')
    BY <2>6, SoundPruned DEF RemoveSubtree
  <2>7. CASE UNCHANGED vars
    BY <2>7 DEF vars
  <2> QED BY <2>1, <2>2, <2>3, <2>4, <2>5, <2>6, <2>7 DEF Next
<1> QED BY <1>1, <1>2, <1>3, PTL DEF Spec

-----------------------------------------------------------------------------
(* One entry per path.                                                     *)

Unique(x) ==
  \A i \in DOMAIN x.entries :
    x.entries[i].path \in DOMAIN x.at /\ x.at[x.entries[i].path] = i

Distinct(s) == \A i, j \in DOMAIN s : s[i].path = s[j].path => i = j

LEMMA UniqueIsDistinct ==
  ASSUME NEW x, Unique(x)
  PROVE  Distinct(x.entries)
BY DEF Unique, Distinct

LEMMA UniqueLocated ==
  ASSUME NEW s \in Seq(FileEntry), Distinct(s), NEW n, NEW m
  PROVE  Unique([entries |-> s, at |-> Locate(s), dirs |-> n, bytes |-> m])
<1>1. ASSUME NEW i \in DOMAIN s
      PROVE  s[i].path \in DOMAIN Locate(s) /\ Locate(s)[s[i].path] = i
  <2>1. s[i].path \in DOMAIN Locate(s)
    BY DEF Locate
  <2>2. /\ Locate(s)[s[i].path] \in DOMAIN s
        /\ s[Locate(s)[s[i].path]].path = s[i].path
    BY <2>1, LocateFinds
  <2> QED BY <2>1, <2>2 DEF Distinct
<1> QED BY <1>1 DEF Unique

LEMMA KeptDistinct ==
  ASSUME NEW s \in Seq(FileEntry), Distinct(s), NEW D \in SUBSET DOMAIN s
  PROVE  Distinct(Kept(s, D))
<1>1. Len(s) \in Nat /\ D \in SUBSET (1..Len(s))
  OBVIOUS
<1>2. DOMAIN Kept(s, D) = 1..Cardinality(D)
  BY KeptIsSeq
<1>3. \A j \in 1..Cardinality(D) : Nth(D, j) \in DOMAIN s /\ Kept(s, D)[j] = s[Nth(D, j)]
  BY KeptIsSeq
<1>4. \A j, k \in 1..Cardinality(D) : Nth(D, j) = Nth(D, k) => j = k
  <2> TAKE j, k \in 1..Cardinality(D)
  <2>1. Cardinality(UpTo(D, Nth(D, j))) = j /\ Cardinality(UpTo(D, Nth(D, k))) = k
    BY <1>1, NthExists
  <2> QED BY <2>1
<1> QED BY <1>2, <1>3, <1>4 DEF Distinct

LEMMA UniqueAdded ==
  ASSUME NEW x, Sound(x), Unique(x), NEW f \in FileEntry
  PROVE  Unique(Added(x, f))
<1>1. CASE f.path \in DOMAIN x.at
  <2> DEFINE i == x.at[f.path]
             s == [x.entries EXCEPT ![i] = f]
  <2>1. i \in DOMAIN x.entries /\ x.entries[i].path = f.path
    BY <1>1 DEF Sound
  <2>2. DOMAIN s = DOMAIN x.entries /\ \A j \in DOMAIN s : s[j].path = x.entries[j].path
    BY <2>1 DEF Sound
  <2>3. Added(x, f).entries = s /\ Added(x, f).at = x.at
    BY <1>1 DEF Added, Overwritten
  <2> HIDE DEF s
  <2> QED BY <2>2, <2>3 DEF Unique
<1>2. CASE f.path \notin DOMAIN x.at
  <2> DEFINE s == Append(x.entries, f)
             a == [p \in DOMAIN x.at \cup {f.path} |->
                     IF p = f.path THEN Len(x.entries) + 1 ELSE x.at[p]]
  <2>1. Len(x.entries) \in Nat /\ DOMAIN x.entries = 1..Len(x.entries)
    BY DEF Sound
  <2>2. DOMAIN s = 1..(Len(x.entries) + 1) /\ s[Len(x.entries) + 1] = f
    BY DEF Sound
  <2>3. \A j \in DOMAIN x.entries : s[j] = x.entries[j]
    BY DEF Sound
  <2>4. \A j \in DOMAIN s : s[j].path \in DOMAIN a /\ a[s[j].path] = j
    <3> TAKE j \in DOMAIN s
    <3>1. CASE j = Len(x.entries) + 1
      BY <2>2, <3>1
    <3>2. CASE j \in DOMAIN x.entries
      BY <1>2, <2>3, <3>2 DEF Unique
    <3> QED BY <2>1, <2>2, <3>1, <3>2
  <2>5. Added(x, f).entries = s /\ Added(x, f).at = a
    BY <1>2 DEF Added, Appended
  <2> HIDE DEF s, a
  <2> QED BY <2>4, <2>5 DEF Unique
<1> QED BY <1>1, <1>2

LEMMA UniqueRemoved ==
  ASSUME NEW x, Sound(x), Unique(x), NEW p
  PROVE  Unique(Removed(x, p))
<1>1. CASE p \notin DOMAIN x.at
  BY <1>1 DEF Removed
<1>2. CASE p \in DOMAIN x.at
  <2> DEFINE i     == x.at[p]
             n     == Len(x.entries)
             moved == x.entries[n].path
             s     == [j \in 1..(n - 1) |-> x.entries[IF j = i THEN n ELSE j]]
             a     == Repointed(x, p)
  <2>1. n \in Nat /\ DOMAIN x.entries = 1..n /\ i \in 1..n /\ x.entries[i].path = p
    BY <1>2 DEF Sound
  <2>2. DOMAIN s = 1..(n - 1)
    OBVIOUS
  <2>3. DOMAIN a = (DOMAIN x.at \cup {moved}) \ {p}
    BY DEF Repointed
  <2>4. ASSUME NEW j \in DOMAIN s
        PROVE  s[j].path \in DOMAIN a /\ a[s[j].path] = j
    <3>1. j \in 1..n /\ j # n
      BY <2>1, <2>2
    <3>2. CASE j = i
      <4>1. s[j].path = moved
        BY <2>2, <3>2
      <4>2. moved # p
        BY <2>1, <3>1, <3>2 DEF Unique
      <4> QED BY <2>3, <3>2, <4>1, <4>2 DEF Repointed
    <3>3. CASE j # i
      <4>1. s[j] = x.entries[j]
        BY <2>2, <3>3
      <4>2. s[j].path \in DOMAIN x.at /\ x.at[s[j].path] = j
        BY <2>1, <3>1, <4>1 DEF Unique
      <4>3. x.at[moved] = n
        BY <2>1, <3>1 DEF Unique
      <4>4. s[j].path # p
        <5> HIDE DEF s
        <5> QED BY <3>3, <4>2
      <4>5. s[j].path # moved
        <5> HIDE DEF s, moved, n
        <5> QED BY <3>1, <4>2, <4>3
      <4> QED BY <2>3, <4>2, <4>4, <4>5 DEF Repointed
    <3> QED BY <3>2, <3>3
  <2>5. Removed(x, p).entries = s /\ Removed(x, p).at = a
    BY <1>2 DEF Removed
  <2> HIDE DEF s, a
  <2> QED BY <2>4, <2>5 DEF Unique
<1> QED BY <1>1, <1>2

LEMMA UniquePruned ==
  ASSUME NEW x, Sound(x), Unique(x), NEW p
  PROVE  Unique(Pruned(x, p))
<1> DEFINE marked == {i \in DOMAIN x.entries : x.entries[i].path \in {p} \cup Below[p]}
           D      == DOMAIN x.entries \ marked
           keep   == Kept(x.entries, D)
<1>1. keep \in Seq(FileEntry)
  BY KeptIsSeq DEF Sound
<1>2. Distinct(keep)
  BY UniqueIsDistinct, KeptDistinct DEF Sound
<1>3. CASE marked = {}
  BY <1>3 DEF Pruned
<1>4. CASE marked # {}
  <2> HIDE DEF keep
  <2> QED BY <1>1, <1>2, <1>4, UniqueLocated DEF Pruned, keep
<1> QED BY <1>3, <1>4

Inv == Sound(index) /\ Unique(index)

LEMMA InvHolds ==
  ASSUME \A s \in Snapshots : Distinct(s)
  PROVE  Spec => []Inv
<1> USE DEF Inv
<1>1. Init => Inv
  BY SoundEmpty DEF Init, Unique, Empty
<1>2. Inv /\ [Next]_vars => Inv'
  <2> SUFFICES ASSUME Sound(index), Unique(index), [Next]_vars
               PROVE  Sound(index') /\ Unique(index')
    OBVIOUS
  <2>1. CASE Clear
    BY <2>1, SoundEmpty DEF Clear, Unique, Empty
  <2>2. ASSUME NEW s \in Snapshots, Build(s)
        PROVE  Sound(index') /\ Unique(index')
    BY <2>2, IndexAssumption, SoundLocated, UniqueLocated DEF Build, Built
  <2>3. ASSUME NEW f \in FileEntry, Add(f)
        PROVE  Sound(index') /\ Unique(index')
    BY <2>3, SoundAdded, UniqueAdded DEF Add
  <2>4. ASSUME NEW p \in Paths, Remove(p)
        PROVE  Sound(index') /\ Unique(index')
    BY <2>4, SoundRemoved, UniqueRemoved DEF Remove
  <2>5. ASSUME NEW p \in Paths, NEW f \in FileEntry, Replace(p, f)
        PROVE  Sound(index') /\ Unique(index')
    BY <2>5, SoundAdded, SoundRemoved, UniqueAdded, UniqueRemoved DEF Replace, Replaced
  <2>6. ASSUME NEW p \in Paths, RemoveSubtree(p)
        PROVE  Sound(index') /\ Unique(index')
    BY <2>6, SoundPruned, UniquePruned DEF RemoveSubtree
  <2>7. CASE UNCHANGED vars
    BY <2>7 DEF vars
  <2> QED BY <2>1, <2>2, <2>3, <2>4, <2>5, <2>6, <2>7 DEF Next
<1> QED BY <1>1, <1>2, PTL DEF Spec

\* When the vectors handed to build() have one entry per path (the rows of the
\* database, a scan of roots that do not overlap), so has the index after any
\* sequence of calls: no ghost entry survives the removal of its path.
THEOREM OneEntryPerPath ==
  ASSUME \A s \in Snapshots : Distinct(s)
  PROVE  Spec => []PathsUnique
<1>1. Inv => PathsUnique
  BY DEF Inv, PathsUnique, Unique
<1> QED BY <1>1, InvHolds, PTL

-----------------------------------------------------------------------------
(* The index implements the catalogue.                                     *)

Files(x) == {x.entries[i] : i \in DOMAIN x.entries}

Others(x, P) == {g \in Files(x) : g.path \notin P}

LEMMA FilesAdded ==
  ASSUME NEW x, Sound(x), Unique(x), NEW f \in FileEntry
  PROVE  Files(Added(x, f)) = Others(x, {f.path}) \cup {f}
<1>1. CASE f.path \in DOMAIN x.at
  <2> DEFINE i == x.at[f.path]
             s == [x.entries EXCEPT ![i] = f]
  <2>1. i \in DOMAIN x.entries /\ x.entries[i].path = f.path
    BY <1>1 DEF Sound
  <2>2. \A j \in DOMAIN x.entries : x.entries[j].path = f.path <=> j = i
    BY <1>1, <2>1 DEF Unique
  <2>3. DOMAIN s = DOMAIN x.entries /\ s[i] = f /\ \A j \in DOMAIN s : j # i => s[j] = x.entries[j]
    BY <2>1 DEF Sound
  <2>4. Added(x, f).entries = s
    BY <1>1 DEF Added, Overwritten
  <2> HIDE DEF s, i
  <2>5. {s[j] : j \in DOMAIN s} = Others(x, {f.path}) \cup {f}
    BY <2>1, <2>2, <2>3 DEF Files, Others
  <2> QED BY <2>4, <2>5 DEF Files
<1>2. CASE f.path \notin DOMAIN x.at
  <2> DEFINE s == Append(x.entries, f)
             n == Len(x.entries)
  <2>1. n \in Nat /\ DOMAIN x.entries = 1..n /\ DOMAIN s = 1..(n + 1)
    BY DEF Sound
  <2>2. s[n + 1] = f /\ \A j \in 1..n : s[j] = x.entries[j]
    BY DEF Sound
  <2>3. \A j \in 1..n : x.entries[j].path # f.path
    BY <1>2, <2>1 DEF Unique
  <2>4. Added(x, f).entries = s
    BY <1>2 DEF Added, Appended
  <2> HIDE DEF s, n
  <2>5. 1..(n + 1) = 1..n \cup {n + 1}
    BY <2>1
  <2>6. {s[j] : j \in DOMAIN s} = Others(x, {f.path}) \cup {f}
    BY <2>1, <2>2, <2>3, <2>5 DEF Files, Others
  <2> QED BY <2>4, <2>6 DEF Files
<1> QED BY <1>1, <1>2

LEMMA FilesRemoved ==
  ASSUME NEW x, Sound(x), Unique(x), NEW p
  PROVE  Files(Removed(x, p)) = Others(x, {p})
<1>1. CASE p \notin DOMAIN x.at
  BY <1>1 DEF Removed, Files, Others, Unique
<1>2. CASE p \in DOMAIN x.at
  <2> DEFINE i == x.at[p]
             n == Len(x.entries)
             s == [j \in 1..(n - 1) |-> x.entries[IF j = i THEN n ELSE j]]
  <2>1. n \in Nat /\ DOMAIN x.entries = 1..n /\ i \in 1..n
    BY <1>2 DEF Sound
  <2>2. \A j \in 1..n : x.entries[j].path = p <=> j = i
    BY <1>2, <2>1 DEF Sound, Unique
  <2>3. Removed(x, p).entries = s
    BY <1>2 DEF Removed
  <2> HIDE DEF i, n
  <2>4. \A j \in 1..n : j # i => \E k \in 1..(n - 1) : s[k] = x.entries[j]
    <3> TAKE j \in 1..n
    <3> HAVE j # i
    <3>1. CASE j = n
      <4>1. i \in 1..(n - 1)
        BY <2>1, <3>1
      <4> QED BY <3>1, <4>1
    <3>2. CASE j # n
      <4>1. j \in 1..(n - 1) /\ s[j] = x.entries[j]
        BY <2>1, <3>2
      <4> QED BY <4>1
    <3> QED BY <3>1, <3>2
  <2>5. \A k \in 1..(n - 1) : \E j \in 1..n : j # i /\ s[k] = x.entries[j]
    <3> TAKE k \in 1..(n - 1)
    <3>1. CASE k = i
      BY <2>1, <3>1
    <3>2. CASE k # i
      BY <2>1, <3>2
    <3> QED BY <3>1, <3>2
  <2>6. DOMAIN s = 1..(n - 1)
    OBVIOUS
  <2> HIDE DEF s
  <2>7. {s[k] : k \in DOMAIN s} = Others(x, {p})
    <3>1. \A g \in Others(x, {p}) : \E j \in 1..n : j # i /\ g = x.entries[j]
      BY <2>1, <2>2 DEF Files, Others
    <3>2. \A j \in 1..n : j # i => x.entries[j] \in Others(x, {p})
      BY <2>1, <2>2 DEF Files, Others
    <3>3. \A g \in Others(x, {p}) : \E k \in 1..(n - 1) : g = s[k]
      BY <2>4, <3>1
    <3>4. \A k \in 1..(n - 1) : s[k] \in Others(x, {p})
      BY <2>5, <3>2
    <3> QED BY <2>6, <3>3, <3>4
  <2> QED BY <2>3, <2>7 DEF Files
<1> QED BY <1>1, <1>2

LEMMA FilesPruned ==
  ASSUME NEW x, Sound(x), NEW p
  PROVE  Files(Pruned(x, p)) = Others(x, {p} \cup Below[p])
<1> DEFINE marked == {i \in DOMAIN x.entries : x.entries[i].path \in {p} \cup Below[p]}
           D      == DOMAIN x.entries \ marked
<1>1. CASE marked = {}
  BY <1>1 DEF Pruned, Files, Others
<1>2. CASE marked # {}
  <2>1. Pruned(x, p).entries = Kept(x.entries, D)
    BY <1>2 DEF Pruned
  <2>2. {Kept(x.entries, D)[j] : j \in DOMAIN Kept(x.entries, D)} = {x.entries[i] : i \in D}
    BY KeptRange DEF Sound
  <2>3. {x.entries[i] : i \in D} = Others(x, {p} \cup Below[p])
    BY DEF Files, Others
  <2> QED BY <2>1, <2>2, <2>3 DEF Files
<1> QED BY <1>1, <1>2

\* The vector, the map and the swaps with the last entry implement the
\* catalogue: each call changes the set of searchable files as its abstract
\* operation does, and nothing else.
THEOREM IndexImplementsCatalog ==
  ASSUME \A s \in Snapshots : Distinct(s)
  PROVE  Spec => ImplementsCatalog
<1>1. Init => Catalog!Init
  BY DEF Init, Empty, Catalog!Init
<1>2. Inv /\ [Next]_vars => [Catalog!Next]_(Files(index))
  <2> SUFFICES ASSUME Sound(index), Unique(index), [Next]_vars
               PROVE  Catalog!Next \/ Files(index') = Files(index)
    BY DEF Inv, Files
  <2> USE DEF Catalog!Next
  <2>1. CASE Clear
    <3>1. Files(index') = {}
      BY <2>1 DEF Clear, Empty, Files
    <3> QED BY <3>1 DEF Catalog!Load, Files
  <2>2. ASSUME NEW s \in Snapshots, Build(s)
        PROVE  Catalog!Next
    <3> DEFINE S == {s[i] : i \in DOMAIN s}
    <3>1. Catalog!Load(S)
      BY <2>2 DEF Build, Built, Catalog!Load
    <3>2. S \in {{t[i] : i \in DOMAIN t} : t \in Snapshots}
      OBVIOUS
    <3> HIDE DEF S
    <3> QED BY <3>1, <3>2
  <2>3. ASSUME NEW f \in FileEntry, Add(f)
        PROVE  Catalog!Next
    <3>1. Catalog!Put(f)
      BY <2>3, FilesAdded DEF Add, Catalog!Put, Catalog!Except, Files, Others
    <3> QED BY <3>1
  <2>4. ASSUME NEW p \in Paths, Remove(p)
        PROVE  Catalog!Next
    <3>1. Catalog!Drop(p)
      BY <2>4, FilesRemoved DEF Remove, Catalog!Drop, Catalog!Except, Files, Others
    <3> QED BY <3>1
  <2>5. ASSUME NEW p \in Paths, NEW f \in FileEntry, Replace(p, f)
        PROVE  Catalog!Next
    <3>1. CASE p = f.path
      <4>1. Files(index') = Others(index, {f.path}) \cup {f}
        BY <2>5, <3>1, FilesAdded DEF Replace, Replaced
      <4>2. Catalog!Put(f)
        BY <4>1 DEF Catalog!Put, Catalog!Except, Files, Others
      <4> QED BY <4>2
    <3>2. CASE p # f.path
      <4> DEFINE x == Removed(index, p)
      <4>1. Sound(x) /\ Unique(x) /\ Files(x) = Others(index, {p})
        BY SoundRemoved, UniqueRemoved, FilesRemoved
      <4>2. index' = Added(x, f)
        BY <2>5, <3>2 DEF Replace, Replaced
      <4> HIDE DEF x
      <4>3. Files(index') = Others(x, {f.path}) \cup {f}
        BY <4>1, <4>2, FilesAdded
      <4>4. Others(x, {f.path}) = Others(index, {p, f.path})
        BY <4>1 DEF Others
      <4>5. Catalog!Move(p, f)
        BY <4>3, <4>4 DEF Catalog!Move, Catalog!Except, Files, Others
      <4> QED BY <4>5
    <3> QED BY <3>1, <3>2
  <2>6. ASSUME NEW p \in Paths, RemoveSubtree(p)
        PROVE  Catalog!Next
    <3>1. Catalog!Prune(p)
      BY <2>6, FilesPruned DEF RemoveSubtree, Catalog!Prune, Catalog!Except, Files, Others
    <3> QED BY <3>1
  <2>7. CASE UNCHANGED vars
    BY <2>7 DEF vars
  <2> QED BY <2>1, <2>2, <2>3, <2>4, <2>5, <2>6, <2>7 DEF Next
<1> QED BY <1>1, <1>2, InvHolds, PTL DEF Spec, ImplementsCatalog, Catalog!Spec, Files

-----------------------------------------------------------------------------
(* Sums over positions: how far the counters are off.                      *)

\* What holds of 0, and of k when it holds of k - 1, holds up to n.
LEMMA Upward ==
  ASSUME NEW n \in Nat, NEW S, 0 \in S, \A k \in 1..n : k - 1 \in S => k \in S
  PROVE  \A k \in 0..n : k \in S
<1> DEFINE Bad == {k \in 0..n : k \notin S}
<1>1. SUFFICES ASSUME Bad # {} PROVE FALSE
  OBVIOUS
<1>2. PICK m \in Bad : \A k \in Bad : m <= k
  <2>1. Bad \subseteq Nat
    OBVIOUS
  <2> HIDE DEF Bad
  <2> QED BY <1>1, <2>1, LeastNat
<1>3. m \in 1..n
  <2>1. m \in 0..n /\ m # 0
    OBVIOUS
  <2> QED BY <2>1
<1>4. m - 1 \in 0..n /\ ~ (m <= m - 1)
  BY <1>3
<1>5. m - 1 \in S
  BY <1>2, <1>4
<1> QED BY <1>3, <1>5

\* g[k] is the sum of the members of w at the positions D up to k.
Sums(g, w, D, n) ==
  g = [k \in 0..n |-> IF k = 0 THEN 0 ELSE g[k - 1] + IF k \in D THEN w[k] ELSE 0]

\* There is such a g for every w and D.
LEMMA SumsExist ==
  ASSUME NEW w, NEW D, NEW n \in Nat
  PROVE  \E g : Sums(g, w, D, n)
<1> DEFINE S == {m \in Nat : \E g : Sums(g, w, D, m)}
<1>1. 0 \in S
  <2> DEFINE h == [k \in 0..0 |-> 0]
  <2>1. \A k \in 0..0 : k = 0
    OBVIOUS
  <2>2. Sums(h, w, D, 0)
    BY <2>1 DEF Sums
  <2> HIDE DEF h
  <2> QED BY <2>2
<1>2. ASSUME NEW k \in 1..n, k - 1 \in S
      PROVE  k \in S
  <2>1. PICK g : Sums(g, w, D, k - 1)
    BY <1>2
  <2> DEFINE h == [j \in 0..k |-> IF j = k THEN g[k - 1] + IF k \in D THEN w[k] ELSE 0 ELSE g[j]]
  <2>2. ASSUME NEW j \in 0..k
        PROVE  h[j] = IF j = 0 THEN 0 ELSE h[j - 1] + IF j \in D THEN w[j] ELSE 0
    <3>1. CASE j = 0
      <4>1. 0 \in 0..(k - 1) /\ 0 # k
        OBVIOUS
      <4>2. g[0] = 0
        BY <2>1, <4>1 DEF Sums
      <4> QED BY <3>1, <4>1, <4>2
    <3>2. CASE j = k
      <4>1. h[k - 1] = g[k - 1] /\ j # 0
        BY <3>2
      <4> QED BY <3>2, <4>1
    <3>3. CASE j # 0 /\ j # k
      <4>1. j \in 0..(k - 1) /\ j - 1 \in 0..k /\ j - 1 # k
        BY <3>3
      <4>2. h[j] = g[j] /\ h[j - 1] = g[j - 1]
        BY <3>3, <4>1
      <4>3. g[j] = g[j - 1] + IF j \in D THEN w[j] ELSE 0
        BY <2>1, <3>3, <4>1 DEF Sums
      <4> HIDE DEF h
      <4> QED BY <3>3, <4>2, <4>3
    <3> QED BY <3>1, <3>2, <3>3
  <2>3. h = [j \in 0..k |-> h[j]]
    OBVIOUS
  <2> HIDE DEF h
  <2>4. Sums(h, w, D, k)
    BY <2>2, <2>3 DEF Sums
  <2> QED BY <2>4
<1>3. \A k \in 0..n : k \in S
  <2> HIDE DEF S
  <2> QED BY <1>1, <1>2, Upward
<1>4. n \in 0..n
  OBVIOUS
<1> QED BY <1>3, <1>4

\* Total is the last of these sums, which are numbers.
AddsUp(g, w, D, n) ==
  /\ g \in [0..n -> Int] /\ g[0] = 0
  /\ \A k \in 1..n : g[k] = g[k - 1] + IF k \in D THEN w[k] ELSE 0

LEMMA TotalIs ==
  ASSUME NEW n \in Nat, NEW w \in [1..n -> Int], NEW D
  PROVE  \E g : AddsUp(g, w, D, n) /\ Total(w, D) = g[n]
<1>1. Len(w) = n
  OBVIOUS
<1> DEFINE g == CHOOSE g : g = [k \in 0..Len(w) |->
                  IF k = 0 THEN 0 ELSE g[k - 1] + IF k \in D THEN w[k] ELSE 0]
<1>2. Total(w, D) = g[n]
  BY <1>1 DEF Total
<1>3. Sums(g, w, D, n)
  <2>1. \E h : Sums(h, w, D, Len(w))
    BY <1>1, SumsExist
  <2>2. Sums(g, w, D, Len(w))
    BY <2>1 DEF Sums
  <2> HIDE DEF g
  <2> QED BY <1>1, <2>2
<1> HIDE DEF g
<1>4. g[0] = 0 /\ \A k \in 1..n : g[k] = g[k - 1] + IF k \in D THEN w[k] ELSE 0
  <2>1. \A k \in 1..n : k \in 0..n /\ k # 0
    OBVIOUS
  <2>2. 0 \in 0..n
    OBVIOUS
  <2> QED BY <1>3, <2>1, <2>2 DEF Sums
<1>5. \A k \in 0..n : g[k] \in Int
  <2> DEFINE S == {k \in 0..n : g[k] \in Int}
  <2>1. 0 \in S
    BY <1>4
  <2>2. \A k \in 1..n : k - 1 \in S => k \in S
    BY <1>4
  <2> HIDE DEF S
  <2>3. \A k \in 0..n : k \in S
    BY <2>1, <2>2, Upward
  <2> QED BY <2>3 DEF S
<1>6. g = [k \in 0..n |-> g[k]]
  BY <1>3 DEF Sums
<1>7. g \in [0..n -> Int]
  BY <1>5, <1>6
<1> QED BY <1>2, <1>4, <1>7 DEF AddsUp

\* The sum over two sets of positions without a common member.
LEMMA TotalSplit ==
  ASSUME NEW n \in Nat, NEW w \in [1..n -> Int], NEW D, NEW E, D \cap E = {}
  PROVE  Total(w, D \cup E) = Total(w, D) + Total(w, E)
<1>1. PICK f : AddsUp(f, w, D, n) /\ Total(w, D) = f[n]
  BY TotalIs
<1>2. PICK g : AddsUp(g, w, E, n) /\ Total(w, E) = g[n]
  BY TotalIs
<1>3. PICK h : AddsUp(h, w, D \cup E, n) /\ Total(w, D \cup E) = h[n]
  BY TotalIs
<1> DEFINE S == {k \in 0..n : h[k] = f[k] + g[k]}
<1>4. 0 \in S
  BY <1>1, <1>2, <1>3 DEF AddsUp
<1>5. ASSUME NEW k \in 1..n, k - 1 \in S
      PROVE  k \in S
  <2>1. k - 1 \in 0..n /\ k \in 0..n /\ w[k] \in Int /\ h[k - 1] = f[k - 1] + g[k - 1]
    BY <1>5
  <2>2. f[k - 1] \in Int /\ g[k - 1] \in Int
    BY <1>1, <1>2, <2>1 DEF AddsUp
  <2>3. /\ f[k] = f[k - 1] + IF k \in D THEN w[k] ELSE 0
        /\ g[k] = g[k - 1] + IF k \in E THEN w[k] ELSE 0
        /\ h[k] = h[k - 1] + IF k \in D \cup E THEN w[k] ELSE 0
    BY <1>1, <1>2, <1>3 DEF AddsUp
  <2>4. h[k] = f[k] + g[k]
    <3> HIDE DEF S
    <3> QED BY <2>1, <2>2, <2>3
  <2> QED BY <2>1, <2>4
<1>6. \A k \in 0..n : k \in S
  <2> HIDE DEF S
  <2> QED BY <1>4, <1>5, Upward
<1>7. n \in 0..n
  OBVIOUS
<1> QED BY <1>1, <1>2, <1>3, <1>6, <1>7 DEF AddsUp

\* One more member at the end.
LEMMA TotalAppended ==
  ASSUME NEW n \in Nat, NEW w \in [1..n -> Int], NEW v \in [1..(n + 1) -> Int],
         \A k \in 1..n : v[k] = w[k]
  PROVE  Total(v, 1..(n + 1)) = Total(w, 1..n) + v[n + 1]
<1>1. PICK f : AddsUp(f, w, 1..n, n) /\ Total(w, 1..n) = f[n]
  BY TotalIs
<1>2. PICK g : AddsUp(g, v, 1..(n + 1), n + 1) /\ Total(v, 1..(n + 1)) = g[n + 1]
  <2>1. n + 1 \in Nat
    OBVIOUS
  <2> QED BY <2>1, TotalIs
<1> DEFINE S == {k \in 0..n : g[k] = f[k]}
<1>3. 0 \in S
  BY <1>1, <1>2 DEF AddsUp
<1>4. ASSUME NEW k \in 1..n, k - 1 \in S
      PROVE  k \in S
  <2>1. k \in 1..(n + 1) /\ k \in 0..n /\ g[k - 1] = f[k - 1] /\ v[k] = w[k]
    BY <1>4
  <2> QED BY <1>1, <1>2, <2>1 DEF AddsUp
<1>5. \A k \in 0..n : k \in S
  <2> HIDE DEF S
  <2> QED BY <1>3, <1>4, Upward
<1>6. n \in 0..n /\ n + 1 \in 1..(n + 1) /\ (n + 1) - 1 = n
  OBVIOUS
<1>7. g[n + 1] = g[n] + v[n + 1]
  BY <1>2, <1>6 DEF AddsUp
<1> QED BY <1>1, <1>2, <1>5, <1>6, <1>7 DEF AddsUp

\* The last member moved to the position i, and the last position given up.
LEMMA TotalHole ==
  ASSUME NEW n \in Nat, NEW w \in [1..n -> Int], NEW i \in 1..n,
         NEW v \in [1..(n - 1) -> Int],
         \A k \in 1..(n - 1) : v[k] = w[IF k = i THEN n ELSE k]
  PROVE  Total(v, 1..(n - 1)) = Total(w, 1..n) - w[i]
<1>1. PICK f : AddsUp(f, w, 1..n, n) /\ Total(w, 1..n) = f[n]
  BY TotalIs
<1>2. PICK g : AddsUp(g, v, 1..(n - 1), n - 1) /\ Total(v, 1..(n - 1)) = g[n - 1]
  <2>1. n - 1 \in Nat
    OBVIOUS
  <2> QED BY <2>1, TotalIs
<1>0. n \in 1..n /\ w[n] \in Int /\ w[i] \in Int /\ n - 1 \in Nat
  OBVIOUS
<1> DEFINE S == {k \in 0..(n - 1) : g[k] = f[k] + IF i <= k THEN w[n] - w[i] ELSE 0}
<1>3. 0 \in S
  BY <1>1, <1>2 DEF AddsUp
<1>4. ASSUME NEW k \in 1..(n - 1), k - 1 \in S
      PROVE  k \in S
  <2>1. /\ k \in 1..n /\ k \in 0..(n - 1) /\ k - 1 \in 0..(n - 1)
        /\ g[k - 1] = f[k - 1] + IF i <= k - 1 THEN w[n] - w[i] ELSE 0
    BY <1>4
  <2>2. f[k] = f[k - 1] + w[k] /\ g[k] = g[k - 1] + v[k]
    BY <1>1, <1>2, <2>1 DEF AddsUp
  <2>3. f[k - 1] \in Int /\ w[k] \in Int /\ k \in Int /\ i \in Int
    <3>1. k - 1 \in 0..n
      BY <2>1
    <3> QED BY <1>1, <2>1, <3>1 DEF AddsUp
  <2>4. CASE k = i
    <3>1. v[k] = w[n]
      BY <2>4
    <3>2. i <= k /\ ~ (i <= k - 1)
      BY <2>3, <2>4
    <3>3. g[k] = f[k] + (w[n] - w[i])
      BY <1>0, <2>1, <2>2, <2>3, <2>4, <3>1, <3>2
    <3> QED BY <2>1, <3>2, <3>3
  <2>5. CASE k # i
    <3>1. v[k] = w[k] /\ (i <= k <=> i <= k - 1)
      BY <2>3, <2>5
    <3>2. g[k] = f[k] + IF i <= k THEN w[n] - w[i] ELSE 0
      BY <1>0, <2>1, <2>2, <2>3, <3>1
    <3> QED BY <2>1, <3>2
  <2> QED BY <2>4, <2>5
<1>5. \A k \in 0..(n - 1) : k \in S
  <2> HIDE DEF S
  <2> QED BY <1>0, <1>3, <1>4, Upward
<1>6. n - 1 \in S
  <2>1. n - 1 \in 0..(n - 1)
    BY <1>0
  <2> QED BY <1>5, <2>1
<1>7. f[n] = f[n - 1] + w[n] /\ f[n - 1] \in Int
  <2>1. n - 1 \in 0..n
    BY <1>0
  <2> QED BY <1>0, <1>1, <2>1 DEF AddsUp
<1>8. CASE i = n
  <2>1. ~ (i <= n - 1)
    BY <1>8
  <2> QED BY <1>0, <1>1, <1>2, <1>6, <1>7, <1>8, <2>1 DEF AddsUp
<1>9. CASE i # n
  <2>1. i <= n - 1
    BY <1>9
  <2> QED BY <1>0, <1>1, <1>2, <1>6, <1>7, <2>1 DEF AddsUp
<1> QED BY <1>8, <1>9

\* The members at the positions D, moved together: the j-th of v is the one of
\* w at the j-th position.
LEMMA TotalKept ==
  ASSUME NEW n \in Nat, NEW w \in [1..n -> Int], NEW D \in SUBSET (1..n),
         NEW v \in [1..Cardinality(D) -> Int],
         \A j \in 1..Cardinality(D) : v[j] = w[Nth(D, j)]
  PROVE  Total(v, 1..Cardinality(D)) = Total(w, D)
<1> DEFINE N == Cardinality(D)
           C(k) == Cardinality(UpTo(D, k))
<1>0. IsFiniteSet(D) /\ N \in Nat
  BY RankBounds
<1>1. PICK f : AddsUp(f, w, D, n) /\ Total(w, D) = f[n]
  BY TotalIs
<1>2. PICK g : AddsUp(g, v, 1..N, N) /\ Total(v, 1..N) = g[N]
  BY <1>0, TotalIs
<1>3. C(0) = 0
  <2>0. \A i \in D : ~ (i <= 0)
    OBVIOUS
  <2>1. UpTo(D, 0) = {}
    BY <2>0 DEF UpTo
  <2> QED BY <2>1, FS_EmptySet
<1>4. C(n) = N
  <2>0. \A i \in D : i <= n
    OBVIOUS
  <2>1. UpTo(D, n) = D
    BY <2>0 DEF UpTo
  <2> QED BY <2>1
<1>5. ASSUME NEW k \in 1..n, k \notin D
      PROVE  C(k) = C(k - 1)
  <2>1. \A i \in D : i <= k <=> i <= k - 1
    BY <1>5
  <2>2. UpTo(D, k) = UpTo(D, k - 1)
    BY <2>1 DEF UpTo
  <2> QED BY <2>2
<1>6. ASSUME NEW k \in 1..n, k \in D
      PROVE  /\ C(k) \in 1..N /\ C(k) = C(k - 1) + 1
             /\ Nth(D, C(k)) = k
  <2>1. UpTo(D, k - 1) \in SUBSET D
    BY DEF UpTo
  <2>2. IsFiniteSet(UpTo(D, k - 1)) /\ C(k - 1) \in Nat
    BY <1>0, <2>1, FS_Subset, FS_CardinalityType
  <2>3. \A i \in D : i <= k <=> (i <= k - 1 \/ i = k)
    BY <1>6
  <2>4. UpTo(D, k) = UpTo(D, k - 1) \cup {k} /\ k \notin UpTo(D, k - 1)
    <3>1. ~ (k <= k - 1)
      OBVIOUS
    <3> QED BY <1>6, <2>3, <3>1 DEF UpTo
  <2>5. C(k) = C(k - 1) + 1
    BY <2>2, <2>4, FS_AddElement
  <2>6. C(k) \in 1..N
    BY <1>6, RankBounds
  <2>7. Nth(D, C(k)) \in D /\ Cardinality(UpTo(D, Nth(D, C(k)))) = Cardinality(UpTo(D, k))
    BY <2>6, NthExists
  <2>8. Nth(D, C(k)) = k
    <3> HIDE DEF C
    <3> QED BY <1>6, <2>7, RankOneToOne
  <2> QED BY <2>5, <2>6, <2>8
<1> HIDE DEF C
<1> DEFINE S == {k \in 0..n : C(k) \in 0..N /\ g[C(k)] = f[k]}
<1>7. 0 \in S
  BY <1>0, <1>1, <1>2, <1>3 DEF AddsUp
<1>8. ASSUME NEW k \in 1..n, k - 1 \in S
      PROVE  k \in S
  <2>1. k \in 0..n /\ C(k - 1) \in 0..N /\ g[C(k - 1)] = f[k - 1]
    BY <1>8
  <2>2. CASE k \in D
    <3>1. C(k) \in 1..N /\ C(k) - 1 = C(k - 1) /\ v[C(k)] = w[k]
      BY <1>0, <1>6, <2>1, <2>2
    <3>2. g[C(k)] = g[C(k) - 1] + v[C(k)]
      BY <1>2, <3>1 DEF AddsUp
    <3>3. f[k] = f[k - 1] + w[k]
      BY <1>1, <2>2 DEF AddsUp
    <3>4. g[C(k)] = f[k]
      BY <2>1, <3>1, <3>2, <3>3
    <3> QED BY <1>0, <2>1, <3>1, <3>4
  <2>3. CASE k \notin D
    <3>1. f[k] = f[k - 1]
      <4>1. k - 1 \in 0..n
        OBVIOUS
      <4>2. f[k] = f[k - 1] + 0 /\ f[k - 1] \in Int
        BY <1>1, <2>3, <4>1 DEF AddsUp
      <4> QED BY <4>2
    <3> QED BY <1>5, <2>1, <2>3, <3>1
  <2> QED BY <2>2, <2>3
<1>9. n \in S
  <2>1. n \in 0..n
    OBVIOUS
  <2> HIDE DEF S
  <2> QED BY <1>7, <1>8, <2>1, Upward
<1> QED BY <1>1, <1>2, <1>4, <1>9

\* Counters modulo 2^64.
LEMMA WrapTyped ==
  ASSUME NEW a \in Int
  PROVE  Wrap(a) \in 0..(Modulus - 1) /\ Wrap(a) \in Int
BY IndexAssumption DEF Wrap

\* What is added to a counter after it has wrapped is added before.
LEMMA WrapShift ==
  ASSUME NEW a \in Int, NEW b \in Int
  PROVE  Wrap(Wrap(a) - b) = Wrap(a - b)
<1> DEFINE M == Modulus
<1>1. M \in Int /\ M >= 1
  BY IndexAssumption
<1> HIDE DEF M
<1>2. ASSUME NEW c \in Int
      PROVE  /\ c \div M \in Int /\ c % M \in 0..(M - 1)
             /\ c % M = c - M * (c \div M)
  <2>1. c \div M \in Int
    BY <1>1
  <2>2. c % M \in 0..(M - 1)
    BY <1>1
  <2>3. c % M = c - M * (c \div M)
    BY <1>1
  <2> QED BY <2>1, <2>2, <2>3
<1>3. PICK q1, r1 \in Int : q1 = a \div M /\ r1 = a % M
  BY <1>2
<1>4. PICK q2, r2 \in Int : q2 = (r1 - b) \div M /\ r2 = (r1 - b) % M
  BY <1>2
<1>5. PICK q3, r3 \in Int : q3 = (a - b) \div M /\ r3 = (a - b) % M
  BY <1>2
<1>6. r1 = a - M * q1 /\ r2 = (r1 - b) - M * q2 /\ r3 = (a - b) - M * q3
  <2>1. r1 - b \in Int /\ a - b \in Int
    OBVIOUS
  <2> QED BY <1>2, <1>3, <1>4, <1>5, <2>1
<1>7. r2 \in 0..(M - 1) /\ r3 \in 0..(M - 1)
  BY <1>2, <1>4, <1>5
<1>8. PICK q \in Int : q = q3 - q1 - q2
  OBVIOUS
<1>9. r2 - r3 = M * q
  BY <1>1, <1>6, <1>8
<1>10. ~ (q >= 1)
  <2>1. SUFFICES ASSUME q >= 1 PROVE FALSE
    OBVIOUS
  <2>2. M * q >= M
    BY <1>1, <2>1
  <2> QED BY <1>1, <1>7, <1>9, <2>2
<1>11. ~ (q <= -1)
  <2>1. SUFFICES ASSUME q <= -1 PROVE FALSE
    OBVIOUS
  <2>2. M * q <= -M
    BY <1>1, <2>1
  <2> QED BY <1>1, <1>7, <1>9, <2>2
<1>12. r2 = r3
  <2>1. q = 0 /\ M * q = 0
    BY <1>1, <1>10, <1>11
  <2> QED BY <1>7, <1>9, <2>1
<1> QED BY <1>3, <1>4, <1>5, <1>12 DEF Wrap, M

\* A counter and what it counts that go up or down alike are off by as much.
LEMMA Carried ==
  ASSUME NEW a \in Int, NEW t \in Int, NEW c \in Int
  PROVE  /\ Wrap(Wrap(a + c) - (t + c)) = Wrap(a - t)
         /\ Wrap(Wrap(a - c) - (t - c)) = Wrap(a - t)
<1>1. a + c \in Int /\ t + c \in Int /\ a - c \in Int /\ t - c \in Int
  OBVIOUS
<1>2. (a + c) - (t + c) = a - t /\ (a - c) - (t - c) = a - t
  OBVIOUS
<1>3. Wrap(Wrap(a + c) - (t + c)) = Wrap((a + c) - (t + c))
  BY <1>1, WrapShift
<1>4. Wrap(Wrap(a - c) - (t - c)) = Wrap((a - c) - (t - c))
  BY <1>1, WrapShift
<1> QED BY <1>2, <1>3, <1>4

DirsOf(s)  == [i \in DOMAIN s |-> IF s[i].is_dir THEN 1 ELSE 0]
SizesOf(s) == [i \in DOMAIN s |-> s[i].size]

LEMMA SizeIsInt ==
  ASSUME NEW f \in FileEntry
  PROVE  f.size \in Int
<1>1. f.size \in Sizes
  BY DEF FileEntry
<1>2. \A z \in Sizes : z \in Int
  <2>1. Sizes \subseteq Nat
    BY IndexAssumption
  <2> QED BY <2>1
<1> QED BY <1>1, <1>2

\* The counts of a vector are totals of these.
LEMMA Counts ==
  ASSUME NEW s \in Seq(FileEntry)
  PROVE  /\ Len(s) \in Nat /\ DOMAIN s = 1..Len(s)
         /\ DirsOf(s) \in [1..Len(s) -> Int] /\ SizesOf(s) \in [1..Len(s) -> Int]
         /\ \A D : /\ DirsIn(s, D) = Total(DirsOf(s), D) /\ DirsIn(s, D) \in Int
                   /\ BytesIn(s, D) = Total(SizesOf(s), D) /\ BytesIn(s, D) \in Int
         /\ DirCount(s) = Total(DirsOf(s), 1..Len(s)) /\ DirCount(s) \in Int
         /\ ByteCount(s) = Total(SizesOf(s), 1..Len(s)) /\ ByteCount(s) \in Int
<1>1. Len(s) \in Nat /\ DOMAIN s = 1..Len(s)
  OBVIOUS
<1>2. \A i \in 1..Len(s) : s[i].size \in Int
  <2>1. \A i \in 1..Len(s) : s[i] \in FileEntry
    BY <1>1
  <2> QED BY <2>1, SizeIsInt
<1>3. DirsOf(s) \in [1..Len(s) -> Int] /\ SizesOf(s) \in [1..Len(s) -> Int]
  BY <1>1, <1>2 DEF DirsOf, SizesOf
<1>4. ASSUME NEW w \in [1..Len(s) -> Int], NEW D
      PROVE  Total(w, D) \in Int
  <2>1. PICK g : AddsUp(g, w, D, Len(s)) /\ Total(w, D) = g[Len(s)]
    BY <1>1, TotalIs
  <2>2. Len(s) \in 0..Len(s)
    BY <1>1
  <2> QED BY <2>1, <2>2 DEF AddsUp
<1>5. \A D : /\ DirsIn(s, D) = Total(DirsOf(s), D)
             /\ BytesIn(s, D) = Total(SizesOf(s), D)
  BY DEF DirsIn, BytesIn, DirsOf, SizesOf
<1>6. \A D : DirsIn(s, D) \in Int /\ BytesIn(s, D) \in Int
  BY <1>3, <1>4, <1>5
<1> QED BY <1>1, <1>3, <1>5, <1>6 DEF DirCount, ByteCount

\* The counters hold numbers of 64 bits, whatever was called.
Counted(x) == x.dirs \in 0..(Modulus - 1) /\ x.bytes \in 0..(Modulus - 1)

LEMMA CountedAlways ==
  ASSUME NEW x, Sound(x), Counted(x)
  PROVE  /\ \A f \in FileEntry : Counted(Added(x, f))
         /\ \A p : Counted(Removed(x, p))
         /\ \A p : Counted(Pruned(x, p))
<1>1. /\ \A D : DirsIn(x.entries, D) \in Int /\ BytesIn(x.entries, D) \in Int
      /\ \A i \in DOMAIN x.entries : x.entries[i] \in FileEntry
  BY Counts, EntryOfVector DEF Sound
<1>2. \A f \in FileEntry : f.size \in Int
  BY SizeIsInt
<1>3. /\ x.dirs \in Int /\ x.bytes \in Int
      /\ \A a, b \in Int : /\ Wrap(a + b) \in 0..(Modulus - 1)
                           /\ Wrap(a - b) \in 0..(Modulus - 1)
  BY WrapTyped DEF Counted
<1>4. ASSUME NEW f \in FileEntry
      PROVE  Counted(Added(x, f))
  <2>1. CASE f.path \in DOMAIN x.at
    <3>1. x.at[f.path] \in DOMAIN x.entries
      BY <2>1 DEF Sound
    <3>2. x.entries[x.at[f.path]].size \in Int
      BY <1>1, <1>2, <3>1
    <3>3. /\ Added(x, f).dirs = Wrap(x.dirs - IF x.entries[x.at[f.path]].is_dir THEN 1 ELSE 0)
          /\ Added(x, f).bytes = Wrap(x.bytes - x.entries[x.at[f.path]].size)
      BY <2>1 DEF Added, Overwritten
    <3>4. \A c : c = (IF x.entries[x.at[f.path]].is_dir THEN 1 ELSE 0) => c \in Int
      OBVIOUS
    <3> QED BY <1>3, <3>2, <3>3, <3>4 DEF Counted
  <2>2. CASE f.path \notin DOMAIN x.at
    <3>1. /\ Added(x, f).dirs = Wrap(x.dirs + IF f.is_dir THEN 1 ELSE 0)
          /\ Added(x, f).bytes = Wrap(x.bytes + f.size)
      BY <2>2 DEF Added, Appended
    <3>2. \A c : c = (IF f.is_dir THEN 1 ELSE 0) => c \in Int
      OBVIOUS
    <3> QED BY <1>2, <1>3, <3>1, <3>2 DEF Counted
  <2> QED BY <2>1, <2>2
<1>5. ASSUME NEW p
      PROVE  Counted(Removed(x, p))
  <2>1. CASE p \in DOMAIN x.at
    <3>1. x.at[p] \in DOMAIN x.entries
      BY <2>1 DEF Sound
    <3>2. x.entries[x.at[p]].size \in Int
      BY <1>1, <1>2, <3>1
    <3> QED BY <1>3, <2>1, <3>2 DEF Removed, Counted
  <2>2. CASE p \notin DOMAIN x.at
    BY <2>2 DEF Removed
  <2> QED BY <2>1, <2>2
<1>6. ASSUME NEW p
      PROVE  Counted(Pruned(x, p))
  BY <1>1, <1>3 DEF Pruned, Counted
<1> QED BY <1>4, <1>5, <1>6

\* No drift after build() and clear(); the same drift after a new entry, a
\* removal and the removal of a subtree.
LEMMA DriftBuilt ==
  ASSUME NEW s \in Seq(FileEntry)
  PROVE  Counted(Built(s)) /\ Drift(Built(s)) = <<0, 0>>
<1>1. DirCount(s) \in Int /\ ByteCount(s) \in Int
  BY Counts
<1>2. ASSUME NEW a \in Int
      PROVE  Wrap(Wrap(a) - a) = 0
  <2>1. Wrap(Wrap(a) - a) = Wrap(a - a)
    BY WrapShift
  <2>2. a - a = 0 /\ Wrap(0) = 0
    BY IndexAssumption DEF Wrap
  <2> QED BY <2>1, <2>2
<1>3. Counted(Built(s))
  BY <1>1, WrapTyped DEF Counted, Built
<1>4. Drift(Built(s)) = <<0, 0>>
  BY <1>1, <1>2 DEF Drift, Built
<1> QED BY <1>3, <1>4

LEMMA DriftEmpty == Counted(Empty) /\ Drift(Empty) = <<0, 0>>
<1>1. ASSUME NEW w \in [1..0 -> Int]
      PROVE  Total(w, {}) = 0
  <2>1. PICK g : AddsUp(g, w, {}, 0) /\ Total(w, {}) = g[0]
    BY TotalIs
  <2> QED BY <2>1 DEF AddsUp
<1>2. <<>> \in Seq(FileEntry) /\ Len(<<>>) = 0 /\ 1..0 = {}
  OBVIOUS
<1>3. DirCount(<<>>) = 0 /\ ByteCount(<<>>) = 0
  BY <1>1, <1>2, Counts
<1>4. Wrap(0) = 0 /\ 0 - 0 = 0 /\ 0 \in 0..(Modulus - 1)
  BY IndexAssumption DEF Wrap
<1> QED BY <1>3, <1>4 DEF Counted, Empty, Drift

LEMMA DriftAppended ==
  ASSUME NEW x, Sound(x), Counted(x), NEW f \in FileEntry
  PROVE  Drift(Appended(x, f)) = Drift(x)
<1> DEFINE s == x.entries
           n == Len(x.entries)
           v == Append(x.entries, f)
<1>1. s \in Seq(FileEntry) /\ n \in Nat /\ DOMAIN s = 1..n
  BY DEF Sound
<1>2. /\ v \in Seq(FileEntry) /\ Len(v) = n + 1 /\ DOMAIN v = 1..(n + 1)
      /\ v[n + 1] = f /\ \A i \in 1..n : v[i] = s[i]
  BY <1>1
<1>3. f.size \in Int
  BY SizeIsInt
<1>4. /\ Appended(x, f).entries = v
      /\ Appended(x, f).dirs = Wrap(x.dirs + IF f.is_dir THEN 1 ELSE 0)
      /\ Appended(x, f).bytes = Wrap(x.bytes + f.size)
  BY DEF Appended
<1> HIDE DEF s, n, v
<1>5. DirCount(v) = DirCount(s) + IF f.is_dir THEN 1 ELSE 0
  <2>1. DirsOf(s) \in [1..n -> Int] /\ DirsOf(v) \in [1..(n + 1) -> Int]
    BY <1>1, <1>2, Counts DEF n, s
  <2>2. \A i \in 1..n : DirsOf(v)[i] = DirsOf(s)[i]
    <3>1. \A i \in 1..n : i \in 1..(n + 1)
      BY <1>1
    <3> QED BY <1>1, <1>2, <3>1 DEF DirsOf
  <2>3. DirsOf(v)[n + 1] = IF f.is_dir THEN 1 ELSE 0
    <3>1. n + 1 \in 1..(n + 1)
      BY <1>1
    <3> QED BY <1>2, <3>1 DEF DirsOf
  <2>4. Total(DirsOf(v), 1..(n + 1)) = Total(DirsOf(s), 1..n) + DirsOf(v)[n + 1]
    BY <1>1, <2>1, <2>2, TotalAppended
  <2> QED BY <1>1, <1>2, <2>3, <2>4, Counts DEF n, s
<1>6. ByteCount(v) = ByteCount(s) + f.size
  <2>1. SizesOf(s) \in [1..n -> Int] /\ SizesOf(v) \in [1..(n + 1) -> Int]
    BY <1>1, <1>2, Counts DEF n, s
  <2>2. \A i \in 1..n : SizesOf(v)[i] = SizesOf(s)[i]
    <3>1. \A i \in 1..n : i \in 1..(n + 1)
      BY <1>1
    <3> QED BY <1>1, <1>2, <3>1 DEF SizesOf
  <2>3. SizesOf(v)[n + 1] = f.size
    <3>1. n + 1 \in 1..(n + 1)
      BY <1>1
    <3> QED BY <1>2, <3>1 DEF SizesOf
  <2>4. Total(SizesOf(v), 1..(n + 1)) = Total(SizesOf(s), 1..n) + SizesOf(v)[n + 1]
    BY <1>1, <2>1, <2>2, TotalAppended
  <2> QED BY <1>1, <1>2, <2>3, <2>4, Counts DEF n, s
<1>7. DirCount(s) \in Int /\ ByteCount(s) \in Int /\ x.dirs \in Int /\ x.bytes \in Int
  BY <1>1, Counts DEF Counted
<1>8. Wrap(Appended(x, f).dirs - DirCount(v)) = Wrap(x.dirs - DirCount(s))
  <2>1. PICK c : c = IF f.is_dir THEN 1 ELSE 0
    OBVIOUS
  <2>2. c \in Int
    BY <2>1
  <2>3. Wrap(Wrap(x.dirs + c) - (DirCount(s) + c)) = Wrap(x.dirs - DirCount(s))
    BY <1>7, <2>2, Carried
  <2>4. Appended(x, f).dirs = Wrap(x.dirs + c) /\ DirCount(v) = DirCount(s) + c
    BY <1>4, <1>5, <2>1
  <2> QED BY <2>3, <2>4
<1>9. Wrap(Appended(x, f).bytes - ByteCount(v)) = Wrap(x.bytes - ByteCount(s))
  <2>1. Wrap(Wrap(x.bytes + f.size) - (ByteCount(s) + f.size)) = Wrap(x.bytes - ByteCount(s))
    BY <1>3, <1>7, Carried
  <2>2. Appended(x, f).bytes = Wrap(x.bytes + f.size)
    BY <1>4
  <2> QED BY <1>6, <2>1, <2>2
<1> QED BY <1>4, <1>8, <1>9 DEF Drift, s

LEMMA DriftRemoved ==
  ASSUME NEW x, Sound(x), Counted(x), NEW p
  PROVE  Drift(Removed(x, p)) = Drift(x)
<1>1. CASE p \notin DOMAIN x.at
  BY <1>1 DEF Removed
<1>2. CASE p \in DOMAIN x.at
  <2> DEFINE s == x.entries
             n == Len(x.entries)
             i == x.at[p]
             v == [j \in 1..(n - 1) |-> x.entries[IF j = i THEN n ELSE j]]
  <2>1. s \in Seq(FileEntry) /\ n \in Nat /\ DOMAIN s = 1..n /\ i \in 1..n
    BY <1>2 DEF Sound
  <2>2. /\ v \in Seq(FileEntry) /\ Len(v) = n - 1 /\ DOMAIN v = 1..(n - 1)
        /\ \A j \in 1..(n - 1) : v[j] = s[IF j = i THEN n ELSE j]
    <3>1. \A j \in 1..n : s[j] \in FileEntry
      BY <2>1
    <3> QED BY <2>1, <3>1
  <2>3. /\ Removed(x, p).entries = v
        /\ Removed(x, p).dirs = Wrap(x.dirs - IF s[i].is_dir THEN 1 ELSE 0)
        /\ Removed(x, p).bytes = Wrap(x.bytes - s[i].size)
    BY <1>2 DEF Removed
  <2> HIDE DEF s, n, i, v
  <2>4. DirCount(v) = DirCount(s) - IF s[i].is_dir THEN 1 ELSE 0
    <3>1. DirsOf(s) \in [1..n -> Int] /\ DirsOf(v) \in [1..(n - 1) -> Int]
      BY <2>1, <2>2, Counts DEF n, s
    <3>2. \A j \in 1..(n - 1) : DirsOf(v)[j] = DirsOf(s)[IF j = i THEN n ELSE j]
      <4>1. \A j \in 1..(n - 1) : j \in 1..n /\ n \in 1..n
        BY <2>1
      <4> QED BY <2>1, <2>2, <4>1 DEF DirsOf
    <3>3. DirsOf(s)[i] = IF s[i].is_dir THEN 1 ELSE 0
      BY <2>1 DEF DirsOf
    <3>4. Total(DirsOf(v), 1..(n - 1)) = Total(DirsOf(s), 1..n) - DirsOf(s)[i]
      BY <2>1, <3>1, <3>2, TotalHole
    <3> QED BY <2>1, <2>2, <3>3, <3>4, Counts DEF n, s
  <2>5. ByteCount(v) = ByteCount(s) - s[i].size
    <3>1. SizesOf(s) \in [1..n -> Int] /\ SizesOf(v) \in [1..(n - 1) -> Int]
      BY <2>1, <2>2, Counts DEF n, s
    <3>2. \A j \in 1..(n - 1) : SizesOf(v)[j] = SizesOf(s)[IF j = i THEN n ELSE j]
      <4>1. \A j \in 1..(n - 1) : j \in 1..n /\ n \in 1..n
        BY <2>1
      <4> QED BY <2>1, <2>2, <4>1 DEF SizesOf
    <3>3. SizesOf(s)[i] = s[i].size
      BY <2>1 DEF SizesOf
    <3>4. Total(SizesOf(v), 1..(n - 1)) = Total(SizesOf(s), 1..n) - SizesOf(s)[i]
      BY <2>1, <3>1, <3>2, TotalHole
    <3> QED BY <2>1, <2>2, <3>3, <3>4, Counts DEF n, s
  <2>6. DirCount(s) \in Int /\ ByteCount(s) \in Int /\ x.dirs \in Int /\ x.bytes \in Int
    BY <2>1, Counts DEF Counted
  <2>7. Wrap(Removed(x, p).dirs - DirCount(v)) = Wrap(x.dirs - DirCount(s))
    <3>1. PICK c : c = IF s[i].is_dir THEN 1 ELSE 0
      OBVIOUS
    <3>2. c \in Int
      BY <3>1
    <3>3. Wrap(Wrap(x.dirs - c) - (DirCount(s) - c)) = Wrap(x.dirs - DirCount(s))
      BY <2>6, <3>2, Carried
    <3>4. Removed(x, p).dirs = Wrap(x.dirs - c) /\ DirCount(v) = DirCount(s) - c
      BY <2>3, <2>4, <3>1
    <3> QED BY <3>3, <3>4
  <2>8. Wrap(Removed(x, p).bytes - ByteCount(v)) = Wrap(x.bytes - ByteCount(s))
    <3>1. PICK c : c = s[i].size
      OBVIOUS
    <3>2. c \in Int
      <4>1. s[i] \in FileEntry
        BY <2>1
      <4> QED BY <3>1, <4>1, SizeIsInt
    <3>3. Wrap(Wrap(x.bytes - c) - (ByteCount(s) - c)) = Wrap(x.bytes - ByteCount(s))
      BY <2>6, <3>2, Carried
    <3>4. Removed(x, p).bytes = Wrap(x.bytes - c) /\ ByteCount(v) = ByteCount(s) - c
      BY <2>3, <2>5, <3>1
    <3> QED BY <3>3, <3>4
  <2> QED BY <2>3, <2>7, <2>8 DEF Drift, s
<1> QED BY <1>1, <1>2

LEMMA DriftPruned ==
  ASSUME NEW x, Sound(x), Counted(x), NEW p
  PROVE  Drift(Pruned(x, p)) = Drift(x)
<1> DEFINE s == x.entries
           n == Len(x.entries)
           marked == {i \in DOMAIN x.entries : x.entries[i].path \in {p} \cup Below[p]}
           D == DOMAIN x.entries \ marked
           v == Kept(x.entries, D)
<1>1. CASE marked = {}
  BY <1>1 DEF Pruned
<1>2. CASE marked # {}
  <2>1. /\ s \in Seq(FileEntry) /\ n \in Nat /\ DOMAIN s = 1..n
        /\ D \in SUBSET (1..n) /\ D \cap marked = {} /\ D \cup marked = 1..n
    BY DEF Sound
  <2>2. /\ Pruned(x, p).entries = v
        /\ Pruned(x, p).dirs = Wrap(x.dirs - DirsIn(s, marked))
        /\ Pruned(x, p).bytes = Wrap(x.bytes - BytesIn(s, marked))
    BY <1>2 DEF Pruned
  <2> HIDE DEF marked, D
  <2>3. /\ v \in Seq(FileEntry) /\ DOMAIN v = 1..Cardinality(D)
        /\ \A j \in 1..Cardinality(D) : Nth(D, j) \in D /\ v[j] = s[Nth(D, j)]
    BY <2>1, KeptIsSeq
  <2>4. Cardinality(D) \in Nat /\ Len(v) = Cardinality(D)
    <3>1. Cardinality(D) \in Nat
      BY <2>1, RankBounds
    <3> HIDE DEF v
    <3> QED BY <2>3, <3>1
  <2> HIDE DEF s, n, v
  <2>5. DirCount(v) = DirCount(s) - DirsIn(s, marked)
    <3>1. DirsOf(s) \in [1..n -> Int] /\ DirsOf(v) \in [1..Cardinality(D) -> Int]
      BY <2>1, <2>3, <2>4, Counts DEF n, s
    <3>2. \A j \in 1..Cardinality(D) : DirsOf(v)[j] = DirsOf(s)[Nth(D, j)]
      BY <2>1, <2>3 DEF DirsOf
    <3>3. Total(DirsOf(v), 1..Cardinality(D)) = Total(DirsOf(s), D)
      <4>1. n \in Nat /\ D \in SUBSET (1..n)
        BY <2>1
      <4> QED BY <4>1, <3>1, <3>2, TotalKept
    <3>4. Total(DirsOf(s), 1..n) = Total(DirsOf(s), D) + Total(DirsOf(s), marked)
      BY <2>1, <3>1, TotalSplit
    <3>5. /\ DirCount(v) = Total(DirsOf(v), 1..Cardinality(D)) /\ DirCount(v) \in Int
          /\ DirCount(s) = Total(DirsOf(s), 1..n) /\ DirCount(s) \in Int
          /\ DirsIn(s, marked) = Total(DirsOf(s), marked) /\ DirsIn(s, marked) \in Int
      BY <2>1, <2>3, <2>4, Counts DEF n, s
    <3> QED BY <3>3, <3>4, <3>5
  <2>6. ByteCount(v) = ByteCount(s) - BytesIn(s, marked)
    <3>1. SizesOf(s) \in [1..n -> Int] /\ SizesOf(v) \in [1..Cardinality(D) -> Int]
      BY <2>1, <2>3, <2>4, Counts DEF n, s
    <3>2. \A j \in 1..Cardinality(D) : SizesOf(v)[j] = SizesOf(s)[Nth(D, j)]
      BY <2>1, <2>3 DEF SizesOf
    <3>3. Total(SizesOf(v), 1..Cardinality(D)) = Total(SizesOf(s), D)
      <4>1. n \in Nat /\ D \in SUBSET (1..n)
        BY <2>1
      <4> QED BY <4>1, <3>1, <3>2, TotalKept
    <3>4. Total(SizesOf(s), 1..n) = Total(SizesOf(s), D) + Total(SizesOf(s), marked)
      BY <2>1, <3>1, TotalSplit
    <3>5. /\ ByteCount(v) = Total(SizesOf(v), 1..Cardinality(D)) /\ ByteCount(v) \in Int
          /\ ByteCount(s) = Total(SizesOf(s), 1..n) /\ ByteCount(s) \in Int
          /\ BytesIn(s, marked) = Total(SizesOf(s), marked) /\ BytesIn(s, marked) \in Int
      BY <2>1, <2>3, <2>4, Counts DEF n, s
    <3> QED BY <3>3, <3>4, <3>5
  <2>7. /\ DirCount(s) \in Int /\ ByteCount(s) \in Int /\ x.dirs \in Int /\ x.bytes \in Int
        /\ DirsIn(s, marked) \in Int /\ BytesIn(s, marked) \in Int
    BY <2>1, Counts DEF Counted
  <2>8. Wrap(Pruned(x, p).dirs - DirCount(v)) = Wrap(x.dirs - DirCount(s))
    <3>1. PICK c \in Int : c = DirsIn(s, marked)
      BY <2>7
    <3>2. Wrap(Wrap(x.dirs - c) - (DirCount(s) - c)) = Wrap(x.dirs - DirCount(s))
      BY <2>7, Carried
    <3> QED BY <2>2, <2>5, <3>1, <3>2
  <2>9. Wrap(Pruned(x, p).bytes - ByteCount(v)) = Wrap(x.bytes - ByteCount(s))
    <3>1. PICK c \in Int : c = BytesIn(s, marked)
      BY <2>7
    <3>2. Wrap(Wrap(x.bytes - c) - (ByteCount(s) - c)) = Wrap(x.bytes - ByteCount(s))
      BY <2>7, Carried
    <3> QED BY <2>2, <2>6, <3>1, <3>2
  <2> QED BY <2>2, <2>8, <2>9 DEF Drift, s
<1> QED BY <1>1, <1>2

LEMMA CountedHolds == Spec => [](Sound(index) /\ Counted(index))
<1> DEFINE Good(x) == Sound(x) /\ Counted(x)
<1>1. Init => Good(index)
  BY SoundEmpty, DriftEmpty DEF Init
<1>2. Good(index) /\ [Next]_vars => Good(index)'
  <2> SUFFICES ASSUME Good(index), [Next]_vars
               PROVE  Good(index')
    OBVIOUS
  <2>1. CASE Clear
    BY <2>1, SoundEmpty, DriftEmpty DEF Clear
  <2>2. ASSUME NEW s \in Snapshots, Build(s)
        PROVE  Good(index')
    <3>1. s \in Seq(FileEntry)
      BY IndexAssumption
    <3>2. Sound(Built(s))
      BY <3>1, SoundLocated DEF Built
    <3> QED BY <2>2, <3>1, <3>2, DriftBuilt DEF Build
  <2>3. ASSUME NEW f \in FileEntry, Add(f)
        PROVE  Good(index')
    BY <2>3, SoundAdded, CountedAlways DEF Add
  <2>4. ASSUME NEW p \in Paths, Remove(p)
        PROVE  Good(index')
    BY <2>4, SoundRemoved, CountedAlways DEF Remove
  <2>5. ASSUME NEW p \in Paths, NEW f \in FileEntry, Replace(p, f)
        PROVE  Good(index')
    <3>1. Sound(Removed(index, p)) /\ Counted(Removed(index, p))
      BY SoundRemoved, CountedAlways
    <3>2. /\ Sound(Added(index, f)) /\ Counted(Added(index, f))
          /\ Sound(Added(Removed(index, p), f)) /\ Counted(Added(Removed(index, p), f))
      BY <3>1, SoundAdded, CountedAlways
    <3> QED BY <2>5, <3>2 DEF Replace, Replaced
  <2>6. ASSUME NEW p \in Paths, RemoveSubtree(p)
        PROVE  Good(index')
    BY <2>6, SoundPruned, CountedAlways DEF RemoveSubtree
  <2>7. CASE UNCHANGED vars
    BY <2>7 DEF vars
  <2> QED BY <2>1, <2>2, <2>3, <2>4, <2>5, <2>6, <2>7 DEF Next
<1> QED BY <1>1, <1>2, PTL DEF Spec

\* Whatever is asked of the index, the counters of directories and bytes stay
\* below 2^64, the vector holds entries and the map positions.
THEOREM IndexTypesAlways == Spec => []TypeOK
<1>1. Sound(index) /\ Counted(index) => TypeOK
  BY DEF Sound, Counted, TypeOK, ShapeOK
<1> QED BY <1>1, CountedHolds, PTL

\* A call other than an add() that overwrites leaves the drift as it is, or
\* takes it away.
LEMMA DriftStep ==
  ASSUME Inv, Counted(index), Next
  PROVE  \/ \E f \in FileEntry, p \in Paths :
              f.path \in DOMAIN index.at /\ index' = Replaced(index, p, f)
         \/ Drift(index') \in {Drift(index), <<0, 0>>}
<1> USE DEF Inv
<1>1. CASE Clear
  BY <1>1, DriftEmpty DEF Clear
<1>2. ASSUME NEW s \in Snapshots, Build(s)
      PROVE  Drift(index') = <<0, 0>>
  <2>1. s \in Seq(FileEntry)
    BY IndexAssumption
  <2> QED BY <1>2, <2>1, DriftBuilt DEF Build
<1>3. ASSUME NEW f \in FileEntry, Add(f)
      PROVE  \/ f.path \in Paths /\ f.path \in DOMAIN index.at /\ index' = Replaced(index, f.path, f)
             \/ Drift(index') = Drift(index)
  <2>1. CASE f.path \in DOMAIN index.at
    BY <1>3, <2>1 DEF Add, Replaced, Sound
  <2>2. CASE f.path \notin DOMAIN index.at
    BY <1>3, <2>2, DriftAppended DEF Add, Added
  <2> QED BY <2>1, <2>2
<1>4. ASSUME NEW p \in Paths, Remove(p)
      PROVE  Drift(index') = Drift(index)
  BY <1>4, DriftRemoved DEF Remove
<1>5. ASSUME NEW p \in Paths, NEW f \in FileEntry, Replace(p, f)
      PROVE  \/ f.path \in DOMAIN index.at /\ index' = Replaced(index, p, f)
             \/ Drift(index') = Drift(index)
  <2>1. CASE f.path \in DOMAIN index.at
    BY <1>5, <2>1 DEF Replace
  <2>2. CASE f.path \notin DOMAIN index.at /\ p = f.path
    BY <1>5, <2>2, DriftAppended DEF Replace, Replaced, Added
  <2>3. CASE f.path \notin DOMAIN index.at /\ p # f.path
    <3> DEFINE x == Removed(index, p)
    <3>1. Sound(x) /\ Counted(x) /\ Drift(x) = Drift(index)
      BY SoundRemoved, CountedAlways, DriftRemoved
    <3>2. f.path \notin DOMAIN x.at
      <4>1. CASE p \notin DOMAIN index.at
        BY <2>3, <4>1 DEF Removed
      <4>2. CASE p \in DOMAIN index.at
        <5> DEFINE n == Len(index.entries)
        <5>1. n \in Nat /\ DOMAIN index.entries = 1..n /\ index.at[p] \in 1..n
          BY <4>2 DEF Sound
        <5>2. n \in DOMAIN index.entries
          BY <5>1
        <5>3. index.entries[n].path \in DOMAIN index.at
          BY <5>2 DEF Unique
        <5>4. DOMAIN x.at = (DOMAIN index.at \cup {index.entries[n].path}) \ {p}
          BY <4>2 DEF Removed, Repointed
        <5> HIDE DEF x, n
        <5> QED BY <2>3, <5>3, <5>4
      <4> QED BY <4>1, <4>2
    <3>3. index' = Appended(x, f)
      <4>1. index' = Added(x, f)
        BY <1>5, <2>3 DEF Replace, Replaced
      <4> HIDE DEF x
      <4> QED BY <3>2, <4>1 DEF Added
    <3> HIDE DEF x
    <3> QED BY <3>1, <3>3, DriftAppended
  <2> QED BY <2>1, <2>2, <2>3
<1>6. ASSUME NEW p \in Paths, RemoveSubtree(p)
      PROVE  Drift(index') = Drift(index)
  BY <1>6, DriftPruned DEF RemoveSubtree
<1> QED BY <1>1, <1>2, <1>3, <1>4, <1>5, <1>6 DEF Next

\* Where the vectors given to build() have one entry per path, the counters
\* keep pace with the entries through every call, however the map and the
\* positions were renumbered before, except an add() that overwrites an entry.
THEOREM DriftByOverwriteOnly ==
  ASSUME \A s \in Snapshots : Distinct(s)
  PROVE  Spec => DriftOnlyByOverwrite
<1>1. Inv /\ Sound(index) /\ Counted(index) /\ [Next]_vars
        => [ \/ \E f \in FileEntry, p \in Paths :
                  f.path \in DOMAIN index.at /\ index' = Replaced(index, p, f)
             \/ Drift(index') \in {Drift(index), <<0, 0>>} ]_vars
  BY DriftStep
<1> QED BY <1>1, InvHolds, CountedHolds, PTL DEF Spec, DriftOnlyByOverwrite
=============================================================================
