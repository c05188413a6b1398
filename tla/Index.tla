------------------------------- MODULE Index -------------------------------
(***************************************************************************)
(* The in-memory hot index of lsearchd: class Index of core/search.{h,cpp}. *)
(*                                                                         *)
(* The index is a vector of entries, scanned by every search, and a hash   *)
(* map from a path to the position of its entry, used by the incremental   *)
(* updates.  Two counters, dirs_ and bytes_, are kept beside them for the  *)
(* "stats" request.  The daemon calls every operation with idxLock_ held,  *)
(* so each is one atomic action here.                                      *)
(*                                                                         *)
(* A file's name, mtime and inode follow its path and are left out; its    *)
(* size stands for all the metadata that an update can change.  TLA+       *)
(* positions start at 1, those of the code at 0.                           *)
(***************************************************************************)
EXTENDS Integers, Sequences, FiniteSets

CONSTANTS
  Paths,        \* the absolute path names
  Below,        \* Below[p]: the paths that start with p + "/"
  Sizes,        \* the values of st_size
  Modulus,      \* dirs_ and bytes_ are uint64_t: 2^64
  Snapshots     \* the vectors that build() may be handed

FileEntry == [path : Paths, size : Sizes, is_dir : BOOLEAN]

ASSUME IndexAssumption ==
  /\ Below \in [Paths -> SUBSET Paths]
  /\ Sizes \subseteq Nat
  /\ Modulus \in Nat \ {0}
  /\ Snapshots \subseteq Seq(FileEntry)

VARIABLE index

vars == <<index>>

-----------------------------------------------------------------------------
(* The operations, as functions of the index value.                        *)

Wrap(n) == n % Modulus

\* pathIndex_.emplace over a whole vector: the first entry of a path wins.
Locate(s) ==
  [p \in {s[i].path : i \in DOMAIN s} |->
     CHOOSE i \in DOMAIN s : s[i].path = p /\ \A j \in 1..(i - 1) : s[j].path # p]

\* The sum of the members of w at the positions D, and with it the directories
\* and the bytes at the positions D of a vector.
Total(w, D) ==
  LET upTo[n \in 0..Len(w)] ==
        IF n = 0 THEN 0 ELSE upTo[n - 1] + IF n \in D THEN w[n] ELSE 0
  IN  upTo[Len(w)]

DirsIn(s, D)  == Total([i \in DOMAIN s |-> IF s[i].is_dir THEN 1 ELSE 0], D)
BytesIn(s, D) == Total([i \in DOMAIN s |-> s[i].size], D)

DirCount(s)  == DirsIn(s, DOMAIN s)
ByteCount(s) == BytesIn(s, DOMAIN s)

\* What add() of a path already there does to the counters: the old entry is
\* subtracted, the new one is not added.
Overwritten(x, f) ==
  LET i == x.at[f.path]
  IN  [entries |-> [x.entries EXCEPT ![i] = f],
       at      |-> x.at,
       dirs    |-> Wrap(x.dirs - IF x.entries[i].is_dir THEN 1 ELSE 0),
       bytes   |-> Wrap(x.bytes - x.entries[i].size)]

\* Faulty: the size of a new entry is not counted.
AppendedUncounted(x, f) ==
  [entries |-> Append(x.entries, f),
   at      |-> [p \in DOMAIN x.at \cup {f.path} |->
                  IF p = f.path THEN Len(x.entries) + 1 ELSE x.at[p]],
   dirs    |-> Wrap(x.dirs + IF f.is_dir THEN 1 ELSE 0),
   bytes   |-> x.bytes]

Appended(x, f) ==
  [entries |-> Append(x.entries, f),
   at      |-> [p \in DOMAIN x.at \cup {f.path} |->
                  IF p = f.path THEN Len(x.entries) + 1 ELSE x.at[p]],
   dirs    |-> Wrap(x.dirs + IF f.is_dir THEN 1 ELSE 0),
   bytes   |-> Wrap(x.bytes + f.size)]

Empty == [entries |-> <<>>, at |-> [p \in {} |-> 0], dirs |-> 0, bytes |-> 0]

Built(s) ==
  [entries |-> s,
   at      |-> Locate(s),
   dirs    |-> Wrap(DirCount(s)),
   bytes   |-> Wrap(ByteCount(s))]

\* Faulty: add() does not look the path up.
AddedBlindly(x, f) == Appended(x, f)

Added(x, f) == IF f.path \in DOMAIN x.at THEN Overwritten(x, f) ELSE Appended(x, f)

\* Faulty: the position of the entry moved into the hole is not updated.
RepointedNot(x, p) == [q \in DOMAIN x.at \ {p} |-> x.at[q]]

\* The last entry is moved into the hole that p leaves; when the hole is the
\* last position, "moved" is p itself.
Repointed(x, p) ==
  LET moved == x.entries[Len(x.entries)].path
  IN  [q \in (DOMAIN x.at \cup {moved}) \ {p} |-> IF q = moved THEN x.at[p] ELSE x.at[q]]

Removed(x, p) ==
  IF p \notin DOMAIN x.at THEN x ELSE
  LET i == x.at[p]
      n == Len(x.entries)
  IN  [entries |-> [j \in 1..(n - 1) |-> x.entries[IF j = i THEN n ELSE j]],
       at      |-> Repointed(x, p),
       dirs    |-> Wrap(x.dirs - IF x.entries[i].is_dir THEN 1 ELSE 0),
       bytes   |-> Wrap(x.bytes - x.entries[i].size)]

Replaced(x, p, f) == IF p = f.path THEN Added(x, f) ELSE Added(Removed(x, p), f)

\* The j-th smallest member of D, and the entries of s at the positions D in
\* their order: the vector "keep" of removePathAndSubtree.
Nth(D, j)  == CHOOSE i \in D : Cardinality({k \in D : k <= i}) = j
Kept(s, D) == [j \in 1..Cardinality(D) |-> s[Nth(D, j)]]

Pruned(x, p) ==
  LET marked == {i \in DOMAIN x.entries : x.entries[i].path \in {p} \cup Below[p]}
      keep   == Kept(x.entries, DOMAIN x.entries \ marked)
  IN  IF marked = {} THEN x ELSE
      [entries |-> keep,
       at      |-> Locate(keep),
       dirs    |-> Wrap(x.dirs - DirsIn(x.entries, marked)),
       bytes   |-> Wrap(x.bytes - BytesIn(x.entries, marked))]

-----------------------------------------------------------------------------
(* The calls made by the daemon and by the tests.                          *)

Clear            == index' = Empty
Build(s)         == index' = Built(s)
Add(f)           == index' = Added(index, f)
Remove(p)        == index' = Removed(index, p)
Replace(p, f)    == index' = Replaced(index, p, f)
RemoveSubtree(p) == index' = Pruned(index, p)

Init == index = Empty

Next ==
  \/ Clear
  \/ \E s \in Snapshots : Build(s)
  \/ \E f \in FileEntry : Add(f)
  \/ \E p \in Paths : Remove(p)
  \/ \E p \in Paths, f \in FileEntry : Replace(p, f)
  \/ \E p \in Paths : RemoveSubtree(p)

Spec == Init /\ [][Next]_vars

-----------------------------------------------------------------------------
(* Properties.                                                             *)

\* The vector holds entries, the map leads from paths to positions.
ShapeOK ==
  /\ index.entries \in Seq(FileEntry)
  /\ DOMAIN index.at \subseteq Paths
  /\ index.at \in [DOMAIN index.at -> Nat]

TypeOK ==
  /\ ShapeOK
  /\ index.dirs \in 0..(Modulus - 1)
  /\ index.bytes \in 0..(Modulus - 1)

\* Every position kept in pathIndex_ is inside entries_ and is that of an entry
\* of its path, for any sequence of calls and whatever vector build() was
\* given: add() and remove() index entries_ with it without a check, and
\* remove() moves the last entry to it.
PointersValid ==
  \A p \in DOMAIN index.at :
    /\ index.at[p] \in DOMAIN index.entries
    /\ index.entries[index.at[p]].path = p

\* "One entry per path" (search.h:37): every entry is the one its path leads
\* to, so an update or a removal by path reaches all the index knows of it.
\* It is what a search relies on, as it scans entries_ and not the map.
PathsUnique ==
  \A i \in DOMAIN index.entries :
    /\ index.entries[i].path \in DOMAIN index.at
    /\ index.at[index.entries[i].path] = i

\* countDirs() and totalBytes(), as the "stats" request reports them, are
\* those of the entries in the index.
CountersExact ==
  /\ index.dirs = Wrap(DirCount(index.entries))
  /\ index.bytes = Wrap(ByteCount(index.entries))

\* How far the counters are from the truth.
Drift(x) == <<Wrap(x.dirs - DirCount(x.entries)), Wrap(x.bytes - ByteCount(x.entries))>>

\* The counters keep pace with the entries through every call except an
\* add() that overwrites an entry in place: a new entry, a removal, a subtree
\* removal and the renumbering they do never change how far they are off.
\* A rebuild brings them back to the truth.
DriftOnlyByOverwrite ==
  [][ \/ \E f \in FileEntry, p \in Paths :
           f.path \in DOMAIN index.at /\ index' = Replaced(index, p, f)
      \/ Drift(index') \in {Drift(index), <<0, 0>>} ]_vars

\* The index is a catalogue of files: what is in entries_ is what was loaded,
\* put and not dropped since.
Catalog == INSTANCE FileCatalog WITH
  files    <- {index.entries[i] : i \in DOMAIN index.entries},
  Contents <- {{s[i] : i \in DOMAIN s} : s \in Snapshots}

ImplementsCatalog == Catalog!Spec
=============================================================================
