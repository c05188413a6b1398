---------------------------- MODULE WatcherProofs ----------------------------
(* The two maps of module Watcher stay each other's inverse, for any paths,   *)
(* filters, changes of files and limits, as long as no directory is moved.    *)
(* While none is deleted either, and the limits of inotify are not met, the   *)
(* watches and the index follow the disk.                                    *)
EXTENDS Watcher, FiniteSetTheorems, FunctionTheorems, SequenceTheorems, WellFoundedInduction, TLAPS

-----------------------------------------------------------------------------
(* Functions that are changed in a place, and sets as sequences.            *)

LEMMA WithOf ==
  ASSUME NEW f, NEW x, NEW v
  PROVE  /\ DOMAIN With(f, x, v) = DOMAIN f \cup {x}
         /\ With(f, x, v)[x] = v
         /\ \A y \in DOMAIN f \ {x} : With(f, x, v)[y] = f[y]
  BY DEF With, Over

LEMMA WithoutOf ==
  ASSUME NEW f, NEW x
  PROVE  /\ DOMAIN Without(f, x) = DOMAIN f \ {x}
         /\ \A y \in DOMAIN f \ {x} : Without(f, x)[y] = f[y]
  BY DEF Without

\* SetToSeq lists each member once.
LEMMA SetToSeqLists ==
  ASSUME NEW S, IsFiniteSet(S)
  PROVE  /\ Cardinality(S) \in Nat
         /\ SetToSeq(S) \in [1..Cardinality(S) -> S]
         /\ IsInjective(SetToSeq(S))
         /\ \A x \in S : \E i \in 1..Cardinality(S) : SetToSeq(S)[i] = x
<1>1. Cardinality(S) \in Nat
  BY FS_CardinalityType
<1>2. IsFiniteSet(1..Cardinality(S)) /\ Cardinality(1..Cardinality(S)) = Cardinality(S)
  BY <1>1, FS_Interval
<1>3. ExistsBijection(1..Cardinality(S), S)
  BY <1>2, FS_SameCardinalityBij
<1>4. \E f \in [1..Cardinality(S) -> S] : IsInjective(f)
  BY <1>3 DEF ExistsBijection, Bijection, Injection
<1>5. SetToSeq(S) \in [1..Cardinality(S) -> S] /\ IsInjective(SetToSeq(S))
  BY <1>4 DEF SetToSeq
<1>6. SetToSeq(S) \in Surjection(1..Cardinality(S), S)
  <2>1. SetToSeq(S) \in Injection(1..Cardinality(S), S)
    BY <1>5 DEF Injection
  <2> QED BY <1>2, <2>1, FS_Injection
<1> QED BY <1>1, <1>5, <1>6 DEF Surjection

\* The path below p of p itself.
LEMMA NothingBelow ==
  ASSUME NEW p \in Seq(STRING), NEW q \in Seq(STRING)
  PROVE  q \o SubSeq(p, Len(p) + 1, Len(p)) = q
  OBVIOUS

-----------------------------------------------------------------------------
(* The invariant.                                                          *)

\* A descriptor that is given out is below the next one.
Numbered ==
  /\ fd = [watches |-> fd.watches, next |-> fd.next, queue |-> fd.queue]
  /\ fd.next \in Nat
  /\ \A w \in DOMAIN fd.watches : w \in Nat /\ w < fd.next
  /\ \A w \in DOMAIN wdToPath : w \in Nat /\ w < fd.next

\* A directory is where it was made.
Unmoved ==
  /\ DOMAIN disk \subseteq Paths
  /\ \A p \in DOMAIN disk : IsDir(p) => disk[p][1] = p

\* A descriptor that has a path is that of the inode made there.
Placed == \A w \in DOMAIN fd.watches \cap DOMAIN wdToPath : fd.watches[w][1] = wdToPath[w]

\* Only directories are given a watch.
WatchesDirs == \E S : work \in Seq(S) /\ \A s \in S : s.do = "watch" => IsDir(s.path)

WatchInv == Numbered /\ Unmoved /\ Placed /\ WatchesDirs /\ MapsAgree

\* Watcher::start gives the directories of the index the numbers from 1.
LEMMA InitWatches ==
  ASSUME Init
  PROVE  /\ DOMAIN disk \in Trees /\ \A p \in DOMAIN disk : disk[p] = <<p, 0>>
         /\ \E n \in Nat :
              /\ fd = [watches |-> fd.watches, next |-> n + 1, queue |-> <<>>]
              /\ DOMAIN fd.watches = 1..n /\ DOMAIN wdToPath = 1..n
         /\ \A w \in DOMAIN wdToPath :
              /\ wdToPath[w] \in Scanned /\ IsDir(wdToPath[w])
              /\ fd.watches[w] = disk[wdToPath[w]]
         /\ DOMAIN pathToWd = {p \in Scanned : IsDir(p)}
         /\ MapsAgree
<1> DEFINE dirs == {p \in index : IsDir(p)}
           new  == SetToSeq(dirs)
           N    == Cardinality(dirs)
<1>1. PICK S \in Trees : disk = [p \in S |-> <<p, 0>>]
  BY DEF Init
<1>2. DOMAIN disk = S /\ S \subseteq Paths /\ \A p \in S : disk[p] = <<p, 0>>
  BY <1>1, WatcherAssumption
<1>3. /\ dirs = {p \in Scanned : IsDir(p)} /\ dirs \subseteq S /\ IsFiniteSet(dirs)
      /\ dirs \ DOMAIN <<>> = dirs
  <2>1. dirs = {p \in Scanned : IsDir(p)} /\ dirs \subseteq S BY <1>2 DEF Init, Scanned
  <2> QED BY <1>2, <2>1, PathsAssumption, FS_Subset
<1> HIDE DEF dirs
<1>4. /\ N \in Nat /\ new \in [1..N -> dirs]
      /\ \A v, w \in 1..N : new[v] = new[w] => v = w
      /\ \A p \in dirs : \E w \in 1..N : new[w] = p
      /\ Len(new) = N /\ ToSet(new) = {new[i] : i \in 1..N}
  <2>1. /\ N \in Nat /\ new \in [1..N -> dirs] /\ IsInjective(new)
        /\ \A p \in dirs : \E w \in 1..N : new[w] = p
    BY <1>3, SetToSeqLists
  <2> HIDE DEF new, N
  <2> QED BY <2>1 DEF IsInjective, ToSet
<1> HIDE DEF new, N
<1>5. /\ fd = [watches |-> [w \in DOMAIN new |-> disk[new[w]]], next |-> Len(new) + 1, queue |-> <<>>]
      /\ wdToPath = Over(new, <<>>)
      /\ pathToWd = Over([p \in ToSet(new) |-> CHOOSE w \in DOMAIN new : new[w] = p], <<>>)
  BY <1>3 DEF Init, Started, new, dirs
<1>6. DOMAIN wdToPath = 1..N /\ \A w \in DOMAIN wdToPath : wdToPath[w] = new[w]
  BY <1>4, <1>5 DEF Over
<1>7. /\ DOMAIN pathToWd = ToSet(new)
      /\ \A p \in ToSet(new) : pathToWd[p] \in 1..N /\ new[pathToWd[p]] = p
  BY <1>4, <1>5 DEF Over
<1>8. ToSet(new) = dirs
  BY <1>4
<1>9. /\ fd = [watches |-> fd.watches, next |-> N + 1, queue |-> <<>>]
      /\ DOMAIN fd.watches = 1..N /\ \A w \in 1..N : fd.watches[w] = disk[new[w]]
  BY <1>4, <1>5
<1>10. MapsAgree
  BY <1>4, <1>6, <1>7 DEF MapsAgree
<1>11. \A w \in DOMAIN wdToPath :
         /\ wdToPath[w] \in Scanned /\ IsDir(wdToPath[w])
         /\ fd.watches[w] = disk[wdToPath[w]]
  BY <1>3, <1>4, <1>6, <1>9
<1> QED BY <1>1, <1>2, <1>3, <1>4, <1>6, <1>7, <1>8, <1>9, <1>10, <1>11

LEMMA InitInv == Init => WatchInv
<1> SUFFICES ASSUME Init PROVE WatchInv
  OBVIOUS
<1>1. DOMAIN disk \subseteq Paths /\ \A p \in DOMAIN disk : disk[p] = <<p, 0>>
  BY InitWatches, WatcherAssumption
<1>2. PICK n \in Nat :
        /\ fd = [watches |-> fd.watches, next |-> n + 1, queue |-> <<>>]
        /\ DOMAIN fd.watches = 1..n /\ DOMAIN wdToPath = 1..n
  BY InitWatches
<1>3. fd.next = n + 1
  BY <1>2
<1>4. Numbered
  BY <1>2, <1>3 DEF Numbered
<1>5. Unmoved
  BY <1>1 DEF Unmoved
<1>6. Placed
  BY <1>1, InitWatches DEF Placed, Scanned
<1>7. WatchesDirs
  <2>1. work \in Seq({}) BY DEF Init
  <2> QED BY <2>1 DEF WatchesDirs
<1> QED BY <1>4, <1>5, <1>6, <1>7, InitWatches DEF WatchInv

-----------------------------------------------------------------------------
(* The file system: the watcher's maps stay, watches only end.             *)

LEMMA NotifyKeeps ==
  ASSUME Numbered, Placed, NEW events, NEW gone, Notify(events, gone), wdToPath' = wdToPath
  PROVE  Numbered' /\ Placed'
<1>1. PICK queue :
        fd' = [fd EXCEPT !.queue   = queue,
                         !.watches = [w \in {v \in DOMAIN @ : @[v] \notin gone} |-> @[w]]]
  BY DEF Notify
<1>2. fd' = [watches |-> [w \in {v \in DOMAIN fd.watches : fd.watches[v] \notin gone} |-> fd.watches[w]],
             next |-> fd.next, queue |-> queue]
  BY <1>1 DEF Numbered
<1> QED BY <1>2 DEF Numbered, Placed

LEMMA DiskInv ==
  ASSUME "move dir" \notin Happenings, WatchInv, Disk
  PROVE  WatchInv'
<1> USE DEF WatchInv
<1>1. ASSUME NEW what, Changes(what)
      PROVE  wdToPath' = wdToPath /\ MapsAgree' /\ WatchesDirs' /\ what \in Happenings
  <2>1. wdToPath' = wdToPath /\ pathToWd' = pathToWd /\ work' = work /\ what \in Happenings
    BY <1>1 DEF Changes, maps
  <2> QED BY <2>1 DEF MapsAgree, WatchesDirs, IsDir
<1>2. ASSUME NEW p \in Paths \ {top}, Create(p)
      PROVE  WatchInv'
  <2>1. Changes("create") /\ disk' = With(disk, p, <<p, ops + 1>>) /\ p \notin DOMAIN disk
        /\ Notify(Named(p, "created"), {})
    BY <1>2 DEF Create
  <2> DEFINE inode == <<p, ops + 1>>
  <2>0. inode[1] = p OBVIOUS
  <2>2. /\ DOMAIN disk' = DOMAIN disk \cup {p} /\ disk'[p] = inode
        /\ \A r \in DOMAIN disk \ {p} : disk'[r] = disk[r]
    <3>1. disk' = With(disk, p, inode) BY <2>1
    <3> HIDE DEF inode
    <3> QED BY <3>1 DEF With, Over
  <2> HIDE DEF inode
  <2>3. disk'[p][1] = p BY <2>0, <2>2
  <2>4. Unmoved' BY <2>2, <2>3 DEF Unmoved, IsDir
  <2> QED BY <1>1, <2>1, <2>4, NotifyKeeps
<1>3. ASSUME NEW p \in Paths \ {top}, Delete(p)
      PROVE  WatchInv'
  <2>1. Changes("delete") /\ disk' = Without(disk, p) /\ \E e, g : Notify(e, g)
    BY <1>3 DEF Delete
  <2>2. DOMAIN disk' \subseteq DOMAIN disk /\ \A r \in DOMAIN disk' : disk'[r] = disk[r]
    BY <2>1, WithoutOf
  <2>3. Unmoved' BY <2>2 DEF Unmoved, IsDir
  <2> QED BY <1>1, <2>1, <2>3, NotifyKeeps
<1>4. ASSUME NEW p \in Paths \ {top}, Modify(p)
      PROVE  WatchInv'
  <2>1. Changes("modify") /\ disk' = disk /\ Notify(Named(p, "modified"), {})
    BY <1>4 DEF Modify
  <2>2. Unmoved' BY <2>1 DEF Unmoved, IsDir
  <2> QED BY <1>1, <2>1, <2>2, NotifyKeeps
<1>5. ASSUME NEW p \in Paths \ {top}, NEW q \in Paths \ {top}, Move(p, q)
      PROVE  WatchInv'
  <2> DEFINE To(r) == q \o SubSeq(r, Len(p) + 1, Len(r))
             moved == Below(p) \cap DOMAIN disk
  <2>1. /\ Changes(IF IsDir(p) THEN "move dir" ELSE "move")
        /\ p \in DOMAIN disk /\ IsDir(p) = IsDir(q)
        /\ disk' = Over([r \in {To(s) : s \in moved} |-> disk[CHOOSE s \in moved : To(s) = r]],
                        [r \in DOMAIN disk \ moved |-> disk[r]])
        /\ \E e, g : Notify(e, g)
    BY <1>5 DEF Move
  <2>2. ~ IsDir(p) /\ ~ IsDir(q)
    <3>1. IsDir(p) => "move dir" \in Happenings BY <1>1, <2>1
    <3>2. ~ IsDir(p) BY <3>1
    <3> QED BY <2>1, <3>2
  <2>3. \A r \in moved : r = p
    <3>1. \A r \in moved : r \in Paths /\ IsPrefix(p, r) BY DEF Below, Unmoved
    <3> QED BY <2>2, <3>1, PathsAssumption
  <2>4. To(p) = q
    <3>1. p \in Seq(STRING) /\ q \in Seq(STRING) BY PathsAssumption
    <3> QED BY <3>1, NothingBelow
  <2>5. {To(s) : s \in moved} \subseteq {q}
    BY <2>3, <2>4
  <2> HIDE DEF moved, To
  <2>6. /\ DOMAIN disk' \subseteq DOMAIN disk \cup {q}
        /\ \A r \in DOMAIN disk' \ {q} : disk'[r] = disk[r]
    BY <2>1, <2>5 DEF Over
  <2>7. Unmoved'
    BY <2>2, <2>6 DEF Unmoved, IsDir
  <2> QED BY <1>1, <2>1, <2>7, NotifyKeeps
<1> QED BY <1>2, <1>3, <1>4, <1>5 DEF Disk

-----------------------------------------------------------------------------
(* The watcher.                                                            *)

\* A queue that goes on to its next event.
LEMMA TakesKeeps ==
  ASSUME NEW kind, Takes(kind), WatchInv
  PROVE  /\ fd' = [watches |-> fd.watches, next |-> fd.next, queue |-> fd'.queue]
         /\ disk' = disk /\ work = <<>>
         /\ Head(fd.queue).wd \in DOMAIN wdToPath
  BY DEF Takes, WatchInv, Numbered

\* What is left to do after a step that makes none of its own, or some of it.
LEMMA ThenKeeps ==
  ASSUME WatchesDirs, NEW D, NEW steps \in Seq(D), \A s \in D : s.do = "watch" => IsDir(s.path),
         work # <<>>, Then(steps)
  PROVE  WatchesDirs'
<1>1. PICK S : work \in Seq(S) /\ \A s \in S : s.do = "watch" => IsDir(s.path)
  BY DEF WatchesDirs
<1>2. work' \in Seq(S \cup D)
  <2>1. Tail(work) \in Seq(S \cup D) BY <1>1
  <2>2. steps \in Seq(S \cup D) OBVIOUS
  <2> QED BY <2>1, <2>2 DEF Then
<1>3. \A s \in S \cup D : s.do = "watch" => IsDir(s.path)
  BY <1>1
<1> QED BY <1>2, <1>3 DEF WatchesDirs, IsDir

LEMMA SameMaps ==
  ASSUME WatchInv, wdToPath' = wdToPath, pathToWd' = pathToWd, disk' = disk, WatchesDirs',
         \E q : fd' = [watches |-> fd.watches, next |-> fd.next, queue |-> q]
  PROVE  WatchInv'
  BY DEF WatchInv, Numbered, Unmoved, Placed, MapsAgree, IsDir

LEMMA SameAll ==
  ASSUME WatchInv, UNCHANGED <<disk, fd, maps, work, index>>
  PROVE  WatchInv'
<1>1. /\ disk' = disk /\ fd' = fd /\ work' = work
      /\ wdToPath' = wdToPath /\ pathToWd' = pathToWd
  BY DEF maps
<1>2. WatchesDirs' BY <1>1 DEF WatchInv, WatchesDirs, IsDir
<1> QED BY <1>1, <1>2, SameMaps DEF WatchInv, Numbered

\* The path of a descriptor goes from both maps.
LEMMA SelfInv ==
  ASSUME WatchInv, Self
  PROVE  WatchInv'
<1> DEFINE wd == Head(fd.queue).wd
<1> USE DEF WatchInv
<1>1. /\ Takes("self") /\ work' = work
      /\ wdToPath' = Without(wdToPath, wd) /\ pathToWd' = Without(pathToWd, wdToPath[wd])
  BY DEF Self, Dir
<1>2. /\ fd' = [watches |-> fd.watches, next |-> fd.next, queue |-> fd'.queue]
      /\ disk' = disk /\ wd \in DOMAIN wdToPath
  BY <1>1, TakesKeeps
<1> HIDE DEF wd
<1>3. /\ DOMAIN wdToPath' = DOMAIN wdToPath \ {wd}
      /\ \A w \in DOMAIN wdToPath' : wdToPath'[w] = wdToPath[w]
      /\ DOMAIN pathToWd' = DOMAIN pathToWd \ {wdToPath[wd]}
      /\ \A p \in DOMAIN pathToWd' : pathToWd'[p] = pathToWd[p]
  BY <1>1, WithoutOf
<1>4. Numbered' BY <1>2, <1>3 DEF Numbered
<1>5. Unmoved' BY <1>2 DEF Unmoved, IsDir
<1>6. Placed' BY <1>2, <1>3 DEF Placed
<1>7. WatchesDirs' BY <1>1 DEF WatchesDirs, IsDir
<1>8. MapsAgree' BY <1>2, <1>3 DEF MapsAgree
<1> QED BY <1>4, <1>5, <1>6, <1>7, <1>8

\* A pair of a path and a descriptor, each without the other in the maps.
LEMMA PairUp ==
  ASSUME MapsAgree, NEW p, NEW wd, p \notin DOMAIN pathToWd, wd \notin DOMAIN wdToPath,
         wdToPath' = With(wdToPath, wd, p), pathToWd' = With(pathToWd, p, wd)
  PROVE  /\ MapsAgree'
         /\ DOMAIN wdToPath' = DOMAIN wdToPath \cup {wd} /\ wdToPath'[wd] = p
         /\ \A w \in DOMAIN wdToPath : wdToPath'[w] = wdToPath[w]
<1>1. /\ DOMAIN wdToPath' = DOMAIN wdToPath \cup {wd} /\ wdToPath'[wd] = p
      /\ \A w \in DOMAIN wdToPath : wdToPath'[w] = wdToPath[w]
  BY DEF With, Over
<1>2. /\ DOMAIN pathToWd' = DOMAIN pathToWd \cup {p} /\ pathToWd'[p] = wd
      /\ \A q \in DOMAIN pathToWd : pathToWd'[q] = pathToWd[q]
  BY DEF With, Over
<1>3. MapsAgree'
  BY <1>1, <1>2 DEF MapsAgree
<1> QED BY <1>1, <1>3

LEMMA GivenOld ==
  ASSUME WatchInv, NEW p, NEW wd \in DOMAIN fd.watches,
         fd.watches[wd][1] = p, p \notin DOMAIN pathToWd, wd \notin DOMAIN wdToPath,
         wdToPath' = With(wdToPath, wd, p), pathToWd' = With(pathToWd, p, wd),
         fd' = fd, disk' = disk, WatchesDirs'
  PROVE  WatchInv'
<1> USE DEF WatchInv
<1>0. /\ MapsAgree'
      /\ DOMAIN wdToPath' = DOMAIN wdToPath \cup {wd} /\ wdToPath'[wd] = p
      /\ \A w \in DOMAIN wdToPath : wdToPath'[w] = wdToPath[w]
  BY PairUp
<1>1. Numbered' BY <1>0 DEF Numbered
<1>2. Unmoved' BY DEF Unmoved, IsDir
<1>3. Placed' BY <1>0 DEF Placed
<1> QED BY <1>0, <1>1, <1>2, <1>3

LEMMA GivenNew ==
  ASSUME WatchInv, NEW p, NEW wd, NEW inode, wd = fd.next,
         inode[1] = p, p \notin DOMAIN pathToWd, wd \notin DOMAIN wdToPath,
         wdToPath' = With(wdToPath, wd, p), pathToWd' = With(pathToWd, p, wd),
         fd' = [watches |-> With(fd.watches, wd, inode), next |-> wd + 1, queue |-> fd.queue],
         disk' = disk, WatchesDirs'
  PROVE  WatchInv'
<1> USE DEF WatchInv
<1>0. /\ MapsAgree'
      /\ DOMAIN wdToPath' = DOMAIN wdToPath \cup {wd} /\ wdToPath'[wd] = p
      /\ \A w \in DOMAIN wdToPath : wdToPath'[w] = wdToPath[w]
  BY PairUp
<1>1. /\ DOMAIN fd'.watches = DOMAIN fd.watches \cup {wd} /\ fd'.watches[wd] = inode
      /\ \A w \in DOMAIN fd.watches \ {wd} : fd'.watches[w] = fd.watches[w]
      /\ fd'.next = wd + 1 /\ fd'.queue = fd.queue
      /\ fd' = [watches |-> fd'.watches, next |-> fd'.next, queue |-> fd'.queue]
  BY DEF With, Over
<1>2. Numbered' BY <1>0, <1>1 DEF Numbered
<1>3. Unmoved' BY DEF Unmoved, IsDir
<1>4. Placed' BY <1>0, <1>1 DEF Placed
<1> QED BY <1>0, <1>2, <1>3, <1>4

\* A path that has no descriptor gets one that has no path: a new one, or that of
\* its inode, which is a directory that was made there.
LEMMA AddWatchInv ==
  ASSUME WatchInv, AddWatch
  PROVE  WatchInv'
<1> DEFINE p   == Head(work).path
           old == {w \in DOMAIN fd.watches : p \in DOMAIN disk /\ fd.watches[w] = disk[p]}
           wd  == IF old = {} THEN fd.next ELSE CHOOSE w \in old : TRUE
<1> USE DEF WatchInv
<1>1. work # <<>> /\ Head(work).do = "watch" /\ disk' = disk
  BY DEF AddWatch, Doing
<1>2. IsDir(p)
  <2>1. PICK S : work \in Seq(S) /\ \A s \in S : s.do = "watch" => IsDir(s.path)
    BY DEF WatchesDirs
  <2>2. Head(work) \in S BY <1>1, <2>1
  <2> QED BY <1>1, <2>1, <2>2
<1>3. WatchesDirs'
  <2> DEFINE lists == {[do |-> "list", path |-> p]}
  <2>1. <<>> \in Seq(lists) /\ <<[do |-> "list", path |-> p]>> \in Seq(lists)
    OBVIOUS
  <2>2. \A s \in lists : s.do = "watch" => IsDir(s.path)
    OBVIOUS
  <2>3. Then(<<>>) \/ Then(<<[do |-> "list", path |-> p]>>)
    BY DEF AddWatch
  <2> HIDE DEF lists
  <2> QED BY <1>1, <2>1, <2>2, <2>3, ThenKeeps
<1>4. CASE UNCHANGED <<fd, maps>>
  BY <1>1, <1>3, <1>4, SameMaps DEF maps, Numbered
<1>5. CASE ~ UNCHANGED <<fd, maps>>
  <2>1. /\ p \notin DOMAIN pathToWd /\ p \in DOMAIN disk
        /\ fd' = IF old # {} THEN fd ELSE [fd EXCEPT !.watches = With(@, wd, disk[p]), !.next = wd + 1]
        /\ wdToPath' = With(wdToPath, wd, p)
        /\ pathToWd' = With(pathToWd, p, wd)
    BY <1>5 DEF AddWatch
  <2>2. disk[p][1] = p
    BY <1>2, <2>1 DEF Unmoved
  <2>3. CASE old # {}
    <3>1. wd \in DOMAIN fd.watches /\ fd.watches[wd] = disk[p]
      BY <2>3
    <3> HIDE DEF wd
    <3>2. wd \notin DOMAIN wdToPath
      BY <2>1, <2>2, <3>1 DEF Placed, MapsAgree
    <3>3. fd' = fd BY <2>1, <2>3
    <3> QED BY <1>1, <1>3, <2>1, <2>2, <3>1, <3>2, <3>3, GivenOld
  <2>4. CASE old = {}
    <3>1. wd = fd.next /\ wd \in Nat /\ wd \notin DOMAIN wdToPath
      BY <2>4 DEF Numbered
    <3>2. fd' = [watches |-> With(fd.watches, wd, disk[p]), next |-> wd + 1, queue |-> fd.queue]
      BY <2>1, <2>4 DEF Numbered
    <3> QED BY <1>1, <1>3, <2>1, <2>2, <3>1, <3>2, GivenNew
  <2> QED BY <2>3, <2>4
<1> QED BY <1>4, <1>5

LEMMA LoopInv ==
  ASSUME WatchInv, Loop
  PROVE  WatchInv'
<1> USE DEF WatchInv
<1>1. ASSUME work' = work PROVE WatchesDirs'
  BY <1>1 DEF WatchesDirs, IsDir
<1>2. CASE Unknown
  <2>1. /\ fd' = [watches |-> fd.watches, next |-> fd.next, queue |-> Tail(fd.queue)]
        /\ wdToPath' = wdToPath /\ pathToWd' = pathToWd /\ disk' = disk /\ work' = work
    BY <1>2 DEF Unknown, Numbered, maps
  <2> QED BY <1>1, <2>1, SameMaps
<1>3. CASE Self
  BY <1>3, SelfInv
<1>4. CASE Created
  <2>1. Takes("created") /\ wdToPath' = wdToPath /\ pathToWd' = pathToWd
        /\ (work' = <<>> \/ work' = <<[do |-> "emit", path |-> Full]>>)
    BY <1>4 DEF Created, maps
  <2> DEFINE step == [do |-> "emit", path |-> Full]
  <2>2. step.do = "emit" OBVIOUS
  <2>3. work' \in Seq({step})
    <3>1. work' = <<>> \/ work' = <<step>> BY <2>1
    <3> HIDE DEF step
    <3>2. <<>> \in Seq({step}) /\ <<step>> \in Seq({step}) OBVIOUS
    <3> QED BY <3>1, <3>2
  <2> HIDE DEF step
  <2>4. WatchesDirs' BY <2>2, <2>3 DEF WatchesDirs, IsDir
  <2> QED BY <2>1, <2>4, TakesKeeps, SameMaps
<1>5. CASE Deleted \/ Modified
  <2>1. /\ \E kind : Takes(kind)
        /\ wdToPath' = wdToPath /\ pathToWd' = pathToWd /\ work' = work
    BY <1>5 DEF Deleted, Modified, maps
  <2> QED BY <1>1, <2>1, TakesKeeps, SameMaps
<1>6. CASE EmitAdded
  <2> DEFINE p == Head(work).path
             step == [do |-> "watch", path |-> p]
             D == {s \in {step} : IsDir(p)}
  <2>1. /\ work # <<>> /\ disk' = disk /\ fd' = fd /\ wdToPath' = wdToPath /\ pathToWd' = pathToWd
        /\ \/ Then(<<>>)
           \/ IsDir(p) /\ Then(<<step>>)
    BY <1>6 DEF EmitAdded, Doing, maps
  <2>2. <<>> \in Seq(D) /\ (IsDir(p) => <<step>> \in Seq(D))
    <3> HIDE DEF step, p
    <3> QED OBVIOUS
  <2>3. \A s \in D : s.do = "watch" => IsDir(s.path)
    OBVIOUS
  <2> HIDE DEF D, p, step
  <2>4. WatchesDirs' BY <2>1, <2>2, <2>3, ThenKeeps
  <2> QED BY <2>1, <2>4, SameMaps DEF Numbered
<1>7. CASE AddWatch
  BY <1>7, AddWatchInv
<1>8. CASE List
  <2> DEFINE names == {q \in Children(Head(work).path) : Last(q) \notin Hidden}
             steps == [i \in 1..Cardinality(names) |-> [do |-> "emit", path |-> SetToSeq(names)[i]]]
             D     == {[do |-> "emit", path |-> q] : q \in names}
  <2>1. /\ work # <<>> /\ disk' = disk /\ fd' = fd /\ wdToPath' = wdToPath /\ pathToWd' = pathToWd
        /\ Then(steps)
    BY <1>8 DEF List, Doing, maps
  <2>2. steps \in Seq(D)
    <3>1. names \subseteq Paths BY DEF Children, Unmoved
    <3>2. IsFiniteSet(names) BY <3>1, PathsAssumption, FS_Subset
    <3> HIDE DEF names
    <3>3. Cardinality(names) \in Nat /\ SetToSeq(names) \in [1..Cardinality(names) -> names]
      BY <3>2, SetToSeqLists
    <3> QED BY <3>3
  <2>3. \A s \in D : s.do = "watch" => IsDir(s.path)
    OBVIOUS
  <2> HIDE DEF steps, D
  <2>4. WatchesDirs' BY <2>1, <2>2, <2>3, ThenKeeps
  <2> QED BY <2>1, <2>4, SameMaps DEF Numbered
<1> QED BY <1>2, <1>3, <1>4, <1>5, <1>6, <1>7, <1>8 DEF Loop

\* While no directory is moved and the watcher is not restarted its two maps are
\* each other's inverse, in whatever order directories come, go and come back,
\* and whatever events still wait.
THEOREM MapsAlwaysAgree == "move dir" \notin Happenings => (Spec => []MapsAgree)
<1> SUFFICES ASSUME "move dir" \notin Happenings PROVE Spec => []MapsAgree
  OBVIOUS
<1>1. WatchInv /\ [Next]_vars => WatchInv'
  <2> SUFFICES ASSUME WatchInv, [Next]_vars PROVE WatchInv'
    OBVIOUS
  <2>1. CASE UNCHANGED vars
    <3>1. UNCHANGED <<disk, fd, maps, work, index>> BY <2>1 DEF vars
    <3> QED BY <3>1, SameAll
  <2>2. Idle => UNCHANGED vars BY DEF Idle
  <2> QED BY <2>1, <2>2, DiskInv, LoopInv DEF Next
<1>2. WatchInv => MapsAgree
  BY DEF WatchInv
<1> QED BY InitInv, <1>1, <1>2, PTL DEF Spec

-----------------------------------------------------------------------------
(* The watcher follows the disk, if no directory is deleted or renamed and    *)
(* neither of the limits of inotify is met.                                  *)

DirsStay == \A p \in DOMAIN disk : IsDir(p) => p \in DOMAIN disk' /\ disk'[p] = disk[p]

Roomy == Len(fd.queue) < QueueLimit /\ Cardinality(DOMAIN fd.watches) < WatchLimit

Task   == [do : {"emit", "watch", "list"}, path : Paths]
QEvent == [wd : Nat, kind : {"created", "deleted", "modified"}, name : STRING]

Watched(p) == p \in DOMAIN pathToWd

\* The path that an event is about; whether one of some events, one in the queue, or
\* something still to do is about a path.
About(e)        == Append(wdToPath[e.wd], e.name)
In(es, kind, p) == \E i \in DOMAIN es : es[i].kind = kind /\ About(es[i]) = p
Told(kind, p)   == In(fd.queue, kind, p)
ToDo(what, p)   == \E i \in DOMAIN work : work[i].do = what /\ work[i].path = p
Awaited(p)      == Told("created", p) \/ ToDo("emit", p) \/ ToDo("list", Front(p))

Tree ==
  /\ top \in DOMAIN disk /\ \A p \in DOMAIN disk \ {top} : Front(p) \in DOMAIN disk
  /\ \A p \in DOMAIN disk : IsDir(disk[p][1]) <=> IsDir(p)

\* Each watch is on the directory that is at its path.
Watching ==
  /\ DOMAIN fd.watches = DOMAIN wdToPath
  /\ \A w \in DOMAIN wdToPath :
       wdToPath[w] \in DOMAIN disk /\ IsDir(wdToPath[w]) /\ fd.watches[w] = disk[wdToPath[w]]

\* An event can be given its path, and no directory is told to be gone.
Sound(e) ==
  /\ e.wd \in DOMAIN wdToPath /\ About(e) \in Paths
  /\ e.kind = "deleted" => ~ IsDir(About(e))

Queue == fd.queue \in Seq(QEvent) /\ \A i \in DOMAIN fd.queue : Sound(fd.queue[i])

\* What is to be done is below directories that have their watch.
Working ==
  /\ work \in Seq(Task)
  /\ \A i \in DOMAIN work :
       /\ work[i].path # top
       /\ work[i].do = "list" => Watched(work[i].path)
       /\ work[i].do # "list" => Watched(Front(work[i].path))
       /\ work[i].do = "watch" => IsDir(work[i].path)

\* An entry of a file that is gone has the end of it in the queue.
Indexed ==
  /\ index \subseteq Paths
  /\ \A p \in index \ {top} : Watched(Front(p)) /\ (p \in DOMAIN disk \/ Told("deleted", p))
  /\ Visible(top) => top \in index /\ Watched(top)

\* Of a file that is there, what is told of the end of an earlier one is followed
\* by what is told of its own beginning.
Ordered ==
  \A p \in DOMAIN disk, i \in DOMAIN fd.queue :
    fd.queue[i].kind = "deleted" /\ About(fd.queue[i]) = p =>
      \E j \in DOMAIN fd.queue : j > i /\ fd.queue[j].kind = "created" /\ About(fd.queue[j]) = p

\* What is there is in the index or will be, and so is the watch of a directory,
\* once the directory it is in has its own.
Following ==
  \A p \in DOMAIN disk \ {top} : Visible(p) /\ Watched(Front(p)) =>
    /\ p \in index \/ Awaited(p)
    /\ IsDir(p) => Watched(p) \/ Awaited(p) \/ ToDo("watch", p)

FollowInv ==
  WatchInv /\ Tree /\ Watching /\ Queue /\ Working /\ Indexed /\ Ordered /\ Following

-----------------------------------------------------------------------------

LEMMA PathParts ==
  /\ \A p \in Paths \ {top} :
       /\ p \in Seq(STRING) /\ Front(p) \in Seq(STRING) /\ Last(p) \in STRING
       /\ Append(Front(p), Last(p)) = p /\ Len(Front(p)) < Len(p)
       /\ IsPrefix(Front(p), p) /\ Front(p) # p
  /\ \A s \in Seq(STRING), x \in STRING :
       Front(Append(s, x)) = s /\ Last(Append(s, x)) = x /\ Append(s, x) # top
<1>1. ASSUME NEW p \in Paths \ {top}
      PROVE  /\ p \in Seq(STRING) /\ Front(p) \in Seq(STRING) /\ Last(p) \in STRING
             /\ Append(Front(p), Last(p)) = p /\ Len(Front(p)) < Len(p)
             /\ IsPrefix(Front(p), p) /\ Front(p) # p
  <2>1. p \in Seq(STRING) /\ p # <<>>
    BY PathsAssumption DEF top
  <2>2. Len(p) \in Nat /\ Len(p) > 0 /\ Last(p) \in STRING
    BY <2>1 DEF Last
  <2>3. /\ Front(p) \in Seq(STRING) /\ Len(Front(p)) = Len(p) - 1
        /\ \A i \in 1..(Len(p) - 1) : Front(p)[i] = p[i]
    <3> DEFINE n == Len(p) - 1
    <3>1. n \in 0..Len(p) /\ n - 1 + 1 = n
      BY <2>2
    <3> HIDE DEF n
    <3>2. /\ SubSeq(p, 1, n) \in Seq(STRING) /\ Len(SubSeq(p, 1, n)) = n
          /\ \A i \in 1..n : SubSeq(p, 1, n)[i] = p[i]
      BY <2>1, <2>2, <3>1, SubSeqProperties
    <3> QED BY <3>2 DEF Front, n
  <2>4. Append(Front(p), Last(p)) = p
    <3>1. Append(Front(p), Last(p)) \in Seq(STRING) /\ Len(Append(Front(p), Last(p))) = Len(p)
      BY <2>2, <2>3
    <3>2. \A i \in 1..Len(p) : Append(Front(p), Last(p))[i] = p[i]
      BY <2>2, <2>3 DEF Last
    <3> QED BY <2>1, <3>1, <3>2, SeqEqual
  <2>5. IsPrefix(Front(p), p)
    <3>1. SubSeq(Front(p), 1, Len(Front(p))) = Front(p)
      BY <2>3, SubSeqFull
    <3>2. SubSeq(p, 1, Len(Front(p))) = Front(p)
      BY <2>3 DEF Front
    <3> QED BY <2>2, <2>3, <3>1, <3>2 DEF IsPrefix
  <2>6. Front(p) # p
    BY <2>2, <2>3
  <2> QED BY <2>1, <2>2, <2>3, <2>4, <2>5, <2>6
<1>2. ASSUME NEW s \in Seq(STRING), NEW x \in STRING
      PROVE  Front(Append(s, x)) = s /\ Last(Append(s, x)) = x /\ Append(s, x) # top
  <2>1. /\ Append(s, x) \in Seq(STRING) /\ Len(Append(s, x)) = Len(s) + 1 /\ Len(s) \in Nat
        /\ Append(s, x)[Len(s) + 1] = x
        /\ \A i \in 1..Len(s) : Append(s, x)[i] = s[i]
    OBVIOUS
  <2>2. /\ SubSeq(Append(s, x), 1, Len(s)) \in Seq(STRING)
        /\ Len(SubSeq(Append(s, x), 1, Len(s))) = Len(s)
        /\ \A i \in 1..Len(s) : SubSeq(Append(s, x), 1, Len(s))[i] = s[i]
    BY <2>1, SubSeqProperties
  <2>3. SubSeq(Append(s, x), 1, Len(s)) = s
    BY <2>2, SeqEqual
  <2>4. Front(Append(s, x)) = s
    <3>1. Len(Append(s, x)) - 1 = Len(s) BY <2>1
    <3> QED BY <2>3, <3>1 DEF Front
  <2>5. Append(s, x) # <<>>
    BY AppendProperties
  <2> QED BY <2>1, <2>4, <2>5 DEF Last, top
<1> QED BY <1>1, <1>2

LEMMA LastIndex ==
  \A p \in Paths \ {top} : Len(p) \in DOMAIN p /\ Last(p) = p[Len(p)]
<1> SUFFICES ASSUME NEW p \in Paths \ {top} PROVE Len(p) \in DOMAIN p /\ Last(p) = p[Len(p)]
  OBVIOUS
<1>1. p \in Seq(STRING) /\ p # <<>>
  BY PathsAssumption DEF top
<1> QED BY <1>1 DEF Last

\* The directory that a file is in.
LEMMA Parent ==
  ASSUME Tree, Unmoved, NEW p \in DOMAIN disk \ {top}
  PROVE  Front(p) \in DOMAIN disk /\ IsDir(Front(p))
<1>1. Front(p) \in DOMAIN disk
  BY DEF Tree
<1>2. p \in Paths \ {top} /\ Front(p) \in Paths
  BY <1>1 DEF Unmoved
<1> QED BY <1>1, <1>2, PathParts, PathsAssumption

-----------------------------------------------------------------------------
(* What the kernel tells.                                                  *)

\* Events that are about p and of one kind; there are some if p is in a directory
\* that has its watch.
Says(es, kind, p) ==
  /\ es \in Seq(QEvent)
  /\ \A i \in DOMAIN es : es[i].kind = kind /\ About(es[i]) = p /\ Sound(es[i])
  /\ Watched(Front(p)) => es # <<>>

LEMMA NamedSays ==
  ASSUME FollowInv, NEW p \in Paths \ {top}, Front(p) \in DOMAIN disk, IsDir(Front(p)),
         NEW kind \in {"created", "deleted", "modified"}, kind = "deleted" => ~ IsDir(p)
  PROVE  Says(Named(p, kind), kind, p)
<1> DEFINE d == Front(p)
<1> USE DEF FollowInv
<1>1. disk[d][1] = d
  BY DEF WatchInv, Unmoved
<1>2. ASSUME NEW w \in DOMAIN fd.watches, fd.watches[w] = disk[d]
      PROVE  w \in DOMAIN wdToPath /\ wdToPath[w] = d /\ Watched(d)
  BY <1>1, <1>2 DEF Watching, WatchInv, Placed, MapsAgree, Watched
<1>3. Watched(d) => \E w \in DOMAIN fd.watches : fd.watches[w] = disk[d]
  BY DEF Watching, WatchInv, MapsAgree, Watched
<1>4. CASE \E w \in DOMAIN fd.watches : fd.watches[w] = disk[d]
  <2> DEFINE w == CHOOSE w \in DOMAIN fd.watches : fd.watches[w] = disk[d]
             e == [wd |-> w, kind |-> kind, name |-> Last(p)]
  <2>1. w \in DOMAIN fd.watches /\ fd.watches[w] = disk[d]
    BY <1>4
  <2>2. Named(p, kind) = <<e>>
    BY <1>4 DEF Named, Event
  <2>3. w \in DOMAIN wdToPath /\ wdToPath[w] = d /\ w \in Nat
    BY <1>2, <2>1 DEF WatchInv, Numbered
  <2>4. e.wd = w /\ e.kind = kind /\ e.name = Last(p)
    OBVIOUS
  <2>5. e \in QEvent
    BY <2>3, PathParts DEF QEvent
  <2> HIDE DEF w, e
  <2>6. About(e) = p
    BY <2>3, <2>4, PathParts DEF About
  <2>7. Sound(e)
    BY <2>3, <2>4, <2>6 DEF Sound
  <2>8. <<e>> \in Seq(QEvent) /\ <<e>> # <<>> /\ \A i \in DOMAIN <<e>> : <<e>>[i] = e
    BY <2>5
  <2> QED BY <2>2, <2>4, <2>6, <2>7, <2>8 DEF Says
<1>5. CASE ~ \E w \in DOMAIN fd.watches : fd.watches[w] = disk[d]
  <2>1. Named(p, kind) = <<>> /\ ~ Watched(Front(p))
    BY <1>3, <1>5 DEF Named, Event
  <2>2. <<>> \in Seq(QEvent) /\ DOMAIN <<>> = {}
    OBVIOUS
  <2> QED BY <2>1, <2>2 DEF Says
<1> QED BY <1>4, <1>5

\* Nothing is told of a file's own inode, and no watch is on it.
LEMMA FileUntold ==
  ASSUME FollowInv, NEW p \in DOMAIN disk, ~ IsDir(p)
  PROVE  /\ \A w \in DOMAIN fd.watches : fd.watches[w] # disk[p]
         /\ \A kind, name : Event(disk[p], kind, name) = <<>>
<1>1. ASSUME NEW w \in DOMAIN fd.watches, fd.watches[w] = disk[p]
      PROVE  FALSE
  <2>1. w \in DOMAIN wdToPath /\ IsDir(wdToPath[w]) /\ disk[p][1] = wdToPath[w]
    BY <1>1 DEF FollowInv, Watching, WatchInv, Placed
  <2>2. IsDir(disk[p][1]) <=> IsDir(p)
    BY DEF FollowInv, Tree
  <2> QED BY <2>1, <2>2
<1> QED BY <1>1 DEF Event

\* A queue below its limit has lost nothing.
LEMMA NotifyTells ==
  ASSUME FollowInv, Roomy', NEW es \in Seq(QEvent), NEW gone, Notify(es, gone),
         \A w \in DOMAIN fd.watches : fd.watches[w] \notin gone
  PROVE  /\ fd'.queue = fd.queue \o es
         /\ DOMAIN fd'.watches = DOMAIN fd.watches
         /\ \A w \in DOMAIN fd.watches : fd'.watches[w] = fd.watches[w]
<1> DEFINE all == fd.queue \o es
           n   == IF Len(all) <= QueueLimit THEN Len(all) ELSE QueueLimit
           kept == [w \in {v \in DOMAIN fd.watches : fd.watches[v] \notin gone} |-> fd.watches[w]]
<1>1. fd.queue \in Seq(QEvent) /\ all \in Seq(QEvent) /\ Len(all) \in Nat /\ QueueLimit \in Nat
  <2>1. fd.queue \in Seq(QEvent) BY DEF FollowInv, Queue
  <2>2. all \in Seq(QEvent) BY <2>1, ConcatProperties
  <2>3. QueueLimit \in Nat BY WatcherAssumption
  <2> HIDE DEF all
  <2> QED BY <2>1, <2>2, <2>3
<1>2. fd' = [fd EXCEPT !.queue = SubSeq(all, 1, n), !.watches = kept]
  BY DEF Notify
<1>3. DOMAIN kept = DOMAIN fd.watches /\ \A w \in DOMAIN fd.watches : kept[w] = fd.watches[w]
  OBVIOUS
<1> HIDE DEF all, n, kept
<1>4. fd'.queue = SubSeq(all, 1, n) /\ fd'.watches = kept
  BY <1>2 DEF FollowInv, WatchInv, Numbered
<1>5. Len(all) <= QueueLimit
  <2> SUFFICES ASSUME ~ (Len(all) <= QueueLimit) PROVE FALSE
    OBVIOUS
  <2>1. n = QueueLimit /\ n \in Int /\ n < Len(all)
    BY <1>1 DEF n
  <2>2. \A i \in 1..n : all[i] \in QEvent
    BY <1>1, <2>1
  <2>3. Len(SubSeq(all, 1, n)) = IF 1 <= n THEN n - 1 + 1 ELSE 0
    BY <2>1, <2>2, SubSeqProperties
  <2> QED BY <1>1, <1>4, <2>1, <2>3 DEF Roomy
<1>6. SubSeq(all, 1, n) = all
  BY <1>1, <1>5, SubSeqFull DEF n
<1> QED BY <1>3, <1>4, <1>6 DEF all

\* Two sequences, one after the other.
LEMMA Joined ==
  ASSUME NEW S, NEW es \in Seq(S), NEW fs \in Seq(S)
  PROVE  /\ es \o fs \in Seq(S) /\ Len(es) \in Nat /\ Len(fs) \in Nat
         /\ DOMAIN es = 1..Len(es) /\ DOMAIN fs = 1..Len(fs)
         /\ DOMAIN (es \o fs) = 1..(Len(es) + Len(fs))
         /\ \A i \in 1..Len(es) : (es \o fs)[i] = es[i]
         /\ \A i \in 1..Len(fs) : (es \o fs)[Len(es) + i] = fs[i]
         /\ \A i \in DOMAIN (es \o fs) :
              \/ i \in DOMAIN es /\ (es \o fs)[i] = es[i]
              \/ i - Len(es) \in DOMAIN fs /\ i > Len(es) /\ (es \o fs)[i] = fs[i - Len(es)]
<1>1. /\ es \o fs \in Seq(S) /\ Len(es \o fs) = Len(es) + Len(fs)
      /\ \A i \in 1..Len(es) + Len(fs) :
           (es \o fs)[i] = IF i <= Len(es) THEN es[i] ELSE fs[i - Len(es)]
  BY ConcatProperties
<1>2. Len(es) \in Nat /\ Len(fs) \in Nat /\ DOMAIN es = 1..Len(es) /\ DOMAIN fs = 1..Len(fs)
  OBVIOUS
<1>3. DOMAIN (es \o fs) = 1..(Len(es) + Len(fs))
  BY <1>1
<1>4. \A i \in 1..Len(es) : (es \o fs)[i] = es[i]
  BY <1>1, <1>2
<1>5. ASSUME NEW i \in 1..Len(fs)
      PROVE  (es \o fs)[Len(es) + i] = fs[i]
  <2>1. Len(es) + i \in 1..Len(es) + Len(fs) /\ ~ (Len(es) + i <= Len(es)) /\ Len(es) + i - Len(es) = i
    BY <1>2
  <2> QED BY <1>1, <2>1
<1>6. ASSUME NEW i \in DOMAIN (es \o fs)
      PROVE  \/ i \in DOMAIN es /\ (es \o fs)[i] = es[i]
             \/ i - Len(es) \in DOMAIN fs /\ i > Len(es) /\ (es \o fs)[i] = fs[i - Len(es)]
  BY <1>1, <1>2, <1>3
<1> QED BY <1>1, <1>2, <1>3, <1>4, <1>5, <1>6

-----------------------------------------------------------------------------
(* The file system.                                                        *)

\* What has come and gone, of what is in a directory that has its watch, is told;
\* nothing is told to be gone that is there.
Reported(es) ==
  /\ es \in Seq(QEvent)
  /\ \A i \in DOMAIN es : Sound(es[i])
  /\ \A i \in DOMAIN es : es[i].kind = "deleted" => About(es[i]) \notin DOMAIN disk'
  /\ \A p \in DOMAIN disk \ DOMAIN disk' : Watched(Front(p)) => In(es, "deleted", p)
  /\ \A p \in DOMAIN disk' \ DOMAIN disk : Watched(Front(p)) => In(es, "created", p)

\* The file system changes, and the watcher is told.
Tells(es) ==
  /\ Reported(es) /\ Tree'
  /\ fd'.queue = fd.queue \o es
  /\ DOMAIN fd'.watches = DOMAIN fd.watches
  /\ \A w \in DOMAIN fd.watches : fd'.watches[w] = fd.watches[w]

\* The queue with what is told at its end.
LEMMA QueueGrows ==
  ASSUME FollowInv, NEW es \in Seq(QEvent), fd'.queue = fd.queue \o es,
         wdToPath' = wdToPath
  PROVE  /\ \A kind, p : Told(kind, p) \/ In(es, kind, p) => Told(kind, p)'
         /\ \A i \in DOMAIN fd'.queue :
              \/ i \in DOMAIN fd.queue /\ fd'.queue[i] = fd.queue[i]
              \/ \E j \in DOMAIN es : fd'.queue[i] = es[j]
         /\ \A i \in DOMAIN fd.queue : i \in DOMAIN fd'.queue /\ fd'.queue[i] = fd.queue[i]
         /\ \A i \in DOMAIN fd.queue, j \in DOMAIN es :
              \E k \in DOMAIN fd'.queue : k > i /\ fd'.queue[k] = es[j]
         /\ fd'.queue \in Seq(QEvent)
<1> DEFINE q == fd.queue
<1>1. q \in Seq(QEvent)
  BY DEF FollowInv, Queue
<1>2. /\ fd'.queue \in Seq(QEvent) /\ Len(q) \in Nat /\ Len(es) \in Nat
      /\ DOMAIN q = 1..Len(q) /\ DOMAIN es = 1..Len(es)
      /\ DOMAIN fd'.queue = 1..(Len(q) + Len(es))
      /\ \A i \in 1..Len(q) : fd'.queue[i] = q[i]
      /\ \A i \in 1..Len(es) : fd'.queue[Len(q) + i] = es[i]
      /\ \A i \in DOMAIN fd'.queue :
           \/ i \in DOMAIN q /\ fd'.queue[i] = q[i]
           \/ i - Len(q) \in DOMAIN es /\ i > Len(q) /\ fd'.queue[i] = es[i - Len(q)]
  BY <1>1, Joined
<1> HIDE DEF q
<1>3. \A i \in DOMAIN q : i \in DOMAIN fd'.queue /\ fd'.queue[i] = q[i]
  BY <1>2
<1>4. \A j \in DOMAIN es : Len(q) + j \in DOMAIN fd'.queue /\ fd'.queue[Len(q) + j] = es[j]
  BY <1>2
<1>5. \A i \in DOMAIN q, j \in DOMAIN es : Len(q) + j > i
  BY <1>2
<1>6. \A kind, p : Told(kind, p) \/ In(es, kind, p) => Told(kind, p)'
  BY <1>3, <1>4 DEF Told, In, About, q
<1> QED BY <1>2, <1>3, <1>4, <1>5, <1>6 DEF q

LEMMA TellsInv ==
  ASSUME FollowInv, WatchInv', DirsStay, NEW es, Tells(es), UNCHANGED <<maps, work, index>>
  PROVE  FollowInv'
<1> USE DEF FollowInv
<1>1. /\ es \in Seq(QEvent) /\ wdToPath' = wdToPath /\ pathToWd' = pathToWd
      /\ work' = work /\ index' = index
      /\ DOMAIN fd'.watches = DOMAIN fd.watches
      /\ \A w \in DOMAIN fd.watches : fd'.watches[w] = fd.watches[w]
  BY DEF Tells, Reported, maps
<1>2. /\ \A kind, p : Told(kind, p) \/ In(es, kind, p) => Told(kind, p)'
      /\ \A i \in DOMAIN fd'.queue :
           \/ i \in DOMAIN fd.queue /\ fd'.queue[i] = fd.queue[i]
           \/ \E j \in DOMAIN es : fd'.queue[i] = es[j]
      /\ \A i \in DOMAIN fd.queue : i \in DOMAIN fd'.queue /\ fd'.queue[i] = fd.queue[i]
      /\ \A i \in DOMAIN fd.queue, j \in DOMAIN es :
           \E k \in DOMAIN fd'.queue : k > i /\ fd'.queue[k] = es[j]
      /\ fd'.queue \in Seq(QEvent)
  BY <1>1, QueueGrows DEF Tells
<1>3. \A p : (Watched(p)' <=> Watched(p)) /\ (\A what : ToDo(what, p)' <=> ToDo(what, p))
      /\ (IsDir(p)' <=> IsDir(p)) /\ (Visible(p)' <=> Visible(p))
  BY <1>1 DEF Watched, ToDo, IsDir, Visible, IsExcluded
<1>4. \A e : (About(e))' = About(e) /\ (Sound(e)' <=> Sound(e))
  BY <1>1 DEF Sound, About, IsDir
<1>5. Tree' BY DEF Tells
<1>6. Watching'
  BY <1>1 DEF Watching, IsDir, DirsStay
<1>7. Queue'
  <2>1. \A i \in DOMAIN fd'.queue : Sound(fd'.queue[i])
    BY <1>2 DEF Queue, Tells, Reported
  <2> QED BY <1>1, <1>2, <2>1 DEF Queue, Sound, About, IsDir
<1>8. Working'
  BY <1>1 DEF Working, Watched, IsDir
<1>9. Indexed'
  <2>1. ASSUME NEW p \in index \ {top}
        PROVE  Watched(Front(p)) /\ (p \in DOMAIN disk' \/ Told("deleted", p)')
    <3>1. Watched(Front(p)) /\ (p \in DOMAIN disk \/ Told("deleted", p))
      BY DEF Indexed
    <3> QED BY <1>2, <3>1 DEF Tells, Reported
  <2> QED BY <1>1, <1>3, <2>1 DEF Indexed
<1>10. Ordered'
  <2> SUFFICES ASSUME NEW p \in DOMAIN disk', NEW i \in DOMAIN fd'.queue,
                      fd'.queue[i].kind = "deleted", About(fd'.queue[i]) = p
               PROVE  \E j \in DOMAIN fd'.queue :
                        j > i /\ fd'.queue[j].kind = "created" /\ About(fd'.queue[j]) = p
    BY <1>1 DEF Ordered, About
  <2>1. i \in DOMAIN fd.queue /\ fd'.queue[i] = fd.queue[i]
    BY <1>2 DEF Tells, Reported
  <2>2. CASE p \in DOMAIN disk
    <3>1. PICK j \in DOMAIN fd.queue :
                 j > i /\ fd.queue[j].kind = "created" /\ About(fd.queue[j]) = p
      BY <2>1, <2>2 DEF Ordered
    <3> QED BY <1>2, <3>1
  <2>3. CASE p \notin DOMAIN disk
    <3> DEFINE e == fd.queue[i]
    <3>0. e \in QEvent /\ Sound(e) /\ About(e) = p
      BY <2>1 DEF Queue
    <3> HIDE DEF e
    <3>1. e.wd \in DOMAIN wdToPath /\ p = Append(wdToPath[e.wd], e.name) /\ e.name \in STRING
      BY <3>0 DEF Sound, About, QEvent
    <3>2. wdToPath[e.wd] \in Seq(STRING) /\ Watched(wdToPath[e.wd])
      BY <3>1, PathsAssumption DEF Watching, WatchInv, Unmoved, MapsAgree, Watched
    <3>3. Front(p) = wdToPath[e.wd]
      BY <3>1, <3>2, PathParts
    <3>4. PICK j \in DOMAIN es : es[j].kind = "created" /\ About(es[j]) = p
      BY <2>3, <3>2, <3>3 DEF Tells, Reported, In
    <3> QED BY <1>2, <2>1, <3>4
  <2> QED BY <2>2, <2>3
<1>11. Following'
  <2> SUFFICES ASSUME NEW p \in DOMAIN disk' \ {top}, Visible(p), Watched(Front(p))
               PROVE  /\ p \in index \/ Awaited(p)'
                      /\ IsDir(p) => Watched(p) \/ Awaited(p)' \/ ToDo("watch", p)
    BY <1>1, <1>3 DEF Following
  <2>1. CASE p \in DOMAIN disk
    <3>1. Awaited(p) => Awaited(p)'
      BY <1>2, <1>3 DEF Awaited
    <3> QED BY <2>1, <3>1 DEF Following
  <2>2. CASE p \notin DOMAIN disk
    <3>1. Told("created", p)'
      BY <1>2, <2>2 DEF Tells, Reported
    <3> QED BY <3>1 DEF Awaited
  <2> QED BY <2>1, <2>2
<1> QED BY <1>5, <1>6, <1>7, <1>8, <1>9, <1>10, <1>11

\* Each change of the file system is told.
LEMMA CreateTells ==
  ASSUME FollowInv, Roomy', NEW p \in Paths \ {top}, Create(p)
  PROVE  \E es : Tells(es)
<1> DEFINE es == Named(p, "created")
<1> USE DEF FollowInv
<1>1. /\ p \notin DOMAIN disk /\ Front(p) \in DOMAIN disk
      /\ disk' = With(disk, p, <<p, ops + 1>>) /\ Notify(es, {})
  BY DEF Create
<1>2. /\ DOMAIN disk' = DOMAIN disk \cup {p} /\ disk'[p] = <<p, ops + 1>>
      /\ \A r \in DOMAIN disk : disk'[r] = disk[r]
  BY <1>1 DEF With, Over
<1>3. disk'[p][1] = p
  BY <1>2
<1>4. IsDir(Front(p))
  BY <1>1, PathParts, PathsAssumption DEF WatchInv, Unmoved
<1>5. Says(es, "created", p)
  BY <1>1, <1>4, NamedSays
<1> HIDE DEF es
<1>6. /\ fd'.queue = fd.queue \o es /\ DOMAIN fd'.watches = DOMAIN fd.watches
      /\ \A w \in DOMAIN fd.watches : fd'.watches[w] = fd.watches[w]
  BY <1>1, <1>5, NotifyTells DEF Says
<1>7. Tree'
  BY <1>1, <1>2, <1>3 DEF Tree, IsDir
<1>8. Reported(es)
  <2>1. Watched(Front(p)) => In(es, "created", p)
    BY <1>5 DEF Says, In
  <2> QED BY <1>2, <1>5, <2>1 DEF Reported, Says
<1> QED BY <1>6, <1>7, <1>8 DEF Tells

\* What is not a directory has nothing below it.
LEMMA FileIsLeaf ==
  ASSUME NEW p \in Paths, ~ IsDir(p), NEW r \in Paths \ {top}
  PROVE  Front(r) # p
  BY PathParts, PathsAssumption

LEMMA DeleteTells ==
  ASSUME FollowInv, DirsStay, Roomy', NEW p \in Paths \ {top}, Delete(p)
  PROVE  \E es : Tells(es)
<1> DEFINE es == Named(p, "deleted")
<1> USE DEF FollowInv
<1>1. /\ p \in DOMAIN disk /\ disk' = Without(disk, p)
      /\ LET self == Event(disk[p], "self", "")
         IN  Notify(self \o self \o es, {disk[p]}) \/ Notify(es \o self \o self, {disk[p]})
  BY DEF Delete
<1>2. /\ DOMAIN disk' = DOMAIN disk \ {p}
      /\ \A r \in DOMAIN disk' : disk'[r] = disk[r]
  BY <1>1, WithoutOf
<1>3. ~ IsDir(p)
  BY <1>1, <1>2 DEF DirsStay
<1>4. Front(p) \in DOMAIN disk /\ IsDir(Front(p))
  BY <1>1, Parent DEF WatchInv
<1>5. Says(es, "deleted", p)
  BY <1>3, <1>4, NamedSays
<1>6. Notify(es, {disk[p]}) /\ \A w \in DOMAIN fd.watches : fd.watches[w] \notin {disk[p]}
  <2>1. Event(disk[p], "self", "") = <<>> /\ \A w \in DOMAIN fd.watches : fd.watches[w] # disk[p]
    BY <1>1, <1>3, FileUntold
  <2>2. <<>> \o <<>> \o es = es /\ es \o <<>> \o <<>> = es
    <3>1. es \in Seq(QEvent) BY <1>5 DEF Says
    <3>2. <<>> \in Seq(QEvent) OBVIOUS
    <3> HIDE DEF es
    <3> QED BY <3>1, <3>2, ConcatEmptySeq
  <2> QED BY <1>1, <2>1, <2>2
<1> HIDE DEF es
<1>7. /\ fd'.queue = fd.queue \o es /\ DOMAIN fd'.watches = DOMAIN fd.watches
      /\ \A w \in DOMAIN fd.watches : fd'.watches[w] = fd.watches[w]
  BY <1>5, <1>6, NotifyTells DEF Says
<1>8. Tree'
  <2>1. \A r \in DOMAIN disk \ {top} : Front(r) # p
    BY <1>3, FileIsLeaf DEF WatchInv, Unmoved
  <2>2. p # top OBVIOUS
  <2> QED BY <1>2, <2>1, <2>2 DEF Tree, IsDir
<1>9. Reported(es)
  <2>1. Watched(Front(p)) => In(es, "deleted", p)
    BY <1>5 DEF Says, In
  <2> QED BY <1>2, <1>5, <2>1 DEF Reported, Says
<1> QED BY <1>7, <1>8, <1>9 DEF Tells

LEMMA ModifyTells ==
  ASSUME FollowInv, Roomy', NEW p \in Paths \ {top}, Modify(p)
  PROVE  \E es : Tells(es)
<1> DEFINE es == Named(p, "modified")
<1> USE DEF FollowInv
<1>1. p \in DOMAIN disk /\ disk' = disk /\ Notify(es, {})
  BY DEF Modify
<1>2. Front(p) \in DOMAIN disk /\ IsDir(Front(p))
  BY <1>1, Parent DEF WatchInv
<1>3. Says(es, "modified", p)
  BY <1>2, NamedSays
<1> HIDE DEF es
<1>4. /\ fd'.queue = fd.queue \o es /\ DOMAIN fd'.watches = DOMAIN fd.watches
      /\ \A w \in DOMAIN fd.watches : fd'.watches[w] = fd.watches[w]
  BY <1>1, <1>3, NotifyTells DEF Says
<1>5. Tree'
  BY <1>1 DEF Tree, IsDir
<1>6. Reported(es)
  BY <1>1, <1>3 DEF Reported, Says
<1> QED BY <1>4, <1>5, <1>6 DEF Tells

\* Two changes told one after the other.
LEMMA SaysTwice ==
  ASSUME NEW gone, NEW come, NEW p, NEW q, NEW kind, NEW kind2,
         Says(gone, kind, p), Says(come, kind2, q)
  PROVE  /\ gone \o come \in Seq(QEvent)
         /\ \A i \in DOMAIN (gone \o come) :
              Sound((gone \o come)[i])
                /\ (\/ (gone \o come)[i].kind = kind /\ About((gone \o come)[i]) = p
                    \/ (gone \o come)[i].kind = kind2 /\ About((gone \o come)[i]) = q)
         /\ Watched(Front(p)) => In(gone \o come, kind, p)
         /\ Watched(Front(q)) => In(gone \o come, kind2, q)
<1> DEFINE es == gone \o come
<1>1. /\ gone \in Seq(QEvent) /\ come \in Seq(QEvent)
      /\ \A i \in DOMAIN gone : gone[i].kind = kind /\ About(gone[i]) = p /\ Sound(gone[i])
      /\ \A i \in DOMAIN come : come[i].kind = kind2 /\ About(come[i]) = q /\ Sound(come[i])
      /\ Watched(Front(p)) => gone # <<>>
      /\ Watched(Front(q)) => come # <<>>
  BY DEF Says
<1>2. (gone # <<>> => 1 \in DOMAIN gone) /\ (come # <<>> => 1 \in DOMAIN come)
  BY <1>1
<1>3. /\ es \in Seq(QEvent) /\ Len(gone) \in Nat /\ Len(come) \in Nat
      /\ DOMAIN gone = 1..Len(gone) /\ DOMAIN come = 1..Len(come)
      /\ DOMAIN es = 1..(Len(gone) + Len(come))
      /\ \A i \in 1..Len(gone) : es[i] = gone[i]
      /\ \A i \in 1..Len(come) : es[Len(gone) + i] = come[i]
      /\ \A i \in DOMAIN es :
           \/ i \in DOMAIN gone /\ es[i] = gone[i]
           \/ i - Len(gone) \in DOMAIN come /\ i > Len(gone) /\ es[i] = come[i - Len(gone)]
  BY <1>1, Joined
<1> HIDE DEF es
<1>4. \A i \in DOMAIN es :
        Sound(es[i]) /\ (\/ es[i].kind = kind /\ About(es[i]) = p
                         \/ es[i].kind = kind2 /\ About(es[i]) = q)
  BY <1>1, <1>3
<1>5. ASSUME 1 \in DOMAIN gone PROVE In(es, kind, p)
  <2>1. 1 \in DOMAIN es /\ es[1] = gone[1]
    BY <1>3, <1>5
  <2> QED BY <1>1, <1>5, <2>1 DEF In
<1>6. ASSUME 1 \in DOMAIN come PROVE In(es, kind2, q)
  <2>1. Len(gone) + 1 \in DOMAIN es /\ es[Len(gone) + 1] = come[1]
    BY <1>3, <1>6
  <2> QED BY <1>1, <1>6, <2>1 DEF In
<1>7. (Watched(Front(p)) => In(es, kind, p)) /\ (Watched(Front(q)) => In(es, kind2, q))
  BY <1>1, <1>2, <1>5, <1>6
<1>8. es \in Seq(QEvent)
  BY <1>3
<1> QED BY <1>4, <1>7, <1>8 DEF es

LEMMA PrefixOfItself ==
  ASSUME NEW p \in Seq(STRING)
  PROVE  IsPrefix(p, p)
  BY DEF IsPrefix

LEMMA MoveTells ==
  ASSUME "move dir" \notin Happenings, FollowInv, Roomy',
         NEW p \in Paths \ {top}, NEW q \in Paths \ {top}, Move(p, q)
  PROVE  \E es : Tells(es)
<1> DEFINE To(r)  == q \o SubSeq(r, Len(p) + 1, Len(r))
           moved  == Below(p) \cap DOMAIN disk
           gone   == Named(p, "deleted")
           come   == Named(q, "created")
<1> USE DEF FollowInv
<1>1. /\ p \in DOMAIN disk /\ q \notin DOMAIN disk /\ Front(q) \in DOMAIN disk
      /\ Changes(IF IsDir(p) THEN "move dir" ELSE "move") /\ IsDir(p) = IsDir(q)
      /\ disk' = Over([r \in {To(s) : s \in moved} |-> disk[CHOOSE s \in moved : To(s) = r]],
                      [r \in DOMAIN disk \ moved |-> disk[r]])
      /\ Notify(gone \o come \o Event(disk[p], "self", ""), {})
  BY DEF Move
<1>2. ~ IsDir(p) /\ ~ IsDir(q)
  <2>1. IsDir(p) => "move dir" \in Happenings BY <1>1 DEF Changes
  <2>2. ~ IsDir(p) BY <2>1
  <2> QED BY <1>1, <2>2
<1>3. moved = {p}
  <2>1. \A r \in moved : r \in Paths /\ IsPrefix(p, r) BY DEF Below, WatchInv, Unmoved
  <2>2. \A r \in moved : r = p BY <1>2, <2>1, PathsAssumption
  <2>3. IsPrefix(p, p)
    <3>1. p \in Seq(STRING) BY PathsAssumption
    <3> QED BY <3>1, PrefixOfItself
  <2>4. p \in moved
    BY <1>1, <2>3 DEF Below
  <2> QED BY <2>2, <2>4
<1>4. To(p) = q
  <2>1. p \in Seq(STRING) /\ q \in Seq(STRING) BY PathsAssumption
  <2> QED BY <2>1, NothingBelow
<1>5. {To(s) : s \in moved} = {q} /\ (CHOOSE s \in moved : To(s) = q) = p
  BY <1>3, <1>4
<1> HIDE DEF To, moved
<1>6. /\ DOMAIN disk' = (DOMAIN disk \ {p}) \cup {q} /\ disk'[q] = disk[p]
      /\ \A r \in DOMAIN disk \ {p} : disk'[r] = disk[r]
  BY <1>1, <1>3, <1>5 DEF Over
<1>7. Front(p) \in DOMAIN disk /\ IsDir(Front(p)) /\ IsDir(Front(q))
  <2>1. Front(p) \in DOMAIN disk /\ IsDir(Front(p))
    BY <1>1, Parent DEF WatchInv
  <2>2. IsDir(Front(q))
    BY <1>1, PathParts, PathsAssumption DEF WatchInv, Unmoved
  <2> QED BY <2>1, <2>2
<1>8. Says(gone, "deleted", p) /\ Says(come, "created", q)
  BY <1>1, <1>2, <1>7, NamedSays
<1> HIDE DEF gone, come
<1> DEFINE es == gone \o come
<1>10. /\ es \in Seq(QEvent)
       /\ \A i \in DOMAIN es :
            Sound(es[i]) /\ (\/ es[i].kind = "deleted" /\ About(es[i]) = p
                             \/ es[i].kind = "created" /\ About(es[i]) = q)
       /\ Watched(Front(p)) => In(es, "deleted", p)
       /\ Watched(Front(q)) => In(es, "created", q)
  BY <1>8, SaysTwice
<1>11. Notify(es, {})
  <2>1. Event(disk[p], "self", "") = <<>>
    BY <1>1, <1>2, FileUntold
  <2>2. es \o <<>> = es
    <3>1. es \in Seq(QEvent) BY <1>10
    <3> HIDE DEF es
    <3> QED BY <3>1, ConcatEmptySeq
  <2> QED BY <1>1, <2>1, <2>2
<1> HIDE DEF es
<1>12. /\ fd'.queue = fd.queue \o es /\ DOMAIN fd'.watches = DOMAIN fd.watches
       /\ \A w \in DOMAIN fd.watches : fd'.watches[w] = fd.watches[w]
  BY <1>10, <1>11, NotifyTells
<1>13. Tree'
  <2>1. \A r \in DOMAIN disk \ {top} : Front(r) # p
    BY <1>2, FileIsLeaf DEF WatchInv, Unmoved
  <2>2. Front(q) # p
    BY <1>2, FileIsLeaf
  <2>3. top \in DOMAIN disk' /\ \A r \in DOMAIN disk' \ {top} : Front(r) \in DOMAIN disk'
    BY <1>1, <1>6, <2>1, <2>2 DEF Tree
  <2>4. ASSUME NEW r \in DOMAIN disk'
        PROVE  IsDir(disk'[r][1]) <=> IsDir(r)
    <3>1. \A s \in DOMAIN disk : IsDir(disk[s][1]) <=> IsDir(s)
      BY DEF Tree
    <3>2. CASE r = q
      BY <1>1, <1>2, <1>6, <3>1, <3>2
    <3>3. CASE r # q
      <4>1. r \in DOMAIN disk /\ disk'[r] = disk[r] BY <1>6, <3>3
      <4> QED BY <3>1, <4>1
    <3> QED BY <3>2, <3>3
  <2> QED BY <2>3, <2>4 DEF Tree, IsDir
<1>14. Reported(es)
  <2>5. p \notin DOMAIN disk'
    BY <1>1, <1>6
  <2> QED BY <1>6, <1>10, <2>5 DEF Reported
<1> QED BY <1>12, <1>13, <1>14 DEF Tells

LEMMA DiskFollows ==
  ASSUME "move dir" \notin Happenings, FollowInv, DirsStay, Roomy', Disk
  PROVE  FollowInv'
<1>1. \E es : Tells(es)
  BY CreateTells, DeleteTells, ModifyTells, MoveTells DEF Disk
<1>2. UNCHANGED <<maps, work, index>>
  BY DEF Disk, Create, Delete, Modify, Move, Changes
<1>3. WatchInv'
  BY DiskInv DEF FollowInv
<1> QED BY <1>1, <1>2, <1>3, TellsInv

-----------------------------------------------------------------------------
(* The watcher.                                                            *)

\* The first event of the queue, and the queue without it.
LEMMA TakesFirst ==
  ASSUME FollowInv, NEW kind, Takes(kind), UNCHANGED maps
  PROVE  /\ kind \in {"created", "deleted", "modified"} /\ Sound(Head(fd.queue))
         /\ Full = About(Head(fd.queue)) /\ Full \in Paths \ {top}
         /\ Front(Full) \in DOMAIN disk /\ IsDir(Front(Full)) /\ Watched(Front(Full))
         /\ \A kind2, p : Told(kind2, p)' => Told(kind2, p)
         /\ \A kind2, p : Told(kind2, p) => Told(kind2, p)' \/ (kind2 = kind /\ p = Full)
         /\ \A p \in DOMAIN disk : kind = "deleted" /\ p = Full => Told("created", p)'
         /\ Watching' /\ Queue' /\ Ordered'
<1> DEFINE q == fd.queue
           e == Head(q)
<1> USE DEF FollowInv
<1>1. /\ q \in Seq(QEvent) /\ q # <<>> /\ e.kind = kind /\ disk' = disk
      /\ fd' = [fd EXCEPT !.queue = Tail(q)]
      /\ wdToPath' = wdToPath /\ pathToWd' = pathToWd
  BY DEF Takes, Queue, maps
<1>2. fd'.queue = Tail(q) /\ fd'.watches = fd.watches
  BY <1>1 DEF WatchInv, Numbered
<1>3. /\ e \in QEvent /\ e = q[1] /\ 1 \in DOMAIN q /\ Len(q) \in Nat /\ DOMAIN q = 1..Len(q)
      /\ Tail(q) \in Seq(QEvent) /\ DOMAIN Tail(q) = 1..(Len(q) - 1)
      /\ \A i \in 1..(Len(q) - 1) : Tail(q)[i] = q[i + 1]
  <2>1. /\ e \in QEvent /\ Tail(q) \in Seq(QEvent) /\ Len(Tail(q)) = Len(q) - 1
        /\ \A i \in 1 .. Len(Tail(q)) : Tail(q)[i] = q[i+1]
    BY <1>1, HeadTailProperties
  <2> HIDE DEF q
  <2>2. e = q[1] /\ 1 \in DOMAIN q /\ Len(q) \in Nat /\ DOMAIN q = 1..Len(q)
    BY <1>1
  <2> QED BY <2>1, <2>2
<1>4. \A i \in DOMAIN q : Sound(q[i])
  BY DEF Queue
<1>5. Sound(e) /\ kind \in {"created", "deleted", "modified"}
  BY <1>1, <1>3, <1>4 DEF QEvent
<1>6. Full = About(e)
  BY DEF Full, Dir, About
<1>7. Front(Full) = wdToPath[e.wd] /\ wdToPath[e.wd] \in DOMAIN disk /\ Full # top
  <2>1. wdToPath[e.wd] \in DOMAIN disk /\ wdToPath[e.wd] \in Seq(STRING) /\ e.name \in STRING
    BY <1>3, <1>5, PathsAssumption DEF Sound, Watching, WatchInv, Unmoved, QEvent
  <2> QED BY <1>6, <2>1, PathParts DEF About
<1>8. IsDir(Front(Full)) /\ Watched(Front(Full))
  BY <1>5, <1>7 DEF Sound, Watching, WatchInv, MapsAgree, Watched
<1> HIDE DEF q, e
<1>9. \A i \in DOMAIN Tail(q) : i + 1 \in DOMAIN q /\ Tail(q)[i] = q[i + 1]
  BY <1>3
<1>10. \A i \in DOMAIN q : q[i] = e \/ (i - 1 \in DOMAIN Tail(q) /\ Tail(q)[i - 1] = q[i])
  BY <1>3
<1>11. \A x : (About(x))' = About(x) /\ (Sound(x)' <=> Sound(x))
  BY <1>1 DEF About, Sound, IsDir
<1>12. \A kind2, p : Told(kind2, p)' <=> In(Tail(q), kind2, p)
  BY <1>1, <1>2 DEF Told, In, About
<1>13. \A kind2, p : Told(kind2, p) <=> In(q, kind2, p)
  BY DEF Told, q
<1>14. \A kind2, p : Told(kind2, p)' => Told(kind2, p)
  BY <1>9, <1>12, <1>13 DEF In
<1>15. \A kind2, p : Told(kind2, p) => Told(kind2, p)' \/ (kind2 = kind /\ p = Full)
  BY <1>1, <1>6, <1>10, <1>12, <1>13 DEF In
<1>16. ASSUME NEW p \in DOMAIN disk, NEW i \in DOMAIN q, q[i].kind = "deleted", About(q[i]) = p
       PROVE  \E j \in DOMAIN Tail(q) :
                /\ j + 1 > i /\ Tail(q)[j].kind = "created" /\ About(Tail(q)[j]) = p
  <2>1. PICK j \in DOMAIN q : j > i /\ q[j].kind = "created" /\ About(q[j]) = p
    BY <1>16 DEF Ordered, q
  <2>2. j - 1 \in DOMAIN Tail(q) /\ Tail(q)[j - 1] = q[j] /\ j - 1 + 1 > i
    BY <1>3, <1>16, <2>1
  <2> QED BY <2>1, <2>2
<1>17. \A p \in DOMAIN disk : kind = "deleted" /\ p = Full => Told("created", p)'
  <2> SUFFICES ASSUME NEW p \in DOMAIN disk, kind = "deleted", p = Full PROVE Told("created", p)'
    OBVIOUS
  <2>1. 1 \in DOMAIN q /\ q[1].kind = "deleted" /\ About(q[1]) = p
    BY <1>1, <1>3, <1>6
  <2> QED BY <1>12, <1>16, <2>1 DEF In
<1>18. Watching'
  BY <1>1, <1>2 DEF Watching, IsDir
<1>19. Queue'
  <2>1. \A i \in DOMAIN Tail(q) : Sound(Tail(q)[i])
    BY <1>4, <1>9
  <2> QED BY <1>1, <1>2, <1>3, <2>1 DEF Queue, Sound, About, IsDir
<1>20. Ordered'
  <2>1. ASSUME NEW p \in DOMAIN disk, NEW i \in DOMAIN Tail(q),
               Tail(q)[i].kind = "deleted", About(Tail(q)[i]) = p
        PROVE  \E j \in DOMAIN Tail(q) :
                 j > i /\ Tail(q)[j].kind = "created" /\ About(Tail(q)[j]) = p
    <3>1. i + 1 \in DOMAIN q /\ q[i + 1] = Tail(q)[i]
      BY <1>9
    <3>2. PICK j \in DOMAIN Tail(q) :
                 j + 1 > i + 1 /\ Tail(q)[j].kind = "created" /\ About(Tail(q)[j]) = p
      BY <1>16, <2>1, <3>1
    <3>3. j > i
      BY <1>3, <3>2
    <3> QED BY <3>2, <3>3
  <2> DEFINE t == Tail(q)
  <2>2. disk' = disk /\ wdToPath' = wdToPath /\ fd'.queue = t
    BY <1>1, <1>2
  <2>3. \A p \in DOMAIN disk, i \in DOMAIN t :
          t[i].kind = "deleted" /\ About(t[i]) = p =>
            \E j \in DOMAIN t : j > i /\ t[j].kind = "created" /\ About(t[j]) = p
    BY <2>1
  <2> HIDE DEF t
  <2> SUFFICES ASSUME NEW p \in DOMAIN disk', NEW i \in DOMAIN fd'.queue,
                      fd'.queue[i].kind = "deleted", About(fd'.queue[i]) = p
               PROVE  \E j \in DOMAIN fd'.queue :
                        j > i /\ fd'.queue[j].kind = "created" /\ About(fd'.queue[j]) = p
    BY <2>2 DEF Ordered, About
  <2> QED BY <2>2, <2>3
<1>21. Full \in Paths
  BY <1>5, <1>6 DEF Sound
<1> QED BY <1>5, <1>6, <1>7, <1>8, <1>14, <1>15, <1>17, <1>18, <1>19, <1>20, <1>21 DEF e, q

LEMMA CreatedFollows ==
  ASSUME FollowInv, Created
  PROVE  FollowInv'
<1> USE DEF FollowInv
<1>1. /\ Takes("created") /\ UNCHANGED maps /\ wdToPath' = wdToPath /\ pathToWd' = pathToWd
      /\ index' = index /\ disk' = disk /\ work = <<>>
      /\ work' = IF Last(Full) \in Hidden THEN <<>> ELSE <<[do |-> "emit", path |-> Full]>>
  BY DEF Created, Takes, maps
<1>2. /\ Full \in Paths \ {top} /\ Watched(Front(Full))
      /\ \A kind2, p : Told(kind2, p) => Told(kind2, p)' \/ (kind2 = "created" /\ p = Full)
      /\ Watching' /\ Queue' /\ Ordered'
  BY <1>1, TakesFirst
<1>3. WatchInv'
  BY LoopInv DEF Loop
<1>4. \A p : (Watched(p)' <=> Watched(p)) /\ (IsDir(p)' <=> IsDir(p)) /\ (Visible(p)' <=> Visible(p))
             /\ ~ \E what : ToDo(what, p)
  BY <1>1 DEF Watched, IsDir, Visible, IsExcluded, ToDo
<1>5. Tree'
  BY <1>1 DEF Tree, IsDir
<1>14. PICK full : full = Full
  OBVIOUS
<1> DEFINE t == [do |-> "emit", path |-> full]
<1>6. t \in Task /\ t.do = "emit" /\ t.path = full
  BY <1>2, <1>14 DEF Task
<1> HIDE DEF t
<1>7. work' = <<>> \/ work' = <<t>>
  BY <1>1, <1>14 DEF t
<1>8. work' \in Seq(Task) /\ \A i \in DOMAIN work' : work'[i] = t
  <2>1. CASE work' = <<>>
    <3>1. <<>> \in Seq(Task) /\ DOMAIN <<>> = {} OBVIOUS
    <3> QED BY <2>1, <3>1
  <2>2. CASE work' = <<t>>
    <3>1. <<t>> \in Seq(Task) /\ \A i \in DOMAIN <<t>> : <<t>>[i] = t BY <1>6
    <3> QED BY <2>2, <3>1
  <2> QED BY <1>7, <2>1, <2>2
<1>9. Working'
  BY <1>1, <1>2, <1>4, <1>6, <1>8, <1>14 DEF Working, Watched, IsDir
<1>10. Indexed'
  <2>1. \A p : Told("deleted", p) => Told("deleted", p)'
    BY <1>2
  <2> QED BY <1>1, <1>4, <2>1 DEF Indexed
<1>11. Last(full) \notin Hidden => ToDo("emit", full)'
  <2> SUFFICES ASSUME Last(full) \notin Hidden PROVE ToDo("emit", full)'
    OBVIOUS
  <2>1. work' = <<t>> BY <1>1, <1>14 DEF t
  <2>2. 1 \in DOMAIN <<t>> /\ <<t>>[1] = t OBVIOUS
  <2>3. 1 \in DOMAIN work' /\ work'[1] = t BY <2>1, <2>2
  <2> QED BY <1>6, <2>3 DEF ToDo
<1>12. Visible(full) => Last(full) \notin Hidden
  BY <1>2, <1>14, LastIndex DEF Visible
<1>13. Following'
  <2> SUFFICES ASSUME NEW p \in DOMAIN disk \ {top}, Visible(p), Watched(Front(p))
               PROVE  /\ p \in index \/ Awaited(p)'
                      /\ IsDir(p) => Watched(p) \/ Awaited(p)' \/ ToDo("watch", p)'
    BY <1>1, <1>4 DEF Following
  <2>1. /\ p \in index \/ Awaited(p)
        /\ IsDir(p) => Watched(p) \/ Awaited(p) \/ ToDo("watch", p)
    BY DEF Following
  <2>2. Awaited(p) => Awaited(p)'
    BY <1>2, <1>4, <1>11, <1>12, <1>14 DEF Awaited
  <2> QED BY <1>4, <2>1, <2>2
<1> QED BY <1>2, <1>3, <1>5, <1>9, <1>10, <1>13

LEMMA DeletedFollows ==
  ASSUME FollowInv, Deleted
  PROVE  FollowInv'
<1> USE DEF FollowInv
<1>1. /\ Takes("deleted") /\ UNCHANGED maps /\ wdToPath' = wdToPath /\ pathToWd' = pathToWd
      /\ index' = index \ Below(Full) /\ disk' = disk /\ work = <<>> /\ work' = work
  BY DEF Deleted, Takes, maps
<1>2. /\ Full = About(Head(fd.queue)) /\ Sound(Head(fd.queue)) /\ Full \in Paths \ {top}
      /\ \A kind2, p : Told(kind2, p) => Told(kind2, p)' \/ (kind2 = "deleted" /\ p = Full)
      /\ \A p \in DOMAIN disk : p = Full => Told("created", p)'
      /\ Watching' /\ Queue' /\ Ordered'
  BY <1>1, TakesFirst
<1>3. WatchInv'
  BY LoopInv DEF Loop
<1>4. \A p : (Watched(p)' <=> Watched(p)) /\ (IsDir(p)' <=> IsDir(p)) /\ (Visible(p)' <=> Visible(p))
             /\ (\A what : ToDo(what, p)' <=> ToDo(what, p)) /\ ~ \E what : ToDo(what, p)
  BY <1>1 DEF Watched, IsDir, Visible, IsExcluded, ToDo
<1>5. Tree'
  BY <1>1 DEF Tree, IsDir
<1>6. Below(Full) = {Full}
  <2>1. ~ IsDir(Full)
    BY <1>1, <1>2 DEF Takes, Sound
  <2>2. \A r \in Below(Full) : r = Full
    BY <1>2, <2>1, PathsAssumption DEF Below
  <2>3. Full \in Below(Full)
    <3>1. Full \in Seq(STRING) BY <1>2, PathsAssumption
    <3> QED BY <1>2, <3>1, PrefixOfItself DEF Below
  <2> QED BY <2>2, <2>3
<1>7. index' = index \ {Full}
  BY <1>1, <1>6
<1>8. Working'
  BY <1>1 DEF Working, Watched, IsDir
<1>9. Indexed'
  <2>1. ASSUME NEW p \in index' \ {top}
        PROVE  Watched(Front(p)) /\ (p \in DOMAIN disk \/ Told("deleted", p)')
    BY <1>2, <1>7 DEF Indexed
  <2>2. Visible(top) => top \in index' /\ Watched(top)
    BY <1>2, <1>7 DEF Indexed
  <2>3. index' \subseteq Paths
    BY <1>7 DEF Indexed
  <2> QED BY <1>1, <1>4, <2>1, <2>2, <2>3 DEF Indexed
<1>10. Following'
  <2> SUFFICES ASSUME NEW p \in DOMAIN disk \ {top}, Visible(p), Watched(Front(p))
               PROVE  /\ p \in index' \/ Awaited(p)'
                      /\ IsDir(p) => Watched(p) \/ Awaited(p)' \/ ToDo("watch", p)'
    BY <1>1, <1>4 DEF Following
  <2>1. /\ p \in index \/ Awaited(p)
        /\ IsDir(p) => Watched(p) \/ Awaited(p) \/ ToDo("watch", p)
    BY DEF Following
  <2>2. Awaited(p) => Awaited(p)'
    BY <1>2, <1>4 DEF Awaited
  <2>3. p = Full => Awaited(p)'
    BY <1>2 DEF Awaited
  <2> QED BY <1>4, <1>7, <2>1, <2>2, <2>3
<1> QED BY <1>2, <1>3, <1>5, <1>8, <1>9, <1>10

LEMMA ModifiedFollows ==
  ASSUME FollowInv, Modified
  PROVE  FollowInv'
<1> USE DEF FollowInv
<1>1. /\ Takes("modified") /\ UNCHANGED maps /\ wdToPath' = wdToPath /\ pathToWd' = pathToWd
      /\ index' = (IF Full \in DOMAIN disk THEN index \cup {Full} ELSE index)
      /\ disk' = disk /\ work = <<>> /\ work' = work
  BY DEF Modified, Takes, maps
<1>2. /\ Full \in Paths \ {top} /\ Watched(Front(Full))
      /\ \A kind2, p : Told(kind2, p) => Told(kind2, p)' \/ (kind2 = "modified" /\ p = Full)
      /\ Watching' /\ Queue' /\ Ordered'
  BY <1>1, TakesFirst
<1>3. WatchInv'
  BY LoopInv DEF Loop
<1>4. \A p : (Watched(p)' <=> Watched(p)) /\ (IsDir(p)' <=> IsDir(p)) /\ (Visible(p)' <=> Visible(p))
             /\ (\A what : ToDo(what, p)' <=> ToDo(what, p))
  BY <1>1 DEF Watched, IsDir, Visible, IsExcluded, ToDo
<1>5. Tree'
  BY <1>1 DEF Tree, IsDir
<1>6. Working'
  BY <1>1 DEF Working, Watched, IsDir
<1>7. index \subseteq index' /\ \A p \in index' \ index : p = Full /\ p \in DOMAIN disk
  BY <1>1
<1>8. \A kind2, p : kind2 # "modified" /\ Told(kind2, p) => Told(kind2, p)'
  BY <1>2
<1>9. Indexed'
  <2>1. ASSUME NEW p \in index' \ {top}
        PROVE  Watched(Front(p)) /\ (p \in DOMAIN disk \/ Told("deleted", p)')
    BY <1>2, <1>7, <1>8 DEF Indexed
  <2>2. Visible(top) => top \in index' /\ Watched(top)
    BY <1>7 DEF Indexed
  <2>3. index' \subseteq Paths
    BY <1>2, <1>7 DEF Indexed
  <2> QED BY <1>1, <1>4, <2>1, <2>2, <2>3 DEF Indexed
<1>10. Following'
  <2> SUFFICES ASSUME NEW p \in DOMAIN disk \ {top}, Visible(p), Watched(Front(p))
               PROVE  /\ p \in index' \/ Awaited(p)'
                      /\ IsDir(p) => Watched(p) \/ Awaited(p)' \/ ToDo("watch", p)'
    BY <1>1, <1>4 DEF Following
  <2>1. /\ p \in index \/ Awaited(p)
        /\ IsDir(p) => Watched(p) \/ Awaited(p) \/ ToDo("watch", p)
    BY DEF Following
  <2>2. Awaited(p) => Awaited(p)'
    BY <1>8, <1>4 DEF Awaited
  <2> QED BY <1>4, <1>7, <2>1, <2>2
<1> QED BY <1>2, <1>3, <1>5, <1>6, <1>9, <1>10

\* The first thing to do makes way for some others.
LEMMA ThenToDo ==
  ASSUME FollowInv, NEW steps \in Seq(Task), work # <<>>, Then(steps)
  PROVE  /\ work' \in Seq(Task)
         /\ Head(work) \in Task /\ 1 \in DOMAIN work /\ Head(work) = work[1]
         /\ \A i \in DOMAIN work' :
              \/ \E j \in DOMAIN steps : work'[i] = steps[j]
              \/ \E j \in DOMAIN work : work'[i] = work[j]
         /\ \A j \in DOMAIN steps : \E i \in DOMAIN work' : work'[i] = steps[j]
         /\ \A j \in DOMAIN work : work[j] = Head(work) \/ \E i \in DOMAIN work' : work'[i] = work[j]
<1> DEFINE t == Tail(work)
<1>1. work \in Seq(Task)
  BY DEF FollowInv, Working
<1>2. /\ Head(work) \in Task /\ t \in Seq(Task) /\ Len(t) = Len(work) - 1
      /\ \A i \in 1 .. Len(t) : t[i] = work[i + 1]
  BY <1>1, HeadTailProperties
<1>3. 1 \in DOMAIN work /\ Head(work) = work[1] /\ Len(work) \in Nat /\ DOMAIN work = 1..Len(work)
  BY <1>1
<1> DEFINE w == steps \o t
<1>4. work' = w
  BY DEF Then
<1>12. /\ w \in Seq(Task) /\ Len(steps) \in Nat /\ Len(t) \in Nat
       /\ DOMAIN steps = 1..Len(steps) /\ DOMAIN t = 1..Len(t)
       /\ DOMAIN w = 1..(Len(steps) + Len(t))
       /\ \A i \in 1..Len(steps) : w[i] = steps[i]
       /\ \A i \in 1..Len(t) : w[Len(steps) + i] = t[i]
       /\ \A i \in DOMAIN w :
            \/ i \in DOMAIN steps /\ w[i] = steps[i]
            \/ i - Len(steps) \in DOMAIN t /\ i > Len(steps) /\ w[i] = t[i - Len(steps)]
  <2> HIDE DEF t
  <2> QED BY <1>2, Joined
<1> HIDE DEF t, w
<1>5. /\ work' \in Seq(Task) /\ Len(steps) \in Nat /\ Len(t) \in Nat
      /\ DOMAIN steps = 1..Len(steps) /\ DOMAIN t = 1..Len(t)
      /\ DOMAIN work' = 1..(Len(steps) + Len(t))
      /\ \A i \in 1..Len(steps) : work'[i] = steps[i]
      /\ \A i \in 1..Len(t) : work'[Len(steps) + i] = t[i]
      /\ \A i \in DOMAIN work' :
           \/ i \in DOMAIN steps /\ work'[i] = steps[i]
           \/ i - Len(steps) \in DOMAIN t /\ i > Len(steps) /\ work'[i] = t[i - Len(steps)]
  BY <1>4, <1>12
<1>6. \A i \in DOMAIN t : i + 1 \in DOMAIN work /\ t[i] = work[i + 1]
  BY <1>2, <1>3, <1>5
<1>7. \A j \in DOMAIN work : j = 1 \/ (j - 1 \in DOMAIN t /\ t[j - 1] = work[j])
  BY <1>2, <1>3, <1>5
<1>8. \A i \in DOMAIN t : Len(steps) + i \in DOMAIN work' /\ work'[Len(steps) + i] = t[i]
  BY <1>5
<1>9. \A j \in DOMAIN work : work[j] = Head(work) \/ \E i \in DOMAIN work' : work'[i] = work[j]
  BY <1>3, <1>7, <1>8
<1>10. \A j \in DOMAIN steps : \E i \in DOMAIN work' : work'[i] = steps[j]
  <2>1. \A j \in DOMAIN steps : j \in DOMAIN work' /\ work'[j] = steps[j]
    BY <1>5
  <2> QED BY <2>1
<1>11. \A i \in DOMAIN work' :
         \/ \E j \in DOMAIN steps : work'[i] = steps[j]
         \/ \E j \in DOMAIN work : work'[i] = work[j]
  BY <1>5, <1>6
<1> QED BY <1>2, <1>3, <1>5, <1>9, <1>10, <1>11

\* What is to do after a step: the others that it makes, and all but what it did.
LEMMA DoneAndToDo ==
  ASSUME FollowInv, NEW steps \in Seq(Task), work # <<>>, Then(steps),
         \A p : Watched(p) => Watched(p)',
         \A p : \A i \in DOMAIN steps : p = steps[i].path =>
           /\ p # top
           /\ steps[i].do = "list" => Watched(p)'
           /\ steps[i].do # "list" => Watched(Front(p))'
           /\ steps[i].do = "watch" => IsDir(p)
  PROVE  /\ Working'
         /\ \A what, p : ToDo(what, p) =>
              ToDo(what, p)' \/ (what = Head(work).do /\ p = Head(work).path)
         /\ \A p : \A j \in DOMAIN steps : p = steps[j].path => ToDo(steps[j].do, p)'
<1>1. /\ work' \in Seq(Task)
      /\ \A i \in DOMAIN work' :
           \/ \E j \in DOMAIN steps : work'[i] = steps[j]
           \/ \E j \in DOMAIN work : work'[i] = work[j]
      /\ \A j \in DOMAIN steps : \E i \in DOMAIN work' : work'[i] = steps[j]
      /\ \A j \in DOMAIN work : work[j] = Head(work) \/ \E i \in DOMAIN work' : work'[i] = work[j]
  BY ThenToDo
<1>2. Working'
  <2>1. \A i \in DOMAIN work :
          /\ work[i].path # top
          /\ work[i].do = "list" => Watched(work[i].path)
          /\ work[i].do # "list" => Watched(Front(work[i].path))
          /\ work[i].do = "watch" => IsDir(work[i].path)
    BY DEF FollowInv, Working
  <2>2. ASSUME NEW i \in DOMAIN work'
        PROVE  /\ work'[i].path # top
               /\ work'[i].do = "list" => work'[i].path \in DOMAIN pathToWd'
               /\ work'[i].do # "list" => Front(work'[i].path) \in DOMAIN pathToWd'
               /\ work'[i].do = "watch" => IsDir(work'[i].path)
    <3>1. CASE \E j \in DOMAIN steps : work'[i] = steps[j]
      BY <3>1 DEF Watched
    <3>2. CASE \E j \in DOMAIN work : work'[i] = work[j]
      BY <2>1, <3>2 DEF Watched
    <3> QED BY <1>1, <3>1, <3>2
  <2> QED BY <1>1, <2>2 DEF Working, Watched, IsDir
<1>3. \A what, p : ToDo(what, p) =>
        ToDo(what, p)' \/ (what = Head(work).do /\ p = Head(work).path)
  BY <1>1 DEF ToDo
<1>4. \A p : \A j \in DOMAIN steps : p = steps[j].path => ToDo(steps[j].do, p)'
  BY <1>1 DEF ToDo
<1> QED BY <1>2, <1>3, <1>4

LEMMA OneTask ==
  ASSUME NEW t \in Task
  PROVE  <<t>> \in Seq(Task) /\ 1 \in DOMAIN <<t>> /\ <<t>>[1] = t /\ \A i \in DOMAIN <<t>> : <<t>>[i] = t
  OBVIOUS

LEMMA NoTasks == <<>> \in Seq(Task) /\ DOMAIN <<>> = {}
  OBVIOUS

\* A step that leaves the maps and the queue as they are.
LEMMA QueueStays ==
  ASSUME FollowInv, UNCHANGED <<disk, fd, maps>>
  PROVE  /\ Tree' /\ Watching' /\ Queue' /\ Ordered'
         /\ \A p : (Watched(p)' <=> Watched(p)) /\ (IsDir(p)' <=> IsDir(p))
                   /\ (Visible(p)' <=> Visible(p)) /\ \A kind : Told(kind, p)' <=> Told(kind, p)
<1>1. disk' = disk /\ fd' = fd /\ wdToPath' = wdToPath /\ pathToWd' = pathToWd
  BY DEF maps
<1>2. \A p : (Watched(p)' <=> Watched(p)) /\ (IsDir(p)' <=> IsDir(p))
             /\ (Visible(p)' <=> Visible(p)) /\ \A kind : Told(kind, p)' <=> Told(kind, p)
  BY <1>1 DEF Watched, IsDir, Visible, IsExcluded, Told, In, About
<1>3. Tree' BY <1>1 DEF FollowInv, Tree, IsDir
<1>4. Watching' BY <1>1 DEF FollowInv, Watching, IsDir
<1>5. Queue' BY <1>1 DEF FollowInv, Queue, Sound, About, IsDir
<1>6. Ordered' BY <1>1 DEF FollowInv, Ordered, About
<1> QED BY <1>2, <1>3, <1>4, <1>5, <1>6

LEMMA EmitFollows ==
  ASSUME FollowInv, EmitAdded
  PROVE  FollowInv'
<1> DEFINE h == Head(work)
<1> USE DEF FollowInv
<1>1. PICK p : p = h.path
  OBVIOUS
<1>2. /\ work # <<>> /\ h.do = "emit" /\ UNCHANGED <<disk, fd, maps>> /\ disk' = disk
  BY DEF EmitAdded, Doing
<1>3. WatchInv'
  BY LoopInv DEF Loop
<1>4. /\ Tree' /\ Watching' /\ Queue' /\ Ordered'
      /\ \A r : (Watched(r)' <=> Watched(r)) /\ (IsDir(r)' <=> IsDir(r))
                /\ (Visible(r)' <=> Visible(r)) /\ \A kind : Told(kind, r)' <=> Told(kind, r)
  BY <1>2, QueueStays
<1>5. p \in Paths \ {top} /\ Watched(Front(p))
  <2>1. work \in Seq(Task) /\ work # <<>> BY <1>2 DEF Working
  <2>2. h \in Task /\ h = work[1] /\ 1 \in DOMAIN work BY <2>1
  <2> HIDE DEF h
  <2> QED BY <1>1, <1>2, <2>2 DEF Working, Task
<1> DEFINE t == [do |-> "watch", path |-> p]
<1>6. t \in Task /\ t.do = "watch" /\ t.path = p
  BY <1>5 DEF Task
<1>7. \/ /\ IsExcluded(p) \/ p \notin DOMAIN disk
         /\ Then(<<>>) /\ index' = index
      \/ /\ p \in DOMAIN disk /\ index' = index \cup {p}
         /\ IsDir(p) /\ Then(<<t>>)
      \/ /\ p \in DOMAIN disk /\ index' = index \cup {p}
         /\ ~ IsDir(p) /\ Then(<<>>)
  BY <1>1 DEF EmitAdded
<1> HIDE DEF h, t
<1>8. PICK steps \in Seq(Task) :
        /\ Then(steps)
        /\ steps = <<>> \/ (steps = <<t>> /\ IsDir(p))
        /\ \/ (IsExcluded(p) \/ p \notin DOMAIN disk) /\ index' = index
           \/ /\ p \in DOMAIN disk /\ index' = index \cup {p}
              /\ IsDir(p) => steps = <<t>>
  BY <1>6, <1>7, NoTasks, OneTask
<1>9. \A i \in DOMAIN steps : steps[i] = t /\ IsDir(p)
  BY <1>6, <1>8, NoTasks, OneTask
<1>10. /\ Working'
       /\ \A what, r : ToDo(what, r) => ToDo(what, r)' \/ (what = "emit" /\ r = p)
       /\ \A r : \A j \in DOMAIN steps : r = steps[j].path => ToDo(steps[j].do, r)'
  <2>1. /\ Working'
        /\ \A what, r : ToDo(what, r) => ToDo(what, r)' \/ (what = Head(work).do /\ r = Head(work).path)
        /\ \A r : \A j \in DOMAIN steps : r = steps[j].path => ToDo(steps[j].do, r)'
    BY <1>2, <1>4, <1>5, <1>6, <1>8, <1>9, DoneAndToDo
  <2> QED BY <1>1, <1>2, <2>1 DEF h
<1>11. steps = <<t>> => ToDo("watch", p)'
  <2>1. 1 \in DOMAIN <<t>> /\ <<t>>[1] = t BY <1>6, OneTask
  <2> QED BY <1>6, <1>10, <2>1
<1>12. index \subseteq index' /\ (\A r \in index' \ index : r = p /\ p \in DOMAIN disk)
       /\ (p \in DOMAIN disk /\ ~ IsExcluded(p) => p \in index')
  BY <1>8
<1>13. Indexed'
  <2>1. ASSUME NEW r \in index' \ {top}
        PROVE  Watched(Front(r)) /\ (r \in DOMAIN disk \/ Told("deleted", r)')
    BY <1>4, <1>5, <1>12 DEF Indexed
  <2>2. Visible(top) => top \in index' /\ Watched(top)
    BY <1>12 DEF Indexed
  <2>3. index' \subseteq Paths
    BY <1>5, <1>12 DEF Indexed
  <2> QED BY <1>2, <1>4, <2>1, <2>2, <2>3 DEF Indexed
<1>14. Following'
  <2> SUFFICES ASSUME NEW r \in DOMAIN disk \ {top}, Visible(r), Watched(Front(r))
               PROVE  /\ r \in index' \/ Awaited(r)'
                      /\ IsDir(r) => Watched(r) \/ Awaited(r)' \/ ToDo("watch", r)'
    BY <1>2, <1>4 DEF Following
  <2>1. /\ r \in index \/ Awaited(r)
        /\ IsDir(r) => Watched(r) \/ Awaited(r) \/ ToDo("watch", r)
    BY DEF Following
  <2>2. Awaited(r) => Awaited(r)' \/ r = p
    <3>1. ToDo("list", Front(r)) => ToDo("list", Front(r))'
      BY <1>10
    <3>2. ToDo("emit", r) => ToDo("emit", r)' \/ r = p
      BY <1>10
    <3> QED BY <1>4, <3>1, <3>2 DEF Awaited
  <2>3. ToDo("watch", r) => ToDo("watch", r)'
    BY <1>10
  <2>4. CASE r = p
    <3>1. p \in DOMAIN disk /\ ~ IsExcluded(p) BY <2>4 DEF Visible
    <3>2. r \in index' /\ (IsDir(r) => ToDo("watch", r)')
      BY <1>8, <1>11, <2>4, <3>1
    <3> QED BY <3>2
  <2> QED BY <1>12, <2>1, <2>2, <2>3, <2>4
<1> QED BY <1>3, <1>4, <1>10, <1>13, <1>14

\* What is done first.
LEMMA FirstTask ==
  ASSUME FollowInv, work # <<>>
  PROVE  /\ Head(work) \in Task /\ Head(work).path \in Paths \ {top}
         /\ Head(work).do = "list" => Watched(Head(work).path)
         /\ Head(work).do # "list" => Watched(Front(Head(work).path))
         /\ Head(work).do = "watch" => IsDir(Head(work).path)
<1>1. work \in Seq(Task)
  BY DEF FollowInv, Working
<1>2. 1 \in DOMAIN work /\ Head(work) = work[1] /\ work[1] \in Task
  BY <1>1
<1> QED BY <1>2 DEF FollowInv, Working, Task

LEMMA ListFollows ==
  ASSUME FollowInv, List
  PROVE  FollowInv'
<1> USE DEF FollowInv
<1>1. PICK p : p = Head(work).path
  OBVIOUS
<1> DEFINE names == {q \in Children(p) : Last(q) \notin Hidden}
           N     == Cardinality(names)
           emits == [i \in 1..N |-> [do |-> "emit", path |-> SetToSeq(names)[i]]]
<1>16. PICK steps : steps = emits
  OBVIOUS
<1>2. /\ work # <<>> /\ Head(work).do = "list" /\ UNCHANGED <<disk, fd, maps>>
      /\ disk' = disk /\ index' = index /\ Then(steps)
  BY <1>1, <1>16 DEF List, Doing
<1>3. WatchInv'
  BY LoopInv DEF Loop
<1>4. /\ Tree' /\ Watching' /\ Queue' /\ Ordered'
      /\ \A r : (Watched(r)' <=> Watched(r)) /\ (IsDir(r)' <=> IsDir(r))
                /\ (Visible(r)' <=> Visible(r)) /\ \A kind : Told(kind, r)' <=> Told(kind, r)
  BY <1>2, QueueStays
<1>5. p \in Paths \ {top} /\ Watched(p)
  BY <1>1, <1>2, FirstTask
<1>6. /\ names \subseteq Paths \ {top} /\ \A r \in names : Front(r) = p
      /\ \A r \in DOMAIN disk \ {top} : Front(r) = p /\ Last(r) \notin Hidden => r \in names
  BY DEF Children, WatchInv, Unmoved
<1>7. IsFiniteSet(names)
  <2>1. names \subseteq Paths BY <1>6
  <2> HIDE DEF names
  <2> QED BY <2>1, PathsAssumption, FS_Subset
<1> HIDE DEF names
<1>8. /\ N \in Nat /\ \A i \in 1..N : SetToSeq(names)[i] \in names
      /\ \A r \in names : \E i \in 1..N : SetToSeq(names)[i] = r
  BY <1>7, SetToSeqLists
<1>9. /\ DOMAIN steps = 1..N
      /\ \A i \in 1..N : steps[i].do = "emit" /\ steps[i].path = SetToSeq(names)[i]
  BY <1>16
<1>10. steps \in Seq(Task)
  <2>1. \A i \in 1..N : steps[i] \in Task
    BY <1>6, <1>8, <1>16 DEF Task
  <2>2. steps \in [1..N -> Task]
    BY <1>16, <2>1
  <2> QED BY <1>8, <2>2
<1> HIDE DEF emits, N
<1>11. \A i \in DOMAIN steps : steps[i].do = "emit" /\ steps[i].path # top /\ Front(steps[i].path) = p
  BY <1>6, <1>8, <1>9
<1>12. /\ Working'
       /\ \A what, r : ToDo(what, r) => ToDo(what, r)' \/ (what = "list" /\ r = p)
       /\ \A r : \A j \in DOMAIN steps : r = steps[j].path => ToDo(steps[j].do, r)'
  <2>1. /\ Working'
        /\ \A what, r : ToDo(what, r) => ToDo(what, r)' \/ (what = Head(work).do /\ r = Head(work).path)
        /\ \A r : \A j \in DOMAIN steps : r = steps[j].path => ToDo(steps[j].do, r)'
    <3>1. \A r : \A i \in DOMAIN steps : r = steps[i].path =>
            /\ r # top
            /\ steps[i].do = "list" => Watched(r)'
            /\ steps[i].do # "list" => Watched(Front(r))'
            /\ steps[i].do = "watch" => IsDir(r)
      BY <1>4, <1>5, <1>11
    <3>2. \A r : Watched(r) => Watched(r)' BY <1>4
    <3> QED BY <1>2, <1>10, <3>1, <3>2, DoneAndToDo
  <2> QED BY <1>1, <1>2, <2>1
<1>13. \A r \in names : ToDo("emit", r)'
  <2> SUFFICES ASSUME NEW r \in names PROVE ToDo("emit", r)'
    OBVIOUS
  <2>1. PICK i \in DOMAIN steps : steps[i].path = r
    BY <1>8, <1>9
  <2>2. steps[i].do = "emit" BY <1>11
  <2>3. ToDo(steps[i].do, r)' BY <1>12, <2>1
  <2> QED BY <2>2, <2>3
<1>14. Indexed'
  BY <1>2, <1>4 DEF Indexed
<1>15. Following'
  <2> SUFFICES ASSUME NEW r \in DOMAIN disk \ {top}, Visible(r), Watched(Front(r))
               PROVE  /\ r \in index \/ Awaited(r)'
                      /\ IsDir(r) => Watched(r) \/ Awaited(r)' \/ ToDo("watch", r)'
    BY <1>2, <1>4 DEF Following
  <2>1. /\ r \in index \/ Awaited(r)
        /\ IsDir(r) => Watched(r) \/ Awaited(r) \/ ToDo("watch", r)
    BY DEF Following
  <2>2. Awaited(r) => Awaited(r)'
    <3>1. ToDo("list", Front(r)) => ToDo("list", Front(r))' \/ Front(r) = p
      BY <1>12
    <3>2. ToDo("emit", r) => ToDo("emit", r)'
      BY <1>12
    <3>3. Front(r) = p => ToDo("emit", r)'
      <4>1. Last(r) \notin Hidden
        <5>1. r \in Paths \ {top} BY DEF WatchInv, Unmoved
        <5> QED BY <5>1, LastIndex DEF Visible
      <4> QED BY <1>6, <1>13, <4>1
    <3> QED BY <1>4, <3>1, <3>2, <3>3 DEF Awaited
  <2>3. ToDo("watch", r) => ToDo("watch", r)'
    BY <1>12
  <2> QED BY <2>1, <2>2, <2>3
<1> QED BY <1>3, <1>4, <1>12, <1>14, <1>15

LEMMA WatchesFinite ==
  ASSUME FollowInv
  PROVE  IsFiniteSet(DOMAIN fd.watches)
<1>1. DOMAIN fd.watches \subseteq 0..fd.next /\ fd.next \in Nat
  BY DEF FollowInv, WatchInv, Numbered
<1>2. IsFiniteSet(0..fd.next)
  BY <1>1, FS_Interval
<1> QED BY <1>1, <1>2, FS_Subset

LEMMA RoomLeft ==
  ASSUME FollowInv, Roomy
  PROVE  ~ (Cardinality(DOMAIN fd.watches) >= WatchLimit)
<1> DEFINE c == Cardinality(DOMAIN fd.watches)
<1>1. c \in Nat /\ c < WatchLimit /\ WatchLimit \in Nat
  BY WatchesFinite, FS_CardinalityType, WatcherAssumption DEF Roomy
<1> HIDE DEF c
<1>2. ~ (c >= WatchLimit)
  BY <1>1
<1> QED BY <1>2 DEF c

\* A directory is given a watch with the next number.
LEMMA WatchAdded ==
  ASSUME FollowInv, NEW p \in DOMAIN disk, IsDir(p), ~ Watched(p), disk' = disk, NEW n, n = fd.next,
         fd'.watches = With(fd.watches, n, disk[p]), fd'.queue = fd.queue,
         wdToPath' = With(wdToPath, n, p), pathToWd' = With(pathToWd, p, n)
  PROVE  /\ Tree' /\ Watching' /\ Queue' /\ Ordered'
         /\ \A r : Watched(r)' <=> Watched(r) \/ r = p
         /\ \A kind, r : Told(kind, r) => Told(kind, r)'
<1> USE DEF FollowInv
<1>2. n \notin DOMAIN wdToPath /\ n \notin DOMAIN fd.watches
  BY DEF WatchInv, Numbered
<1>3. /\ DOMAIN fd'.watches = DOMAIN fd.watches \cup {n} /\ fd'.watches[n] = disk[p]
      /\ \A w \in DOMAIN fd.watches : fd'.watches[w] = fd.watches[w]
      /\ DOMAIN wdToPath' = DOMAIN wdToPath \cup {n} /\ wdToPath'[n] = p
      /\ \A w \in DOMAIN wdToPath : wdToPath'[w] = wdToPath[w]
      /\ DOMAIN pathToWd' = DOMAIN pathToWd \cup {p}
  <2>1. /\ DOMAIN fd'.watches = DOMAIN fd.watches \cup {n} /\ fd'.watches[n] = disk[p]
        /\ \A w \in DOMAIN fd.watches : fd'.watches[w] = fd.watches[w]
    BY <1>2 DEF With, Over
  <2>2. /\ DOMAIN wdToPath' = DOMAIN wdToPath \cup {n} /\ wdToPath'[n] = p
        /\ \A w \in DOMAIN wdToPath : wdToPath'[w] = wdToPath[w]
    BY <1>2 DEF With, Over
  <2>3. DOMAIN pathToWd' = DOMAIN pathToWd \cup {p}
    BY WithOf
  <2> QED BY <2>1, <2>2, <2>3
<1>4. \A r : Watched(r)' <=> Watched(r) \/ r = p
  BY <1>3 DEF Watched
<1>5. Tree'
  BY DEF Tree, IsDir
<1>6. Watching'
  BY <1>3 DEF Watching, IsDir
<1>7. \A i \in DOMAIN fd.queue :
        /\ (About(fd.queue[i]))' = About(fd.queue[i])
        /\ fd.queue[i].wd \in DOMAIN wdToPath
  BY <1>3 DEF About, Queue, Sound
<1>8. Queue'
  BY <1>3, <1>7 DEF Queue, Sound, IsDir
<1>9. Ordered'
  BY <1>7 DEF Ordered
<1>10. \A kind, r : Told(kind, r) => Told(kind, r)'
  BY <1>7 DEF Told, In
<1> QED BY <1>4, <1>5, <1>6, <1>8, <1>9, <1>10

LEMMA AddWatchFollows ==
  ASSUME FollowInv, Roomy, AddWatch
  PROVE  FollowInv'
<1> DEFINE h   == Head(work)
           old == {w \in DOMAIN fd.watches : h.path \in DOMAIN disk /\ fd.watches[w] = disk[h.path]}
           wd  == IF old = {} THEN fd.next ELSE CHOOSE w \in old : TRUE
           n   == fd.next
<1> USE DEF FollowInv
<1>1. PICK p : p = h.path
  OBVIOUS
<1> DEFINE t == [do |-> "list", path |-> p]
<1>2. work # <<>> /\ h.do = "watch" /\ disk' = disk /\ index' = index
  BY DEF AddWatch, Doing
<1>3. WatchInv'
  BY LoopInv DEF Loop
<1>4. p \in Paths \ {top} /\ Watched(Front(p)) /\ IsDir(p)
  BY <1>1, <1>2, FirstTask
<1>5. p \in DOMAIN disk /\ p \notin DOMAIN pathToWd => old = {}
  <2> SUFFICES ASSUME p \in DOMAIN disk, p \notin DOMAIN pathToWd,
                      NEW w \in DOMAIN fd.watches, fd.watches[w] = disk[p]
               PROVE  FALSE
    BY <1>1
  <2>1. w \in DOMAIN wdToPath /\ fd.watches[w][1] = wdToPath[w] /\ disk[p][1] = p
    BY <1>4 DEF Watching, WatchInv, Placed, Unmoved
  <2> QED BY <2>1 DEF WatchInv, MapsAgree
<1>6. t \in Task /\ t.do = "list" /\ t.path = p
  BY <1>4 DEF Task
<1>7. PICK steps \in Seq(Task) :
        /\ Then(steps)
        /\ \/ steps = <<t>> /\ UNCHANGED <<fd, maps>> /\ Watched(p)
           \/ steps = <<>> /\ UNCHANGED <<fd, maps>> /\ p \notin DOMAIN disk
           \/ /\ steps = <<t>> /\ p \in DOMAIN disk /\ ~ Watched(p)
              /\ fd'.watches = With(fd.watches, n, disk[p]) /\ fd'.queue = fd.queue
              /\ wdToPath' = With(wdToPath, n, p) /\ pathToWd' = With(pathToWd, p, n)
  <2>0. <<t>> \in Seq(Task) /\ <<>> \in Seq(Task)
    BY <1>6, NoTasks, OneTask
  <2>1. CASE p \in DOMAIN pathToWd
    <3>1. Then(<<t>>) /\ UNCHANGED <<fd, maps>>
      BY <1>1, <2>1 DEF AddWatch
    <3> QED BY <2>0, <2>1, <3>1 DEF Watched
  <2>2. CASE p \notin DOMAIN pathToWd /\ p \notin DOMAIN disk
    <3>1. Then(<<>>) /\ UNCHANGED <<fd, maps>>
      BY <1>1, <2>2 DEF AddWatch
    <3> QED BY <2>0, <2>2, <3>1
  <2>3. CASE p \notin DOMAIN pathToWd /\ p \in DOMAIN disk
    <3>1. old = {} /\ wd = n BY <1>5, <2>3
    <3>2. ~ (Cardinality(DOMAIN fd.watches) >= WatchLimit)
      BY RoomLeft
    <3>3. /\ Then(<<t>>)
          /\ fd' = [fd EXCEPT !.watches = With(@, n, disk[p]), !.next = n + 1]
          /\ wdToPath' = With(wdToPath, n, p) /\ pathToWd' = With(pathToWd, p, n)
      BY <1>1, <2>3, <3>1, <3>2 DEF AddWatch
    <3>4. fd'.watches = With(fd.watches, n, disk[p]) /\ fd'.queue = fd.queue
      BY <3>3 DEF WatchInv, Numbered
    <3> QED BY <2>0, <2>3, <3>3, <3>4 DEF Watched
  <2> QED BY <2>1, <2>2, <2>3
<1> HIDE DEF h, t, old, wd
<1>8. /\ Tree' /\ Watching' /\ Queue' /\ Ordered'
      /\ \A r : Watched(r)' <=> Watched(r) \/ (r = p /\ p \in DOMAIN disk)
      /\ \A kind, r : Told(kind, r) => Told(kind, r)'
  <2>1. CASE UNCHANGED <<fd, maps>> /\ (Watched(p) \/ p \notin DOMAIN disk)
    <3>1. /\ Tree' /\ Watching' /\ Queue' /\ Ordered'
          /\ \A r : (Watched(r)' <=> Watched(r)) /\ \A kind : Told(kind, r)' <=> Told(kind, r)
      BY <1>2, <2>1, QueueStays
    <3> QED BY <2>1, <3>1
  <2>2. CASE /\ p \in DOMAIN disk /\ ~ Watched(p)
             /\ fd'.watches = With(fd.watches, n, disk[p]) /\ fd'.queue = fd.queue
             /\ wdToPath' = With(wdToPath, n, p) /\ pathToWd' = With(pathToWd, p, n)
    <3>1. /\ Tree' /\ Watching' /\ Queue' /\ Ordered'
          /\ \A r : Watched(r)' <=> Watched(r) \/ r = p
          /\ \A kind, r : Told(kind, r) => Told(kind, r)'
      BY <1>2, <1>4, <2>2, WatchAdded
    <3> QED BY <2>2, <3>1
  <2> QED BY <1>7, <2>1, <2>2
<1> HIDE DEF n
<1>9. /\ \A i \in DOMAIN steps : steps[i] = t /\ Watched(p)'
      /\ p \in DOMAIN disk => Watched(p)' /\ \E i \in DOMAIN steps : steps[i] = t
  <2>1. CASE steps = <<>> /\ p \notin DOMAIN disk
    BY <2>1, NoTasks
  <2>2. CASE steps = <<t>> /\ Watched(p)'
    BY <1>6, <2>2, OneTask
  <2> QED BY <1>7, <1>8, <2>1, <2>2
<1>10. /\ Working'
       /\ \A what, r : ToDo(what, r) => ToDo(what, r)' \/ (what = "watch" /\ r = p)
       /\ \A r : \A j \in DOMAIN steps : r = steps[j].path => ToDo(steps[j].do, r)'
  <2>1. /\ Working'
        /\ \A what, r : ToDo(what, r) => ToDo(what, r)' \/ (what = Head(work).do /\ r = Head(work).path)
        /\ \A r : \A j \in DOMAIN steps : r = steps[j].path => ToDo(steps[j].do, r)'
    BY <1>2, <1>4, <1>6, <1>7, <1>8, <1>9, DoneAndToDo
  <2> QED BY <1>1, <1>2, <2>1 DEF h
<1>11. p \in DOMAIN disk => ToDo("list", p)'
  BY <1>6, <1>9, <1>10
<1>12. Indexed'
  BY <1>2, <1>8 DEF Indexed, Visible, IsExcluded
<1>13. Following'
  <2> SUFFICES ASSUME NEW r \in DOMAIN disk \ {top}, Visible(r), Watched(Front(r))'
               PROVE  /\ r \in index \/ Awaited(r)'
                      /\ IsDir(r) => Watched(r)' \/ Awaited(r)' \/ ToDo("watch", r)'
    BY <1>2 DEF Following, Visible, IsExcluded, IsDir
  <2>1. CASE ~ Watched(Front(r))
    <3>1. Front(r) = p /\ p \in DOMAIN disk BY <1>8, <2>1
    <3>2. ToDo("list", Front(r))' BY <1>11, <3>1
    <3> QED BY <3>2 DEF Awaited
  <2>2. CASE Watched(Front(r))
    <3>1. /\ r \in index \/ Awaited(r)
          /\ IsDir(r) => Watched(r) \/ Awaited(r) \/ ToDo("watch", r)
      BY <2>2 DEF Following
    <3>2. Awaited(r) => Awaited(r)'
      <4>1. ToDo("list", Front(r)) => ToDo("list", Front(r))' BY <1>10
      <4>2. ToDo("emit", r) => ToDo("emit", r)' BY <1>10
      <4> QED BY <1>8, <4>1, <4>2 DEF Awaited
    <3>3. Watched(r) => Watched(r)' BY <1>8
    <3>4. ToDo("watch", r) => ToDo("watch", r)' \/ Watched(r)' BY <1>8, <1>10
    <3> QED BY <3>1, <3>2, <3>3, <3>4
  <2> QED BY <2>1, <2>2
<1> QED BY <1>3, <1>8, <1>10, <1>12, <1>13

LEMMA LoopFollows ==
  ASSUME FollowInv, Roomy, Loop
  PROVE  FollowInv'
<1>1. ASSUME fd.queue # <<>>
      PROVE  Head(fd.queue).wd \in DOMAIN wdToPath /\ Head(fd.queue).kind # "self"
  <2>1. fd.queue \in Seq(QEvent) /\ \A i \in DOMAIN fd.queue : Sound(fd.queue[i])
    BY DEF FollowInv, Queue
  <2>2. 1 \in DOMAIN fd.queue /\ Head(fd.queue) = fd.queue[1] /\ fd.queue[1] \in QEvent
    BY <1>1, <2>1
  <2> QED BY <2>1, <2>2 DEF QEvent, Sound
<1>2. ~ Unknown /\ ~ Self
  BY <1>1 DEF Unknown, Self, Takes
<1> QED BY <1>2, CreatedFollows, DeletedFollows, ModifiedFollows, EmitFollows, AddWatchFollows,
           ListFollows DEF Loop

-----------------------------------------------------------------------------
(* The start, and what holds when every event is handled.                  *)

LEMMA VisibleParent ==
  ASSUME NEW p \in Paths \ {top}, Visible(p)
  PROVE  Visible(Front(p))
<1> DEFINE f == Front(p)
<1>1. p \in Seq(STRING) /\ f \in Seq(STRING) /\ IsPrefix(f, p) /\ Len(f) < Len(p)
  BY PathParts
<1> HIDE DEF f
<1>2. \A n \in Nat : n <= Len(f) => \A i \in 1..n : f[i] = p[i]
  <2>1. SubSeq(f, 1, Len(f)) = SubSeq(p, 1, Len(f))
    BY <1>1 DEF IsPrefix
  <2>2. /\ \A i \in 1..Len(f) : SubSeq(f, 1, Len(f))[i] = f[i]
        /\ \A i \in 1..Len(f) : SubSeq(p, 1, Len(f))[i] = p[i]
    BY <1>1
  <2>3. Len(f) \in Nat BY <1>1
  <2> QED BY <2>1, <2>2, <2>3
<1>3. ASSUME NEW e \in Excluded, IsPrefix(e, f)
      PROVE  IsPrefix(e, p)
  <2> DEFINE n == Len(e)
  <2>1. n \in Nat /\ n <= Len(f) /\ SubSeq(e, 1, n) = SubSeq(f, 1, n)
    BY <1>3, PathsAssumption DEF IsPrefix
  <2> HIDE DEF n
  <2>2. Len(f) \in Nat /\ Len(p) \in Nat BY <1>1
  <2>3. /\ SubSeq(f, 1, n) \in Seq(STRING) /\ SubSeq(p, 1, n) \in Seq(STRING)
        /\ Len(SubSeq(f, 1, n)) = n /\ Len(SubSeq(p, 1, n)) = n
        /\ \A i \in 1..n : SubSeq(f, 1, n)[i] = f[i] /\ SubSeq(p, 1, n)[i] = p[i]
    BY <1>1, <2>1, <2>2
  <2>4. \A i \in 1..n : SubSeq(f, 1, n)[i] = SubSeq(p, 1, n)[i]
    BY <1>2, <2>1, <2>3
  <2>5. SubSeq(f, 1, n) = SubSeq(p, 1, n)
    BY <2>3, <2>4, SeqEqual
  <2>6. n <= Len(p)
    BY <1>1, <2>1, <2>2
  <2> QED BY <2>1, <2>5, <2>6 DEF IsPrefix, n
<1>4. ASSUME NEW i \in DOMAIN f
      PROVE  f[i] \notin Hidden
  <2>1. i \in DOMAIN p /\ f[i] = p[i]
    BY <1>1, <1>2
  <2> QED BY <2>1 DEF Visible
<1> QED BY <1>3, <1>4 DEF Visible, IsExcluded, f

LEMMA FollowInit == Init => FollowInv
<1> SUFFICES ASSUME Init PROVE FollowInv
  OBVIOUS
<1>1. WatchInv
  BY InitInv
<1>2. /\ DOMAIN disk \in Trees /\ \A p \in DOMAIN disk : disk[p] = <<p, 0>>
      /\ DOMAIN wdToPath = DOMAIN fd.watches /\ fd.queue = <<>> /\ work = <<>> /\ index = Scanned
      /\ \A w \in DOMAIN wdToPath :
           /\ wdToPath[w] \in Scanned /\ IsDir(wdToPath[w]) /\ fd.watches[w] = disk[wdToPath[w]]
      /\ DOMAIN pathToWd = {p \in Scanned : IsDir(p)}
  <2>1. PICK n \in Nat :
          /\ fd = [watches |-> fd.watches, next |-> n + 1, queue |-> <<>>]
          /\ DOMAIN fd.watches = 1..n /\ DOMAIN wdToPath = 1..n
    BY InitWatches
  <2>2. fd.queue = <<>> BY <2>1
  <2>3. work = <<>> /\ index = Scanned BY DEF Init
  <2> QED BY <2>1, <2>2, <2>3, InitWatches
<1>3. DOMAIN disk \subseteq Paths /\ Scanned \subseteq DOMAIN disk
  BY <1>2, WatcherAssumption DEF Scanned
<1>4. Tree
  <2>1. \A p \in DOMAIN disk : disk[p][1] = p BY <1>2
  <2> QED BY <1>2, <2>1, WatcherAssumption DEF Tree
<1>5. Watching
  BY <1>2, <1>3 DEF Watching
<1>6. Queue
  <2>1. <<>> \in Seq(QEvent) /\ DOMAIN <<>> = {} OBVIOUS
  <2> QED BY <1>2, <2>1 DEF Queue
<1>7. Working
  BY <1>2, NoTasks DEF Working
<1>8. \A p \in Scanned \ {top} : Watched(Front(p))
  <2> SUFFICES ASSUME NEW p \in Scanned \ {top} PROVE Watched(Front(p))
    OBVIOUS
  <2>1. Front(p) \in DOMAIN disk /\ IsDir(Front(p))
    BY <1>1, <1>3, <1>4, Parent DEF WatchInv
  <2>2. Visible(Front(p))
    BY <1>3, VisibleParent DEF Scanned
  <2> QED BY <1>2, <2>1, <2>2 DEF Watched, Scanned
<1>9. Indexed
  <2>1. Visible(top) => top \in Scanned /\ Watched(top)
    BY <1>2, <1>4 DEF Tree, Scanned, Watched, IsDir
  <2> QED BY <1>2, <1>3, <1>8, <2>1 DEF Indexed
<1>10. Ordered
  <2>1. DOMAIN fd.queue = {} BY <1>2
  <2> QED BY <2>1 DEF Ordered
<1>11. Following
  BY <1>2 DEF Following, Scanned, Watched
<1> QED BY <1>1, <1>4, <1>5, <1>6, <1>7, <1>9, <1>10, <1>11 DEF FollowInv

LEMMA LeastNat ==
  ASSUME NEW T, T \subseteq Nat, T # {}
  PROVE  \E m \in T : \A k \in T : m <= k
<1> DEFINE R == OpToRel(<, Nat)
<1>1. IsWellFoundedOn(R, Nat)
  BY NatLessThanWellFounded
<1>2. \A k, m \in Nat : k < m => <<k, m>> \in R
  BY DEF OpToRel
<1> HIDE DEF R
<1>3. PICK m \in T : \A k \in T : <<k, m>> \notin R
  BY <1>1, WFMin
<1>4. ASSUME NEW k \in T PROVE m <= k
  <2>1. k \in Nat /\ m \in Nat /\ ~ (k < m)
    BY <1>2, <1>3
  <2> QED BY <2>1
<1> QED BY <1>3, <1>4

LEMMA NothingLeftToDo ==
  ASSUME Settled
  PROVE  \A p : ~ Awaited(p) /\ \A what : ~ ToDo(what, p) /\ ~ Told(what, p)
<1>1. DOMAIN fd.queue = {} /\ DOMAIN work = {}
  BY DEF Settled
<1> QED BY <1>1 DEF Awaited, Told, In, ToDo

\* Of the directories without a watch none is the first on its path: the one it
\* is in has a watch, so that it would have been told.
LEMMA SettledWatched ==
  ASSUME FollowInv, Settled
  PROVE  \A p \in DOMAIN disk : IsDir(p) /\ Visible(p) => Watched(p)
<1> DEFINE Lost == {p \in DOMAIN disk : IsDir(p) /\ Visible(p) /\ ~ Watched(p)}
           T    == {Len(p) : p \in Lost}
<1> SUFFICES ASSUME Lost # {} PROVE FALSE
  OBVIOUS
<1>1. DOMAIN disk \subseteq Paths
  BY DEF FollowInv, WatchInv, Unmoved
<1>2. T \subseteq Nat /\ T # {}
  <2>1. \A p \in DOMAIN disk : p \in Seq(STRING) BY <1>1, PathsAssumption
  <2>2. \A p \in DOMAIN disk : Len(p) \in Nat BY <2>1
  <2> QED BY <2>2
<1>3. PICK p \in Lost : \A r \in Lost : Len(p) <= Len(r)
  <2>1. PICK m \in T : \A k \in T : m <= k
    <3> HIDE DEF T
    <3> QED BY <1>2, LeastNat
  <2> HIDE DEF Lost
  <2> QED BY <2>1
<1>4. p # top
  BY <1>3 DEF FollowInv, Indexed
<1>5. Front(p) \in DOMAIN disk /\ IsDir(Front(p)) /\ Visible(Front(p)) /\ Len(Front(p)) < Len(p)
  <2>1. Front(p) \in DOMAIN disk /\ IsDir(Front(p))
    BY <1>4, Parent DEF FollowInv, WatchInv
  <2>2. Visible(Front(p)) /\ Len(Front(p)) < Len(p)
    BY <1>1, <1>4, VisibleParent, PathParts
  <2> QED BY <2>1, <2>2
<1>6. Watched(Front(p))
  <2>1. \A r \in Lost : Len(p) \in Nat /\ Len(r) \in Nat
    BY <1>1, PathsAssumption
  <2>2. Front(p) \notin Lost
    <3> HIDE DEF Lost
    <3> QED BY <1>3, <1>5, <2>1
  <2> QED BY <1>5, <2>2
<1>7. Watched(p) \/ Awaited(p) \/ ToDo("watch", p)
  BY <1>3, <1>4, <1>6 DEF FollowInv, Following
<1> QED BY <1>3, <1>7, NothingLeftToDo

LEMMA FollowStep ==
  ASSUME "move dir" \notin Happenings, FollowInv, Roomy, Roomy', [Next]_vars, [DirsStay]_vars
  PROVE  FollowInv'
<1>1. CASE UNCHANGED vars
  <2>1. /\ UNCHANGED <<disk, fd, maps>> /\ UNCHANGED <<disk, fd, maps, work, index>>
        /\ work' = work /\ index' = index /\ disk' = disk
    BY <1>1 DEF vars
  <2>2. Tree' /\ Watching' /\ Queue' /\ Ordered'
        /\ \A p : (Watched(p)' <=> Watched(p)) /\ (IsDir(p)' <=> IsDir(p))
                  /\ (Visible(p)' <=> Visible(p)) /\ \A kind : Told(kind, p)' <=> Told(kind, p)
    BY <2>1, QueueStays
  <2>3. \A what, p : ToDo(what, p)' <=> ToDo(what, p)
    BY <2>1 DEF ToDo
  <2>4. WatchInv'
    BY <2>1, SameAll DEF FollowInv
  <2>5. Working'
    BY <2>1, <2>2 DEF FollowInv, Working, Watched, IsDir, maps
  <2>6. Indexed'
    BY <2>1, <2>2 DEF FollowInv, Indexed
  <2>7. Following'
    BY <2>1, <2>2, <2>3 DEF FollowInv, Following, Awaited
  <2> QED BY <2>2, <2>4, <2>5, <2>6, <2>7 DEF FollowInv
<1>2. CASE Disk /\ DirsStay
  BY <1>2, DiskFollows
<1>3. CASE Loop
  BY <1>3, LoopFollows
<1>4. Idle => UNCHANGED vars
  BY DEF Idle
<1> QED BY <1>1, <1>2, <1>3, <1>4 DEF Next

\* As long as no directory goes and the limits of inotify are not met, whenever
\* every event is handled each directory that the index should cover has a watch
\* under its own path, whatever files and directories have come, been renamed
\* and gone at whatever moment of the scan of a new directory.
THEOREM NewDirectoriesWatched ==
  "move dir" \notin Happenings =>
    (Spec /\ [][DirsStay]_vars /\ []Roomy => []EveryDirectoryWatched)
<1> SUFFICES ASSUME "move dir" \notin Happenings
             PROVE  Spec /\ [][DirsStay]_vars /\ []Roomy => []EveryDirectoryWatched
  OBVIOUS
<1>1. FollowInv /\ Roomy /\ Roomy' /\ [Next]_vars /\ [DirsStay]_vars => FollowInv'
  BY FollowStep
<1>2. FollowInv => EveryDirectoryWatched
  <2> SUFFICES ASSUME FollowInv, Settled, NEW p \in DOMAIN disk, IsDir(p), Visible(p)
               PROVE  /\ p \in DOMAIN pathToWd
                      /\ pathToWd[p] \in DOMAIN fd.watches /\ fd.watches[pathToWd[p]] = disk[p]
    BY DEF EveryDirectoryWatched
  <2>1. p \in DOMAIN pathToWd
    BY SettledWatched DEF Watched
  <2>2. pathToWd[p] \in DOMAIN wdToPath /\ wdToPath[pathToWd[p]] = p
    BY <2>1 DEF FollowInv, WatchInv, MapsAgree
  <2> QED BY <2>1, <2>2 DEF FollowInv, Watching
<1> QED BY FollowInit, <1>1, <1>2, PTL DEF Spec

\* Under the same conditions the index is then what a full scan would find, but for
\* hidden and excluded paths: no file that came is missed, none that went is kept.
THEOREM IndexFollowsDisk ==
  "move dir" \notin Happenings =>
    (Spec /\ [][DirsStay]_vars /\ []Roomy => []SettledIsCurrent)
<1> SUFFICES ASSUME "move dir" \notin Happenings
             PROVE  Spec /\ [][DirsStay]_vars /\ []Roomy => []SettledIsCurrent
  OBVIOUS
<1>1. FollowInv /\ Roomy /\ Roomy' /\ [Next]_vars /\ [DirsStay]_vars => FollowInv'
  BY FollowStep
<1>2. FollowInv => SettledIsCurrent
  <2> SUFFICES ASSUME FollowInv, Settled PROVE Current
    BY DEF SettledIsCurrent
  <2>1. \A p : ~ Awaited(p) /\ ~ Told("deleted", p)
    BY NothingLeftToDo
  <2>2. ASSUME NEW p \in index, Visible(p)
        PROVE  p \in Scanned
    <3>1. p \in DOMAIN disk
      BY <2>1 DEF FollowInv, Indexed, Tree
    <3> QED BY <2>2, <3>1 DEF Scanned
  <2>3. ASSUME NEW p \in DOMAIN disk, Visible(p)
        PROVE  p \in index
    <3>1. CASE p = top
      BY <2>3, <3>1 DEF FollowInv, Indexed
    <3>2. CASE p # top
      <4>1. Front(p) \in DOMAIN disk /\ IsDir(Front(p))
        BY <3>2, Parent DEF FollowInv, WatchInv
      <4>2. Visible(Front(p))
        BY <2>3, <3>2, VisibleParent DEF FollowInv, WatchInv, Unmoved
      <4>3. Watched(Front(p))
        BY <4>1, <4>2, SettledWatched
      <4>4. p \in index \/ Awaited(p)
        BY <2>3, <3>2, <4>3 DEF FollowInv, Following
      <4> QED BY <2>1, <4>4
    <3> QED BY <3>1, <3>2
  <2> QED BY <2>2, <2>3 DEF Current, Scanned
<1> QED BY FollowInit, <1>1, <1>2, PTL DEF Spec
=============================================================================
