--------------------------- MODULE IndexerProofs ---------------------------
(* Proofs about module Indexer: for any tree, any roots and any number of  *)
(* worker threads the scan never ends early, never loses a directory and,  *)
(* for roots that are apart, enters no path twice.                         *)
EXTENDS Indexer, TLAPS, FiniteSetTheorems, SequenceTheorems

-----------------------------------------------------------------------------
(* The members of a queue.                                                 *)

LEMMA MembersAppend ==
  ASSUME NEW S, NEW s \in Seq(S), NEW e \in S
  PROVE  Append(s, e) \in Seq(S) /\ ToSet(Append(s, e)) = ToSet(s) \cup {e}
<1>1. /\ Append(s, e) \in Seq(S) /\ Len(s) \in Nat /\ Len(Append(s, e)) = Len(s) + 1
      /\ Append(s, e)[Len(s) + 1] = e
      /\ \A i \in 1..Len(s) : Append(s, e)[i] = s[i]
  OBVIOUS
<1>2. DOMAIN s = 1..Len(s) /\ DOMAIN Append(s, e) = 1..Len(s) \cup {Len(s) + 1}
  BY <1>1
<1> QED BY <1>1, <1>2 DEF ToSet

LEMMA MembersTail ==
  ASSUME NEW S, NEW s \in Seq(S), s # <<>>
  PROVE  /\ Tail(s) \in Seq(S) /\ Head(s) \in S
         /\ ToSet(s) = {Head(s)} \cup ToSet(Tail(s))
<1>1. /\ Tail(s) \in Seq(S) /\ Head(s) = s[1] /\ Len(s) \in Nat \ {0} /\ Len(Tail(s)) = Len(s) - 1
      /\ \A i \in 1..(Len(s) - 1) : Tail(s)[i] = s[i + 1]
  BY HeadTailProperties
<1>2. DOMAIN s = 1..Len(s) /\ DOMAIN Tail(s) = 1..(Len(s) - 1)
  BY <1>1
<1>3. \A i \in 1..Len(s) : i = 1 \/ (i - 1 \in 1..(Len(s) - 1) /\ s[i] = Tail(s)[i - 1])
  BY <1>1
<1>4. \A i \in 1..(Len(s) - 1) : i + 1 \in 1..Len(s)
  BY <1>1
<1>5. Head(s) \in S
  BY <1>1
<1>6. ASSUME NEW i \in DOMAIN s
      PROVE  s[i] \in {Head(s)} \cup ToSet(Tail(s))
  BY <1>1, <1>2, <1>3 DEF ToSet
<1>7. ASSUME NEW i \in DOMAIN Tail(s)
      PROVE  Tail(s)[i] \in ToSet(s)
  BY <1>1, <1>2, <1>4 DEF ToSet
<1>8. Head(s) \in ToSet(s)
  BY <1>1, <1>2 DEF ToSet
<1>9. ToSet(s) \subseteq {Head(s)} \cup ToSet(Tail(s))
  BY <1>6 DEF ToSet
<1>10. ToSet(Tail(s)) \subseteq ToSet(s)
  BY <1>7 DEF ToSet
<1> QED BY <1>1, <1>5, <1>8, <1>9, <1>10

LEMMA MembersOf ==
  ASSUME NEW S, NEW s \in Seq(S)
  PROVE  ToSet(s) \subseteq S /\ (s = <<>> => ToSet(s) = {})
BY DEF ToSet

-----------------------------------------------------------------------------
(* Types and control.                                                      *)

LEMMA BusyHasDir ==
  ASSUME TypeOK, Control, NEW t \in Threads,
         pc[t] \in {"open", "read", "push", "done"}
  PROVE  t \in Busy /\ dir[t] \in Paths
BY DEF TypeOK, Control, Busy

LEMMA TypeStep ==
  ASSUME TypeOK, Control, [Next]_vars
  PROVE  TypeOK'
<1> USE IndexerAssumption
<1>1. CASE PushRoot
  <2> DEFINE r == Head(toPush)
  <2>1. r \in Paths /\ Tail(toPush) \in Seq(Paths)
    BY <1>1, MembersTail DEF PushRoot, TypeOK
  <2>2. Append(queue, r) \in Seq(Paths)
    BY <2>1, MembersAppend DEF TypeOK
  <2>3. queue' \in Seq(Paths) /\ waiting' \subseteq Threads
    BY <1>1, <2>2 DEF PushRoot, Push, NotifyOne, TypeOK
  <2>4. visitedDirs' \subseteq {Inode[p] : p \in Paths}
    BY <1>1, <2>1 DEF PushRoot, TypeOK
  <2> QED BY <1>1, <2>1, <2>3, <2>4 DEF PushRoot, TypeOK
<1>2. CASE StartWorkers \/ JoinAndMerge
  BY <1>2 DEF StartWorkers, JoinAndMerge, TypeOK
<1>3. CASE Finished \/ UNCHANGED vars
  BY <1>3 DEF Finished, vars, TypeOK
<1>4. ASSUME NEW t \in Threads, Claim(t)
      PROVE  TypeOK'
  <2>1. Head(queue) \in Paths /\ Tail(queue) \in Seq(Paths)
    BY <1>4, MembersTail DEF Claim, TypeOK
  <2> QED BY <1>4, <2>1 DEF Claim, Goto, TypeOK
<1>5. ASSUME NEW t \in Threads, Wait(t) \/ Exit(t) \/ SpuriousWakeup(t)
      PROVE  TypeOK'
  BY <1>5 DEF Wait, Exit, SpuriousWakeup, Goto, TypeOK
<1>6. ASSUME NEW t \in Threads, OpenDir(t)
      PROVE  TypeOK'
  <2>1. Children[dir[t]] \in SUBSET Paths
    BY <1>6, BusyHasDir DEF OpenDir, At
  <2> QED BY <1>6, <2>1 DEF OpenDir, Goto, TypeOK
<1>7. ASSUME NEW t \in Threads, ReadName(t)
      PROVE  TypeOK'
  <2>1. PICK p \in names[t] :
          /\ names' = [names EXCEPT ![t] = @ \ {p}]
          /\ IF Rejected(p) \/ p \in NoStat THEN UNCHANGED <<found, subdirs, visitedDirs>>
             ELSE /\ found' = [found EXCEPT ![p] = @ + 1]
                  /\ IF IsDir(p) /\ MustQueue(p)
                     THEN /\ subdirs' = [subdirs EXCEPT ![t] = Append(@, p)]
                          /\ visitedDirs' = IF cfg.follow_symlinks THEN visitedDirs \cup {Inode[p]}
                                            ELSE visitedDirs
                     ELSE UNCHANGED <<subdirs, visitedDirs>>
    BY <1>7 DEF ReadName
  <2>2. p \in Paths /\ subdirs[t] \in Seq(Paths) /\ names[t] \in SUBSET Paths
    BY DEF TypeOK
  <2>3. Append(subdirs[t], p) \in Seq(Paths)
    BY <2>2, MembersAppend
  <2>4. names' \in [Threads -> SUBSET Paths]
    <3>1. names[t] \ {p} \in SUBSET Paths
      BY <2>2
    <3> QED BY <2>1, <3>1 DEF TypeOK
  <2>5. found' \in [Paths -> Nat]
    <3>1. [found EXCEPT ![p] = @ + 1] \in [Paths -> Nat]
      BY <2>2 DEF TypeOK
    <3>2. found' = found \/ found' = [found EXCEPT ![p] = @ + 1]
      BY <2>1
    <3> QED BY <3>1, <3>2 DEF TypeOK
  <2>6. subdirs' \in [Threads -> Seq(Paths)]
    <3>1. [subdirs EXCEPT ![t] = Append(@, p)] \in [Threads -> Seq(Paths)]
      BY <2>3 DEF TypeOK
    <3>2. subdirs' = subdirs \/ subdirs' = [subdirs EXCEPT ![t] = Append(@, p)]
      BY <2>1
    <3> QED BY <3>1, <3>2 DEF TypeOK
  <2>7. visitedDirs' \subseteq {Inode[q] : q \in Paths}
    BY <2>1, <2>2 DEF TypeOK
  <2> QED BY <1>7, <2>4, <2>5, <2>6, <2>7 DEF ReadName, TypeOK
<1>8. ASSUME NEW t \in Threads, CloseDir(t) \/ AllPushed(t)
      PROVE  TypeOK'
  BY <1>8 DEF CloseDir, AllPushed, Goto, TypeOK
<1>9. ASSUME NEW t \in Threads, PushSubdir(t)
      PROVE  TypeOK'
  <2> DEFINE d == Head(subdirs[t])
  <2>1. d \in Paths /\ Tail(subdirs[t]) \in Seq(Paths)
    BY <1>9, MembersTail DEF PushSubdir, TypeOK
  <2>2. Append(queue, d) \in Seq(Paths)
    BY <2>1, MembersAppend DEF TypeOK
  <2>3. waiting' \subseteq Threads
    BY <1>9 DEF PushSubdir, Push, NotifyOne, TypeOK
  <2> QED BY <1>9, <2>1, <2>2, <2>3 DEF PushSubdir, Push, TypeOK
<1>10. ASSUME NEW t \in Threads, DoneDir(t)
       PROVE  TypeOK'
  <2>1. dir[t] \in Paths
    BY <1>10, BusyHasDir DEF DoneDir, At
  <2> QED BY <1>10, <2>1 DEF DoneDir, WakeIfIdle, Goto, TypeOK
<1> QED BY <1>1, <1>2, <1>3, <1>4, <1>5, <1>6, <1>7, <1>8, <1>9, <1>10 DEF Next, Worker

LEMMA ControlStep ==
  ASSUME TypeOK, Control, [Next]_vars
  PROVE  Control'
<1> USE IndexerAssumption DEF Control, Busy
<1>1. CASE PushRoot
  BY <1>1 DEF PushRoot, Push, NotifyOne, TypeOK
<1>2. CASE StartWorkers \/ JoinAndMerge
  BY <1>2 DEF StartWorkers, JoinAndMerge
<1>3. CASE Finished \/ UNCHANGED vars
  BY <1>3 DEF Finished, vars
<1>4. ASSUME NEW t \in Threads, Claim(t)
      PROVE  Control'
  <2>1. Head(queue) \in Paths
    BY <1>4, MembersTail DEF Claim, TypeOK
  <2> QED BY <1>4, <2>1 DEF Claim, At, Running, Goto, TypeOK
<1>5. ASSUME NEW t \in Threads, Wait(t) \/ Exit(t) \/ SpuriousWakeup(t)
      PROVE  Control'
  BY <1>5 DEF Wait, Exit, SpuriousWakeup, At, Running, Goto, TypeOK
<1>6. ASSUME NEW t \in Threads, OpenDir(t)
      PROVE  Control'
  BY <1>6 DEF OpenDir, At, Running, Goto, TypeOK
<1>7. ASSUME NEW t \in Threads, ReadName(t)
      PROVE  Control'
  <2>1. /\ main = "join" /\ pc[t] = "read" /\ t \notin waiting
        /\ UNCHANGED <<main, toPush, waiting, pc, dir>>
    BY <1>7 DEF ReadName, At, Running
  <2>2. \A u \in Threads : u # t => names'[u] = names[u] /\ subdirs'[u] = subdirs[u]
    BY <1>7 DEF ReadName, TypeOK
  <2> QED BY <2>1, <2>2
<1>8. ASSUME NEW t \in Threads, CloseDir(t) \/ AllPushed(t)
      PROVE  Control'
  BY <1>8 DEF CloseDir, AllPushed, At, Running, Goto, TypeOK
<1>9. ASSUME NEW t \in Threads, PushSubdir(t)
      PROVE  Control'
  <2>1. /\ main = "join" /\ pc[t] = "push" /\ UNCHANGED <<main, toPush, pc, dir, names>>
        /\ waiting' \subseteq waiting
        /\ \A u \in Threads : u # t => subdirs'[u] = subdirs[u]
    BY <1>9 DEF PushSubdir, Push, NotifyOne, At, Running, TypeOK
  <2> QED BY <2>1
<1>10. ASSUME NEW t \in Threads, DoneDir(t)
       PROVE  Control'
  BY <1>10 DEF DoneDir, WakeIfIdle, At, Running, Goto, TypeOK
<1> QED BY <1>1, <1>2, <1>3, <1>4, <1>5, <1>6, <1>7, <1>8, <1>9, <1>10 DEF Next, Worker

-----------------------------------------------------------------------------
(* The end of the scan.                                                    *)

LEMMA BusyFinite == IsFiniteSet(Busy) /\ Cardinality(Busy) \in Nat
<1>1. Busy \in SUBSET Threads
  BY DEF Busy
<1> QED BY <1>1, IndexerAssumption, FS_Subset, FS_CardinalityType

LEMMA NoEarlyExitStep ==
  ASSUME TypeOK, Control, NoEarlyExit, [Next]_vars
  PROVE  NoEarlyExit'
<1> DEFINE Ended == \E t \in Threads : pc[t] = "exited"
<1>1. CASE PushRoot \/ StartWorkers \/ JoinAndMerge \/ Finished \/ UNCHANGED vars
  <2>1. UNCHANGED <<pc, active>> /\ ((UNCHANGED <<queue, toPush>>) \/ main = "roots")
    BY <1>1 DEF PushRoot, StartWorkers, JoinAndMerge, Finished, vars
  <2>2. Busy' = Busy
    BY <2>1 DEF Busy
  <2> QED BY <2>1, <2>2 DEF NoEarlyExit, Control
<1>2. ASSUME NEW t \in Threads, Claim(t)
      PROVE  NoEarlyExit'
  <2>1. /\ pc[t] = "claim" /\ queue # <<>> /\ active' = active + 1
        /\ pc' = [pc EXCEPT ![t] = "open"]
    BY <1>2 DEF Claim, At, Goto
  <2>2. Busy' = Busy \cup {t} /\ t \notin Busy
    BY <2>1 DEF Busy, TypeOK
  <2>3. active' = Cardinality(Busy')
    BY <2>1, <2>2, BusyFinite, FS_AddElement DEF NoEarlyExit
  <2>4. ~ Ended'
    BY <2>1 DEF NoEarlyExit, TypeOK
  <2> QED BY <2>3, <2>4 DEF NoEarlyExit
<1>3. ASSUME NEW t \in Threads, Wait(t) \/ SpuriousWakeup(t)
      PROVE  NoEarlyExit'
  BY <1>3 DEF Wait, SpuriousWakeup, NoEarlyExit, Busy
<1>4. ASSUME NEW t \in Threads, Exit(t)
      PROVE  NoEarlyExit'
  <2>1. /\ main = "join" /\ pc[t] = "claim" /\ queue = <<>> /\ active = 0
        /\ UNCHANGED <<active, queue, toPush>> /\ pc' = [pc EXCEPT ![t] = "exited"]
    BY <1>4 DEF Exit, At, Running, Goto
  <2>2. Busy' = Busy
    BY <2>1 DEF Busy, TypeOK
  <2>3. Busy = {}
    BY <2>1, BusyFinite, FS_EmptySet DEF NoEarlyExit
  <2> QED BY <2>1, <2>2, <2>3 DEF NoEarlyExit, Control
<1>5. ASSUME NEW t \in Threads,
             OpenDir(t) \/ ReadName(t) \/ CloseDir(t) \/ PushSubdir(t) \/ AllPushed(t)
      PROVE  NoEarlyExit'
  <2>1. t \in Busy /\ active' = active
    BY <1>5 DEF OpenDir, ReadName, CloseDir, PushSubdir, AllPushed, At, Busy
  <2>2. pc' = pc \/ \E l \in {"read", "push", "done"} : pc' = [pc EXCEPT ![t] = l]
    BY <1>5 DEF OpenDir, ReadName, CloseDir, PushSubdir, AllPushed, Goto
  <2>3. Busy' = Busy /\ (Ended' => Ended)
    BY <2>1, <2>2 DEF Busy, TypeOK
  <2> QED BY <2>1, <2>3 DEF NoEarlyExit
<1>6. ASSUME NEW t \in Threads, DoneDir(t)
      PROVE  NoEarlyExit'
  <2>1. t \in Busy /\ active' = active - 1 /\ pc' = [pc EXCEPT ![t] = "claim"]
    BY <1>6 DEF DoneDir, At, Goto, Busy
  <2>2. Busy' = Busy \ {t} /\ (Ended' => Ended)
    BY <2>1 DEF Busy, TypeOK
  <2>3. active' = Cardinality(Busy')
    BY <2>1, <2>2, BusyFinite, FS_RemoveElement DEF NoEarlyExit
  <2>4. ~ Ended
    BY <2>1 DEF NoEarlyExit
  <2> QED BY <2>2, <2>3, <2>4 DEF NoEarlyExit
<1> QED BY <1>1, <1>2, <1>3, <1>4, <1>5, <1>6 DEF Next, Worker

-----------------------------------------------------------------------------
(* Nothing is lost.                                                        *)

FoundGrows == cfg' = cfg /\ \A c \in Paths : found[c] > 0 => found'[c] > 0

LEMMA KeptInPaths ==
  ASSUME NEW d \in Paths, NEW c \in KeptNames(d)
  PROVE  c \in Paths
BY IndexerAssumption DEF KeptNames

\* What is listed stays listed when no known directory is forgotten.
LEMMA ListedGrows ==
  ASSUME Known \subseteq Known', FoundGrows, NEW c \in Paths, Listed(c)
  PROVE  Listed(c)'
BY DEF Listed, Handled, IsDir, FoundGrows

\* What a step has to show to preserve NothingLost: it forgets no directory,
\* and accounts for the roots taken, the directories completed, the names
\* read and the inodes visited.
LEMMA NothingLostWhen ==
  ASSUME TypeOK, TypeOK', Control', NothingLost, Known \subseteq Known', FoundGrows,
         GoodRoots \cap ToSet(toPush) \subseteq Known' \cup ToSet(toPush'),
         \A d \in processed' \ (processed \cup NoOpen) : \A c \in KeptNames(d) : Listed(c)',
         \A t \in Busy' : pc'[t] # "open" /\ dir'[t] \notin NoOpen =>
           \A c \in KeptNames(dir'[t]) \ names'[t] :
             \/ Listed(c)'
             \/ t \in Busy /\ pc[t] # "open" /\ dir'[t] = dir[t] /\ c \notin names[t],
         \A i \in visitedDirs' \ visitedDirs : \E d \in Known' : Inode[d] = i
  PROVE  NothingLost'
<1>1. GoodRoots' \subseteq Known' \cup ToSet(toPush')
  BY DEF NothingLost, GoodRoots, FoundGrows
<1>2. ASSUME NEW d \in processed' \ NoOpen, NEW c \in KeptNames(d)
      PROVE  Listed(c)'
  <2>1. c \in Paths
    BY KeptInPaths DEF TypeOK
  <2>2. CASE d \in processed
    BY <2>1, <2>2, ListedGrows DEF NothingLost
  <2>3. CASE d \notin processed
    BY <2>3
  <2> QED BY <2>2, <2>3
<1>3. ASSUME NEW t \in Busy', pc'[t] # "open", dir'[t] \notin NoOpen,
             NEW c \in KeptNames(dir'[t]) \ names'[t]
      PROVE  Listed(c)'
  <2>1. t \in Threads /\ dir'[t] \in Paths
    BY DEF Busy, Control, TypeOK
  <2>2. c \in Paths
    BY <2>1, KeptInPaths
  <2>3. CASE t \in Busy /\ pc[t] # "open" /\ dir'[t] = dir[t] /\ c \notin names[t]
    BY <1>3, <2>2, <2>3, ListedGrows DEF NothingLost
  <2> QED BY <1>3, <2>3
<1>4. \A i \in visitedDirs' : \E d \in Known' : Inode[d] = i
  BY DEF NothingLost
<1> QED BY <1>1, <1>2, <1>3, <1>4 DEF NothingLost

\* A step that leaves every worker's directory and list, and no less in the
\* queue, forgets nothing.
LEMMA KnownGrows ==
  ASSUME processed \subseteq processed', ToSet(queue) \subseteq Known',
         \A t \in Busy : dir[t] \in Known',
         \A t \in Threads : ToSet(subdirs[t]) \subseteq Known'
  PROVE  Known \subseteq Known'
<1>1. ASSUME NEW d \in Known
      PROVE  d \in Known'
  <2>1. \/ d \in processed \/ d \in ToSet(queue)
        \/ \E t \in Busy : d = dir[t]
        \/ \E t \in Threads : d \in ToSet(subdirs[t])
    BY DEF Known, Pending
  <2>2. processed' \subseteq Known'
    BY DEF Known
  <2> QED BY <2>1, <2>2
<1> QED BY <1>1

LEMMA NothingLostStep ==
  ASSUME TypeOK, TypeOK', Control, Control', NothingLost, [Next]_vars
  PROVE  NothingLost'
<1>0. /\ processed' \subseteq Known' /\ ToSet(queue') \subseteq Known'
      /\ \A t \in Busy' : dir'[t] \in Known'
      /\ \A t \in Threads : ToSet(subdirs'[t]) \subseteq Known'
  BY DEF Known, Pending
<1>1. CASE PushRoot
  <2> DEFINE r == Head(toPush)
  <2>1. /\ ToSet(toPush) = {r} \cup ToSet(toPush') /\ r \in Paths
        /\ UNCHANGED <<cfg, pc, dir, names, subdirs, found, processed>>
    BY <1>1, MembersTail DEF PushRoot, TypeOK
  <2>2. Busy' = Busy
    BY <2>1 DEF Busy
  <2>3. ToSet(queue) \subseteq ToSet(queue') /\ (r \notin Excluded => r \in ToSet(queue'))
    <3>1. CASE r \in Excluded
      BY <1>1, <3>1 DEF PushRoot
    <3>2. CASE r \notin Excluded
      <4>1. queue' = Append(queue, r)
        BY <1>1, <3>2 DEF PushRoot, Push
      <4> QED BY <2>1, <4>1, MembersAppend DEF TypeOK
    <3> QED BY <3>1, <3>2
  <2>4. Known \subseteq Known'
    BY <1>0, <2>1, <2>2, <2>3, KnownGrows
  <2>5. GoodRoots \cap ToSet(toPush) \subseteq Known' \cup ToSet(toPush')
    BY <1>0, <2>1, <2>3 DEF GoodRoots
  <2>6. \A i \in visitedDirs' \ visitedDirs : \E d \in Known' : Inode[d] = i
    <3>1. \A i \in visitedDirs' \ visitedDirs : r \notin Excluded /\ i = Inode[r]
      BY <1>1 DEF PushRoot
    <3> QED BY <1>0, <2>3, <3>1
  <2>7. FoundGrows
    BY <2>1 DEF FoundGrows
  <2> QED BY <2>1, <2>2, <2>4, <2>5, <2>6, <2>7, NothingLostWhen
<1>2. ASSUME UNCHANGED <<cfg, toPush, queue, dir, names, subdirs, visitedDirs, found, processed>>,
             \A t \in Threads :
               \/ pc'[t] = pc[t]
               \/ pc[t] = "claim" /\ pc'[t] = "exited"
               \/ pc[t] = "read" /\ pc'[t] = "push"
               \/ pc[t] = "push" /\ pc'[t] = "done"
      PROVE  NothingLost'
  <2>1. Busy' = Busy /\ \A t \in Busy' : pc'[t] # "open" => pc[t] # "open"
    BY <1>2 DEF Busy, TypeOK
  <2>2. Known \subseteq Known'
    BY <1>0, <1>2, <2>1, KnownGrows
  <2>3. FoundGrows
    BY <1>2 DEF FoundGrows
  <2> QED BY <1>2, <2>1, <2>2, <2>3, NothingLostWhen
<1>3. ASSUME NEW t \in Threads, Claim(t)
      PROVE  NothingLost'
  <2> DEFINE d == Head(queue)
  <2>1. /\ pc[t] = "claim" /\ pc' = [pc EXCEPT ![t] = "open"] /\ dir' = [dir EXCEPT ![t] = d]
        /\ UNCHANGED <<cfg, toPush, names, subdirs, visitedDirs, found, processed>>
        /\ ToSet(queue) = {d} \cup ToSet(queue')
    BY <1>3, MembersTail DEF Claim, At, Goto, TypeOK
  <2>2. t \notin Busy /\ Busy' = Busy \cup {t} /\ dir'[t] = d
    BY <2>1 DEF Busy, TypeOK
  <2>3. \A u \in Busy : dir'[u] = dir[u] /\ pc'[u] = pc[u]
    BY <2>1, <2>2 DEF Busy, TypeOK
  <2>4. Known \subseteq Known'
    BY <1>0, <2>1, <2>2, <2>3, KnownGrows
  <2>5. FoundGrows
    BY <2>1 DEF FoundGrows
  <2>6. pc'[t] = "open"
    BY <2>1 DEF TypeOK
  <2> QED BY <2>1, <2>2, <2>3, <2>4, <2>5, <2>6, NothingLostWhen
<1>4. ASSUME NEW t \in Threads, OpenDir(t)
      PROVE  NothingLost'
  <2>1. /\ pc[t] = "open" /\ UNCHANGED <<cfg, toPush, queue, dir, subdirs, visitedDirs, found, processed>>
        /\ \/ dir[t] \in NoOpen /\ pc' = [pc EXCEPT ![t] = "done"] /\ names' = names
           \/ pc' = [pc EXCEPT ![t] = "read"] /\ names' = [names EXCEPT ![t] = Children[dir[t]]]
    BY <1>4 DEF OpenDir, At, Goto
  <2>2. Busy' = Busy
    BY <2>1 DEF Busy, TypeOK
  <2>3. Known \subseteq Known'
    BY <1>0, <2>1, <2>2, KnownGrows
  <2>4. FoundGrows
    BY <2>1 DEF FoundGrows
  <2>5. dir[t] \notin NoOpen => names'[t] = Children[dir[t]]
    BY <2>1 DEF TypeOK
  <2>6. \A u \in Threads : u # t => names'[u] = names[u] /\ pc'[u] = pc[u]
    BY <2>1 DEF TypeOK
  <2>7. dir[t] \notin NoOpen => KeptNames(dir[t]) \ names'[t] = {}
    BY <2>5 DEF KeptNames
  <2> QED BY <2>1, <2>2, <2>3, <2>4, <2>6, <2>7, NothingLostWhen DEF Busy
<1>5. ASSUME NEW t \in Threads, ReadName(t)
      PROVE  NothingLost'
  <2>1. PICK p \in names[t] :
          /\ names' = [names EXCEPT ![t] = @ \ {p}]
          /\ IF Rejected(p) \/ p \in NoStat THEN UNCHANGED <<found, subdirs, visitedDirs>>
             ELSE /\ found' = [found EXCEPT ![p] = @ + 1]
                  /\ IF IsDir(p) /\ MustQueue(p)
                     THEN /\ subdirs' = [subdirs EXCEPT ![t] = Append(@, p)]
                          /\ visitedDirs' = IF cfg.follow_symlinks THEN visitedDirs \cup {Inode[p]}
                                            ELSE visitedDirs
                     ELSE UNCHANGED <<subdirs, visitedDirs>>
    BY <1>5 DEF ReadName
  <2>2. /\ pc[t] = "read" /\ UNCHANGED <<cfg, toPush, queue, pc, dir, processed>>
    BY <1>5 DEF ReadName, At
  <2>3. p \in Paths /\ Busy' = Busy
    BY <2>2 DEF TypeOK, Busy
  <2>4. \A u \in Threads : ToSet(subdirs[u]) \subseteq ToSet(subdirs'[u])
    <3>1. subdirs' = subdirs \/ subdirs' = [subdirs EXCEPT ![t] = Append(@, p)]
      BY <2>1
    <3>2. ToSet(Append(subdirs[t], p)) = ToSet(subdirs[t]) \cup {p}
      BY <2>3, MembersAppend DEF TypeOK
    <3> QED BY <3>1, <3>2 DEF TypeOK
  <2>5. Known \subseteq Known'
    BY <1>0, <2>2, <2>3, <2>4, KnownGrows
  <2>6. FoundGrows
    <3>1. \/ found' = found
          \/ found' = [found EXCEPT ![p] = @ + 1]
      BY <2>1
    <3>2. ASSUME NEW c \in Paths
          PROVE  found[c] > 0 => found'[c] > 0
      <4>1. found[c] \in Nat /\ found \in [Paths -> Nat]
        BY DEF TypeOK
      <4>2. found'[c] = found[c] \/ found'[c] = found[c] + 1
        BY <3>1, <4>1
      <4> QED BY <4>1, <4>2
    <3> QED BY <2>2, <3>2 DEF FoundGrows
  <2>7. ~ Rejected(p) /\ p \notin NoStat /\ IsDir(p) /\ MustQueue(p) => p \in Known'
    <3> HAVE ~ Rejected(p) /\ p \notin NoStat /\ IsDir(p) /\ MustQueue(p)
    <3>1. subdirs'[t] = Append(subdirs[t], p)
      BY <2>1 DEF TypeOK
    <3>2. p \in ToSet(subdirs'[t])
      BY <2>3, <3>1, MembersAppend DEF TypeOK
    <3> QED BY <1>0, <3>2
  <2>8. ~ Rejected(p) /\ p \notin NoStat => Listed(p)'
    <3> HAVE ~ Rejected(p) /\ p \notin NoStat
    <3>1. found'[p] > 0
      BY <2>1, <2>3 DEF TypeOK
    <3>2. IsDir(p)' => Handled(p)'
      <4>1. CASE MustQueue(p)
        BY <2>2, <2>7, <4>1 DEF Handled, IsDir
      <4>2. CASE ~ MustQueue(p)
        <5>1. cfg.follow_symlinks /\ Inode[p] \in visitedDirs
          BY <4>2 DEF MustQueue
        <5>2. \E d \in Known' : Inode[d] = Inode[p]
          BY <2>5, <5>1 DEF NothingLost
        <5> QED BY <2>2, <5>1, <5>2 DEF Handled
      <4> QED BY <4>1, <4>2
    <3> QED BY <3>1, <3>2 DEF Listed
  <2>9. \A i \in visitedDirs' \ visitedDirs : \E d \in Known' : Inode[d] = i
    BY <2>1, <2>7
  <2>10. names'[t] = names[t] \ {p} /\ \A u \in Threads : u # t => names'[u] = names[u]
    BY <2>1 DEF TypeOK
  <2>11. \A u \in Busy' : pc'[u] # "open" /\ dir'[u] \notin NoOpen =>
           \A c \in KeptNames(dir'[u]) \ names'[u] :
             \/ Listed(c)'
             \/ u \in Busy /\ pc[u] # "open" /\ dir'[u] = dir[u] /\ c \notin names[u]
    <3> TAKE u \in Busy'
    <3> HAVE pc'[u] # "open" /\ dir'[u] \notin NoOpen
    <3> TAKE c \in KeptNames(dir'[u]) \ names'[u]
    <3>1. u \in Threads /\ u \in Busy /\ pc[u] # "open" /\ dir'[u] = dir[u]
      BY <2>2, <2>3 DEF Busy
    <3>2. CASE u = t /\ c = p
      BY <2>8, <3>2 DEF KeptNames
    <3>3. CASE ~ (u = t /\ c = p)
      BY <2>10, <3>1, <3>3
    <3> QED BY <3>2, <3>3
  <2> QED BY <2>2, <2>5, <2>6, <2>9, <2>11, NothingLostWhen
<1>6. ASSUME NEW t \in Threads, PushSubdir(t)
      PROVE  NothingLost'
  <2> DEFINE d == Head(subdirs[t])
  <2>1. /\ queue' = Append(queue, d) /\ subdirs' = [subdirs EXCEPT ![t] = Tail(@)]
        /\ UNCHANGED <<cfg, toPush, pc, dir, names, visitedDirs, found, processed>>
    BY <1>6 DEF PushSubdir, Push
  <2>2. d \in Paths /\ ToSet(subdirs[t]) = {d} \cup ToSet(Tail(subdirs[t]))
    BY <1>6, MembersTail DEF PushSubdir, TypeOK
  <2>3. ToSet(queue') = ToSet(queue) \cup {d}
    BY <2>1, <2>2, MembersAppend DEF TypeOK
  <2>4. \A u \in Threads : ToSet(subdirs[u]) \subseteq Known'
    <3>1. subdirs'[t] = Tail(subdirs[t]) /\ \A u \in Threads : u # t => subdirs'[u] = subdirs[u]
      BY <2>1 DEF TypeOK
    <3> QED BY <1>0, <2>2, <2>3, <3>1
  <2>5. Busy' = Busy
    BY <2>1 DEF Busy
  <2>6. Known \subseteq Known'
    BY <1>0, <2>1, <2>3, <2>4, <2>5, KnownGrows
  <2>7. FoundGrows
    BY <2>1 DEF FoundGrows
  <2> QED BY <2>1, <2>5, <2>6, <2>7, NothingLostWhen
<1>7. ASSUME NEW t \in Threads, DoneDir(t)
      PROVE  NothingLost'
  <2>1. /\ pc[t] = "done" /\ pc' = [pc EXCEPT ![t] = "claim"] /\ dir' = [dir EXCEPT ![t] = None]
        /\ processed' = processed \cup {dir[t]}
        /\ UNCHANGED <<cfg, toPush, queue, names, subdirs, visitedDirs, found>>
    BY <1>7 DEF DoneDir, At, Goto
  <2>2. t \in Busy /\ Busy' = Busy \ {t}
    BY <2>1 DEF Busy, TypeOK
  <2>3. \A u \in Busy' : dir'[u] = dir[u] /\ pc'[u] = pc[u] /\ u \in Busy
    BY <2>1, <2>2 DEF Busy, TypeOK
  <2>4. Known \subseteq Known'
    BY <1>0, <2>1, <2>2, <2>3, KnownGrows
  <2>5. FoundGrows
    BY <2>1 DEF FoundGrows
  <2>6. \A d \in processed' \ (processed \cup NoOpen) : \A c \in KeptNames(d) : Listed(c)'
    <3>1. names[t] = {}
      BY <2>1, <2>2 DEF Control, Busy
    <3> SUFFICES ASSUME dir[t] \notin NoOpen, NEW c \in KeptNames(dir[t])
                 PROVE  Listed(c)'
      BY <2>1
    <3>2. Listed(c)
      BY <2>1, <2>2, <3>1 DEF NothingLost
    <3>3. c \in Paths
      BY <2>1, <2>2, BusyHasDir, KeptInPaths DEF Busy
    <3> QED BY <2>4, <2>5, <3>2, <3>3, ListedGrows
  <2> QED BY <2>1, <2>3, <2>4, <2>5, <2>6, NothingLostWhen
<1>8. CASE StartWorkers \/ JoinAndMerge \/ Finished \/ UNCHANGED vars
  BY <1>2, <1>8 DEF StartWorkers, JoinAndMerge, Finished, vars
<1>9. ASSUME NEW t \in Threads, Wait(t) \/ SpuriousWakeup(t) \/ Exit(t) \/ CloseDir(t) \/ AllPushed(t)
      PROVE  NothingLost'
  BY <1>2, <1>9 DEF Wait, SpuriousWakeup, Exit, CloseDir, AllPushed, At, Goto, TypeOK
<1> QED BY <1>1, <1>3, <1>4, <1>5, <1>6, <1>7, <1>8, <1>9 DEF Next, Worker

-----------------------------------------------------------------------------
(* The theorems.                                                           *)

ScanInv == TypeOK /\ Control /\ NoEarlyExit /\ NothingLost

LEMMA ScanInvHolds == Spec => []ScanInv
<1>1. Init => ScanInv
  <2> SUFFICES ASSUME Init
               PROVE  ScanInv
    OBVIOUS
  <2>1. TypeOK
    BY IndexerAssumption DEF Init, TypeOK
  <2>2. Control
    BY DEF Init, Control, Busy
  <2>3. Busy = {}
    BY DEF Init, Busy
  <2>4. NoEarlyExit
    BY <2>3, FS_EmptySet DEF Init, NoEarlyExit
  <2>5. NothingLost
    BY <2>3 DEF Init, NothingLost, GoodRoots
  <2> QED BY <2>1, <2>2, <2>4, <2>5 DEF ScanInv
<1>2. ScanInv /\ [Next]_vars => ScanInv'
  BY TypeStep, ControlStep, NoEarlyExitStep, NothingLostStep DEF ScanInv
<1> QED BY <1>1, <1>2, PTL DEF Spec

\* The type invariant.
THEOREM TypesHold == Spec => []TypeOK
BY ScanInvHolds, PTL DEF ScanInv

\* For any number of workers: a worker ends only when no directory is queued
\* and no worker can queue one any more.
THEOREM NoWorkerEndsEarly == Spec => []NoEarlyExit
BY ScanInvHolds, PTL DEF ScanInv

\* For any tree, roots, filters and number of workers: the merged vector has
\* every root's tree in it.
THEOREM ScanIsComplete == Spec => []Complete
<1>1. ScanInv => Complete
  <2> SUFFICES ASSUME ScanInv, main = "merged"
               PROVE  /\ GoodRoots \subseteq processed
                      /\ \A d \in processed \ NoOpen : \A c \in KeptNames(d) :
                           /\ found[c] > 0
                           /\ IsDir(c) => IF cfg.follow_symlinks
                                            THEN \E e \in processed : Inode[e] = Inode[c]
                                            ELSE c \in processed
    BY DEF Complete
  <2>1. \A t \in Threads : pc[t] = "exited"
    BY DEF ScanInv, Control
  <2>2. toPush = <<>> /\ queue = <<>> /\ Busy = {}
    BY <2>1, IndexerAssumption DEF ScanInv, NoEarlyExit
  <2>3. \A t \in Threads : subdirs[t] = <<>>
    BY <2>1 DEF ScanInv, Control
  <2>4. Known = processed /\ ToSet(toPush) = {}
    <3>1. ToSet(queue) = {} /\ ToSet(toPush) = {} /\ \A t \in Threads : ToSet(subdirs[t]) = {}
      BY <2>2, <2>3, MembersOf DEF ScanInv, TypeOK
    <3> QED BY <2>2, <3>1 DEF Known, Pending
  <2> QED BY <2>4 DEF ScanInv, NothingLost, Listed, Handled
<1> QED BY <1>1, ScanInvHolds, PTL
-----------------------------------------------------------------------------
(* Every directory is scanned once.  Two roots are apart when they are not    *)
(* the same and, where links are not followed, the tree of no root holds a    *)
(* root.                                                                     *)

\* The trees of the roots of c lie in below.
Covers(c, below) ==
  \A d \in (ToSet(c.paths) \ Excluded) \cup below : KeptNames(d) \subseteq below

RootsApart(c) ==
  /\ \A i, j \in DOMAIN c.paths :
       c.paths[i] \notin Excluded /\ c.paths[i] = c.paths[j] => i = j
  /\ \/ c.follow_symlinks
     \/ \E below \in SUBSET Paths :
          Covers(c, below) /\ below \cap (ToSet(c.paths) \ Excluded) = {}

\* No directory is in two places: in the queue, with a worker, to be pushed by
\* one, or completed.
Once ==
  /\ IsInjective(queue)
  /\ \A t \in Threads : IsInjective(subdirs[t])
  /\ processed \cap ToSet(queue) = {}
  /\ \A t \in Threads : ToSet(subdirs[t]) \cap (processed \cup ToSet(queue)) = {}
  /\ \A t \in Busy : dir[t] \notin processed \cup ToSet(queue)
  /\ \A t \in Busy, u \in Threads : dir[t] \notin ToSet(subdirs[u])
  /\ \A t, u \in Busy : dir[t] = dir[u] => t = u
  /\ \A t, u \in Threads : t # u => ToSet(subdirs[t]) \cap ToSet(subdirs[u]) = {}

\* A root that is still to be pushed is in none of them.
RootsLeft ==
  /\ ToSet(toPush) \subseteq ToSet(cfg.paths)
  /\ \A i \in DOMAIN toPush : toPush[i] \notin Excluded =>
       /\ toPush[i] \notin Known
       /\ \A j \in DOMAIN toPush : toPush[i] = toPush[j] => i = j

\* An entry is of a name that was read, and a name still to be read has none.
Entered ==
  /\ \A d \in Paths : \A p \in Children[d] : found[p] > 0 =>
       \/ d \in processed
       \/ \E t \in Busy : dir[t] = d /\ pc[t] # "open" /\ p \notin names[t]
  /\ \A t \in Threads : \A p \in names[t] : p \in Children[dir[t]] /\ found[p] = 0

\* Where a directory that is known comes from.
Origin ==
  IF cfg.follow_symlinks THEN \A d \in Known \ NoStat : Inode[d] \in visitedDirs
  ELSE \E below \in SUBSET Paths :
         /\ Covers(cfg, below) /\ below \cap GoodRoots = {}
         /\ \A d \in Known : d \in GoodRoots \/ (d \in below /\ found[d] > 0)

\* The directories that are known differ, and before the workers start they are
\* roots.
Identified ==
  /\ main = "roots" => Known \subseteq GoodRoots
  /\ \A d, e \in Known : d # e => Distinct(d, e)

EntryInv == Once /\ RootsLeft /\ Entered /\ Origin /\ Identified /\ OneEntryPerPath

LEMMA AppendOnce ==
  ASSUME NEW S, NEW s \in Seq(S), NEW e \in S, IsInjective(s), e \notin ToSet(s)
  PROVE  IsInjective(Append(s, e))
<1>1. /\ Len(s) \in Nat /\ Append(s, e)[Len(s) + 1] = e
      /\ DOMAIN s = 1..Len(s) /\ DOMAIN Append(s, e) = 1..Len(s) \cup {Len(s) + 1}
      /\ \A i \in 1..Len(s) : Append(s, e)[i] = s[i]
  OBVIOUS
<1>2. \A i \in 1..Len(s) : s[i] # e
  BY <1>1 DEF ToSet
<1>3. ASSUME NEW i \in DOMAIN Append(s, e), NEW j \in DOMAIN Append(s, e),
             Append(s, e)[i] = Append(s, e)[j]
      PROVE  i = j
  <2>1. CASE i \in 1..Len(s) /\ j \in 1..Len(s)
    BY <1>1, <1>3, <2>1 DEF IsInjective
  <2>2. CASE i = Len(s) + 1 \/ j = Len(s) + 1
    BY <1>1, <1>2, <1>3, <2>2
  <2> QED BY <1>1, <2>1, <2>2
<1> QED BY <1>3 DEF IsInjective

LEMMA TailOnce ==
  ASSUME NEW S, NEW s \in Seq(S), s # <<>>, IsInjective(s)
  PROVE  IsInjective(Tail(s)) /\ Head(s) \notin ToSet(Tail(s))
<1>1. /\ Head(s) = s[1] /\ Len(s) \in Nat \ {0}
      /\ \A i \in 1..(Len(s) - 1) : Tail(s)[i] = s[i + 1]
      /\ DOMAIN s = 1..Len(s) /\ DOMAIN Tail(s) = 1..(Len(s) - 1)
  BY HeadTailProperties
<1>2. ASSUME NEW i \in DOMAIN Tail(s)
      PROVE  /\ i + 1 \in DOMAIN s /\ i + 1 # 1 /\ 1 \in DOMAIN s
             /\ Tail(s)[i] = s[i + 1]
  BY <1>1
<1>3. Head(s) \notin ToSet(Tail(s))
  BY <1>1, <1>2 DEF IsInjective, ToSet
<1>4. ASSUME NEW i \in DOMAIN Tail(s), NEW j \in DOMAIN Tail(s), Tail(s)[i] = Tail(s)[j]
      PROVE  i = j
  <2>1. i + 1 = j + 1
    BY <1>2, <1>4 DEF IsInjective
  <2> QED BY <1>1, <2>1
<1> QED BY <1>3, <1>4 DEF IsInjective

\* What the reading of a name does: the entry, and at most one subdirectory.
LEMMA ReadNameDoes ==
  ASSUME TypeOK, NEW t \in Threads, ReadName(t)
  PROVE  \E p \in names[t] :
           /\ p \in Paths /\ pc[t] = "read" /\ main = "join"
           /\ UNCHANGED <<cfg, main, toPush, queue, pc, dir, processed>>
           /\ names'[t] = names[t] \ {p}
           /\ \A u \in Threads : u # t => names'[u] = names[u] /\ subdirs'[u] = subdirs[u]
           /\ \/ UNCHANGED <<found, subdirs, visitedDirs>>
              \/ /\ ~ Rejected(p) /\ p \notin NoStat
                 /\ found'[p] = found[p] + 1
                 /\ \A q \in Paths : q # p => found'[q] = found[q]
                 /\ \/ UNCHANGED <<subdirs, visitedDirs>>
                    \/ /\ MustQueue(p) /\ subdirs'[t] = Append(subdirs[t], p)
                       /\ visitedDirs \subseteq visitedDirs'
                       /\ cfg.follow_symlinks => Inode[p] \in visitedDirs'
<1>1. PICK p \in names[t] :
        /\ names' = [names EXCEPT ![t] = @ \ {p}]
        /\ IF Rejected(p) \/ p \in NoStat THEN UNCHANGED <<found, subdirs, visitedDirs>>
           ELSE /\ found' = [found EXCEPT ![p] = @ + 1]
                /\ IF IsDir(p) /\ MustQueue(p)
                   THEN /\ subdirs' = [subdirs EXCEPT ![t] = Append(@, p)]
                        /\ visitedDirs' = IF cfg.follow_symlinks THEN visitedDirs \cup {Inode[p]}
                                          ELSE visitedDirs
                   ELSE UNCHANGED <<subdirs, visitedDirs>>
  BY DEF ReadName
<1>2. /\ p \in Paths /\ pc[t] = "read" /\ main = "join"
      /\ UNCHANGED <<cfg, main, toPush, queue, pc, dir, processed>>
  BY DEF ReadName, At, Running, TypeOK
<1>3. /\ names'[t] = names[t] \ {p}
      /\ \A u \in Threads : u # t => names'[u] = names[u]
  BY <1>1 DEF TypeOK
<1>4. CASE Rejected(p) \/ p \in NoStat
  BY <1>1, <1>2, <1>3, <1>4
<1>5. CASE ~ (Rejected(p) \/ p \in NoStat)
  <2>1. found'[p] = found[p] + 1 /\ \A q \in Paths : q # p => found'[q] = found[q]
    BY <1>1, <1>2, <1>5 DEF TypeOK
  <2>2. CASE IsDir(p) /\ MustQueue(p)
    <3>1. /\ subdirs'[t] = Append(subdirs[t], p)
          /\ \A u \in Threads : u # t => subdirs'[u] = subdirs[u]
      BY <1>1, <1>5, <2>2 DEF TypeOK
    <3>2. visitedDirs \subseteq visitedDirs' /\ (cfg.follow_symlinks => Inode[p] \in visitedDirs')
      BY <1>1, <1>5, <2>2
    <3> QED BY <1>2, <1>3, <1>5, <2>1, <2>2, <3>1, <3>2
  <2>3. CASE ~ (IsDir(p) /\ MustQueue(p))
    BY <1>1, <1>2, <1>3, <1>5, <2>1, <2>3
  <2> QED BY <2>2, <2>3
<1> QED BY <1>4, <1>5

\* A subdirectory that is queued was not known.
LEMMA QueuedIsNew ==
  ASSUME TypeOK, Control, Entered, Origin, NEW t \in Threads, NEW p \in names[t],
         ~ Rejected(p), p \notin NoStat, MustQueue(p), dir[t] \in Known
  PROVE  p \notin Known
<1>1. p \in KeptNames(dir[t]) /\ found[p] = 0
  BY DEF Entered, KeptNames
<1>2. CASE cfg.follow_symlinks
  BY <1>2 DEF Origin, MustQueue
<1>3. CASE ~ cfg.follow_symlinks
  <2>1. PICK below \in SUBSET Paths :
          /\ Covers(cfg, below) /\ below \cap GoodRoots = {}
          /\ \A d \in Known : d \in GoodRoots \/ (d \in below /\ found[d] > 0)
    BY <1>3 DEF Origin
  <2>2. p \in below
    BY <1>1, <2>1 DEF Covers, GoodRoots
  <2> QED BY <1>1, <2>1, <2>2
<1> QED BY <1>2, <1>3

LEMMA OnceStep ==
  ASSUME TypeOK, Control, Once, RootsLeft, Entered, Origin, [Next]_vars
  PROVE  Once'
<1> USE DEF Once
<1>0. \A t \in Threads : subdirs[t] \in Seq(Paths)
  BY DEF TypeOK
<1>1. CASE PushRoot
  <2> DEFINE r == Head(toPush)
  <2>1. UNCHANGED <<pc, dir, subdirs, processed>> /\ main = "roots" /\ toPush # <<>>
    BY <1>1 DEF PushRoot
  <2>2. Busy' = Busy /\ r \in Paths
    BY <2>1, MembersTail DEF Busy, TypeOK
  <2>3. CASE r \in Excluded
    <3>1. queue' = queue
      BY <1>1, <2>3 DEF PushRoot
    <3> QED BY <2>1, <2>2, <3>1
  <2>4. CASE r \notin Excluded
    <3>1. queue' = Append(queue, r)
      BY <1>1, <2>4 DEF PushRoot, Push
    <3>2. 1 \in DOMAIN toPush /\ r = toPush[1]
      BY <2>1 DEF TypeOK
    <3>3. r \notin Known
      BY <2>4, <3>2 DEF RootsLeft
    <3>4. /\ r \notin processed /\ r \notin ToSet(queue) /\ \A t \in Busy : r # dir[t]
          /\ \A t \in Threads : r \notin ToSet(subdirs[t])
      BY <3>3 DEF Known, Pending
    <3>5. IsInjective(queue') /\ ToSet(queue') = ToSet(queue) \cup {r}
      BY <2>2, <3>1, <3>4, AppendOnce, MembersAppend DEF TypeOK
    <3>6. processed' \cap ToSet(queue') = {}
      BY <2>1, <2>2, <3>4, <3>5
    <3>7. \A w \in Threads : ToSet(subdirs'[w]) \cap (processed' \cup ToSet(queue')) = {}
      BY <2>1, <2>2, <3>4, <3>5
    <3>8. \A w \in Busy' : dir'[w] \notin processed' \cup ToSet(queue')
      BY <2>1, <2>2, <3>4, <3>5
    <3>9. \A w \in Busy', v \in Threads : dir'[w] \notin ToSet(subdirs'[v])
      BY <2>1, <2>2, <3>4, <3>5
    <3>10. \A w, v \in Busy' : dir'[w] = dir'[v] => w = v
      BY <2>1, <2>2, <3>4, <3>5
    <3> QED BY <2>1, <3>5, <3>6, <3>7, <3>8, <3>9, <3>10
  <2> QED BY <2>3, <2>4
<1>2. ASSUME UNCHANGED <<queue, dir, subdirs, processed>>, Busy' = Busy
      PROVE  Once'
  BY <1>2
<1>3. ASSUME NEW t \in Threads, Claim(t)
      PROVE  Once'
  <2> DEFINE d == Head(queue)
  <2>1. /\ pc[t] = "claim" /\ queue # <<>> /\ UNCHANGED <<subdirs, processed>>
        /\ queue' = Tail(queue) /\ dir' = [dir EXCEPT ![t] = d] /\ pc' = [pc EXCEPT ![t] = "open"]
    BY <1>3 DEF Claim, At, Goto
  <2>2. /\ ToSet(queue) = {d} \cup ToSet(queue')
        /\ IsInjective(queue') /\ d \notin ToSet(queue')
    BY <2>1, MembersTail, TailOnce DEF TypeOK
  <2>3. t \notin Busy /\ Busy' = Busy \cup {t} /\ dir'[t] = d
    BY <2>1 DEF Busy, TypeOK
  <2>4. \A u \in Busy : dir'[u] = dir[u]
    BY <2>1, <2>3 DEF Busy, TypeOK
  <2>5. processed' \cap ToSet(queue') = {}
    BY <2>1, <2>2, <2>3, <2>4
  <2>6. \A w \in Threads : ToSet(subdirs'[w]) \cap (processed' \cup ToSet(queue')) = {}
    BY <2>1, <2>2, <2>3, <2>4
  <2>7. \A w \in Busy' : dir'[w] \notin processed' \cup ToSet(queue')
    BY <2>1, <2>2, <2>3, <2>4
  <2>8. \A w \in Busy', v \in Threads : dir'[w] \notin ToSet(subdirs'[v])
    BY <2>1, <2>2, <2>3, <2>4
  <2>9. \A w, v \in Busy' : dir'[w] = dir'[v] => w = v
    BY <2>1, <2>2, <2>3, <2>4
  <2> QED BY <2>1, <2>2, <2>5, <2>6, <2>7, <2>8, <2>9
<1>4. ASSUME NEW t \in Threads, ReadName(t)
      PROVE  Once'
  <2>1. PICK p \in names[t] :
           /\ p \in Paths /\ pc[t] = "read"
           /\ UNCHANGED <<queue, pc, dir, processed>>
           /\ \A u \in Threads : u # t => subdirs'[u] = subdirs[u]
           /\ \/ subdirs' = subdirs
              \/ /\ ~ Rejected(p) /\ p \notin NoStat
                 /\ MustQueue(p) /\ subdirs'[t] = Append(subdirs[t], p)
    BY <1>4, ReadNameDoes
  <2>2. Busy' = Busy /\ t \in Busy
    BY <2>1 DEF Busy
  <2>3. CASE subdirs' = subdirs
    BY <1>2, <2>1, <2>2, <2>3
  <2>4. CASE ~ Rejected(p) /\ p \notin NoStat /\ MustQueue(p) /\ subdirs'[t] = Append(subdirs[t], p)
    <3>1. dir[t] \in Known
      BY <2>2 DEF Known, Pending
    <3>2. p \notin Known
      BY <2>4, <3>1, QueuedIsNew
    <3>3. /\ p \notin processed /\ p \notin ToSet(queue) /\ \A u \in Busy : p # dir[u]
          /\ \A u \in Threads : p \notin ToSet(subdirs[u])
      BY <3>2 DEF Known, Pending
    <3>4. IsInjective(subdirs'[t]) /\ ToSet(subdirs'[t]) = ToSet(subdirs[t]) \cup {p}
      BY <1>0, <2>1, <2>4, <3>3, AppendOnce, MembersAppend
    <3>5. \A u \in Threads : IsInjective(subdirs'[u])
      BY <2>1, <3>4
    <3>6. \A u \in Threads : ToSet(subdirs'[u]) \subseteq ToSet(subdirs[u]) \cup {p}
      BY <2>1, <3>4
    <3>7. \A u \in Threads : u # t => p \notin ToSet(subdirs'[u])
      BY <2>1, <3>3
    <3>8. \A u, v \in Threads : u # v => ToSet(subdirs'[u]) \cap ToSet(subdirs'[v]) = {}
      BY <3>6, <3>7
    <3>9. processed' \cap ToSet(queue') = {}
      BY <2>1, <2>2, <3>3, <3>6
    <3>10. \A w \in Threads : ToSet(subdirs'[w]) \cap (processed' \cup ToSet(queue')) = {}
      BY <2>1, <2>2, <3>3, <3>6
    <3>11. \A w \in Busy' : dir'[w] \notin processed' \cup ToSet(queue')
      BY <2>1, <2>2, <3>3, <3>6
    <3>12. \A w \in Busy', v \in Threads : dir'[w] \notin ToSet(subdirs'[v])
      <4>1. \A w \in Busy, v \in Threads : dir[w] \notin ToSet(subdirs[v]) \cup {p}
        BY <3>3
      <4> QED BY <2>1, <2>2, <3>6, <4>1
    <3>13. \A w, v \in Busy' : dir'[w] = dir'[v] => w = v
      BY <2>1, <2>2, <3>3, <3>6
    <3> QED BY <2>1, <3>5, <3>8, <3>9, <3>10, <3>11, <3>12, <3>13
  <2> QED BY <2>1, <2>3, <2>4
<1>5. ASSUME NEW t \in Threads, PushSubdir(t)
      PROVE  Once'
  <2> DEFINE d == Head(subdirs[t])
  <2>1. /\ pc[t] = "push" /\ subdirs[t] # <<>> /\ UNCHANGED <<pc, dir, processed>>
        /\ queue' = Append(queue, d)
        /\ subdirs'[t] = Tail(subdirs[t])
        /\ \A u \in Threads : u # t => subdirs'[u] = subdirs[u]
    BY <1>5 DEF PushSubdir, Push, At, TypeOK
  <2>2. /\ d \in Paths /\ ToSet(subdirs[t]) = {d} \cup ToSet(subdirs'[t])
        /\ IsInjective(subdirs'[t]) /\ d \notin ToSet(subdirs'[t])
    BY <1>0, <2>1, MembersTail, TailOnce
  <2>3. /\ d \notin processed /\ d \notin ToSet(queue) /\ \A u \in Busy : d # dir[u]
        /\ \A u \in Threads : d \notin ToSet(subdirs'[u])
    BY <2>1, <2>2
  <2>4. IsInjective(queue') /\ ToSet(queue') = ToSet(queue) \cup {d}
    BY <2>1, <2>2, <2>3, AppendOnce, MembersAppend DEF TypeOK
  <2>5. /\ \A u \in Threads : IsInjective(subdirs'[u])
        /\ \A u \in Threads : ToSet(subdirs'[u]) \subseteq ToSet(subdirs[u])
    BY <2>1, <2>2
  <2>6. Busy' = Busy
    BY <2>1 DEF Busy
  <2>7. \A u, v \in Threads : u # v => ToSet(subdirs'[u]) \cap ToSet(subdirs'[v]) = {}
    BY <2>5
  <2>8. processed' \cap ToSet(queue') = {}
    BY <2>1, <2>3, <2>4, <2>5, <2>6
  <2>9. \A w \in Threads : ToSet(subdirs'[w]) \cap (processed' \cup ToSet(queue')) = {}
    BY <2>1, <2>3, <2>4, <2>5, <2>6
  <2>10. \A w \in Busy' : dir'[w] \notin processed' \cup ToSet(queue')
    BY <2>1, <2>3, <2>4, <2>5, <2>6
  <2>11. \A w \in Busy', v \in Threads : dir'[w] \notin ToSet(subdirs'[v])
    BY <2>1, <2>3, <2>4, <2>5, <2>6
  <2>12. \A w, v \in Busy' : dir'[w] = dir'[v] => w = v
    BY <2>1, <2>3, <2>4, <2>5, <2>6
  <2> QED BY <2>4, <2>5, <2>7, <2>8, <2>9, <2>10, <2>11, <2>12
<1>6. ASSUME NEW t \in Threads, DoneDir(t)
      PROVE  Once'
  <2>1. /\ pc[t] = "done" /\ pc' = [pc EXCEPT ![t] = "claim"] /\ dir' = [dir EXCEPT ![t] = None]
        /\ processed' = processed \cup {dir[t]} /\ UNCHANGED <<queue, subdirs>>
    BY <1>6 DEF DoneDir, At, Goto
  <2>2. t \in Busy /\ Busy' = Busy \ {t}
    BY <2>1 DEF Busy, TypeOK
  <2>3. \A u \in Busy' : dir'[u] = dir[u] /\ u \in Busy /\ u # t
    BY <2>1, <2>2 DEF Busy, TypeOK
  <2> QED BY <2>1, <2>2, <2>3
<1>7. CASE StartWorkers \/ JoinAndMerge \/ Finished \/ UNCHANGED vars
  <2>1. UNCHANGED <<queue, dir, subdirs, processed, pc>>
    BY <1>7 DEF StartWorkers, JoinAndMerge, Finished, vars
  <2> QED BY <1>2, <2>1 DEF Busy
<1>8. ASSUME NEW t \in Threads,
             \/ Wait(t) \/ SpuriousWakeup(t) \/ Exit(t) \/ OpenDir(t) \/ CloseDir(t) \/ AllPushed(t)
      PROVE  Once'
  <2>1. /\ UNCHANGED <<queue, dir, subdirs, processed>>
        /\ \/ pc' = pc
           \/ pc[t] = "claim" /\ pc' = [pc EXCEPT ![t] = "exited"]
           \/ pc[t] \in {"open", "read", "push"} /\ \E l \in {"read", "push", "done"} : pc' = [pc EXCEPT ![t] = l]
    BY <1>8 DEF Wait, SpuriousWakeup, Exit, OpenDir, CloseDir, AllPushed, At, Goto
  <2>2. Busy' = Busy
    BY <2>1 DEF Busy, TypeOK
  <2> QED BY <1>2, <2>1, <2>2
<1> QED BY <1>1, <1>3, <1>4, <1>5, <1>6, <1>7, <1>8 DEF Next, Worker

\* Which directories become known in a step.
LEMMA KnownStep ==
  ASSUME TypeOK, TypeOK', Control, Control', [Next]_vars,
         NEW d \in Known', d \notin Known
  PROVE  \/ PushRoot /\ d = Head(toPush) /\ d \notin Excluded
         \/ \E t \in Threads : ReadName(t) /\ d \in ToSet(subdirs'[t]) /\ d \notin ToSet(subdirs[t])
<1>0. /\ \/ d \in processed' \/ d \in ToSet(queue')
         \/ \E t \in Busy' : d = dir'[t]
         \/ \E t \in Threads : d \in ToSet(subdirs'[t])
      /\ d \notin processed /\ d \notin ToSet(queue)
      /\ \A t \in Busy : d # dir[t]
      /\ \A t \in Threads : d \notin ToSet(subdirs[t])
  BY DEF Known, Pending
<1>1. CASE PushRoot
  <2>1. /\ UNCHANGED <<pc, dir, subdirs, processed>> /\ Head(toPush) \in Paths
        /\ \/ queue' = queue
           \/ queue' = Append(queue, Head(toPush)) /\ Head(toPush) \notin Excluded
    BY <1>1, MembersTail DEF PushRoot, Push, TypeOK
  <2>2. ToSet(Append(queue, Head(toPush))) = ToSet(queue) \cup {Head(toPush)}
    BY <2>1, MembersAppend DEF TypeOK
  <2>3. d \in ToSet(queue')
    BY <1>0, <2>1 DEF Busy
  <2> QED BY <1>0, <1>1, <2>1, <2>2, <2>3
<1>2. ASSUME NEW t \in Threads, Claim(t)
      PROVE  FALSE
  <2>1. /\ queue # <<>> /\ UNCHANGED <<subdirs, processed>> /\ queue' = Tail(queue)
        /\ dir' = [dir EXCEPT ![t] = Head(queue)] /\ pc' = [pc EXCEPT ![t] = "open"]
    BY <1>2 DEF Claim, At, Goto
  <2>2. ToSet(queue) = {Head(queue)} \cup ToSet(queue')
    BY <2>1, MembersTail DEF TypeOK
  <2>3. \A u \in Busy' : u = t \/ (u \in Busy /\ dir'[u] = dir[u])
    BY <2>1 DEF Busy, TypeOK
  <2>4. dir'[t] = Head(queue)
    BY <2>1 DEF TypeOK
  <2> QED BY <1>0, <2>1, <2>2, <2>3, <2>4
<1>3. ASSUME NEW t \in Threads, ReadName(t)
      PROVE  d \in ToSet(subdirs'[t]) /\ d \notin ToSet(subdirs[t])
  <2>1. /\ UNCHANGED <<queue, pc, dir, processed>>
        /\ \A u \in Threads : u # t => subdirs'[u] = subdirs[u]
    BY <1>3, ReadNameDoes
  <2> QED BY <1>0, <2>1 DEF Busy
<1>4. ASSUME NEW t \in Threads, PushSubdir(t)
      PROVE  FALSE
  <2>1. /\ subdirs[t] # <<>> /\ subdirs[t] \in Seq(Paths) /\ UNCHANGED <<pc, dir, processed>>
        /\ queue' = Append(queue, Head(subdirs[t])) /\ subdirs'[t] = Tail(subdirs[t])
        /\ \A u \in Threads : u # t => subdirs'[u] = subdirs[u]
    BY <1>4 DEF PushSubdir, Push, TypeOK
  <2>2. Head(subdirs[t]) \in Paths /\ ToSet(subdirs[t]) = {Head(subdirs[t])} \cup ToSet(subdirs'[t])
    BY <2>1, MembersTail
  <2>3. ToSet(queue') = ToSet(queue) \cup {Head(subdirs[t])}
    BY <2>1, <2>2, MembersAppend DEF TypeOK
  <2>4. \A u \in Threads : ToSet(subdirs'[u]) \subseteq ToSet(subdirs[u])
    BY <2>1, <2>2
  <2> QED BY <1>0, <2>1, <2>2, <2>3, <2>4 DEF Busy
<1>5. ASSUME NEW t \in Threads, DoneDir(t)
      PROVE  FALSE
  <2>1. /\ pc[t] = "done" /\ pc' = [pc EXCEPT ![t] = "claim"] /\ dir' = [dir EXCEPT ![t] = None]
        /\ processed' = processed \cup {dir[t]} /\ UNCHANGED <<queue, subdirs>>
    BY <1>5 DEF DoneDir, At, Goto
  <2>2. t \in Busy /\ \A u \in Busy' : dir'[u] = dir[u] /\ u \in Busy
    BY <2>1 DEF Busy, TypeOK
  <2> QED BY <1>0, <2>1, <2>2
<1>6. ASSUME UNCHANGED <<queue, dir, subdirs, processed>>, Busy' = Busy
      PROVE  FALSE
  BY <1>0, <1>6
<1>7. CASE StartWorkers \/ JoinAndMerge \/ Finished \/ UNCHANGED vars
  <2>1. UNCHANGED <<queue, dir, subdirs, processed, pc>>
    BY <1>7 DEF StartWorkers, JoinAndMerge, Finished, vars
  <2> QED BY <1>6, <2>1 DEF Busy
<1>8. ASSUME NEW t \in Threads,
             \/ Wait(t) \/ SpuriousWakeup(t) \/ Exit(t) \/ OpenDir(t) \/ CloseDir(t) \/ AllPushed(t)
      PROVE  FALSE
  <2>1. /\ UNCHANGED <<queue, dir, subdirs, processed>>
        /\ \/ pc' = pc
           \/ pc[t] = "claim" /\ pc' = [pc EXCEPT ![t] = "exited"]
           \/ pc[t] \in {"open", "read", "push"} /\ \E l \in {"read", "push", "done"} : pc' = [pc EXCEPT ![t] = l]
    BY <1>8 DEF Wait, SpuriousWakeup, Exit, OpenDir, CloseDir, AllPushed, At, Goto
  <2>2. Busy' = Busy
    BY <2>1 DEF Busy, TypeOK
  <2> QED BY <1>6, <2>1, <2>2
<1> QED BY <1>1, <1>2, <1>3, <1>4, <1>5, <1>7, <1>8 DEF Next, Worker

LEMMA RootsLeftStep ==
  ASSUME TypeOK, TypeOK', Control, Control', RootsLeft, [Next]_vars
  PROVE  RootsLeft'
<1>1. CASE PushRoot
  <2>1. toPush # <<>> /\ toPush \in Seq(Paths) /\ toPush' = Tail(toPush)
    BY <1>1 DEF PushRoot, TypeOK
  <2>2. /\ 1 \in DOMAIN toPush /\ Head(toPush) = toPush[1]
        /\ \A i \in DOMAIN toPush' : i \in Nat /\ i + 1 \in DOMAIN toPush /\ i + 1 # 1 /\ toPush'[i] = toPush[i + 1]
    BY <2>1, HeadTailProperties
  <2>7. ToSet(toPush') \subseteq ToSet(cfg'.paths)
    BY <1>1, <2>1, MembersTail DEF PushRoot, RootsLeft
  <2> SUFFICES ASSUME NEW i \in DOMAIN toPush', toPush'[i] \notin Excluded
               PROVE  /\ toPush'[i] \notin Known'
                      /\ \A j \in DOMAIN toPush' : toPush'[i] = toPush'[j] => i = j
    BY <2>7 DEF RootsLeft
  <2>3. toPush[i + 1] \notin Known /\ toPush[i + 1] # toPush[1]
    BY <2>2 DEF RootsLeft
  <2>4. ~ \E t \in Threads : ReadName(t)
    BY <1>1 DEF PushRoot, ReadName, At, Running
  <2>5. toPush'[i] \notin Known'
    BY <2>2, <2>3, <2>4, KnownStep
  <2>6. ASSUME NEW j \in DOMAIN toPush', toPush'[i] = toPush'[j]
        PROVE  i = j
    <3>1. i + 1 = j + 1
      BY <2>2, <2>6 DEF RootsLeft
    <3> QED BY <2>2, <3>1
  <2> QED BY <2>5, <2>6
<1>0. cfg' = cfg
  BY DEF Next, Worker, PushRoot, StartWorkers, JoinAndMerge, Finished, Claim, Wait, Exit, OpenDir,
         ReadName, CloseDir, PushSubdir, AllPushed, DoneDir, SpuriousWakeup, vars
<1>2. CASE UNCHANGED <<toPush, processed, queue, pc, dir, subdirs>>
  BY <1>0, <1>2 DEF RootsLeft, Known, Pending, Busy
<1>3. CASE toPush' = <<>>
  BY <1>3 DEF RootsLeft, ToSet
<1>4. toPush' = <<>> \/ PushRoot \/ UNCHANGED <<toPush, processed, queue, pc, dir, subdirs>>
  <2>1. CASE main = "roots" /\ ~ PushRoot
    BY <2>1 DEF Next, Worker, StartWorkers, JoinAndMerge, Finished, Claim, Wait, Exit, OpenDir,
                ReadName, CloseDir, PushSubdir, AllPushed, DoneDir, At, Running, SpuriousWakeup, vars
  <2>2. CASE main # "roots"
    <3>1. main' # "roots"
      BY <2>2 DEF Next, Worker, PushRoot, StartWorkers, JoinAndMerge, Finished, Claim, Wait, Exit, OpenDir,
                ReadName, CloseDir, PushSubdir, AllPushed, DoneDir, SpuriousWakeup, vars
    <3> QED BY <3>1 DEF Control
  <2> QED BY <2>1, <2>2
<1> QED BY <1>1, <1>2, <1>3, <1>4

LEMMA EnteredStep ==
  ASSUME TypeOK, Control, Control', Once, Entered, [Next]_vars
  PROVE  Entered'
<1>1. ASSUME UNCHANGED <<found, names, processed, dir>>, Busy' = Busy,
             \A t \in Busy : pc[t] # "open" => pc'[t] # "open"
      PROVE  Entered'
  BY <1>1 DEF Entered
<1>2. ASSUME NEW t \in Threads, Claim(t)
      PROVE  Entered'
  <2>1. /\ pc[t] = "claim" /\ UNCHANGED <<found, names, processed>>
        /\ \A u \in Threads : u # t => pc'[u] = pc[u] /\ dir'[u] = dir[u]
    BY <1>2 DEF Claim, At, Goto, TypeOK
  <2>2. t \notin Busy /\ names[t] = {} /\ \A u \in Busy : u \in Busy' /\ u \in Threads
    BY <2>1 DEF Busy, Control
  <2> QED BY <2>1, <2>2 DEF Entered
<1>3. ASSUME NEW t \in Threads, OpenDir(t)
      PROVE  Entered'
  <2>1. /\ pc[t] = "open" /\ UNCHANGED <<found, dir, processed>>
        /\ \A u \in Threads : u # t => pc'[u] = pc[u] /\ names'[u] = names[u]
        /\ \/ names' = names
           \/ names'[t] = Children[dir[t]]
        /\ pc'[t] \in {"read", "done"}
    BY <1>3 DEF OpenDir, At, Goto, TypeOK
  <2>2. t \in Busy /\ dir[t] \in Paths /\ Busy \subseteq Threads /\ Busy \subseteq Busy'
    BY <2>1, BusyHasDir DEF Busy
  <2>3. \A p \in Children[dir[t]] : found[p] = 0
    <3> SUFFICES ASSUME NEW p \in Children[dir[t]], found[p] # 0
                 PROVE  FALSE
      OBVIOUS
    <3>1. found[p] > 0
      BY <2>2, IndexerAssumption DEF TypeOK
    <3>2. \/ dir[t] \in processed
          \/ \E u \in Busy : dir[u] = dir[t] /\ pc[u] # "open"
      BY <2>2, <3>1 DEF Entered
    <3> QED BY <2>1, <2>2, <3>2 DEF Once
  <2>4. \A d \in Paths : \A p \in Children[d] : found[p] > 0 =>
          \/ d \in processed
          \/ \E u \in Busy : u # t /\ dir[u] = d /\ pc[u] # "open" /\ p \notin names[u]
    BY <2>1 DEF Entered
  <2>5. \A u \in Threads : \A p \in names'[u] : p \in Children[dir'[u]] /\ found'[p] = 0
    BY <2>1, <2>3 DEF Entered
  <2> QED BY <2>1, <2>2, <2>4, <2>5 DEF Entered
<1>4. ASSUME NEW t \in Threads, ReadName(t)
      PROVE  Entered'
  <2>1. PICK p \in names[t] :
          /\ p \in Paths /\ pc[t] = "read"
          /\ UNCHANGED <<pc, dir, processed>>
          /\ names'[t] = names[t] \ {p}
          /\ \A u \in Threads : u # t => names'[u] = names[u]
          /\ found' = found \/ \A q \in Paths : q # p => found'[q] = found[q]
    BY <1>4, ReadNameDoes
  <2>2. t \in Busy /\ dir[t] \in Paths /\ Busy' = Busy /\ Busy \subseteq Threads
    BY <2>1, BusyHasDir DEF Busy
  <2>3. p \in Children[dir[t]]
    BY DEF Entered
  <2>4. \A d \in Paths : p \in Children[d] => d = dir[t]
    BY <2>2, <2>3, IndexerAssumption
  <2>5. \A q \in Paths : q # p => found'[q] = found[q]
    BY <2>1
  <2>6. \A u \in Threads : names'[u] \subseteq names[u]
    BY <2>1
  <2>7. ASSUME NEW u \in Threads, NEW q \in names'[u]
        PROVE  q \in Children[dir'[u]] /\ found'[q] = 0
    <3>1. q \in names[u] /\ q \in Children[dir[u]] /\ found[q] = 0 /\ q \in Paths
      BY <2>6 DEF Entered, TypeOK
    <3>2. q # p
      <4>1. CASE u = t
        BY <2>1, <4>1
      <4>2. CASE u # t
        <5>1. u \in Busy /\ dir[u] \in Paths
          BY <3>1, BusyHasDir DEF Control
        <5> QED BY <2>2, <2>4, <3>1, <4>2, <5>1 DEF Once
      <4> QED BY <4>1, <4>2
    <3> QED BY <2>1, <2>5, <3>1, <3>2
  <2>8. ASSUME NEW d \in Paths, NEW q \in Children[d], found'[q] > 0
        PROVE  \/ d \in processed'
               \/ \E u \in Busy' : dir'[u] = d /\ pc'[u] # "open" /\ q \notin names'[u]
    <3>1. CASE q = p
      BY <2>1, <2>2, <2>4, <3>1
    <3>2. CASE q # p
      <4>1. q \in Paths
        BY IndexerAssumption
      <4>2. found[q] > 0
        BY <2>5, <2>8, <3>2, <4>1
      <4>3. \/ d \in processed
            \/ \E u \in Busy : dir[u] = d /\ pc[u] # "open" /\ q \notin names[u]
        BY <4>2 DEF Entered
      <4> QED BY <2>1, <2>2, <2>6, <4>3
    <3> QED BY <3>1, <3>2
  <2> QED BY <2>7, <2>8 DEF Entered
<1>5. ASSUME NEW t \in Threads, DoneDir(t)
      PROVE  Entered'
  <2>1. /\ pc[t] = "done" /\ UNCHANGED <<found, names>>
        /\ processed' = processed \cup {dir[t]}
        /\ \A u \in Threads : u # t => pc'[u] = pc[u] /\ dir'[u] = dir[u]
    BY <1>5 DEF DoneDir, At, Goto, TypeOK
  <2>2. names[t] = {} /\ Busy \subseteq Threads /\ \A u \in Busy : u # t => u \in Busy'
    BY <2>1 DEF Busy, Control
  <2> QED BY <2>1, <2>2 DEF Entered
<1>6. CASE PushRoot \/ StartWorkers \/ JoinAndMerge \/ Finished \/ UNCHANGED vars
  <2>1. UNCHANGED <<found, names, processed, dir, pc>>
    BY <1>6 DEF PushRoot, StartWorkers, JoinAndMerge, Finished, vars
  <2> QED BY <1>1, <2>1 DEF Busy
<1>7. ASSUME NEW t \in Threads,
             \/ Wait(t) \/ SpuriousWakeup(t) \/ Exit(t) \/ CloseDir(t) \/ AllPushed(t) \/ PushSubdir(t)
      PROVE  Entered'
  <2>1. /\ UNCHANGED <<found, names, processed, dir>>
        /\ \/ pc' = pc
           \/ pc[t] = "claim" /\ pc' = [pc EXCEPT ![t] = "exited"]
           \/ pc[t] \in {"read", "push"} /\ \E l \in {"push", "done"} : pc' = [pc EXCEPT ![t] = l]
    BY <1>7 DEF Wait, SpuriousWakeup, Exit, CloseDir, AllPushed, PushSubdir, At, Goto
  <2>2. Busy' = Busy /\ \A u \in Busy : pc[u] # "open" => pc'[u] # "open"
    BY <2>1 DEF Busy, TypeOK
  <2> QED BY <1>1, <2>1, <2>2
<1> QED BY <1>2, <1>3, <1>4, <1>5, <1>6, <1>7 DEF Next, Worker

LEMMA OriginStep ==
  ASSUME TypeOK, TypeOK', Control, Control', RootsLeft, Entered, Origin, [Next]_vars
  PROVE  Origin'
<1>1. cfg' = cfg
  BY DEF Next, Worker, PushRoot, StartWorkers, JoinAndMerge, Finished, Claim, Wait, Exit, OpenDir,
         ReadName, CloseDir, PushSubdir, AllPushed, DoneDir, SpuriousWakeup, vars
<1>2. \/ PushRoot
      \/ \E t \in Threads : ReadName(t)
      \/ UNCHANGED <<found, visitedDirs>>
  BY DEF Next, Worker, StartWorkers, JoinAndMerge, Finished, Claim, Wait, Exit, OpenDir,
         CloseDir, PushSubdir, AllPushed, DoneDir, SpuriousWakeup, vars
<1>3. visitedDirs \subseteq visitedDirs' /\ \A p \in Paths : found[p] > 0 => found'[p] > 0
  <2>1. CASE PushRoot
    BY <2>1 DEF PushRoot
  <2>2. ASSUME NEW t \in Threads, ReadName(t)
        PROVE  visitedDirs \subseteq visitedDirs' /\ \A p \in Paths : found[p] > 0 => found'[p] > 0
    <3>1. PICK p \in names[t] :
            /\ p \in Paths
            /\ \/ UNCHANGED <<found, subdirs, visitedDirs>>
               \/ /\ found'[p] = found[p] + 1
                  /\ \A q \in Paths : q # p => found'[q] = found[q]
                  /\ visitedDirs \subseteq visitedDirs'
      BY <2>2, ReadNameDoes
    <3>2. ASSUME NEW q \in Paths, found[q] > 0
          PROVE  found'[q] > 0
      <4>1. found[q] \in Nat
        BY DEF TypeOK
      <4>2. found'[q] = found[q] \/ found'[q] = found[q] + 1
        BY <3>1
      <4> QED BY <3>2, <4>1, <4>2
    <3> QED BY <3>1, <3>2
  <2> QED BY <1>2, <2>1, <2>2
<1>4. CASE cfg.follow_symlinks
  <2> SUFFICES ASSUME NEW d \in Known', d \notin NoStat
               PROVE  Inode[d] \in visitedDirs'
    BY <1>1, <1>4 DEF Origin
  <2>1. CASE d \in Known
    BY <1>3, <1>4, <2>1 DEF Origin
  <2>2. CASE PushRoot /\ d = Head(toPush) /\ d \notin Excluded
    BY <1>4, <2>2 DEF PushRoot
  <2>3. ASSUME NEW t \in Threads, ReadName(t), d \in ToSet(subdirs'[t]), d \notin ToSet(subdirs[t])
        PROVE  Inode[d] \in visitedDirs'
    <3>1. PICK p \in names[t] :
            /\ p \in Paths
            /\ \/ subdirs' = subdirs
               \/ /\ subdirs'[t] = Append(subdirs[t], p)
                  /\ cfg.follow_symlinks => Inode[p] \in visitedDirs'
      BY <2>3, ReadNameDoes
    <3>2. ToSet(Append(subdirs[t], p)) = ToSet(subdirs[t]) \cup {p}
      BY <3>1, MembersAppend DEF TypeOK
    <3> QED BY <1>4, <2>3, <3>1, <3>2
  <2> QED BY <2>1, <2>2, <2>3, KnownStep
<1>5. CASE ~ cfg.follow_symlinks
  <2>1. PICK below \in SUBSET Paths :
          /\ Covers(cfg, below) /\ below \cap GoodRoots = {}
          /\ \A d \in Known : d \in GoodRoots \/ (d \in below /\ found[d] > 0)
    BY <1>5 DEF Origin
  <2>2. GoodRoots' = GoodRoots
    BY <1>1 DEF GoodRoots
  <2>3. ASSUME NEW d \in Known'
        PROVE  d \in GoodRoots \/ (d \in below /\ found'[d] > 0)
    <3>1. CASE d \in Known
      BY <1>3, <2>1, <3>1
    <3>2. CASE PushRoot /\ d = Head(toPush) /\ d \notin Excluded
      <4>1. d \in ToSet(toPush)
        BY <3>2, MembersTail DEF PushRoot, TypeOK
      <4> QED BY <3>2, <4>1 DEF RootsLeft, GoodRoots
    <3>3. ASSUME NEW t \in Threads, ReadName(t), d \in ToSet(subdirs'[t]), d \notin ToSet(subdirs[t])
          PROVE  d \in below /\ found'[d] > 0
      <4>1. PICK p \in names[t] :
              /\ p \in Paths /\ pc[t] = "read"
              /\ \/ subdirs' = subdirs
                 \/ /\ ~ Rejected(p) /\ p \notin NoStat
                    /\ found'[p] = found[p] + 1
                    /\ subdirs' = subdirs \/ subdirs'[t] = Append(subdirs[t], p)
        BY <3>3, ReadNameDoes
      <4>2. ToSet(Append(subdirs[t], p)) = ToSet(subdirs[t]) \cup {p}
        BY <4>1, MembersAppend DEF TypeOK
      <4>3. d = p /\ subdirs' # subdirs
        BY <3>3, <4>1, <4>2
      <4>4. p \in KeptNames(dir[t]) /\ found[p] = 0
        BY <4>1, <4>3 DEF Entered, KeptNames
      <4>5. dir[t] \in Known
        BY <4>1 DEF Known, Pending, Busy
      <4>6. p \in below
        BY <2>1, <4>4, <4>5 DEF Covers, GoodRoots
      <4> QED BY <4>1, <4>3, <4>4, <4>6
    <3> QED BY <3>1, <3>2, <3>3, KnownStep
  <2> QED BY <1>1, <1>5, <2>1, <2>2, <2>3 DEF Origin
<1> QED BY <1>4, <1>5

LEMMA OneEntryStep ==
  ASSUME TypeOK, Entered, OneEntryPerPath, [Next]_vars
  PROVE  OneEntryPerPath'
<1>1. ASSUME NEW t \in Threads, ReadName(t)
      PROVE  OneEntryPerPath'
  <2>1. PICK p \in names[t] :
          /\ p \in Paths
          /\ \/ found' = found
             \/ /\ found'[p] = found[p] + 1
                /\ \A q \in Paths : q # p => found'[q] = found[q]
    BY <1>1, ReadNameDoes
  <2>2. found[p] = 0
    BY DEF Entered
  <2> QED BY <2>1, <2>2 DEF OneEntryPerPath
<1>2. CASE found' = found
  BY <1>2 DEF OneEntryPerPath
<1> QED BY <1>1, <1>2 DEF Next, Worker, PushRoot, StartWorkers, JoinAndMerge, Finished, Claim, Wait,
          Exit, OpenDir, CloseDir, PushSubdir, AllPushed, DoneDir, SpuriousWakeup, vars

LEMMA IdentifiedStep ==
  ASSUME TypeOK, TypeOK', Control, Control', RootsLeft, Origin, Identified, [Next]_vars
  PROVE  Identified'
<1>1. cfg' = cfg /\ GoodRoots' = GoodRoots /\ (main' = "roots" => main = "roots")
  BY DEF Next, Worker, PushRoot, StartWorkers, JoinAndMerge, Finished, Claim, Wait, Exit, OpenDir,
         ReadName, CloseDir, PushSubdir, AllPushed, DoneDir, SpuriousWakeup, vars, GoodRoots
<1>2. ASSUME NEW d \in Known', d \notin Known, PushRoot
      PROVE  d = Head(toPush) /\ d \in GoodRoots /\ main = "roots"
  <2>1. main = "roots" /\ toPush # <<>>
    BY <1>2 DEF PushRoot
  <2>2. d = Head(toPush) /\ d \notin Excluded
    BY <1>2, <2>1, KnownStep DEF ReadName, At, Running
  <2>3. d \in ToSet(toPush)
    BY <2>1, <2>2, MembersTail DEF TypeOK
  <2> QED BY <2>1, <2>2, <2>3 DEF RootsLeft, GoodRoots
<1>3. ASSUME NEW t \in Threads, ReadName(t)
      PROVE  \E p \in names[t] :
               /\ main = "join" /\ main' = "join"
               /\ \A d \in Known' \ Known : d = p /\ (cfg.follow_symlinks => Inode[d] \notin visitedDirs)
  <2>1. PICK p \in names[t] :
          /\ p \in Paths /\ main = "join" /\ main' = main
          /\ \A u \in Threads : u # t => subdirs'[u] = subdirs[u]
          /\ subdirs' = subdirs \/ (MustQueue(p) /\ subdirs'[t] = Append(subdirs[t], p))
    BY <1>3, ReadNameDoes
  <2>2. ASSUME NEW d \in Known', d \notin Known
        PROVE  d = p /\ (cfg.follow_symlinks => Inode[d] \notin visitedDirs)
    <3>1. PICK u \in Threads : d \in ToSet(subdirs'[u]) /\ d \notin ToSet(subdirs[u])
      BY <2>1, <2>2, KnownStep DEF PushRoot
    <3>2. u = t /\ MustQueue(p) /\ subdirs'[t] = Append(subdirs[t], p)
      BY <2>1, <3>1
    <3>3. ToSet(Append(subdirs[t], p)) = ToSet(subdirs[t]) \cup {p}
      BY <2>1, MembersAppend DEF TypeOK
    <3> QED BY <3>1, <3>2, <3>3 DEF MustQueue
  <2> QED BY <2>1, <2>2
<1>4. \/ Known' \subseteq Known \/ PushRoot \/ \E t \in Threads : ReadName(t)
  BY KnownStep
<1>5. ASSUME main' = "roots"
      PROVE  Known' \subseteq GoodRoots'
  BY <1>1, <1>2, <1>3, <1>4, <1>5 DEF Identified
<1>6. ASSUME NEW d \in Known', NEW e \in Known', d \notin Known, e \notin Known
      PROVE  d = e
  BY <1>2, <1>3, <1>4, <1>6
<1>7. ASSUME NEW d \in Known', NEW e \in Known, d \notin Known
      PROVE  Distinct(d, e)' /\ Distinct(e, d)'
  <2>1. d # e
    BY <1>7
  <2>2. CASE PushRoot
    <3>1. d \in GoodRoots /\ e \in GoodRoots
      BY <1>2, <1>7, <2>2 DEF Identified
    <3> QED BY <1>1, <2>1, <3>1 DEF Distinct
  <2>3. CASE \E t \in Threads : ReadName(t)
    <3>1. cfg.follow_symlinks => Inode[d] \notin visitedDirs
      BY <1>3, <1>7, <2>3
    <3>2. cfg.follow_symlinks /\ e \notin NoStat => Inode[e] \in visitedDirs
      BY DEF Origin
    <3> QED BY <1>1, <2>1, <3>1, <3>2 DEF Distinct
  <2> QED BY <1>4, <1>7, <2>2, <2>3
<1>8. ASSUME NEW d \in Known', NEW e \in Known', d # e
      PROVE  Distinct(d, e)'
  <2>1. CASE d \in Known /\ e \in Known
    BY <1>1, <1>8, <2>1 DEF Identified, Distinct
  <2> QED BY <1>6, <1>7, <1>8, <2>1
<1> QED BY <1>5, <1>8 DEF Identified

\* For any tree and any number of workers: when no root lies in the tree of
\* another, or links are followed, no directory is scanned twice, whatever
\* links lead to it, and no path gets two entries.
THEOREM DirectoriesScannedOnce ==
  ASSUME \A c \in Configs : RootsApart(c)
  PROVE  Spec => []ScannedOnce
<1>1. ASSUME Init
      PROVE  EntryInv
  <2>1. TypeOK /\ Busy = {} /\ RootsApart(cfg)
    BY <1>1, IndexerAssumption DEF Init, TypeOK, Busy
  <2>2. ToSet(queue) = {} /\ \A t \in Threads : ToSet(subdirs[t]) = {}
    BY <1>1, <2>1, MembersOf DEF Init, TypeOK
  <2>3. Known = {}
    BY <1>1, <2>1, <2>2 DEF Init, Known, Pending
  <2>4. Once
    BY <1>1, <2>1, <2>2 DEF Init, Once, IsInjective
  <2>5. RootsLeft
    BY <1>1, <2>1, <2>3 DEF Init, RootsLeft, RootsApart
  <2>6. Entered /\ OneEntryPerPath
    BY <1>1, IndexerAssumption DEF Init, Entered, OneEntryPerPath
  <2>7. Origin /\ Identified
    BY <1>1, <2>1, <2>3 DEF Init, Origin, Identified, RootsApart, GoodRoots
  <2> QED BY <2>4, <2>5, <2>6, <2>7 DEF EntryInv
<1>2. ASSUME ScanInv, ScanInv', EntryInv, [Next]_vars
      PROVE  EntryInv'
  BY <1>2, OnceStep, RootsLeftStep, EnteredStep, OriginStep, IdentifiedStep, OneEntryStep
     DEF ScanInv, EntryInv
<1>3. EntryInv => ScannedOnce
  <2> SUFFICES ASSUME EntryInv
               PROVE  ScannedOnce
    OBVIOUS
  <2>1. processed \subseteq Known /\ \A t \in Busy : dir[t] \in Known /\ dir[t] \notin processed
    BY DEF EntryInv, Once, Known, Pending
  <2>2. \A t, u \in Busy : t # u => dir[t] # dir[u]
    BY DEF EntryInv, Once
  <2> QED BY <2>1, <2>2 DEF EntryInv, Identified, ScannedOnce
<1> QED BY <1>1, <1>2, <1>3, ScanInvHolds, PTL DEF Spec

=============================================================================
