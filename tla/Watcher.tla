------------------------------- MODULE Watcher -------------------------------
(***************************************************************************)
(* The inotify watcher of lsearchd: class Watcher of core/watcher.cpp, with  *)
(* what the daemon's callback does to the index (Daemon::applyWatch).        *)
(*                                                                         *)
(* The kernel queues an event for every change in a directory that has a     *)
(* watch.  A watch is on an inode and has a number, the watch descriptor;    *)
(* the watcher keeps which path it thinks a descriptor stands for and the    *)
(* reverse, in two maps that are all it has to name what an event is about.  *)
(* It looks at the file system when it handles an event, which may be long   *)
(* after the change.                                                        *)
(*                                                                         *)
(* A path is the sequence of the names below a directory "top" that has an   *)
(* entry in the index.  The name says whether it is a directory.  An inode   *)
(* is the path and the time of its creation.                                *)
(***************************************************************************)
EXTENDS Naturals, Sequences, FiniteSets, SequencesExt

CONSTANTS
  DirNames,     \* the names of directories
  Hidden,       \* the names that begin with a dot (index_hidden is off)
  Paths,        \* the paths that may come to be
  Excluded,     \* the paths in cfg_.excludes
  Trees,        \* the trees that may be there at first: sets of paths
  Happenings,   \* what happens to files: a subset of the actions of Disk
  MaxOps,       \* a bound on them
  QueueLimit,   \* max_queued_events
  WatchLimit,   \* max_user_watches
  MaxRestarts   \* a bound on the restarts of the watcher

top == <<>>

ASSUME WatcherAssumption ==
  /\ top \in Paths
  /\ \A S \in Trees : top \in S /\ S \subseteq Paths /\ \A p \in S \ {top} : Front(p) \in S
  /\ Happenings \subseteq {"create", "delete", "modify", "move", "move dir"}
  /\ MaxOps \in Nat /\ QueueLimit \in Nat /\ WatchLimit \in Nat /\ MaxRestarts \in Nat

VARIABLES
  disk,      \* disk[p]: the inode at path p
  ops,       \* how many changes there have been
  fd,        \* the inotify instance: watches by descriptor, next descriptor, queue
  wdToPath, pathToWd,
  work,      \* the recursion of emitAdded and scanNewDir: what is still to do, innermost first
  index,     \* the paths in the index
  restarts   \* how often stop() and start() have been called

maps == <<wdToPath, pathToWd>>
vars == <<disk, ops, fd, maps, work, index, restarts>>

-----------------------------------------------------------------------------

IsDir(p)    == p = top \/ Last(p) \in DirNames
Below(p)    == {q \in Paths : IsPrefix(p, q)}
Children(p) == {q \in DOMAIN disk : q # top /\ Front(q) = p}

\* Config::isExcluded, and the filters of the full scan.
IsExcluded(p) == \E e \in Excluded : IsPrefix(e, p)
Visible(p)    == ~ IsExcluded(p) /\ \A i \in DOMAIN p : p[i] \notin Hidden

\* Only directories have entries.
ASSUME PathsAssumption ==
  /\ IsFiniteSet(Paths) /\ Paths \subseteq Seq(STRING) /\ Excluded \subseteq Seq(STRING)
  /\ \A p, q \in Paths : p # q /\ IsPrefix(p, q) => IsDir(p)

Without(f, x) == [y \in DOMAIN f \ {x} |-> f[y]]
Over(g, f)    == [y \in DOMAIN g \cup DOMAIN f |-> IF y \in DOMAIN g THEN g[y] ELSE f[y]]
With(f, x, v) == Over([y \in {x} |-> v], f)

\* Watcher::start on a new inotify instance, given the maps and the directories
\* of the index in any order.
Started(dirs, oldWd, oldPath) ==
  LET new == SetToSeq(dirs \ DOMAIN oldPath)
  IN  [fd       |-> [watches |-> [w \in DOMAIN new |-> disk[new[w]]],
                     next    |-> Len(new) + 1,
                     queue   |-> <<>>],
       wdToPath |-> Over(new, oldWd),
       pathToWd |-> Over([p \in ToSet(new) |-> CHOOSE w \in DOMAIN new : new[w] = p], oldPath)]

\* After a full scan, with the watches as start() adds them.
Scanned == {p \in DOMAIN disk : Visible(p)}

Init ==
  /\ \E S \in Trees : disk = [p \in S |-> <<p, 0>>]
  /\ ops = 0 /\ work = <<>> /\ restarts = 0
  /\ index = Scanned
  /\ LET s == Started({p \in index : IsDir(p)}, <<>>, <<>>)
     IN  fd = s.fd /\ wdToPath = s.wdToPath /\ pathToWd = s.pathToWd

-----------------------------------------------------------------------------
(* The file system and the kernel.  Kinds of events: IN_CREATE or           *)
(* IN_MOVED_TO; IN_DELETE or IN_MOVED_FROM; IN_MODIFY or IN_ATTRIB; and      *)
(* "self" for IN_DELETE_SELF, IN_IGNORED or IN_MOVE_SELF, which have no name. *)

\* What is told of an inode: one event if it has a watch, else none.
Event(inode, kind, name) ==
  IF \E w \in DOMAIN fd.watches : fd.watches[w] = inode
  THEN <<[wd   |-> CHOOSE w \in DOMAIN fd.watches : fd.watches[w] = inode,
          kind |-> kind, name |-> name]>>
  ELSE <<>>

Named(p, kind) == Event(disk[Front(p)], kind, Last(p))

\* Events are queued, up to the limit; the watches on the inodes in "gone" end.
Notify(events, gone) ==
  LET all == fd.queue \o events
  IN  fd' = [fd EXCEPT !.queue   = SubSeq(all, 1, IF Len(all) <= QueueLimit THEN Len(all) ELSE QueueLimit),
                       !.watches = [w \in {v \in DOMAIN @ : @[v] \notin gone} |-> @[w]]]

Changes(what) ==
  /\ what \in Happenings /\ ops < MaxOps
  /\ ops' = ops + 1
  /\ UNCHANGED <<maps, work, index, restarts>>

Create(p) ==
  /\ Changes("create")
  /\ p \notin DOMAIN disk /\ Front(p) \in DOMAIN disk
  /\ disk' = With(disk, p, <<p, ops + 1>>)
  /\ Notify(Named(p, "created"), {})

\* rmdir tells the directory itself before or after its parent: IN_DELETE_SELF,
\* then IN_IGNORED, as the watch ends.
Delete(p) ==
  /\ Changes("delete")
  /\ p \in DOMAIN disk /\ Children(p) = {}
  /\ disk' = Without(disk, p)
  /\ LET self == Event(disk[p], "self", "")
         name == Named(p, "deleted")
     IN  Notify(self \o self \o name, {disk[p]}) \/ Notify(name \o self \o self, {disk[p]})

Modify(p) ==
  /\ Changes("modify")
  /\ p \in DOMAIN disk
  /\ UNCHANGED disk
  /\ Notify(Named(p, "modified"), {})

\* A directory takes what is below it along; the watches stay on the inodes.
Move(p, q) ==
  /\ Changes(IF IsDir(p) THEN "move dir" ELSE "move")
  /\ p \in DOMAIN disk /\ q \notin DOMAIN disk /\ q \notin Below(p)
  /\ Front(q) \in DOMAIN disk /\ IsDir(p) = IsDir(q)
  /\ LET To(r)   == q \o SubSeq(r, Len(p) + 1, Len(r))
         moved   == Below(p) \cap DOMAIN disk
     IN  /\ \A r \in moved : To(r) \in Paths
         /\ disk' = Over([r \in {To(s) : s \in moved} |-> disk[CHOOSE s \in moved : To(s) = r]],
                         [r \in DOMAIN disk \ moved |-> disk[r]])
  /\ Notify(Named(p, "deleted") \o Named(q, "created") \o Event(disk[p], "self", ""), {})

Disk == \E p \in Paths \ {top} :
  \/ Create(p) \/ Delete(p) \/ Modify(p)
  \/ \E q \in Paths \ {top} : Move(p, q)

-----------------------------------------------------------------------------
(* The watcher's thread.  The next event is handled when the work that the   *)
(* one before made is done.                                                  *)

\* An event whose descriptor is not in the map is skipped.
Unknown ==
  /\ work = <<>> /\ fd.queue # <<>>
  /\ Head(fd.queue).wd \notin DOMAIN wdToPath
  /\ fd' = [fd EXCEPT !.queue = Tail(@)]
  /\ UNCHANGED <<disk, ops, maps, work, index, restarts>>

Takes(kind) ==
  /\ work = <<>> /\ fd.queue # <<>>
  /\ Head(fd.queue).kind = kind /\ Head(fd.queue).wd \in DOMAIN wdToPath
  /\ fd' = [fd EXCEPT !.queue = Tail(@)]
  /\ UNCHANGED <<disk, ops, restarts>>

Dir  == wdToPath[Head(fd.queue).wd]

Full == Append(Dir, Head(fd.queue).name)

\* Faulty: pathToWd_ keeps the path.
SelfKeepsPath ==
  /\ Takes("self")
  /\ wdToPath' = Without(wdToPath, Head(fd.queue).wd)
  /\ index' = index \ Below(Dir)
  /\ UNCHANGED <<pathToWd, work>>

Self ==
  /\ Takes("self")
  /\ wdToPath' = Without(wdToPath, Head(fd.queue).wd)
  /\ pathToWd' = Without(pathToWd, Dir)
  /\ index' = index \ Below(Dir)
  /\ UNCHANGED work

Created ==
  /\ Takes("created")
  /\ work' = IF Last(Full) \in Hidden THEN <<>> ELSE <<[do |-> "emit", path |-> Full]>>
  /\ UNCHANGED <<maps, index>>

Deleted ==
  /\ Takes("deleted")
  /\ index' = index \ Below(Full)
  /\ UNCHANGED <<maps, work>>

\* Neither hidden nor excluded paths are looked for here.
Modified ==
  /\ Takes("modified")
  /\ index' = IF Full \in DOMAIN disk THEN index \cup {Full} ELSE index
  /\ UNCHANGED <<maps, work>>

Doing(what) ==
  /\ work # <<>> /\ Head(work).do = what
  /\ UNCHANGED <<disk, ops, restarts>>

Then(steps) == work' = steps \o Tail(work)

EmitAdded ==
  /\ Doing("emit")
  /\ LET p == Head(work).path
     IN  IF IsExcluded(p) \/ p \notin DOMAIN disk THEN Then(<<>>) /\ UNCHANGED index
         ELSE /\ index' = index \cup {p}
              /\ Then(IF IsDir(p) THEN <<[do |-> "watch", path |-> p]>> ELSE <<>>)
  /\ UNCHANGED <<fd, maps>>

\* Faulty: the path is put into one of the maps only.
AddWatchOneMap ==
  /\ Doing("watch")
  /\ LET p == Head(work).path
     IN  /\ p \in DOMAIN disk
         /\ fd' = [fd EXCEPT !.watches = With(@, fd.next, disk[p]), !.next = @ + 1]
         /\ wdToPath' = With(wdToPath, fd.next, p)
         /\ Then(<<[do |-> "list", path |-> p]>>)
  /\ UNCHANGED <<index, pathToWd>>

\* addWatch: a path in the map is taken to have its watch.  For an inode that has
\* one already the kernel returns its descriptor.
AddWatch ==
  /\ Doing("watch")
  /\ LET p   == Head(work).path
         old == {w \in DOMAIN fd.watches : p \in DOMAIN disk /\ fd.watches[w] = disk[p]}
         wd  == IF old = {} THEN fd.next ELSE CHOOSE w \in old : TRUE
     IN  IF p \in DOMAIN pathToWd
         THEN Then(<<[do |-> "list", path |-> p]>>) /\ UNCHANGED <<fd, maps>>
         ELSE IF p \notin DOMAIN disk \/ (old = {} /\ Cardinality(DOMAIN fd.watches) >= WatchLimit)
         THEN Then(<<>>) /\ UNCHANGED <<fd, maps>>
         ELSE /\ fd' = IF old # {} THEN fd
                       ELSE [fd EXCEPT !.watches = With(@, wd, disk[p]), !.next = wd + 1]
              /\ wdToPath' = With(wdToPath, wd, p)
              /\ pathToWd' = With(pathToWd, p, wd)
              /\ Then(<<[do |-> "list", path |-> p]>>)
  /\ UNCHANGED index

\* Faulty: a new directory is watched, what is in it already is not looked for.
ListNothing ==
  /\ Doing("list")
  /\ Then(<<>>)
  /\ UNCHANGED <<fd, maps, index>>

\* readdir of the whole directory; an entry is then emitted for each name.
List ==
  /\ Doing("list")
  /\ LET names == {q \in Children(Head(work).path) : Last(q) \notin Hidden}
     IN  Then([i \in 1..Cardinality(names) |-> [do |-> "emit", path |-> SetToSeq(names)[i]]])
  /\ UNCHANGED <<fd, maps, index>>

\* poll() times out and the loop goes round.
Idle == work = <<>> /\ fd.queue = <<>> /\ UNCHANGED vars

Loop == Unknown \/ Self \/ Created \/ Deleted \/ Modified \/ EmitAdded \/ AddWatch \/ List

\* stop(), a full scan, and start() on the directories of the new index
\* (Daemon::rebuildAsync).  What the kernel has queued is lost with the descriptor.
Restart ==
  /\ work = <<>> /\ restarts < MaxRestarts
  /\ restarts' = restarts + 1
  /\ index' = Scanned
  /\ LET s == Started({p \in Scanned : IsDir(p)}, wdToPath, pathToWd)
     IN  fd' = s.fd /\ wdToPath' = s.wdToPath /\ pathToWd' = s.pathToWd
  /\ UNCHANGED <<disk, ops, work>>

Next == Disk \/ Loop \/ Idle

\* One life of the watcher, and its lives from rebuild to rebuild.
Spec        == Init /\ [][Next]_vars /\ WF_vars(Loop)
RestartSpec == Init /\ [][Next \/ Restart]_vars /\ WF_vars(Loop)

-----------------------------------------------------------------------------
(* Properties.                                                             *)

TypeOK ==
  /\ DOMAIN disk \subseteq Paths /\ index \subseteq Paths
  /\ ops \in 0..MaxOps /\ restarts \in 0..MaxRestarts
  /\ DOMAIN fd.watches \subseteq 1..(fd.next - 1)
  /\ \A i \in DOMAIN fd.queue : fd.queue[i].kind \in {"created", "deleted", "modified", "self"}
  /\ \A w \in DOMAIN wdToPath : wdToPath[w] \in Paths
  /\ \A p \in DOMAIN pathToWd : p \in Paths /\ pathToWd[p] \in 1..(fd.next - 1)
  /\ \A i \in DOMAIN work : work[i].path \in Paths /\ work[i].do \in {"emit", "watch", "list"}

\* The two maps are each other's inverse: an event that ends a watch takes the
\* right path out of both, and no path keeps a descriptor that means another.
MapsAgree ==
  /\ \A w \in DOMAIN wdToPath : wdToPath[w] \in DOMAIN pathToWd /\ pathToWd[wdToPath[w]] = w
  /\ \A p \in DOMAIN pathToWd : pathToWd[p] \in DOMAIN wdToPath /\ wdToPath[pathToWd[p]] = p

Settled == work = <<>> /\ fd.queue = <<>>

\* When every event is handled, each directory that the index should cover has a
\* watch, on the inode that is there now, under its own path: the next change
\* in it will be seen and given the right name.  It holds for a few changes at a
\* time only: while the end of a watch waits in the queue, addWatch takes a path
\* that has been made again for watched.
EveryDirectoryWatched ==
  Settled => \A p \in DOMAIN disk : IsDir(p) /\ Visible(p) =>
    /\ p \in DOMAIN pathToWd
    /\ pathToWd[p] \in DOMAIN fd.watches /\ fd.watches[pathToWd[p]] = disk[p]

\* The index has what the full scan would find, but for hidden and excluded paths.
Current == {p \in index : Visible(p)} = Scanned

\* When every event is handled the index is current, in whatever order files and
\* directories come, go and come back while older events wait or a new directory
\* is being scanned.  (BecomesCurrent implies it: files need not change any more.)
SettledIsCurrent == Settled => Current

\* Once changes stop the index becomes current and stays so.
BecomesCurrent == <>[]Current

=============================================================================
