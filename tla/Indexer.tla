------------------------------ MODULE Indexer ------------------------------
(***************************************************************************)
(* The parallel full scan of lsearchd: fullScan() of core/indexer.cpp.      *)
(*                                                                         *)
(* The calling thread pushes the root directories to a shared queue, then   *)
(* starts the workers and joins them.  A worker takes a directory, reads    *)
(* it, records an entry for each name it keeps, pushes the subdirectories   *)
(* and reports the directory done.  queueM protects the queue and the       *)
(* number of busy workers, so each section under it is one action; workers  *)
(* wait on the condition variable cv.                                       *)
(*                                                                         *)
(* The file system does not change during the scan in this model; the order *)
(* in which readdir() lists a directory is arbitrary.                       *)
(***************************************************************************)
EXTENDS Integers, Sequences, FiniteSets, SequencesExt

CONSTANTS
  Threads,         \* the worker threads (2 to 16 in the code)
  Paths,           \* the absolute path names
  Configs,         \* the configurations: the roots (paths), in order, and follow_symlinks
  Children,        \* Children[d]: the paths of the names in directory d (and in no other)
  Dirs,            \* the paths that stat calls directories
  Links,           \* the paths that are symbolic links
  Inode,           \* Inode[p]: the (st_dev, st_ino) of p
  Excluded,        \* the paths that Config::isExcluded rejects
  Hidden,          \* the paths whose name is hidden, when index_hidden is off
  NoStat,          \* the paths that cannot be stat'ed
  NoOpen,          \* the directories that cannot be opened
  None             \* no directory

ASSUME IndexerAssumption ==
  /\ IsFiniteSet(Threads) /\ Threads # {}
  /\ Configs \subseteq [paths : Seq(Paths), follow_symlinks : BOOLEAN]
  /\ Children \in [Paths -> SUBSET Paths]
  /\ \A d, e \in Paths : d # e => Children[d] \cap Children[e] = {}
  /\ Dirs \subseteq Paths
  /\ None \notin Paths

VARIABLES
  cfg,          \* the configuration, a copy
  main,         \* the calling thread: roots, join, or merged
  toPush,       \* the roots it has still to look at
  queue,        \* the shared queue of directories
  active,       \* the workers between popClaim and doneDir
  waiting,      \* the workers waiting on cv
  pc,           \* pc[t]: where worker t is
  dir,          \* dir[t]: the directory it works on, or None
  names,        \* names[t]: what readdir has still to return
  subdirs,      \* subdirs[t]: the subdirectories it has to push
  visitedDirs,  \* the inodes visited, when links are followed
  found,        \* found[p]: how many entries of p the workers' vectors hold
  processed     \* history: the directories whose processing is complete

vars == <<cfg, main, toPush, queue, active, waiting, pc, dir, names, subdirs,
          visitedDirs, found, processed>>

-----------------------------------------------------------------------------

\* What a scan does not enter an entry for, whatever stat says.
Rejected(p) == p \in Excluded \cup Hidden

\* lstat does not look through a link.
IsDir(p) == p \in Dirs /\ (cfg.follow_symlinks \/ p \notin Links)

\* Faulty: the insert comes with the push, not under the lock of the test, so a
\* directory that a worker has still to push is taken for new.
MustQueueStale(p) ==
  cfg.follow_symlinks =>
    Inode[p] \notin visitedDirs \ {Inode[q] : q \in UNION {ToSet(subdirs[t]) : t \in Threads}}

\* A subdirectory is queued once per inode when links are followed.
MustQueue(p) == cfg.follow_symlinks => Inode[p] \notin visitedDirs

\* cv.notify_one(): one waiter, if any, runs again.
NotifyOne == IF waiting = {} THEN UNCHANGED waiting
             ELSE \E t \in waiting : waiting' = waiting \ {t}

Push(d) == queue' = Append(queue, d) /\ NotifyOne

\* The workers do not exist before the roots are queued.
Running(t) == main = "join" /\ t \notin waiting

At(t, l) == Running(t) /\ pc[t] = l

Goto(t, l) == pc' = [pc EXCEPT ![t] = l]

Init ==
  /\ cfg \in Configs
  /\ main = "roots" /\ toPush = cfg.paths
  /\ queue = <<>> /\ active = 0 /\ waiting = {}
  /\ pc = [t \in Threads |-> "claim"]
  /\ dir = [t \in Threads |-> None]
  /\ names = [t \in Threads |-> {}]
  /\ subdirs = [t \in Threads |-> <<>>]
  /\ visitedDirs = {}
  /\ found = [p \in Paths |-> 0]
  /\ processed = {}

-----------------------------------------------------------------------------
(* The calling thread.                                                     *)

PushRoot ==
  /\ main = "roots" /\ toPush # <<>>
  /\ toPush' = Tail(toPush)
  /\ LET root == Head(toPush)
     IN  IF root \in Excluded THEN UNCHANGED <<queue, waiting, visitedDirs>>
         ELSE /\ Push(root)
              /\ visitedDirs' = IF cfg.follow_symlinks /\ root \notin NoStat
                                THEN visitedDirs \cup {Inode[root]} ELSE visitedDirs
  /\ UNCHANGED <<cfg, main, active, pc, dir, names, subdirs, found, processed>>

StartWorkers ==
  /\ main = "roots" /\ toPush = <<>>
  /\ main' = "join"
  /\ UNCHANGED <<cfg, toPush, queue, active, waiting, pc, dir, names, subdirs,
                 visitedDirs, found, processed>>

JoinAndMerge ==
  /\ main = "join"
  /\ \A t \in Threads : pc[t] = "exited"
  /\ main' = "merged"
  /\ UNCHANGED <<cfg, toPush, queue, active, waiting, pc, dir, names, subdirs,
                 visitedDirs, found, processed>>

-----------------------------------------------------------------------------
(* The workers.                                                            *)

\* popClaim: the predicate of cv.wait is "the queue is not empty or nobody is
\* busy"; an empty queue when it holds ends the worker.
Claim(t) ==
  /\ At(t, "claim")
  /\ queue # <<>>
  /\ dir' = [dir EXCEPT ![t] = Head(queue)]
  /\ queue' = Tail(queue)
  /\ active' = active + 1
  /\ Goto(t, "open")
  /\ UNCHANGED <<cfg, main, toPush, waiting, names, subdirs, visitedDirs, found, processed>>

Wait(t) ==
  /\ At(t, "claim")
  /\ queue = <<>> /\ active # 0
  /\ waiting' = waiting \cup {t}
  /\ UNCHANGED <<cfg, main, toPush, queue, active, pc, dir, names, subdirs,
                 visitedDirs, found, processed>>

\* Faulty: a worker that finds the queue empty ends, whoever is busy.
ExitOnEmpty(t) ==
  /\ At(t, "claim")
  /\ queue = <<>>
  /\ Goto(t, "exited")
  /\ UNCHANGED <<cfg, main, toPush, queue, active, waiting, dir, names, subdirs,
                 visitedDirs, found, processed>>

Exit(t) ==
  /\ At(t, "claim")
  /\ queue = <<>> /\ active = 0
  /\ Goto(t, "exited")
  /\ UNCHANGED <<cfg, main, toPush, queue, active, waiting, dir, names, subdirs,
                 visitedDirs, found, processed>>

SpuriousWakeup(t) ==
  /\ t \in waiting
  /\ waiting' = waiting \ {t}
  /\ UNCHANGED <<cfg, main, toPush, queue, active, pc, dir, names, subdirs,
                 visitedDirs, found, processed>>

OpenDir(t) ==
  /\ At(t, "open")
  /\ IF dir[t] \in NoOpen THEN Goto(t, "done") /\ UNCHANGED names
     ELSE Goto(t, "read") /\ names' = [names EXCEPT ![t] = Children[dir[t]]]
  /\ UNCHANGED <<cfg, main, toPush, queue, active, waiting, dir, subdirs,
                 visitedDirs, found, processed>>

\* One name of the directory: filters, stat, entry, and the test-and-insert in
\* visitedDirs under visitM.
ReadName(t) ==
  /\ At(t, "read")
  /\ \E p \in names[t] :
       /\ names' = [names EXCEPT ![t] = @ \ {p}]
       /\ IF Rejected(p) \/ p \in NoStat THEN UNCHANGED <<found, subdirs, visitedDirs>>
          ELSE /\ found' = [found EXCEPT ![p] = @ + 1]
               /\ IF IsDir(p) /\ MustQueue(p)
                  THEN /\ subdirs' = [subdirs EXCEPT ![t] = Append(@, p)]
                       /\ visitedDirs' = IF cfg.follow_symlinks THEN visitedDirs \cup {Inode[p]}
                                         ELSE visitedDirs
                  ELSE UNCHANGED <<subdirs, visitedDirs>>
  /\ UNCHANGED <<cfg, main, toPush, queue, active, waiting, pc, dir, processed>>

CloseDir(t) ==
  /\ At(t, "read") /\ names[t] = {}
  /\ Goto(t, "push")
  /\ UNCHANGED <<cfg, main, toPush, queue, active, waiting, dir, names, subdirs,
                 visitedDirs, found, processed>>

PushSubdir(t) ==
  /\ At(t, "push") /\ subdirs[t] # <<>>
  /\ Push(Head(subdirs[t]))
  /\ subdirs' = [subdirs EXCEPT ![t] = Tail(@)]
  /\ UNCHANGED <<cfg, main, toPush, active, pc, dir, names, visitedDirs, found, processed>>

\* Faulty: the loop over the subdirectories ends too soon.
AllPushedEarly(t) ==
  /\ At(t, "push")
  /\ subdirs' = [subdirs EXCEPT ![t] = <<>>]
  /\ Goto(t, "done")
  /\ UNCHANGED <<cfg, main, toPush, queue, active, waiting, dir, names, visitedDirs, found, processed>>

AllPushed(t) ==
  /\ At(t, "push") /\ subdirs[t] = <<>>
  /\ Goto(t, "done")
  /\ UNCHANGED <<cfg, main, toPush, queue, active, waiting, dir, names, subdirs,
                 visitedDirs, found, processed>>

\* Faulty: the end is announced to one waiter only.
WakeOneIfIdle == IF active' = 0 /\ queue = <<>> THEN NotifyOne ELSE UNCHANGED waiting

\* The last busy worker wakes every waiter when nothing is left to do.
WakeIfIdle == waiting' = IF active' = 0 /\ queue = <<>> THEN {} ELSE waiting

DoneDir(t) ==
  /\ At(t, "done")
  /\ active' = active - 1
  /\ WakeIfIdle
  /\ processed' = processed \cup {dir[t]}
  /\ dir' = [dir EXCEPT ![t] = None]
  /\ Goto(t, "claim")
  /\ UNCHANGED <<cfg, main, toPush, queue, names, subdirs, visitedDirs, found>>

Worker(t) ==
  \/ Claim(t) \/ Wait(t) \/ Exit(t)
  \/ OpenDir(t) \/ ReadName(t) \/ CloseDir(t)
  \/ PushSubdir(t) \/ AllPushed(t) \/ DoneDir(t)

\* The scan is over: the caller goes on with the merged vector.
Finished == main = "merged" /\ UNCHANGED vars

Next ==
  \/ PushRoot \/ StartWorkers \/ JoinAndMerge \/ Finished
  \/ \E t \in Threads : Worker(t) \/ SpuriousWakeup(t)

Fairness ==
  /\ WF_vars(PushRoot) /\ WF_vars(StartWorkers) /\ WF_vars(JoinAndMerge)
  /\ \A t \in Threads : WF_vars(Worker(t))

Spec == Init /\ [][Next]_vars /\ Fairness

-----------------------------------------------------------------------------
(* Properties.                                                             *)

TypeOK ==
  /\ cfg \in Configs
  /\ main \in {"roots", "join", "merged"}
  /\ toPush \in Seq(Paths) /\ queue \in Seq(Paths)
  /\ active \in Int
  /\ waiting \subseteq Threads
  /\ pc \in [Threads -> {"claim", "open", "read", "push", "done", "exited"}]
  /\ dir \in [Threads -> Paths \cup {None}]
  /\ names \in [Threads -> SUBSET Paths]
  /\ subdirs \in [Threads -> Seq(Paths)]
  /\ visitedDirs \subseteq {Inode[p] : p \in Paths}
  /\ found \in [Paths -> Nat]
  /\ processed \subseteq Paths

\* The names of a directory that get an entry, and the roots that are scanned.
KeptNames(d) == {p \in Children[d] : ~ Rejected(p) /\ p \notin NoStat}
GoodRoots    == ToSet(cfg.paths) \ Excluded

\* The workers between popClaim and doneDir, and the directories that a worker
\* has found and whose processing is not complete.
Busy    == {t \in Threads : pc[t] \in {"open", "read", "push", "done"}}
Pending == ToSet(queue) \cup {dir[t] : t \in Busy} \cup UNION {ToSet(subdirs[t]) : t \in Threads}
Known   == processed \cup Pending

\* The count that decides the end is exact, and a worker that has ended left
\* nothing behind: no directory queued, no worker that could still queue one.
\* It is the race the comment at indexer.cpp:113 is about, "an empty queue and
\* active == 0, so it ends early".
NoEarlyExit ==
  /\ active = Cardinality(Busy)
  /\ (\E t \in Threads : pc[t] = "exited") => toPush = <<>> /\ queue = <<>> /\ Busy = {}

\* A directory that will be, is being, or has been processed in place of c.
Handled(c) == IF cfg.follow_symlinks THEN \E d \in Known : Inode[d] = Inode[c] ELSE c \in Known

Listed(c) == found[c] > 0 /\ (IsDir(c) => Handled(c))

\* No name read is forgotten and no directory met is dropped between the
\* worker that finds it, the queue and the worker that takes it, or because
\* another path of the same directory had been visited.
NothingLost ==
  /\ GoodRoots \subseteq Known \cup ToSet(toPush)
  /\ \A d \in processed \ NoOpen : \A c \in KeptNames(d) : Listed(c)
  /\ \A t \in Busy : pc[t] # "open" /\ dir[t] \notin NoOpen =>
       \A c \in KeptNames(dir[t]) \ names[t] : Listed(c)
  /\ \A i \in visitedDirs : \E d \in Known : Inode[d] = i

\* What a worker's local variables hold between which points of its loop, and
\* the phases of the calling thread.
Control ==
  /\ main = "roots" => waiting = {} /\ \A t \in Threads : pc[t] = "claim"
  /\ main # "roots" => toPush = <<>>
  /\ main = "merged" => \A t \in Threads : pc[t] = "exited"
  /\ waiting \subseteq {t \in Threads : pc[t] = "claim"}
  /\ \A t \in Threads :
       /\ t \in Busy <=> dir[t] # None
       /\ names[t] # {} => pc[t] = "read"
       /\ subdirs[t] # <<>> => pc[t] \in {"read", "push"}
       /\ pc[t] \in {"read", "push"} => dir[t] \notin NoOpen

\* The merged vector is complete: every root was scanned, every directory
\* below a scanned one was scanned too (under one of its paths, when links are
\* followed), and every name that passes the filters has its entry.
Complete ==
  main = "merged" =>
    /\ GoodRoots \subseteq processed
    /\ \A d \in processed \ NoOpen : \A c \in KeptNames(d) :
         /\ found[c] > 0
         /\ IsDir(c) => IF cfg.follow_symlinks THEN \E e \in processed : Inode[e] = Inode[c]
                          ELSE c \in processed

\* Two directories as visitedDirs tells them apart; it does not compare roots
\* with each other, and knows no inode of a path that stat does not read.
Distinct(d, e) ==
  /\ d # e
  /\ cfg.follow_symlinks /\ Inode[d] = Inode[e] /\ {d, e} \cap NoStat = {}
       => {d, e} \subseteq GoodRoots

\* A path gets one entry.
OneEntryPerPath == \A p \in Paths : found[p] <= 1

\* A directory, which is an inode when links are followed, is scanned once: the
\* one that a worker has is not with another worker, and was not scanned
\* before, under this path or another one.  So a path gets one entry.
ScannedOnce ==
  /\ \A t, u \in Busy : t # u => Distinct(dir[t], dir[u])
  /\ \A t \in Busy, d \in processed : Distinct(dir[t], d)
  /\ OneEntryPerPath

\* The scan ends: every worker sees the end or is woken to see it.
ScanEnds == <>(main = "merged")

=============================================================================
