------------------------------- MODULE Daemon -------------------------------
(***************************************************************************)
(* The core of lsearchd: class Daemon of daemon/daemon.cpp.                 *)
(*                                                                         *)
(* It keeps the files below the configured roots in two places, the SQLite  *)
(* table "files" and the in-memory index, and three kinds of threads write  *)
(* to both: connection threads (the requests that change the configuration  *)
(* or the index), the detached rebuild thread, and the inotify watcher's    *)
(* thread.  idxLock_ protects the index, rebuildM_ the flag rebuilding_;    *)
(* nothing protects cfg_ or watcher_.                                       *)
(*                                                                         *)
(* An entry is its path here; module Index has the structure of the index   *)
(* and module Indexer that of the scan.  The threads share one SQLite       *)
(* connection: what any of them writes between BEGIN and COMMIT is lost     *)
(* with the transaction.  SQLite calls are taken to succeed (the code does  *)
(* not look at their results).  A crash is the end of the process at any    *)
(* point, by a signal or by undefined behaviour; the next start finds the   *)
(* configuration file and the committed rows.                               *)
(***************************************************************************)
EXTENDS Naturals, Sequences, FiniteSets

CONSTANTS
  Roots,       \* the root directories that may be configured; none is below another
  Home,        \* the root that Config::load falls back to
  Files,       \* the paths below the roots
  Dirs,        \* those of them that are directories; they do not change here
  DirOf,       \* DirOf[f]: the directory f is in, or None when that is a root
  RootOf,      \* RootOf[f]: the root that f is below
  Hidden,      \* the files that the option hide (index_hidden = 0) leaves out
  Conns,       \* the connection threads that serve such requests
  Rebuilder,   \* the thread of doFullScan: main() at first, then the detached one
  QueueLimit,  \* a bound on the inotify queue (max_queued_events)
  Scenarios,   \* what may be done to the daemon, see Scenario
  Truncated,   \* a configuration file that has been opened for writing
  None         \* no root

Kinds  == {"rebuild", "add-path", "remove-path", "set"}
Config == [paths : SUBSET Roots, hide : BOOLEAN]
Happenings == {"create", "delete", "modify"}
Event  == [kind : Happenings, file : Files]

Scenario ==
  [config   : Config,             \* what the configuration file holds at first
   files    : SUBSET Files,       \* the files that may exist
   changes  : SUBSET Happenings,  \* what happens to them
   most     : Nat,                \* BOUND: how often
   requests : SUBSET Kinds,       \* the requests made
   crash    : BOOLEAN,            \* whether the process may crash
   forced   : SUBSET BOOLEAN]     \* the starts made: TRUE with LSEARCH_FORCE_RESCAN

ASSUME DaemonAssumption ==
  /\ Home \in Roots /\ RootOf \in [Files -> Roots]
  /\ Dirs \subseteq Files /\ DirOf \in [Files -> Dirs \cup {None}]
  /\ Hidden \subseteq Files
  /\ Rebuilder \notin Conns
  /\ QueueLimit \in Nat
  /\ \A s \in Scenarios : s \in Scenario /\ s.forced # {}
  /\ Truncated \notin Config /\ None \notin Roots \cup Files

Threads == Conns \cup {Rebuilder}

VARIABLES
  scenario,    \* which of the scenarios this is
  life,        \* the process is down, in init(), or serving
  disk,        \* the files that exist
  changes,     \* how many changes there have been
  cfg,         \* cfg_
  cfgFile,     \* the configuration file
  index,       \* the paths in idx_
  db,          \* the rows as the SQLite connection sees them
  saved,       \* the committed rows
  txn,         \* between BEGIN and COMMIT
  rebuilding,  \* rebuilding_
  pc,          \* pc[t]: where thread t is
  after,       \* after[t]: where thread t goes on after Watcher::stop
  arg,         \* arg[c]: the root that connection c is removing
  todo,        \* the files the scan has still to look at
  found,       \* the entries the scan has found
  watcher,     \* the watcher's thread, see NoWatcher
  complete,    \* history: the committed rows go back to a complete scan
  pending,     \* history: the configuration has changed since the last scan began
  answered     \* history: the settings last answered or loaded, and those of the
               \* requests that are not answered yet

outside  == <<scenario, disk, changes>>
dbVars   == <<db, saved, txn, complete>>
cfgVars  == <<cfg, cfgFile, pending, answered>>
scanVars == <<todo, found>>
vars == <<life, outside, cfgVars, index, dbVars, rebuilding, pc, after,
          arg, scanVars, watcher>>

-----------------------------------------------------------------------------

\* Every thread at rest; the watcher's th_ not joinable.
Resting   == [t \in Threads |-> "idle"]
NoWatcher == [pc    |-> "none",   \* none, poll, next, add, ended
              stop  |-> FALSE,    \* stop_
              open  |-> FALSE,    \* fd_ is open
              dirs  |-> {},       \* the directories that fd_ has a watch for
              known |-> {},       \* the directories in pathToWd_, never cleared
              queue |-> <<>>,     \* the events in the kernel
              buf   |-> <<>>,     \* the events read and not yet handled
              new   |-> None,     \* the file between db_.upsert and idx_.add
              hide  |-> TRUE]     \* the option in the watcher's copy of cfg_

Goto(t, l) == pc' = [pc EXCEPT ![t] = l]

Under(r) == {f \in Files : RootOf[f] = r}

\* Config::load: defaults for what the file does not have, and home when the
\* list of roots is empty.
Load(c) ==
  IF c = Truncated THEN [paths |-> {Home}, hide |-> TRUE]
  ELSE [c EXCEPT !.paths = IF @ = {} THEN {Home} ELSE @]

\* A write outside a transaction commits at once.
Write(rows) == db' = rows /\ saved' = (IF txn THEN saved ELSE rows) /\ UNCHANGED txn

Init ==
  /\ scenario \in Scenarios
  /\ life = "down"
  /\ disk \in SUBSET scenario.files /\ (\A f \in disk : DirOf[f] \in disk \cup {None})
  /\ changes = 0
  /\ cfgFile = scenario.config /\ cfg = Load(cfgFile)
  /\ pending = FALSE /\ answered = {cfg}
  /\ index = {} /\ db = {} /\ saved = {} /\ txn = FALSE /\ complete = FALSE
  /\ rebuilding = FALSE /\ pc = Resting /\ after = [t \in Threads |-> "watch"]
  /\ arg = [c \in Conns |-> None]
  /\ todo = {} /\ found = {}
  /\ watcher = NoWatcher

-----------------------------------------------------------------------------
(* The process starts and dies.                                            *)

\* init(): the rows are loaded, if there are any and no rescan is forced.
Start(force) ==
  /\ life = "down"
  /\ life' = "init"
  /\ cfg' = Load(cfgFile)
  /\ db' = saved
  /\ IF force \/ saved = {} THEN Goto(Rebuilder, "roots") /\ UNCHANGED index
     ELSE Goto(Rebuilder, "stop") /\ index' = saved
  /\ pending' = FALSE /\ answered' = {cfg'}
  /\ UNCHANGED <<outside, cfgFile, saved, txn, complete, rebuilding, after, arg,
                 scanVars, watcher>>

Dies ==
  /\ life' = "down"
  /\ index' = {} /\ db' = saved /\ txn' = FALSE
  /\ rebuilding' = FALSE /\ pc' = Resting /\ after' = [t \in Threads |-> "watch"]
  /\ arg' = [c \in Conns |-> None]
  /\ todo' = {} /\ found' = {}
  /\ watcher' = NoWatcher
  /\ UNCHANGED <<outside, cfgVars, saved, complete>>

Crash == scenario.crash /\ life # "down" /\ Dies

-----------------------------------------------------------------------------
(* The files below the roots change.  An event is queued for those in a      *)
(* directory that the watcher has a watch for; a full queue drops it         *)
(* (IN_Q_OVERFLOW is not looked at).                                        *)

Change(kind, f) ==
  /\ changes < scenario.most /\ kind \in scenario.changes /\ f \in scenario.files
  /\ f \in disk <=> kind # "create"
  /\ f \notin Dirs /\ DirOf[f] \in disk \cup {None}
  /\ disk' = CASE kind = "create" -> disk \cup {f}
               [] kind = "delete" -> disk \ {f}
               [] kind = "modify" -> disk
  /\ IF watcher.open /\ DirOf[f] \in watcher.dirs /\ Len(watcher.queue) < QueueLimit
     THEN watcher' = [watcher EXCEPT !.queue = Append(@, [kind |-> kind, file |-> f])]
     ELSE UNCHANGED watcher
  /\ changes' = changes + 1
  /\ UNCHANGED <<scenario, life, cfgVars, index, dbVars, rebuilding, pc, after, arg, scanVars>>

-----------------------------------------------------------------------------
(* Requests.  An idle connection takes one; its reply is sent when it is    *)
(* idle again.                                                              *)

Accepts(c, kind) == life = "serving" /\ pc[c] = "idle" /\ kind \in scenario.requests

\* Faulty: the flag is set, the thread is not started.
StartRebuildForgets(c) == rebuilding' = TRUE /\ Goto(c, "idle") /\ UNCHANGED after

\* startRebuild, under rebuildM_: a request made during a rebuild is dropped.
StartRebuild(c) ==
  IF rebuilding THEN Goto(c, "idle") /\ UNCHANGED <<rebuilding, after>>
  ELSE /\ rebuilding' = TRUE
       /\ after' = [after EXCEPT ![Rebuilder] = "roots"]
       /\ pc' = [pc EXCEPT ![c] = "idle", ![Rebuilder] = "stop"]

\* The reply is sent: what is in effect is what was asked for, unless another
\* request is under way.
Answer(c) == answered' = IF \A o \in Conns \ {c} : pc[o] = "idle" THEN {cfg} ELSE answered

Rebuild(c) ==
  /\ Accepts(c, "rebuild")
  /\ StartRebuild(c)
  /\ UNCHANGED <<life, outside, cfgVars, index, dbVars, arg, scanVars, watcher>>

\* Faulty: the new root is not saved.
AddPathUnsaved(c, r) ==
  /\ Accepts(c, "add-path")
  /\ cfg' = [cfg EXCEPT !.paths = @ \cup {r}]
  /\ pending' = (pending \/ r \notin cfg.paths)
  /\ answered' = answered \cup {cfg'}
  /\ Goto(c, "launch")
  /\ UNCHANGED <<life, outside, cfgFile, index, dbVars, rebuilding, after, arg, scanVars, watcher>>

AddPath(c, r) ==
  /\ Accepts(c, "add-path")
  /\ cfg' = [cfg EXCEPT !.paths = @ \cup {r}]
  /\ pending' = (pending \/ r \notin cfg.paths)
  /\ answered' = answered \cup {cfg'}
  /\ Goto(c, IF r \in cfg.paths THEN "launch" ELSE "open")
  /\ UNCHANGED <<life, outside, cfgFile, index, dbVars, rebuilding, after, arg, scanVars, watcher>>

\* set-paths, set-excludes and set-opts: an empty list of roots is refused.
Set(c, new) ==
  /\ Accepts(c, "set")
  /\ new.paths # {}
  /\ cfg' = new
  /\ pending' = TRUE /\ answered' = answered \cup {cfg'}
  /\ Goto(c, "open")
  /\ UNCHANGED <<life, outside, cfgFile, index, dbVars, rebuilding, after, arg, scanVars, watcher>>

RemovePath(c, r) ==
  /\ Accepts(c, "remove-path")
  /\ cfg' = [cfg EXCEPT !.paths = @ \ {r}]
  /\ answered' = answered \cup {cfg'}
  /\ arg' = [arg EXCEPT ![c] = r]
  /\ Goto(c, "prune")
  /\ UNCHANGED <<life, outside, cfgFile, pending, index, dbVars, rebuilding, after, scanVars, watcher>>

\* Faulty: only the rows are pruned.
PruneRowsOnly(c) ==
  /\ pc[c] = "prune"
  /\ Write(db \ Under(arg[c]))
  /\ Goto(c, "stop")
  /\ UNCHANGED <<life, outside, cfgVars, index, complete, rebuilding, after, arg, scanVars, watcher>>

\* Index and rows, with idxLock_ held.
Prune(c) ==
  /\ pc[c] = "prune"
  /\ index' = index \ Under(arg[c])
  /\ Write(db \ Under(arg[c]))
  /\ Goto(c, "stop")
  /\ UNCHANGED <<life, outside, cfgVars, complete, rebuilding, after, arg, scanVars, watcher>>

\* Config::save: the file is truncated, then written.
OpenConfig(c) ==
  /\ pc[c] = "open"
  /\ cfgFile' = Truncated
  /\ Goto(c, "save")
  /\ UNCHANGED <<life, outside, cfg, pending, answered, index, dbVars, rebuilding, after, arg, scanVars, watcher>>

Save(c) ==
  /\ pc[c] = "save"
  /\ cfgFile' = cfg
  /\ IF arg[c] = None THEN Goto(c, "launch") /\ UNCHANGED answered
     ELSE Goto(c, "idle") /\ Answer(c)
  /\ arg' = [arg EXCEPT ![c] = None]
  /\ UNCHANGED <<life, outside, cfg, pending, index, dbVars, rebuilding, after, scanVars, watcher>>

Launch(c) ==
  /\ pc[c] = "launch"
  /\ StartRebuild(c)
  /\ Answer(c)
  /\ UNCHANGED <<life, outside, cfg, cfgFile, pending, index, dbVars, arg, scanVars, watcher>>

-----------------------------------------------------------------------------
(* Watcher::stop and start: by the rebuild thread before the scan (after[t]  *)
(* is "roots"), and in restartWatcher (after[t] is "watch"), by the rebuild  *)
(* thread, main() or a connection.  Nothing keeps two of them apart.         *)

Stop(t) ==
  /\ pc[t] = "stop"
  /\ watcher' = [watcher EXCEPT !.stop = TRUE]
  /\ Goto(t, "join")
  /\ UNCHANGED <<life, outside, cfgVars, index, dbVars, rebuilding, after, arg, scanVars>>

\* th_.joinable(), and the call of th_.join(): it throws when another thread is
\* in it, which ends the process.
JoinBegins(t) ==
  /\ pc[t] = "join"
  /\ IF watcher.pc # "none" /\ \E u \in Threads : pc[u] = "joining" THEN Dies ELSE
     /\ Goto(t, IF watcher.pc = "none" THEN "close" ELSE "joining")
     /\ UNCHANGED <<life, outside, cfgVars, index, dbVars, rebuilding, after, arg,
                    scanVars, watcher>>

JoinEnds(t) ==
  /\ pc[t] = "joining" /\ watcher.pc = "ended"
  /\ watcher' = [watcher EXCEPT !.pc = "none"]
  /\ Goto(t, "close")
  /\ UNCHANGED <<life, outside, cfgVars, index, dbVars, rebuilding, after, arg, scanVars>>

\* What the kernel has queued is lost.
Close(t) ==
  /\ pc[t] = "close"
  /\ watcher' = [watcher EXCEPT !.open = FALSE, !.queue = <<>>]
  /\ Goto(t, after[t])
  /\ UNCHANGED <<life, outside, cfgVars, index, dbVars, rebuilding, after, arg, scanVars>>

\* collectDirs and Watcher::start: a watch is added for every directory in the
\* index, the roots not being among them, unless pathToWd_ already has it, be it
\* from an earlier descriptor.  A new thread is assigned to th_: std::terminate
\* when th_ is joinable.
Watch(t) ==
  /\ pc[t] = "watch"
  /\ IF watcher.pc # "none" THEN Dies ELSE
     /\ LET dirs == index \cap Dirs
        IN  watcher' = [NoWatcher EXCEPT !.pc = "poll", !.open = TRUE, !.hide = cfg.hide,
                                        !.dirs = dirs \ watcher.known,
                                        !.known = dirs \cup watcher.known]
     /\ Goto(t, IF t = Rebuilder THEN "finish" ELSE "open")
     /\ UNCHANGED <<life, outside, cfgVars, index, dbVars, rebuilding, after, arg, scanVars>>

-----------------------------------------------------------------------------
(* doFullScan.                                                             *)

\* The roots are queued; every directory below them is then read when the
\* scan comes to it.
ReadRoots ==
  /\ pc[Rebuilder] = "roots"
  /\ todo' = UNION {Under(r) : r \in cfg.paths}
  /\ found' = {}
  /\ pending' = FALSE
  /\ Goto(Rebuilder, "scan")
  /\ after' = [after EXCEPT ![Rebuilder] = "watch"]
  /\ UNCHANGED <<life, outside, cfg, cfgFile, answered, index, dbVars, rebuilding, arg, watcher>>

ScanFile(f) ==
  /\ pc[Rebuilder] = "scan" /\ f \in todo
  /\ todo' = todo \ {f}
  /\ found' = IF f \in disk /\ ~ (cfg.hide /\ f \in Hidden) THEN found \cup {f} ELSE found
  /\ UNCHANGED <<life, outside, cfgVars, index, dbVars, rebuilding, pc, after, arg, watcher>>

\* Faulty: an empty result is taken like any other.
SuspectNever == FALSE

\* Roots are configured and the scan found nothing: the old data are kept.
Suspect == cfg.paths # {} /\ found = {}

EndScan ==
  /\ pc[Rebuilder] = "scan" /\ todo = {}
  /\ Goto(Rebuilder, IF Suspect THEN "stop" ELSE "clear")
  /\ complete' = (complete \/ saved = found)
  /\ UNCHANGED <<life, outside, cfgVars, index, db, saved, txn, rebuilding, after, arg,
                 scanVars, watcher>>

\* clearFiles, before the transaction: it commits at once.
ClearFiles ==
  /\ pc[Rebuilder] = "clear"
  /\ Write({}) /\ complete' = FALSE
  /\ Goto(Rebuilder, "begin")
  /\ UNCHANGED <<life, outside, cfgVars, index, rebuilding, after, arg, scanVars, watcher>>

\* Faulty: the rows are inserted outside a transaction.
BeginNothing ==
  /\ pc[Rebuilder] = "begin"
  /\ todo' = found
  /\ Goto(Rebuilder, "fill")
  /\ UNCHANGED <<life, outside, cfgVars, index, dbVars, rebuilding, after, arg, found, watcher>>

Begin ==
  /\ pc[Rebuilder] = "begin"
  /\ txn' = TRUE
  /\ todo' = found
  /\ Goto(Rebuilder, "fill")
  /\ UNCHANGED <<life, outside, cfgVars, index, db, saved, complete, rebuilding, after, arg, found, watcher>>

Upsert(f) ==
  /\ pc[Rebuilder] = "fill" /\ f \in todo
  /\ todo' = todo \ {f}
  /\ Write(db \cup {f})
  /\ UNCHANGED <<life, outside, cfgVars, index, complete, rebuilding, pc, after, arg, found, watcher>>

Commit ==
  /\ pc[Rebuilder] = "fill" /\ todo = {}
  /\ saved' = db /\ txn' = FALSE /\ complete' = TRUE
  /\ Goto(Rebuilder, "build")
  /\ UNCHANGED <<life, outside, cfgVars, index, db, rebuilding, after, arg, scanVars, watcher>>

Build ==
  /\ pc[Rebuilder] = "build"
  /\ index' = found
  /\ found' = {}
  /\ Goto(Rebuilder, "stop")
  /\ UNCHANGED <<life, outside, cfgVars, dbVars, rebuilding, after, arg, todo, watcher>>

\* The end of rebuildAsync; for main(), run() goes on to accept connections.
Finish ==
  /\ pc[Rebuilder] = "finish"
  /\ life' = "serving"
  /\ rebuilding' = FALSE
  /\ Goto(Rebuilder, "idle")
  /\ UNCHANGED <<outside, cfgVars, index, dbVars, after, arg, scanVars, watcher>>

-----------------------------------------------------------------------------
(* The watcher's thread, and applyWatch in it.                             *)

\* The loop looks at stop_ before it polls, not between events of one read.
ReadEvents ==
  /\ watcher.pc = "poll" /\ ~ watcher.stop /\ watcher.open /\ watcher.queue # <<>>
  /\ watcher' = [watcher EXCEPT !.pc = "next", !.buf = watcher.queue, !.queue = <<>>]
  /\ UNCHANGED <<life, outside, cfgVars, index, dbVars, rebuilding, pc, after, arg, scanVars>>

EndLoop ==
  /\ watcher.pc = "poll" /\ watcher.stop
  /\ watcher' = [watcher EXCEPT !.pc = "ended"]
  /\ UNCHANGED <<life, outside, cfgVars, index, dbVars, rebuilding, pc, after, arg, scanVars>>

BufferDone ==
  /\ watcher.pc = "next" /\ watcher.buf = <<>>
  /\ watcher' = [watcher EXCEPT !.pc = "poll"]
  /\ UNCHANGED <<life, outside, cfgVars, index, dbVars, rebuilding, pc, after, arg, scanVars>>

HasEvent(kind) == watcher.pc = "next" /\ watcher.buf # <<>> /\ Head(watcher.buf).kind = kind

\* A file that is gone by now is skipped, a hidden one when it is new only.
Added ==
  /\ HasEvent("create") \/ HasEvent("modify")
  /\ LET f == Head(watcher.buf).file
         rest == Tail(watcher.buf)
     IN  IF f \notin disk \/ (HasEvent("create") /\ watcher.hide /\ f \in Hidden)
         THEN watcher' = [watcher EXCEPT !.buf = rest] /\ UNCHANGED <<db, saved, txn>>
         ELSE /\ Write(db \cup {f})
              /\ watcher' = [watcher EXCEPT !.pc = "add", !.buf = rest, !.new = f]
  /\ UNCHANGED <<life, outside, cfgVars, index, complete, rebuilding, pc, after, arg, scanVars>>

\* Faulty: the index is left for the next rebuild.
IndexNothing ==
  /\ watcher.pc = "add"
  /\ watcher' = [watcher EXCEPT !.pc = "next", !.new = None]
  /\ UNCHANGED <<life, outside, cfgVars, index, dbVars, rebuilding, pc, after, arg, scanVars>>

IndexAdd ==
  /\ watcher.pc = "add"
  /\ index' = index \cup {watcher.new}
  /\ watcher' = [watcher EXCEPT !.pc = "next", !.new = None]
  /\ UNCHANGED <<life, outside, cfgVars, dbVars, rebuilding, pc, after, arg, scanVars>>

Removed ==
  /\ HasEvent("delete")
  /\ LET f == Head(watcher.buf).file
     IN  index' = index \ {f} /\ Write(db \ {f})
  /\ watcher' = [watcher EXCEPT !.buf = Tail(@)]
  /\ UNCHANGED <<life, outside, cfgVars, complete, rebuilding, pc, after, arg, scanVars>>

-----------------------------------------------------------------------------

Request(c) ==
  \/ Rebuild(c)
  \/ \E r \in Roots : AddPath(c, r) \/ RemovePath(c, r)
  \/ \E new \in Config : Set(c, new)

Connection(c) == Prune(c) \/ OpenConfig(c) \/ Save(c) \/ Launch(c)

WatcherControl(t) == Stop(t) \/ JoinBegins(t) \/ JoinEnds(t) \/ Close(t) \/ Watch(t)

Scan ==
  \/ ReadRoots \/ EndScan \/ ClearFiles \/ Begin \/ Commit \/ Build \/ Finish
  \/ \E f \in Files : ScanFile(f) \/ Upsert(f)

WatcherLoop == ReadEvents \/ EndLoop \/ BufferDone \/ Added \/ IndexAdd \/ Removed

Next ==
  \/ \E force \in scenario.forced : Start(force)
  \/ Crash
  \/ \E kind \in Happenings, f \in Files : Change(kind, f)
  \/ \E c \in Conns : Request(c) \/ Connection(c)
  \/ \E t \in Threads : WatcherControl(t)
  \/ Scan
  \/ WatcherLoop

\* Every thread that can run does; nobody has to make requests, change files
\* or crash.
Fairness ==
  /\ WF_vars(\E force \in scenario.forced : Start(force))
  /\ \A c \in Conns : WF_vars(Connection(c))
  /\ \A t \in Threads : WF_vars(WatcherControl(t))
  /\ WF_vars(Scan) /\ WF_vars(WatcherLoop)

Spec == Init /\ [][Next]_vars /\ Fairness

-----------------------------------------------------------------------------
(* Properties.                                                             *)

TypeOK ==
  /\ life \in {"down", "init", "serving"}
  /\ scenario \in Scenarios
  /\ disk \subseteq scenario.files /\ changes \in 0..scenario.most
  /\ cfg \in Config /\ cfgFile \in Config \cup {Truncated}
  /\ pending \in BOOLEAN /\ answered \subseteq Config
  /\ index \subseteq Files /\ db \subseteq Files /\ saved \subseteq Files
  /\ txn \in BOOLEAN /\ complete \in BOOLEAN /\ rebuilding \in BOOLEAN
  /\ pc \in [Threads -> {"idle", "prune", "open", "save", "launch", "stop", "join",
                         "joining", "close", "watch", "roots", "scan", "clear", "begin",
                         "fill", "build", "finish"}]
  /\ after \in [Threads -> {"roots", "watch"}]
  /\ arg \in [Conns -> Roots \cup {None}]
  /\ todo \subseteq Files /\ found \subseteq Files
  /\ watcher.pc \in {"none", "poll", "next", "add", "ended"}
  /\ watcher.new \in Files \cup {None}
  /\ watcher.dirs \subseteq watcher.known /\ watcher.known \subseteq Dirs
  /\ watcher.queue \in Seq(Event) /\ watcher.buf \in Seq(Event)

\* The rebuild thread is between the first write to the rows and the build.
Writing == pc[Rebuilder] \in {"begin", "fill", "build"}

\* The index is what the table holds, which is what a restart would load:
\* outside the rewriting of the table they differ by the one file the watcher
\* is adding.
IndexIsTable ==
  life = "serving" /\ ~ Writing =>
    /\ saved = db
    /\ IF watcher.pc = "add" THEN db = index \cup {watcher.new} ELSE db = index

\* The rows found by a start are those of a complete scan, kept up to date: a
\* crash in the middle of a rebuild leaves the table empty or whole, never
\* partly filled, so "load the rows if there are any" is enough.
WholeOrEmpty == saved # {} => complete

\* A search never finds an emptied index because of a scan that found nothing:
\* but for requests, events and crashes the index stays filled
\* ("an empty index must never overwrite the good data", daemon.cpp:64).
NeverEmptied ==
  [][index # {} /\ index' = {} => life' = "down" \/ cfg.paths = {} \/ watcher' # watcher
                                 \/ \E c \in Conns : pc[c] = "prune"]_vars

\* The configuration file has the settings last answered, or ones of a request
\* that is not answered yet.  But save() truncates it before it writes: a crash
\* just there leaves the next start with the defaults, see AnswersSurvive.
SettingsKept ==
  \/ \E s \in answered : Load(cfgFile) = Load(s)
  \/ cfgFile = Truncated /\ (life = "down" \/ \E c \in Conns : pc[c] = "save")

\* When nothing is going on, every entry and every row is below a configured
\* root: remove-path takes the subtree out of both
\* (docs/specs/013-ipc-input-validation.md:20).
OnlyConfigured ==
  life = "serving" /\ pc = Resting => \A f \in index \cup saved : RootOf[f] \in cfg.paths

\* The same where nothing else is asked for, which holds if files only go and
\* nothing ends the process.
RemovedStaysOut == scenario.requests = {"remove-path"} => OnlyConfigured

\* What a start finds after a crash at any point: rows that are all of a complete
\* scan or none, and the settings that were answered or asked for, unless the
\* crash fell between the truncation and the write of the configuration file.
SurvivesCrash == WholeOrEmpty /\ SettingsKept

\* A rebuild ends, whoever is stopping the watcher and whatever it is handling.
RebuildEnds == rebuilding ~> ~ rebuilding

\* docs/specs/002-search-ipc.md:61: at shutdown every connection thread is
\* collected, so none may stay in Watcher::stop() for ever.
WatcherStops == \A c \in Conns : pc[c] = "joining" ~> pc[c] # "joining"

\* gui/main.cpp:273: after "apply", a full rescan puts the changes into effect.
SettingsTakeEffect == pending ~> ~ pending

\* docs/tui-manual.md:119: a new file shows up without a manual rebuild.
NewFilesShowUp ==
  \A f \in Files :
    (life = "serving" /\ f \in disk /\ RootOf[f] \in cfg.paths /\ f \notin Hidden) ~>
    (f \notin disk \/ RootOf[f] \notin cfg.paths \/ f \in index)

\* daemon.cpp:64-69: a scan that found nothing "keeps the existing index", so
\* that good rows are served.
GoodDataServed ==
  life = "serving" /\ pc = Resting /\ watcher.pc = "poll" /\ saved # {} => index # {}

\* What a user may expect of a reply, wherever the process ends after it.
AnswersSurvive == life = "down" => \E s \in answered : Load(cfgFile) = Load(s)

\* docs/specs/002-search-ipc.md:49: a removed root does not come back with a
\* restart.
RemovalSurvivesRestart ==
  life = "serving" /\ pc = Resting => Load(cfgFile).paths = cfg.paths

=============================================================================
