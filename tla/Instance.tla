------------------------------ MODULE Instance ------------------------------
(* Processes of lsearchd on one machine, daemon/main.cpp: each loads the     *)
(* configuration, may save it, looks for a daemon to pass its command to,    *)
(* takes the lock, and becomes the daemon; Daemon::run makes the socket file *)
(* and removes it again.  Clients start lsearchd when they reach no daemon,  *)
(* Client::connectOrSpawn.  What a daemon does meanwhile is in Daemon and    *)
(* Server.  Left out: --foreground, which is not to return, and --rebuild.   *)
EXTENDS Naturals, FiniteSets

CONSTANTS Procs,       \* processes that may be started, each once
          Clients,     \* callers of connectOrSpawn
          Paths,       \* roots to add or remove
          Kinds,       \* of "start", "add", "remove", "shutdown", what users start
          MaxPolls,    \* tries of a client after it has started a daemon (100)
          MaxCrashes,  \* BOUND: processes that are killed
          None

ASSUME InstanceAssumption ==
  /\ MaxPolls \in Nat /\ MaxCrashes \in Nat
  /\ Kinds \subseteq {"start", "add", "remove", "shutdown"}
  /\ None \notin Procs /\ None \notin [by : Procs, listens : BOOLEAN]

VARIABLES
  pc,       \* where each process is
  kind,     \* what it was started for: [op, path]
  cfg,      \* its cfg.paths
  peer,     \* the daemon it has connected to, or None
  status,   \* its exit status as its parent sees it, None while it waits
  lock,     \* the holder of the flock on <socket>.lock, or None
  sock,     \* the socket file: [by |-> who bound it, listens |-> BOOLEAN], or None
  file,     \* paths in the configuration file, or None: there is none yet
  client,   \* [at |-> where a client is, child |-> what it has started, polls |-> Nat]
  crashes,  \* counts crashes
  calm,     \* processes since whose start none has crashed or been shut down (history)
  clean     \* processes at whose start no daemon was ending (history)

vars == <<pc, kind, cfg, peer, status, lock, sock, file, client, crashes, calm, clean>>
history == <<calm, clean>>

Ending   == {"stopping", "unlinked"}
PastLock == {"fork", "unlink", "bind", "listen", "serve"} \cup Ending
Running  == PastLock \cup {"load", "stat", "save", "ask", "shutdown", "probe", "forward", "lock"}

Init ==
  /\ pc = [p \in Procs |-> "off"]
  /\ kind = [p \in Procs |-> [op |-> "start", path |-> None]]
  /\ cfg = [p \in Procs |-> {}]
  /\ peer = [p \in Procs |-> None]
  /\ status = [p \in Procs |-> None]
  /\ lock = None /\ sock = None
  /\ file = None
  /\ client = [c \in Clients |-> [at |-> "idle", child |-> None, polls |-> 0]]
  /\ crashes = 0 /\ calm = {} /\ clean = {}

\* Faulty: a socket file is taken for a daemon.
FileThere == sock # None

\* connect succeeds and ping is answered: the file's socket listens in a process
\* that is in its loop.  One that stops closes what it accepts, unanswered.
Reachable == sock # None /\ sock.listens /\ pc[sock.by] = "serve"

Go(p, at) == pc' = [pc EXCEPT ![p] = at]
Exit(p, code) == Go(p, "ended") /\ status' = [status EXCEPT ![p] = code]

Started(p, k) ==
  /\ pc[p] = "off" /\ Go(p, "load")
  /\ kind' = [kind EXCEPT ![p] = k]
  /\ calm' = calm \cup {p}
  /\ clean' = IF \E q \in Procs : pc[q] \in Ending THEN clean ELSE clean \cup {p}

Launch(p) ==
  /\ \E op \in Kinds :
       \E path \in IF op \in {"add", "remove"} THEN Paths ELSE {None} :
         Started(p, [op |-> op, path |-> path])
  /\ UNCHANGED <<cfg, peer, status, lock, sock, file, client, crashes>>

-----------------------------------------------------------------------------
(* main(), up to the lock.                                                   *)

\* Without a file there are the defaults: none of Paths.
Loaded == IF file = None THEN {} ELSE file

LoadConfig(p) ==
  /\ pc[p] = "load" /\ Go(p, "stat")
  /\ cfg' = [cfg EXCEPT ![p] = Loaded]
  /\ UNCHANGED <<kind, peer, status, lock, sock, file, client, crashes, history>>

Changed(paths, k) ==
  CASE k.op = "add"    -> paths \cup {k.path}
    [] k.op = "remove" -> paths \ {k.path}
    [] OTHER           -> paths

Configured(p) == IF kind[p].op = "shutdown" THEN "ask" ELSE "probe"

\* Saved when there is no file, and whenever a path is given, whether a daemon
\* runs or not.
StatConfig(p) ==
  /\ pc[p] = "stat"
  /\ Go(p, IF file = None \/ kind[p].op \in {"add", "remove"} THEN "save" ELSE Configured(p))
  /\ UNCHANGED <<kind, cfg, peer, status, lock, sock, file, client, crashes, history>>

SaveConfig(p) ==
  /\ pc[p] = "save" /\ Go(p, Configured(p))
  /\ cfg' = [cfg EXCEPT ![p] = Changed(@, kind[p])]
  /\ file' = cfg'[p]
  /\ UNCHANGED <<kind, peer, status, lock, sock, client, crashes, history>>

\* --shutdown without a daemon is an error.
AskConnect(p) ==
  /\ pc[p] = "ask"
  /\ IF Reachable THEN Go(p, "shutdown") /\ peer' = [peer EXCEPT ![p] = sock.by] /\ UNCHANGED status
                  ELSE Exit(p, 1) /\ UNCHANGED peer
  /\ UNCHANGED <<kind, cfg, lock, sock, file, client, crashes, history>>

\* The daemon answers and leaves its loop: running_ is false.
ShutdownDone(p) ==
  /\ pc[p] = "shutdown" /\ pc[peer[p]] = "serve"
  /\ pc' = [pc EXCEPT ![p] = "ended", ![peer[p]] = "stopping"]
  /\ status' = [status EXCEPT ![p] = 0]
  /\ calm' = {}
  /\ UNCHANGED <<kind, cfg, peer, lock, sock, file, client, crashes, clean>>

\* It has ended, or ends before it takes the command.
ShutdownFails(p) ==
  /\ pc[p] = "shutdown" /\ pc[peer[p]] # "serve"
  /\ Exit(p, 1)
  /\ UNCHANGED <<kind, cfg, peer, lock, sock, file, client, crashes, history>>

Probe(p) ==
  /\ pc[p] = "probe"
  /\ IF Reachable THEN Go(p, "forward") /\ peer' = [peer EXCEPT ![p] = sock.by]
                  ELSE Go(p, "lock") /\ UNCHANGED peer
  /\ UNCHANGED <<kind, cfg, status, lock, sock, file, client, crashes, history>>

\* The daemon changes and saves what it has in memory, if that is a change;
\* whether the command got there is not looked at.
Forward(p) ==
  /\ pc[p] = "forward" /\ Exit(p, 0)
  /\ LET d == peer[p]  paths == Changed(cfg[d], kind[p])
     IN IF pc[d] = "serve" /\ paths # cfg[d]
        THEN cfg' = [cfg EXCEPT ![d] = paths] /\ file' = paths
        ELSE UNCHANGED <<cfg, file>>
  /\ UNCHANGED <<kind, peer, lock, sock, client, crashes, history>>

\* Faulty: a lock that is taken is not noticed.
LockAnyway(p) ==
  /\ pc[p] = "lock" /\ Go(p, "fork") /\ lock' = p
  /\ UNCHANGED <<kind, cfg, peer, status, sock, file, client, crashes, history>>

\* LOCK_EX | LOCK_NB: if another process has it, this one is not needed.
Lock(p) ==
  /\ pc[p] = "lock"
  /\ IF lock = None THEN Go(p, "fork") /\ lock' = p /\ UNCHANGED status
                    ELSE Exit(p, 0) /\ UNCHANGED lock
  /\ UNCHANGED <<kind, cfg, peer, sock, file, client, crashes, history>>

-----------------------------------------------------------------------------
(* The daemon.  Its parent has gone; the lock goes on with the child.        *)

Fork(p) ==
  /\ pc[p] = "fork" /\ Go(p, "unlink")
  /\ status' = [status EXCEPT ![p] = 0]
  /\ UNCHANGED <<kind, cfg, peer, lock, sock, file, client, crashes, history>>

\* Daemon::init, in its time, and then run() begins.
Unlink(p) ==
  /\ pc[p] = "unlink" /\ Go(p, "bind") /\ sock' = None
  /\ UNCHANGED <<kind, cfg, peer, status, lock, file, client, crashes, history>>

\* A file that is there again makes bind fail, and the daemon give up.
Bind(p) ==
  /\ pc[p] = "bind"
  /\ IF sock = None
     THEN Go(p, "listen") /\ sock' = [by |-> p, listens |-> FALSE] /\ UNCHANGED lock
     ELSE Go(p, "ended") /\ UNCHANGED sock /\ lock' = None
  /\ UNCHANGED <<kind, cfg, peer, status, file, client, crashes, history>>

\* listen works on the socket this process has bound, whatever the file is now.
Listen(p) ==
  /\ pc[p] = "listen" /\ Go(p, "serve")
  /\ sock' = IF sock # None /\ sock.by = p THEN [sock EXCEPT !.listens = TRUE] ELSE sock
  /\ UNCHANGED <<kind, cfg, peer, status, lock, file, client, crashes, history>>

\* Faulty: the lock is given back before the file is removed.
UnlinkUnlocked(p) ==
  /\ \/ pc[p] = "stopping" /\ Go(p, "unlinked") /\ lock' = None /\ UNCHANGED sock
     \/ pc[p] = "unlinked" /\ Go(p, "ended") /\ sock' = None /\ UNCHANGED lock
  /\ UNCHANGED <<kind, cfg, peer, status, file, client, crashes, history>>

\* The end of run(), once the connections are closed and joined.
UnlinkAtEnd(p) ==
  /\ pc[p] = "stopping" /\ Go(p, "unlinked") /\ sock' = None
  /\ UNCHANGED <<kind, cfg, peer, status, lock, file, client, crashes, history>>

\* The kernel gives the lock back.
ProcessEnds(p) ==
  /\ pc[p] = "unlinked" /\ Go(p, "ended") /\ lock' = None
  /\ UNCHANGED <<kind, cfg, peer, status, sock, file, client, crashes, history>>

\* A process is killed, or init fails: the socket file stays.
Crash(p) ==
  /\ pc[p] \in Running /\ crashes < MaxCrashes /\ crashes' = crashes + 1
  /\ Go(p, "ended") /\ calm' = {}
  /\ status' = [status EXCEPT ![p] = IF status[p] = None THEN 1 ELSE status[p]]
  /\ lock' = IF lock = p THEN None ELSE lock
  /\ UNCHANGED <<kind, cfg, peer, sock, file, client, clean>>

-----------------------------------------------------------------------------
(* Client::connectOrSpawn.                                                   *)

At(c, at) == client' = [client EXCEPT ![c].at = at]

Call(c) ==
  /\ client[c].at = "idle"
  /\ IF Reachable
     THEN At(c, "connected") /\ UNCHANGED <<pc, kind, history>>
     ELSE \E p \in Procs : /\ Started(p, [op |-> "start", path |-> None])
                           /\ client' = [client EXCEPT ![c] = [at |-> "wait", child |-> p, polls |-> 0]]
  /\ UNCHANGED <<cfg, peer, status, lock, sock, file, crashes>>

\* waitpid
Waited(c) ==
  /\ client[c].at = "wait" /\ status[client[c].child] # None
  /\ At(c, "poll")
  /\ UNCHANGED <<pc, kind, cfg, peer, status, lock, sock, file, crashes, history>>

Poll(c) ==
  /\ client[c].at = "poll"
  /\ client' = [client EXCEPT ![c].at = IF client[c].polls = MaxPolls THEN "failed"
                                        ELSE IF Reachable THEN "connected" ELSE "poll",
                              ![c].polls = IF @ = MaxPolls THEN @ ELSE @ + 1]
  /\ UNCHANGED <<pc, kind, cfg, peer, status, lock, sock, file, crashes, history>>

Main(p) == LoadConfig(p) \/ StatConfig(p) \/ SaveConfig(p) \/ AskConnect(p)
             \/ ShutdownDone(p) \/ ShutdownFails(p) \/ Probe(p) \/ Forward(p) \/ Lock(p) \/ Fork(p)
             \/ Unlink(p) \/ Bind(p) \/ Listen(p) \/ UnlinkAtEnd(p)
             \/ ProcessEnds(p)

Next ==
  \/ \E p \in Procs : Launch(p) \/ Main(p) \/ Crash(p)
  \/ \E c \in Clients : Call(c) \/ Waited(c) \/ Poll(c)

\* A process that runs goes on; nobody has to start or to stop one.
Fairness == \A p \in Procs : WF_vars(Main(p))
Spec == Init /\ [][Next]_vars /\ Fairness

-----------------------------------------------------------------------------
(* Properties.                                                               *)

\* Every variable has a value of its kind.
TypeOK ==
  /\ pc \in [Procs -> Running \cup {"off", "ended"}]
  /\ kind \in [Procs -> [op : {"start", "add", "remove", "shutdown"}, path : Paths \cup {None}]]
  /\ cfg \in [Procs -> SUBSET Paths] /\ (file = None \/ file \in SUBSET Paths)
  /\ peer \in [Procs -> Procs \cup {None}] /\ status \in [Procs -> {None, 0, 1}]
  /\ lock \in Procs \cup {None}
  /\ sock \in [by : Procs, listens : BOOLEAN] \cup {None}
  /\ client \in [Clients -> [at : {"idle", "wait", "poll", "connected", "failed"},
                             child : Procs \cup {None}, polls : 0 .. MaxPolls]]
  /\ crashes \in 0 .. MaxCrashes /\ calm \subseteq Procs /\ clean \subseteq Procs

\* However many start at once, and wherever one is killed, one process at most
\* opens the database and the socket, and it holds the lock.
OneDaemon == \A p \in Procs : pc[p] \in PastLock => lock = p

\* The socket file of a daemon that serves is its own: no start removes it as
\* a stale one, and no daemon that ends late removes its successor's.
OwnSocket == \A p \in Procs : pc[p] = "serve" => sock = [by |-> p, listens |-> TRUE]

Serving == \E p \in Procs : pc[p] = "serve"

\* A start that returns success, at whatever moment of the others, is followed
\* by a daemon that serves, unless one is killed or shut down after it began.
\* The socket file and the lock file of one that was killed are not in the way.
StartServes ==
  \A p \in Procs : (status[p] = 0 /\ kind[p].op # "shutdown" /\ p \in calm \cap clean)
                      ~> (Serving \/ p \notin calm)

\* The same of a start while the last daemon is still ending.  Fails: it finds
\* the lock taken, takes that for a daemon and exits with 0.
AnyStartServes ==
  \A p \in Procs : (status[p] = 0 /\ kind[p].op # "shutdown" /\ p \in calm)
                      ~> (Serving \/ p \notin calm)

\* A path that was added with success is in the configuration file once all
\* have gone quiet.  Fails: two starts load the same file and each saves its own.
AddedIsKept ==
  \A p \in Procs : kind[p].op = "add" /\ status[p] = 0
                     /\ (\A q \in Procs \ {p} : kind[q].op \in {"start", "add"})
                     /\ (\A q \in Procs : pc[q] \in {"off", "serve", "ended"})
                   => kind[p].path \in Loaded
=============================================================================
