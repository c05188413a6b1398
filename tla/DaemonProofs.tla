---------------------------- MODULE DaemonProofs ----------------------------
(* What a restart of module Daemon finds after a crash, that the index is the *)
(* table, and that no rebuild empties it: for any roots, files, connections,  *)
(* changes and settings, where no root is removed and so only the rebuild     *)
(* thread stops the watcher.  And that a removed root stays out, where        *)
(* removing is all that is asked for.                                        *)
EXTENDS Daemon, TLAPS

\* With remove-path two threads may stop and start the watcher at a time.
NoRemovals == \A s \in Scenarios : "remove-path" \notin s.requests

\* With LSEARCH_FORCE_RESCAN the rows are not loaded.
NoForcing == \A s \in Scenarios : TRUE \notin s.forced

-----------------------------------------------------------------------------
(* The invariant.                                                          *)

Places == {"idle", "prune", "open", "save", "launch", "stop", "join", "joining", "close",
           "watch", "roots", "scan", "clear", "begin", "fill", "build", "finish"}

at == pc[Rebuilder]

Shape ==
  /\ scenario \in Scenarios
  /\ life \in {"down", "init", "serving"}
  /\ pc \in [Threads -> Places] /\ after \in [Threads -> {"roots", "watch"}]
  /\ txn \in BOOLEAN /\ complete \in BOOLEAN /\ rebuilding \in BOOLEAN
  /\ DOMAIN watcher = DOMAIN NoWatcher

\* Connections only change the configuration and start rebuilds.
Alone ==
  /\ \A c \in Conns : pc[c] \in {"idle", "open", "save", "launch"} /\ arg[c] = None
  /\ arg \in [Conns -> Roots \cup {None}]
  /\ life # "serving" => \A c \in Conns : pc[c] = "idle"

\* Where the rebuild thread is when the process is down or no rebuild runs; and
\* that there is no watcher from Watcher::stop to Watcher::start.
Phases ==
  /\ life = "down" => at = "idle" /\ watcher.pc = "none" /\ index = {}
  /\ life = "serving" /\ ~ rebuilding => at = "idle"
  /\ at \in {"close", "watch", "roots", "scan", "clear", "begin", "fill", "build"}
       => watcher.pc = "none"

\* The rows at each step of the rebuild.
Rows ==
  /\ txn <=> at = "fill"
  /\ at # "fill" => saved = db
  /\ at \in {"begin", "fill"} => saved = {}
  /\ at = "fill" => db \cup todo = found
  /\ at = "build" => db = found
  /\ ~ complete => saved = {} /\ (life = "down" \/ at \in {"roots", "scan", "clear", "begin", "fill"})

Kept == cfg \in Config /\ cfgFile \in Config \cup {Truncated}

DaemonInv == Shape /\ Alone /\ Phases /\ Rows /\ Kept

\* The rows are in the index, but for the file that the watcher is adding.
Indexed ==
  life # "down" /\ at \notin {"begin", "fill", "build"} =>
    IF watcher.pc = "add" THEN db = index \cup {watcher.new} ELSE db = index

-----------------------------------------------------------------------------

\* What load() gives is a configuration with roots, and a configuration with
\* roots is loaded as it was saved.
LEMMA Loads ==
  /\ \A c \in Config \cup {Truncated} : Load(c) \in Config /\ Load(c).paths # {}
  /\ \A c \in Config : c.paths # {} => Load(c) = c
<1>1. ASSUME NEW c \in Config
      PROVE  Load(c) \in Config /\ Load(c).paths # {} /\ (c.paths # {} => Load(c) = c)
  <2>1. c # Truncated BY DaemonAssumption
  <2>2. Load(c) = [c EXCEPT !.paths = IF c.paths = {} THEN {Home} ELSE c.paths]
    BY <2>1 DEF Load
  <2> QED BY <2>2, DaemonAssumption DEF Config
<1>2. Load(Truncated) \in Config /\ Load(Truncated).paths # {}
  BY DaemonAssumption DEF Load, Config
<1> QED BY <1>1, <1>2

LEMMA InitInv == Init => DaemonInv /\ Indexed
<1> SUFFICES ASSUME Init PROVE DaemonInv /\ Indexed
  OBVIOUS
<1>1. Rebuilder \in Threads /\ \A c \in Conns : c \in Threads
  BY DEF Threads
<1>2. \A t \in Threads : pc[t] = "idle"
  BY DEF Init, Resting
<1>3. Shape
  <2>1. pc \in [Threads -> Places] BY DEF Init, Resting, Places
  <2>2. after \in [Threads -> {"roots", "watch"}] BY DEF Init
  <2> QED BY <2>1, <2>2 DEF Init, Shape
<1>4. Alone BY <1>1, <1>2 DEF Init, Alone
<1>5. Phases BY <1>1, <1>2 DEF Init, Phases, NoWatcher, at
<1>6. Rows BY <1>1, <1>2 DEF Init, Rows, at
<1>7. Kept
  <2>1. cfgFile \in Config
    BY DaemonAssumption DEF Init, Scenario
  <2> QED BY <2>1, Loads DEF Init, Kept
<1>8. Indexed BY DEF Init, Indexed
<1> QED BY <1>3, <1>4, <1>5, <1>6, <1>7, <1>8 DEF DaemonInv

LEMMA DiesInv ==
  ASSUME DaemonInv, Dies
  PROVE  DaemonInv' /\ Indexed'
<1>1. Rebuilder \in Threads /\ \A c \in Conns : c \in Threads
  BY DEF Threads
<1>2. \A t \in Threads : pc'[t] = "idle"
  BY DEF Dies, Resting
<1>3. Shape'
  <2>1. pc' \in [Threads -> Places] BY DEF Dies, Resting, Places
  <2>2. after' \in [Threads -> {"roots", "watch"}] BY DEF Dies
  <2> QED BY <2>1, <2>2 DEF Dies, Shape, DaemonInv, outside, NoWatcher
<1>4. Alone' BY <1>1, <1>2 DEF Dies, Alone
<1>5. Phases' BY <1>1, <1>2 DEF Dies, Phases, NoWatcher, at
<1>6. Rows' BY <1>1, <1>2 DEF Dies, Rows, at, DaemonInv
<1>7. Kept' BY DEF Dies, Kept, DaemonInv, cfgVars, Config
<1>8. Indexed' BY DEF Dies, Indexed
<1> QED BY <1>3, <1>4, <1>5, <1>6, <1>7, <1>8 DEF DaemonInv

LEMMA StartInv ==
  ASSUME DaemonInv, NEW force \in scenario.forced, Start(force)
  PROVE  DaemonInv' /\ (~ force => Indexed')
<1> USE DEF DaemonInv
<1>0. Rebuilder \in Threads /\ \A c \in Conns : c \in Threads /\ c # Rebuilder
  BY DaemonAssumption DEF Threads
<1>1. /\ life = "down" /\ life' = "init" /\ cfg' = Load(cfgFile) /\ cfgFile' = cfgFile
      /\ db' = saved /\ saved' = saved /\ txn' = txn /\ complete' = complete
      /\ scenario' = scenario /\ rebuilding' = rebuilding /\ after' = after /\ arg' = arg
      /\ todo' = todo /\ found' = found /\ watcher' = watcher
  BY DEF Start, outside, scanVars
<1>2. \E p \in {"roots", "stop"} :
        /\ pc' = [pc EXCEPT ![Rebuilder] = p]
        /\ p = "stop" => saved # {} /\ index' = saved
        /\ p = "roots" => (force \/ saved = {}) /\ index' = index
  BY DEF Start, Goto
<1>3. PICK p \in {"roots", "stop"} :
        /\ pc' = [pc EXCEPT ![Rebuilder] = p]
        /\ p = "stop" => saved # {} /\ index' = saved
        /\ p = "roots" => (force \/ saved = {}) /\ index' = index
  BY <1>2
<1>4. at' = p /\ \A c \in Conns : pc'[c] = pc[c]
  BY <1>0, <1>3 DEF at, Shape
<1>5. Shape' BY <1>1, <1>3 DEF Shape, Places
<1>6. Alone' BY <1>1, <1>4 DEF Alone
<1>7. Phases' BY <1>1, <1>4 DEF Phases
<1>8. Rows' BY <1>1, <1>3, <1>4 DEF Rows, Phases, Shape
<1>9. Kept' BY <1>1, Loads DEF Kept, Config
<1>10. ~ force => Indexed' BY <1>1, <1>3, <1>4 DEF Indexed, Phases
<1> QED BY <1>5, <1>6, <1>7, <1>8, <1>9, <1>10

-----------------------------------------------------------------------------
(* Requests.                                                               *)

\* A step of a connection: it goes to another place, may change configuration
\* and file, and starts the rebuild thread only when that is at rest.
LEMMA ConnectionKeeps ==
  ASSUME DaemonInv, NEW c \in Conns, NEW p \in {"idle", "open", "save", "launch"},
         life = "serving", Kept',
         UNCHANGED <<life, scenario, index, dbVars, arg, scanVars, watcher>>,
         \/ pc' = [pc EXCEPT ![c] = p] /\ UNCHANGED <<rebuilding, after>>
         \/ /\ ~ rebuilding /\ rebuilding' = TRUE
            /\ after' = [after EXCEPT ![Rebuilder] = "roots"]
            /\ pc' = [pc EXCEPT ![c] = p, ![Rebuilder] = "stop"]
  PROVE  DaemonInv' /\ (Indexed => Indexed')
<1> USE DEF DaemonInv
<1>0. Rebuilder \in Threads /\ \A d \in Conns : d \in Threads /\ d # Rebuilder
  BY DaemonAssumption DEF Threads
<1>1. /\ scenario' = scenario /\ life' = life /\ index' = index
      /\ db' = db /\ saved' = saved /\ txn' = txn /\ complete' = complete
      /\ arg' = arg /\ todo' = todo /\ found' = found /\ watcher' = watcher
  BY DEF dbVars, scanVars
<1>2. /\ pc' \in [Threads -> Places] /\ after' \in [Threads -> {"roots", "watch"}]
      /\ rebuilding' \in BOOLEAN
      /\ \A d \in Conns : pc'[d] = IF d = c THEN p ELSE pc[d]
      /\ \/ at' = at /\ rebuilding' = rebuilding
         \/ at = "idle" /\ at' = "stop" /\ rebuilding'
  BY <1>0 DEF Shape, Places, Phases, at
<1>3. Shape' BY <1>1, <1>2 DEF Shape
<1>4. Alone' BY <1>1, <1>2 DEF Alone
<1>5. Phases' BY <1>1, <1>2 DEF Phases
<1>6. Rows' BY <1>1, <1>2 DEF Rows
<1>7. Indexed => Indexed' BY <1>1, <1>2 DEF Indexed
<1> QED BY <1>3, <1>4, <1>5, <1>6, <1>7

LEMMA SameConfig ==
  ASSUME Kept, UNCHANGED <<cfg, cfgFile>>
  PROVE  Kept'
  BY DEF Kept, Config

LEMMA RequestInv ==
  ASSUME NoRemovals, DaemonInv, NEW c \in Conns, Request(c) \/ Connection(c)
  PROVE  DaemonInv' /\ (Indexed => Indexed')
<1> USE DEF DaemonInv
<1>0. Rebuilder \in Threads /\ \A d \in Conns : d \in Threads /\ d # Rebuilder
  BY DaemonAssumption DEF Threads
<1>2. CASE Rebuild(c) \/ Launch(c)
  <2>1. /\ UNCHANGED <<life, scenario, index, dbVars, arg, scanVars, watcher>>
        /\ UNCHANGED <<cfg, cfgFile>>
        /\ StartRebuild(c) /\ life = "serving" /\ pc[c] \in {"idle", "launch"}
    BY <1>2, <1>0 DEF Rebuild, Launch, Accepts, outside, cfgVars, Alone
  <2>2. \/ pc' = [pc EXCEPT ![c] = "idle"] /\ UNCHANGED <<rebuilding, after>>
        \/ /\ ~ rebuilding /\ rebuilding' = TRUE
           /\ after' = [after EXCEPT ![Rebuilder] = "roots"]
           /\ pc' = [pc EXCEPT ![c] = "idle", ![Rebuilder] = "stop"]
    BY <2>1 DEF StartRebuild, Goto
  <2>3. \A d \in Conns : pc'[d] = IF d = c THEN "idle" ELSE pc[d]
    BY <2>2, <1>0 DEF Shape
  <2>4. Kept'
    BY <2>1, <2>3, SameConfig
  <2> QED BY <2>1, <2>2, <2>4, ConnectionKeeps
<1>3. ASSUME NEW r \in Roots, AddPath(c, r)
      PROVE  DaemonInv' /\ (Indexed => Indexed')
  <2> DEFINE p == IF r \in cfg.paths THEN "launch" ELSE "open"
  <2>1. /\ UNCHANGED <<life, scenario, index, dbVars, arg, scanVars, watcher>>
        /\ UNCHANGED <<rebuilding, after>> /\ cfgFile' = cfgFile
        /\ cfg' = [cfg EXCEPT !.paths = @ \cup {r}]
        /\ life = "serving" /\ pc[c] = "idle" /\ pc' = [pc EXCEPT ![c] = p]
    BY <1>3 DEF AddPath, Accepts, outside, Goto
  <2>2. p \in {"idle", "open", "save", "launch"} OBVIOUS
  <2>3. Kept' BY <2>1 DEF Kept, Config
  <2> HIDE DEF p
  <2> QED BY <2>1, <2>2, <2>3, ConnectionKeeps
<1>4. ASSUME NEW new \in Config, Set(c, new)
      PROVE  DaemonInv' /\ (Indexed => Indexed')
  <2>1. /\ UNCHANGED <<life, scenario, index, dbVars, arg, scanVars, watcher>>
        /\ UNCHANGED <<rebuilding, after>> /\ cfgFile' = cfgFile /\ cfg' = new
        /\ life = "serving" /\ pc' = [pc EXCEPT ![c] = "open"]
    BY <1>4 DEF Set, Accepts, outside, Goto
  <2>2. pc'[c] = "open" BY <2>1, <1>0 DEF Shape
  <2>3. Kept' BY <2>1, <2>2 DEF Kept, Config
  <2> QED BY <2>1, <2>3, ConnectionKeeps
<1>5. ASSUME NEW r \in Roots, RemovePath(c, r) PROVE FALSE
  BY <1>5 DEF RemovePath, Accepts, NoRemovals, Shape
<1>6. CASE Prune(c)
  BY <1>6 DEF Prune, Alone
<1>7. CASE OpenConfig(c)
  <2>1. /\ UNCHANGED <<life, scenario, index, dbVars, arg, scanVars, watcher>>
        /\ UNCHANGED <<rebuilding, after>> /\ cfgFile' = Truncated /\ cfg' = cfg
        /\ pc[c] = "open" /\ pc' = [pc EXCEPT ![c] = "save"]
    BY <1>7 DEF OpenConfig, outside, Goto
  <2>2. pc'[c] = "save" BY <2>1, <1>0 DEF Shape
  <2>3. Kept' BY <2>1, <2>2 DEF Kept, Config
  <2>4. life = "serving" BY <2>1 DEF Alone
  <2> QED BY <2>1, <2>3, <2>4, ConnectionKeeps
<1>8. CASE Save(c)
  <2>1. /\ UNCHANGED <<life, scenario, index, dbVars, scanVars, watcher>>
        /\ UNCHANGED <<rebuilding, after>> /\ cfgFile' = cfg /\ cfg' = cfg
        /\ pc[c] = "save" /\ arg' = [arg EXCEPT ![c] = None] /\ arg[c] = None
        /\ pc' = [pc EXCEPT ![c] = "launch"]
    BY <1>8 DEF Save, outside, Goto, Alone
  <2>2. arg' = arg BY <2>1 DEF Alone
  <2>3. Kept' BY <2>1, Loads DEF Kept, Config, Load
  <2>4. life = "serving" BY <2>1 DEF Alone
  <2> QED BY <2>1, <2>2, <2>3, <2>4, ConnectionKeeps
<1> QED BY <1>2, <1>3, <1>4, <1>5, <1>6, <1>7, <1>8 DEF Request, Connection

-----------------------------------------------------------------------------
(* The rebuild thread.                                                     *)

\* What a step of the rebuild thread leaves alone.
ByRebuilder ==
  /\ UNCHANGED <<scenario, cfg, cfgFile, arg>>
  /\ \E p \in Places : pc' = [pc EXCEPT ![Rebuilder] = p]

LEMMA ByRebuilderKeeps ==
  ASSUME DaemonInv, ByRebuilder, life' = life \/ life' = "serving", life # "down"
  PROVE  /\ Alone' /\ Kept'
         /\ pc' \in [Threads -> Places]
         /\ \A p : pc' = [pc EXCEPT ![Rebuilder] = p] => at' = p
         /\ scenario' \in Scenarios
<1> USE DEF DaemonInv
<1>0. Rebuilder \in Threads /\ \A d \in Conns : d \in Threads /\ d # Rebuilder
  BY DaemonAssumption DEF Threads
<1>1. PICK p \in Places : pc' = [pc EXCEPT ![Rebuilder] = p]
  BY DEF ByRebuilder
<1>2. pc' \in [Threads -> Places] /\ \A d \in Conns : pc'[d] = pc[d]
  BY <1>0, <1>1 DEF Shape
<1>3. \A q : pc' = [pc EXCEPT ![Rebuilder] = q] => at' = q
  BY <1>0 DEF Shape, at
<1>4. Alone' BY <1>2 DEF ByRebuilder, Alone
<1>5. Kept' BY <1>2, SameConfig DEF ByRebuilder
<1> QED BY <1>2, <1>3, <1>4, <1>5 DEF ByRebuilder, Shape

\* Only the rebuild thread stops and starts the watcher.
LEMMA ControlInv ==
  ASSUME NoRemovals, DaemonInv, NEW t \in Threads, WatcherControl(t)
  PROVE  DaemonInv' /\ (Indexed => Indexed')
<1> USE DEF DaemonInv
<1>1. pc[t] \in {"stop", "join", "joining", "close", "watch"}
  BY DEF WatcherControl, Stop, JoinBegins, JoinEnds, Close, Watch
<1>2. t = Rebuilder
  BY <1>1 DEF Alone, Threads
<1>3. life # "down"
  BY <1>1, <1>2 DEF Phases, at
<1>4. CASE Dies
  BY <1>4, DiesInv
<1>5. CASE ~ Dies
  <2>1. /\ UNCHANGED <<life, scenario, cfg, cfgFile, index, dbVars, rebuilding, after, arg, scanVars>>
    BY <1>5 DEF WatcherControl, Stop, JoinBegins, JoinEnds, Close, Watch, outside, cfgVars
  <2>2. \/ at = "stop" /\ pc' = [pc EXCEPT ![Rebuilder] = "join"]
           /\ watcher' = [watcher EXCEPT !.stop = TRUE]
        \/ at = "join" /\ pc' = [pc EXCEPT ![Rebuilder] = "joining"] /\ watcher' = watcher
        \/ at = "join" /\ pc' = [pc EXCEPT ![Rebuilder] = "close"] /\ watcher' = watcher
           /\ watcher.pc = "none"
        \/ at = "joining" /\ pc' = [pc EXCEPT ![Rebuilder] = "close"]
           /\ watcher' = [watcher EXCEPT !.pc = "none"] /\ watcher.pc = "ended"
        \/ at = "close" /\ pc' = [pc EXCEPT ![Rebuilder] = after[Rebuilder]]
           /\ watcher' = [watcher EXCEPT !.open = FALSE, !.queue = <<>>]
        \/ at = "watch" /\ pc' = [pc EXCEPT ![Rebuilder] = "finish"] /\ watcher.pc = "none"
           /\ watcher'.pc = "poll" /\ DOMAIN watcher' = DOMAIN NoWatcher
    <3>1. CASE Stop(t) BY <1>2, <3>1 DEF Stop, Goto, at
    <3>2. CASE JoinBegins(t)
      <4>1. /\ at = "join" /\ watcher' = watcher
            /\ pc' = [pc EXCEPT ![Rebuilder] = IF watcher.pc = "none" THEN "close" ELSE "joining"]
        BY <1>2, <1>5, <3>2 DEF JoinBegins, Goto, at
      <4> QED BY <4>1
    <3>3. CASE JoinEnds(t) BY <1>2, <3>3 DEF JoinEnds, Goto, at
    <3>4. CASE Close(t) BY <1>2, <3>4 DEF Close, Goto, at
    <3>5. CASE Watch(t)
      <4>1. at = "watch" /\ pc' = [pc EXCEPT ![Rebuilder] = "finish"] /\ watcher.pc = "none"
        BY <1>2, <1>5, <3>5 DEF Watch, Goto, at
      <4>2. watcher' = [NoWatcher EXCEPT !.pc = "poll", !.open = TRUE, !.hide = cfg.hide,
                                         !.dirs = (index \cap Dirs) \ watcher.known,
                                         !.known = (index \cap Dirs) \cup watcher.known]
        BY <1>2, <1>5, <3>5 DEF Watch
      <4>3. watcher'.pc = "poll" /\ DOMAIN watcher' = DOMAIN NoWatcher
        BY <4>2 DEF NoWatcher
      <4> QED BY <4>1, <4>3
    <3> QED BY <3>1, <3>2, <3>3, <3>4, <3>5 DEF WatcherControl
  <2>3. after[Rebuilder] \in {"roots", "watch"} /\ DOMAIN NoWatcher =
          {"pc", "stop", "open", "dirs", "known", "queue", "buf", "new", "hide"}
    BY DEF Shape, Threads, NoWatcher
  <2>4. ByRebuilder
    BY <2>1, <2>2, <2>3 DEF ByRebuilder, Places
  <2>5. /\ Alone' /\ Kept' /\ pc' \in [Threads -> Places] /\ scenario' \in Scenarios
        /\ \A p : pc' = [pc EXCEPT ![Rebuilder] = p] => at' = p
    BY <1>3, <2>1, <2>4, ByRebuilderKeeps
  <2>6. /\ DOMAIN watcher' = DOMAIN NoWatcher
        /\ watcher'.pc = watcher.pc \/ (watcher.pc = "ended" /\ watcher'.pc = "none" /\ at' = "close")
             \/ (watcher.pc = "none" /\ watcher'.pc = "poll" /\ at' = "finish")
        /\ watcher'.pc = "add" => watcher'.new = watcher.new /\ watcher.pc = "add"
    BY <2>2, <2>3, <2>5 DEF Shape
  <2>7. /\ at \in {"stop", "join", "joining", "close", "watch"}
        /\ at' \in {"join", "joining", "close", "roots", "watch", "finish"}
        /\ at' = "close" => watcher'.pc = "none"
        /\ at' \in {"roots", "watch"} => at = "close" /\ watcher'.pc = watcher.pc
    BY <2>2, <2>3, <2>5, <2>6 DEF Shape
  <2>8. Shape' BY <2>1, <2>5, <2>6 DEF Shape, dbVars
  <2>9. Phases' BY <1>3, <2>1, <2>7 DEF Phases
  <2>10. Rows' BY <1>3, <2>1, <2>7 DEF Rows, dbVars, scanVars
  <2>11. Indexed => Indexed' BY <1>3, <2>1, <2>6, <2>7 DEF Indexed, dbVars
  <2> QED BY <2>5, <2>8, <2>9, <2>10, <2>11
<1> QED BY <1>4, <1>5

LEMMA ScanInv ==
  ASSUME DaemonInv, Scan
  PROVE  DaemonInv' /\ (Indexed => Indexed')
<1> USE DEF DaemonInv
<1>0. Rebuilder \in Threads
  BY DEF Threads
<1>1. at \in {"roots", "scan", "clear", "begin", "fill", "build", "finish"}
  BY DEF Scan, ReadRoots, ScanFile, EndScan, ClearFiles, Begin, Upsert, Commit, Build, Finish, at
<1>2. life # "down"
  BY <1>1 DEF Phases
<1>3. pc = [pc EXCEPT ![Rebuilder] = at] /\ at \in Places
  BY <1>0 DEF Shape, at
<1>4. /\ UNCHANGED <<scenario, cfg, cfgFile, arg, watcher>>
      /\ life' = life \/ life' = "serving"
  BY DEF Scan, ReadRoots, ScanFile, EndScan, ClearFiles, Begin, Upsert, Commit, Build, Finish,
         outside, cfgVars
<1>5. ASSUME NEW p \in Places, pc' = [pc EXCEPT ![Rebuilder] = p],
             after' \in [Threads -> {"roots", "watch"}],
             txn' \in BOOLEAN, complete' \in BOOLEAN, rebuilding' \in BOOLEAN
      PROVE  Alone' /\ Kept' /\ Shape' /\ at' = p
  <2>1. ByRebuilder BY <1>4, <1>5 DEF ByRebuilder
  <2>2. Alone' /\ Kept' /\ pc' \in [Threads -> Places] /\ at' = p
    BY <1>2, <1>4, <1>5, <2>1, ByRebuilderKeeps
  <2>3. Shape' BY <1>2, <1>4, <1>5, <2>2 DEF Shape
  <2> QED BY <2>2, <2>3
<1>6. CASE ReadRoots
  <2>1. /\ UNCHANGED <<life, index, db, saved, txn, complete, rebuilding>>
        /\ at = "roots" /\ pc' = [pc EXCEPT ![Rebuilder] = "scan"]
        /\ after' = [after EXCEPT ![Rebuilder] = "watch"]
    BY <1>6 DEF ReadRoots, dbVars, Goto, at
  <2>2. Alone' /\ Kept' /\ Shape' /\ at' = "scan"
    BY <1>5, <2>1 DEF Shape, Places
  <2>3. Phases' BY <1>4, <2>1, <2>2 DEF Phases
  <2>4. Rows' BY <2>1, <2>2 DEF Rows
  <2>5. Indexed => Indexed' BY <1>4, <2>1, <2>2 DEF Indexed
  <2> QED BY <2>2, <2>3, <2>4, <2>5
<1>7. CASE \E f \in Files : ScanFile(f)
  <2>1. /\ UNCHANGED <<life, index, db, saved, txn, complete, rebuilding, pc, after>>
        /\ at = "scan"
    BY <1>7 DEF ScanFile, dbVars, at
  <2>2. Alone' /\ Kept' /\ Shape' /\ at' = "scan"
    BY <1>3, <1>5, <2>1 DEF Shape
  <2>3. Phases' BY <1>4, <2>1, <2>2 DEF Phases
  <2>4. Rows' BY <2>1, <2>2 DEF Rows
  <2>5. Indexed => Indexed' BY <1>4, <2>1, <2>2 DEF Indexed
  <2> QED BY <2>2, <2>3, <2>4, <2>5
<1>8. CASE EndScan
  <2> DEFINE p == IF Suspect THEN "stop" ELSE "clear"
  <2>1. /\ UNCHANGED <<life, index, db, saved, txn, rebuilding, after>>
        /\ at = "scan" /\ pc' = [pc EXCEPT ![Rebuilder] = p]
        /\ complete' = (complete \/ saved = found)
    BY <1>8 DEF EndScan, Goto, at
  <2>2. p \in {"stop", "clear"} /\ (p = "stop" => found = {})
    BY DEF Suspect
  <2> HIDE DEF p
  <2>3. Alone' /\ Kept' /\ Shape' /\ at' = p
    BY <1>5, <2>1, <2>2 DEF Shape, Places
  <2>4. Phases' BY <1>4, <2>1, <2>2, <2>3 DEF Phases
  <2>5. Rows' BY <2>1, <2>2, <2>3 DEF Rows
  <2>6. Indexed => Indexed' BY <1>4, <2>1, <2>2, <2>3 DEF Indexed
  <2> QED BY <2>3, <2>4, <2>5, <2>6
<1>9. CASE ClearFiles
  <2>1. /\ UNCHANGED <<life, index, txn, rebuilding, after, todo, found>>
        /\ at = "clear" /\ pc' = [pc EXCEPT ![Rebuilder] = "begin"]
        /\ db' = {} /\ saved' = (IF txn THEN saved ELSE {}) /\ complete' = FALSE
    BY <1>9 DEF ClearFiles, Write, Goto, scanVars, at
  <2>2. Alone' /\ Kept' /\ Shape' /\ at' = "begin"
    BY <1>5, <2>1 DEF Shape, Places
  <2>3. Phases' BY <1>4, <2>1, <2>2 DEF Phases
  <2>4. Rows' BY <2>1, <2>2 DEF Rows
  <2>5. Indexed' BY <2>2 DEF Indexed
  <2> QED BY <2>2, <2>3, <2>4, <2>5
<1>10. CASE Begin
  <2>1. /\ UNCHANGED <<life, index, db, saved, complete, rebuilding, after, found>>
        /\ at = "begin" /\ pc' = [pc EXCEPT ![Rebuilder] = "fill"]
        /\ txn' = TRUE /\ todo' = found
    BY <1>10 DEF Begin, Goto, at
  <2>2. Alone' /\ Kept' /\ Shape' /\ at' = "fill"
    BY <1>5, <2>1 DEF Shape, Places
  <2>3. Phases' BY <1>4, <2>1, <2>2 DEF Phases
  <2>4. Rows' BY <2>1, <2>2 DEF Rows
  <2>5. Indexed' BY <2>2 DEF Indexed
  <2> QED BY <2>2, <2>3, <2>4, <2>5
<1>11. CASE \E f \in Files : Upsert(f)
  <2>1. PICK f \in Files :
        /\ UNCHANGED <<life, index, txn, complete, rebuilding, after, found, pc>>
        /\ at = "fill" /\ f \in todo /\ todo' = todo \ {f}
        /\ db' = db \cup {f} /\ saved' = (IF txn THEN saved ELSE db \cup {f})
    BY <1>11 DEF Upsert, Write, at
  <2>2. Alone' /\ Kept' /\ Shape' /\ at' = "fill"
    BY <1>3, <1>5, <2>1 DEF Shape
  <2>3. Phases' BY <1>4, <2>1, <2>2 DEF Phases
  <2>4. Rows' BY <2>1, <2>2 DEF Rows
  <2>5. Indexed' BY <2>2 DEF Indexed
  <2> QED BY <2>2, <2>3, <2>4, <2>5
<1>12. CASE Commit
  <2>1. /\ UNCHANGED <<life, index, db, rebuilding, after, todo, found>>
        /\ at = "fill" /\ todo = {} /\ pc' = [pc EXCEPT ![Rebuilder] = "build"]
        /\ saved' = db /\ txn' = FALSE /\ complete' = TRUE
    BY <1>12 DEF Commit, Goto, scanVars, at
  <2>2. Alone' /\ Kept' /\ Shape' /\ at' = "build"
    BY <1>5, <2>1 DEF Shape, Places
  <2>3. Phases' BY <1>4, <2>1, <2>2 DEF Phases
  <2>4. Rows' BY <2>1, <2>2 DEF Rows
  <2>5. Indexed' BY <2>2 DEF Indexed
  <2> QED BY <2>2, <2>3, <2>4, <2>5
<1>13. CASE Build
  <2>1. /\ UNCHANGED <<life, db, saved, txn, complete, rebuilding, after, todo>>
        /\ at = "build" /\ pc' = [pc EXCEPT ![Rebuilder] = "stop"] /\ index' = found
    BY <1>13 DEF Build, dbVars, Goto, at
  <2>2. Alone' /\ Kept' /\ Shape' /\ at' = "stop"
    BY <1>5, <2>1 DEF Shape, Places
  <2>3. Phases' BY <1>2, <1>4, <2>1, <2>2 DEF Phases
  <2>4. Rows' BY <1>2, <2>1, <2>2 DEF Rows
  <2>5. Indexed' BY <1>4, <2>1, <2>2 DEF Indexed, Rows, Phases
  <2> QED BY <2>2, <2>3, <2>4, <2>5
<1>14. CASE Finish
  <2>1. /\ UNCHANGED <<index, db, saved, txn, complete, after, todo, found>>
        /\ at = "finish" /\ pc' = [pc EXCEPT ![Rebuilder] = "idle"]
        /\ life' = "serving" /\ rebuilding' = FALSE
    BY <1>14 DEF Finish, dbVars, scanVars, Goto, at
  <2>2. Alone' /\ Kept' /\ Shape' /\ at' = "idle"
    BY <1>5, <2>1 DEF Shape, Places
  <2>3. Phases' BY <1>4, <2>1, <2>2 DEF Phases
  <2>4. Rows' BY <1>2, <2>1, <2>2 DEF Rows
  <2>5. Indexed => Indexed' BY <1>2, <1>4, <2>1, <2>2 DEF Indexed
  <2> QED BY <2>2, <2>3, <2>4, <2>5
<1> QED BY <1>6, <1>7, <1>8, <1>9, <1>10, <1>11, <1>12, <1>13, <1>14 DEF Scan

-----------------------------------------------------------------------------
(* The watcher, and the files.                                             *)

\* The watcher runs in the middle of a rebuild only before Watcher::stop has
\* returned and after Watcher::start.
LEMMA Running ==
  ASSUME DaemonInv, watcher.pc # "none"
  PROVE  /\ life # "down" /\ at \notin {"roots", "scan", "clear", "begin", "fill", "build"}
         /\ ~ txn /\ complete /\ saved = db
  BY DEF DaemonInv, Phases, Rows, Shape

\* A step of the watcher: what it does to rows and index.
LEMMA WatcherKeeps ==
  ASSUME DaemonInv, watcher.pc # "none", DOMAIN watcher' = DOMAIN watcher,
         saved' = db', UNCHANGED <<life, scenario, cfg, cfgFile, txn, complete, rebuilding,
                                   pc, after, arg, todo, found>>
  PROVE  DaemonInv'
<1> USE DEF DaemonInv
<1>1. at' = at BY DEF at
<1>2. /\ life # "down" /\ at \notin {"close", "watch", "roots", "scan", "clear", "begin", "fill", "build"}
      /\ ~ txn /\ complete
  BY Running DEF Phases
<1>3. Shape' BY DEF Shape
<1>4. Alone' BY DEF Alone
<1>5. Phases' BY <1>1, <1>2 DEF Phases
<1>6. Rows' BY <1>1, <1>2 DEF Rows
<1>7. Kept' BY SameConfig
<1> QED BY <1>3, <1>4, <1>5, <1>6, <1>7

LEMMA WatcherInv ==
  ASSUME DaemonInv, WatcherLoop
  PROVE  DaemonInv' /\ (Indexed => Indexed')
<1> USE DEF DaemonInv
<1>1. watcher.pc # "none"
  BY DEF WatcherLoop, ReadEvents, EndLoop, BufferDone, Added, IndexAdd, Removed, HasEvent
<1>2. UNCHANGED <<life, scenario, cfg, cfgFile, complete, rebuilding, pc, after, arg, todo, found>>
  BY DEF WatcherLoop, ReadEvents, EndLoop, BufferDone, Added, IndexAdd, Removed,
         outside, cfgVars, dbVars, scanVars
<1>3. ~ txn /\ saved = db /\ life # "down" /\ at \notin {"begin", "fill", "build"} /\ at' = at
  BY <1>1, <1>2, Running DEF at
<1>4. DOMAIN watcher = {"pc", "stop", "open", "dirs", "known", "queue", "buf", "new", "hide"}
  BY DEF Shape, NoWatcher
<1>5. ASSUME NEW rows, Write(rows)
      PROVE  db' = rows /\ saved' = db' /\ txn' = txn
  BY <1>3, <1>5 DEF Write
<1>6. CASE ReadEvents \/ EndLoop \/ BufferDone
  <2>1. /\ db' = db /\ saved' = saved /\ txn' = txn /\ index' = index
        /\ watcher.pc # "add"
    BY <1>6 DEF ReadEvents, EndLoop, BufferDone, dbVars
  <2>2. DOMAIN watcher' = DOMAIN watcher /\ watcher'.pc # "add"
    BY <1>4, <1>6 DEF ReadEvents, EndLoop, BufferDone
  <2>3. DaemonInv' BY <1>1, <1>2, <1>3, <2>1, <2>2, WatcherKeeps
  <2>4. Indexed => Indexed' BY <1>3, <2>1, <2>2 DEF Indexed
  <2> QED BY <2>3, <2>4
<1>7. CASE Added
  <2> DEFINE f    == Head(watcher.buf).file
             rest == Tail(watcher.buf)
  <2>1. /\ watcher.pc = "next" /\ index' = index
        /\ \/ watcher' = [watcher EXCEPT !.buf = rest] /\ UNCHANGED <<db, saved, txn>>
           \/ /\ Write(db \cup {f})
              /\ watcher' = [watcher EXCEPT !.pc = "add", !.buf = rest, !.new = f]
    BY <1>7 DEF Added, HasEvent
  <2> HIDE DEF f, rest
  <2>2. CASE watcher' = [watcher EXCEPT !.buf = rest] /\ UNCHANGED <<db, saved, txn>>
    <3>1. DOMAIN watcher' = DOMAIN watcher /\ watcher'.pc = "next"
      BY <1>4, <2>1, <2>2
    <3>2. DaemonInv' BY <1>1, <1>2, <1>3, <2>2, <3>1, WatcherKeeps
    <3>3. Indexed => Indexed' BY <1>3, <2>1, <2>2, <3>1 DEF Indexed
    <3> QED BY <3>2, <3>3
  <2>3. CASE Write(db \cup {f}) /\ watcher' = [watcher EXCEPT !.pc = "add", !.buf = rest, !.new = f]
    <3>1. DOMAIN watcher' = DOMAIN watcher /\ watcher'.pc = "add" /\ watcher'.new = f
      BY <1>4, <2>3
    <3>2. db' = db \cup {f} /\ saved' = db' /\ txn' = txn
      BY <1>5, <2>3
    <3>3. DaemonInv' BY <1>1, <1>2, <3>1, <3>2, WatcherKeeps
    <3>4. Indexed => Indexed' BY <1>2, <1>3, <2>1, <3>1, <3>2 DEF Indexed
    <3> QED BY <3>3, <3>4
  <2> QED BY <2>1, <2>2, <2>3
<1>8. CASE IndexAdd
  <2>1. /\ db' = db /\ saved' = saved /\ txn' = txn
        /\ watcher.pc = "add" /\ index' = index \cup {watcher.new}
        /\ watcher' = [watcher EXCEPT !.pc = "next", !.new = None]
    BY <1>8 DEF IndexAdd, dbVars
  <2>2. DOMAIN watcher' = DOMAIN watcher /\ watcher'.pc = "next"
    BY <1>4, <2>1
  <2>3. DaemonInv' BY <1>1, <1>2, <1>3, <2>1, <2>2, WatcherKeeps
  <2>4. Indexed => Indexed' BY <1>2, <1>3, <2>1, <2>2 DEF Indexed
  <2> QED BY <2>3, <2>4
<1>9. CASE Removed
  <2>1. PICK f : /\ index' = index \ {f} /\ Write(db \ {f})
                 /\ watcher.pc = "next" /\ watcher' = [watcher EXCEPT !.buf = Tail(@)]
    BY <1>9 DEF Removed, HasEvent
  <2>2. DOMAIN watcher' = DOMAIN watcher /\ watcher'.pc = "next"
    BY <1>4, <2>1
  <2>3. db' = db \ {f} /\ saved' = db' /\ txn' = txn
    BY <1>5, <2>1
  <2>4. DaemonInv' BY <1>1, <1>2, <2>2, <2>3, WatcherKeeps
  <2>5. Indexed => Indexed' BY <1>2, <1>3, <2>1, <2>2, <2>3 DEF Indexed
  <2> QED BY <2>4, <2>5
<1> QED BY <1>6, <1>7, <1>8, <1>9 DEF WatcherLoop

\* An event in the kernel's queue, or a stuttering step.
LEMMA ChangeInv ==
  ASSUME DaemonInv, (\E kind \in Happenings, f \in Files : Change(kind, f)) \/ UNCHANGED vars
  PROVE  DaemonInv' /\ (Indexed => Indexed')
<1> USE DEF DaemonInv
<1>1. UNCHANGED <<life, scenario, cfg, cfgFile, index, db, saved, txn, complete, rebuilding,
                  pc, after, arg, todo, found>>
  BY DEF Change, vars, outside, cfgVars, dbVars, scanVars
<1>2. DOMAIN watcher' = DOMAIN watcher /\ watcher'.pc = watcher.pc /\ watcher'.new = watcher.new
  <2>1. DOMAIN watcher = {"pc", "stop", "open", "dirs", "known", "queue", "buf", "new", "hide"}
    BY DEF Shape, NoWatcher
  <2>2. watcher' = watcher \/ \E e : watcher' = [watcher EXCEPT !.queue = Append(@, e)]
    BY DEF Change, vars
  <2> QED BY <2>1, <2>2
<1>3. at' = at BY <1>1 DEF at
<1>4. Shape' BY <1>1, <1>2 DEF Shape
<1>5. Alone' BY <1>1 DEF Alone
<1>6. Phases' BY <1>1, <1>2, <1>3 DEF Phases
<1>7. Rows' BY <1>1, <1>3 DEF Rows
<1>8. Kept' BY <1>1, SameConfig
<1>9. Indexed => Indexed' BY <1>1, <1>2, <1>3 DEF Indexed
<1> QED BY <1>4, <1>5, <1>6, <1>7, <1>8, <1>9

-----------------------------------------------------------------------------

LEMMA NextInv ==
  ASSUME NoRemovals, DaemonInv, [Next]_vars
  PROVE  DaemonInv' /\ (NoForcing /\ Indexed => Indexed')
<1>1. ASSUME NEW force \in scenario.forced, Start(force)
      PROVE  DaemonInv' /\ (NoForcing => Indexed')
  <2>1. NoForcing => ~ force
    <3>1. scenario \in Scenarios /\ scenario.forced \subseteq BOOLEAN
      BY DaemonAssumption DEF DaemonInv, Shape, Scenario
    <3> QED BY <3>1 DEF NoForcing
  <2> QED BY <1>1, <2>1, StartInv
<1>2. Crash => DaemonInv' /\ Indexed'
  BY DiesInv DEF Crash
<1> QED BY <1>1, <1>2, ChangeInv, RequestInv, ControlInv, ScanInv, WatcherInv DEF Next

\* Whatever requests, events and crashes come, the index has the rows of the
\* table but while the table is rewritten and for the one file that the watcher is
\* adding; unless a root is removed or a rescan forced.
THEOREM IndexStaysTable == NoRemovals /\ NoForcing => (Spec => []IndexIsTable)
<1> SUFFICES ASSUME NoRemovals, NoForcing PROVE Spec => []IndexIsTable
  OBVIOUS
<1>1. DaemonInv /\ Indexed /\ [Next]_vars => DaemonInv' /\ Indexed'
  BY NextInv
<1>2. DaemonInv /\ Indexed => IndexIsTable
  BY DEF DaemonInv, Rows, Indexed, IndexIsTable, Writing, at
<1> QED BY InitInv, <1>1, <1>2, PTL DEF Spec

-----------------------------------------------------------------------------
(* The settings: the file has those in effect unless a connection is about to *)
(* save them, and they are what is asked for or was answered.  This holds     *)
(* whatever is asked for.                                                    *)

Saving == {"prune", "stop", "join", "joining", "close", "watch", "open", "save"}

SettingsInv ==
  /\ pc \in [Threads -> Places] /\ after \in [Threads -> {"roots", "watch"}]
  /\ \A c \in Conns : after[c] = "watch"
  /\ life = "down" => \A t \in Threads : pc[t] = "idle"
  /\ Kept /\ answered \subseteq Config /\ cfg \in answered
  /\ life # "down" /\ (\A c \in Conns : pc[c] \notin Saving) => Load(cfgFile) = Load(cfg)
  /\ SettingsKept

\* A step that changes no settings and after which the connections that are about
\* to save are the same.
LEMMA QuietKeeps ==
  ASSUME SettingsInv, UNCHANGED <<cfg, cfgFile, answered>>, life # "down", life' # "down",
         pc' \in [Threads -> Places], after' \in [Threads -> {"roots", "watch"}],
         \A c \in Conns : /\ after'[c] = after[c]
                          /\ pc'[c] \in Saving <=> pc[c] \in Saving
                          /\ pc'[c] = "save" <=> pc[c] = "save"
  PROVE  SettingsInv'
  BY DEF SettingsInv, SettingsKept, Kept, Load

LEMMA SettingsInit == Init => SettingsInv
<1> SUFFICES ASSUME Init PROVE SettingsInv
  OBVIOUS
<1>1. pc \in [Threads -> Places] /\ after \in [Threads -> {"roots", "watch"}]
  BY DEF Init, Resting, Places
<1>2. /\ \A t \in Threads : pc[t] = "idle" /\ after[t] = "watch"
      /\ \A c \in Conns : c \in Threads
  BY DEF Init, Resting, Threads
<1>3. Kept
  BY InitInv DEF DaemonInv
<1>4. cfg = Load(cfgFile) /\ answered = {cfg} /\ life = "down" /\ Load(cfg) = cfg
  BY <1>3, Loads DEF Init, Kept
<1> QED BY <1>1, <1>2, <1>3, <1>4 DEF SettingsInv, SettingsKept, Kept

\* A request, up to its reply.
LEMMA SettingsAsked ==
  ASSUME SettingsInv, NEW c \in Conns, Request(c) \/ Connection(c)
  PROVE  SettingsInv'
<1> USE DEF SettingsInv
<1>0. Rebuilder \in Threads /\ c \in Threads /\ \A d \in Conns : d \in Threads /\ d # Rebuilder
  BY DaemonAssumption DEF Threads
<1>1. life # "down"
  BY <1>0 DEF Request, Connection, Rebuild, AddPath, RemovePath, Set, Accepts, Prune, OpenConfig,
              Save, Launch
<1>2. ASSUME NEW p \in Places, pc' = [pc EXCEPT ![c] = p], after' = after, life' = life
      PROVE  /\ pc' \in [Threads -> Places] /\ after' \in [Threads -> {"roots", "watch"}]
             /\ \A d \in Conns : after'[d] = after[d] /\ pc'[d] = IF d = c THEN p ELSE pc[d]
             /\ pc'[c] = p /\ life' # "down"
  BY <1>0, <1>1, <1>2
<1>3. ASSUME StartRebuild(c), life' = life, pc[c] \in {"idle", "launch"}
      PROVE  /\ pc' \in [Threads -> Places] /\ after' \in [Threads -> {"roots", "watch"}]
             /\ \A d \in Conns : after'[d] = after[d] /\ pc'[d] = IF d = c THEN "idle" ELSE pc[d]
             /\ life' # "down"
  BY <1>0, <1>1, <1>3 DEF StartRebuild, Goto, Places
<1>4. CASE Rebuild(c)
  <2>1. /\ UNCHANGED <<cfg, cfgFile, answered>> /\ life' = life
        /\ StartRebuild(c) /\ pc[c] = "idle"
    BY <1>4 DEF Rebuild, Accepts, cfgVars
  <2> QED BY <1>1, <1>3, <2>1, QuietKeeps DEF Saving
<1>5. ASSUME NEW r \in Roots, AddPath(c, r)
      PROVE  SettingsInv'
  <2> DEFINE p == IF r \in cfg.paths THEN "launch" ELSE "open"
  <2>1. /\ cfg' = [cfg EXCEPT !.paths = @ \cup {r}] /\ cfgFile' = cfgFile
        /\ answered' = answered \cup {cfg'} /\ pc[c] = "idle" /\ p \in Places
        /\ pc' = [pc EXCEPT ![c] = p] /\ after' = after /\ life' = life
    BY <1>5 DEF AddPath, Accepts, Goto, Places
  <2>2. Kept' /\ cfg' \in Config /\ (p = "launch" => cfg' = cfg)
    BY <2>1 DEF Kept, Config
  <2>8. /\ life' # "down" /\ pc' \in [Threads -> Places] /\ after' \in [Threads -> {"roots", "watch"}]
        /\ \A d \in Conns : after'[d] = after[d] /\ pc'[d] = IF d = c THEN p ELSE pc[d]
    BY <1>2, <2>1
  <2>3. SettingsKept'
    BY <1>1, <2>1, <2>8 DEF SettingsKept
  <2>4. p = "open" => pc'[c] \in Saving
    BY <1>2, <2>1 DEF Saving
  <2>5. p = "launch" => \A d \in Conns : pc'[d] \in Saving <=> pc[d] \in Saving
    BY <1>2, <2>1 DEF Saving
  <2>6. p \in {"launch", "open"}
    OBVIOUS
  <2> HIDE DEF p
  <2>7. life' # "down" /\ (\A d \in Conns : pc'[d] \notin Saving) => Load(cfgFile') = Load(cfg')
    BY <1>1, <2>1, <2>2, <2>4, <2>5, <2>6
  <2> QED BY <1>1, <2>8, <2>1, <2>2, <2>3, <2>7
<1>6. ASSUME NEW new \in Config, Set(c, new)
      PROVE  SettingsInv'
  <2>1. /\ cfg' = new /\ cfgFile' = cfgFile /\ answered' = answered \cup {new}
        /\ pc[c] = "idle" /\ pc' = [pc EXCEPT ![c] = "open"] /\ after' = after /\ life' = life
        /\ "open" \in Places \cap Saving
    BY <1>6 DEF Set, Accepts, Goto, Places, Saving
  <2>8. /\ life' # "down" /\ pc' \in [Threads -> Places] /\ after' \in [Threads -> {"roots", "watch"}]
        /\ \A d \in Conns : after'[d] = after[d] /\ pc'[d] = IF d = c THEN "open" ELSE pc[d]
    BY <1>2, <2>1
  <2>2. SettingsKept' /\ Kept'
    BY <1>1, <2>1, <2>8 DEF SettingsKept, Kept
  <2> QED BY <1>1, <2>8, <2>1, <2>2
<1>7. ASSUME NEW r \in Roots, RemovePath(c, r)
      PROVE  SettingsInv'
  <2>1. /\ cfg' = [cfg EXCEPT !.paths = @ \ {r}] /\ cfgFile' = cfgFile
        /\ answered' = answered \cup {cfg'} /\ pc[c] = "idle"
        /\ pc' = [pc EXCEPT ![c] = "prune"] /\ after' = after /\ life' = life
        /\ "prune" \in Places \cap Saving
    BY <1>7 DEF RemovePath, Accepts, Goto, Places, Saving
  <2>2. Kept' /\ cfg' \in Config
    BY <2>1 DEF Kept, Config
  <2>8. /\ life' # "down" /\ pc' \in [Threads -> Places] /\ after' \in [Threads -> {"roots", "watch"}]
        /\ \A d \in Conns : after'[d] = after[d] /\ pc'[d] = IF d = c THEN "prune" ELSE pc[d]
    BY <1>2, <2>1
  <2>3. SettingsKept'
    BY <1>1, <2>1, <2>8 DEF SettingsKept
  <2> QED BY <1>1, <2>8, <2>1, <2>2, <2>3
<1>8. CASE Prune(c)
  <2>1. /\ UNCHANGED <<cfg, cfgFile, answered>> /\ life' = life /\ after' = after
        /\ pc[c] = "prune" /\ pc' = [pc EXCEPT ![c] = "stop"] /\ "stop" \in Places
    BY <1>8 DEF Prune, cfgVars, Goto, Places
  <2>2. /\ life' # "down" /\ pc' \in [Threads -> Places] /\ after' \in [Threads -> {"roots", "watch"}]
        /\ \A d \in Conns : after'[d] = after[d] /\ pc'[d] = IF d = c THEN "stop" ELSE pc[d]
    BY <1>2, <2>1
  <2>3. \A d \in Conns : /\ pc'[d] \in Saving <=> pc[d] \in Saving
                         /\ pc'[d] = "save" <=> pc[d] = "save"
    BY <2>1, <2>2 DEF Saving
  <2> QED BY <1>1, <2>1, <2>2, <2>3, QuietKeeps
<1>9. CASE OpenConfig(c)
  <2>1. /\ cfg' = cfg /\ cfgFile' = Truncated /\ answered' = answered
        /\ pc' = [pc EXCEPT ![c] = "save"] /\ after' = after /\ life' = life
        /\ "save" \in Places \cap Saving
    BY <1>9 DEF OpenConfig, Goto, Places, Saving
  <2>2. SettingsKept' /\ Kept'
    BY <1>2, <2>1 DEF SettingsKept, Kept
  <2> QED BY <1>1, <1>2, <2>1, <2>2
<1>10. CASE Save(c)
  <2>1. /\ cfg' = cfg /\ cfgFile' = cfg /\ after' = after /\ life' = life
        /\ answered' = answered \/ answered' = {cfg}
        /\ \E p \in {"launch", "idle"} : p \in Places /\ pc' = [pc EXCEPT ![c] = p]
    BY <1>10 DEF Save, Goto, Answer, Places
  <2>2. SettingsKept' /\ Kept'
    BY <2>1 DEF SettingsKept, Kept, Load
  <2>3. answered' \subseteq Config /\ cfg' \in answered' /\ Load(cfgFile') = Load(cfg')
    BY <2>1 DEF Kept, Load
  <2> QED BY <1>1, <1>2, <2>1, <2>2, <2>3
<1>11. CASE Launch(c)
  <2>1. /\ UNCHANGED <<cfg, cfgFile>> /\ life' = life /\ StartRebuild(c) /\ pc[c] = "launch"
        /\ answered' = IF \A o \in Conns \ {c} : pc[o] = "idle" THEN {cfg} ELSE answered
    BY <1>11 DEF Launch, Answer
  <2>2. CASE answered' = answered
    BY <1>1, <1>3, <2>1, <2>2, QuietKeeps DEF Saving
  <2>3. CASE \A o \in Conns \ {c} : pc[o] = "idle"
    <3>1. answered' = {cfg} /\ \A d \in Conns : pc[d] \notin Saving
      BY <2>1, <2>3 DEF Saving
    <3>2. Load(cfgFile) = Load(cfg) /\ Kept' /\ cfg \in Config /\ Load(cfgFile') = Load(cfg')
      BY <1>1, <2>1, <3>1 DEF Kept, Load
    <3>3. SettingsKept'
      BY <2>1, <3>1, <3>2 DEF SettingsKept
    <3> QED BY <1>1, <1>3, <2>1, <3>1, <3>2, <3>3
  <2> QED BY <2>1, <2>2, <2>3
<1> QED BY <1>4, <1>5, <1>6, <1>7, <1>8, <1>9, <1>10, <1>11 DEF Request, Connection

LEMMA SettingsDies ==
  ASSUME SettingsInv, Dies, life # "down"
  PROVE  SettingsInv'
<1>1. /\ life' = "down" /\ UNCHANGED <<cfg, cfgFile, answered>>
      /\ pc' = [t \in Threads |-> "idle"] /\ after' = [t \in Threads |-> "watch"]
  BY DEF Dies, Resting, cfgVars
<1>2. /\ pc' \in [Threads -> Places] /\ after' \in [Threads -> {"roots", "watch"}]
      /\ \A t \in Threads : pc'[t] = "idle" /\ after'[t] = "watch"
      /\ \A c \in Conns : c \in Threads
  BY <1>1 DEF Places, Threads
<1> QED BY <1>1, <1>2 DEF SettingsInv, SettingsKept, Kept, Load

LEMMA SettingsStart ==
  ASSUME SettingsInv, NEW force, Start(force)
  PROVE  SettingsInv'
<1>1. /\ life = "down" /\ life' = "init" /\ cfg' = Load(cfgFile) /\ cfgFile' = cfgFile
      /\ answered' = {cfg'} /\ after' = after
      /\ \E p \in {"roots", "stop"} : pc' = [pc EXCEPT ![Rebuilder] = p]
  BY DEF Start, Goto
<1>2. pc' \in [Threads -> Places]
  BY <1>1 DEF SettingsInv, Places
<1>3. cfg' \in Config /\ Load(cfg') = cfg' /\ Load(cfgFile') = cfg'
  BY <1>1, Loads DEF SettingsInv, Kept
<1> QED BY <1>1, <1>2, <1>3 DEF SettingsInv, SettingsKept, Kept

LEMMA SettingsControl ==
  ASSUME SettingsInv, NEW t \in Threads, WatcherControl(t)
  PROVE  SettingsInv'
<1>1. life # "down"
  BY DEF SettingsInv, WatcherControl, Stop, JoinBegins, JoinEnds, Close, Watch
<1>2. CASE Dies
  BY <1>1, <1>2, SettingsDies
<1>3. CASE ~ Dies
  <2>1. /\ UNCHANGED <<cfg, cfgFile, answered, after, life>> /\ pc[t] \in Saving \ {"save"}
        /\ \E p \in Places :
             /\ pc' = [pc EXCEPT ![t] = p]
             /\ t # Rebuilder => p \in Saving \ {"save"}
    <3>1. t # Rebuilder => t \in Conns /\ after[t] = "watch"
      BY DEF Threads, SettingsInv
    <3>2. after[t] \in {"roots", "watch"}
      BY DEF SettingsInv
    <3>3. CASE Stop(t)
      BY <3>3 DEF Stop, Goto, cfgVars, Places, Saving
    <3>4. CASE JoinBegins(t)
      BY <1>3, <3>4 DEF JoinBegins, Goto, cfgVars, Places, Saving
    <3>5. CASE JoinEnds(t)
      BY <3>5 DEF JoinEnds, Goto, cfgVars, Places, Saving
    <3>6. CASE Close(t)
      BY <3>1, <3>2, <3>6 DEF Close, Goto, cfgVars, Places, Saving
    <3>7. CASE Watch(t)
      BY <1>3, <3>7 DEF Watch, Goto, cfgVars, Places, Saving
    <3> QED BY <3>3, <3>4, <3>5, <3>6, <3>7 DEF WatcherControl
  <2>2. PICK p \in Places :
          /\ pc' = [pc EXCEPT ![t] = p]
          /\ t # Rebuilder => p \in Saving \ {"save"}
    BY <2>1
  <2>3. pc' \in [Threads -> Places] /\ \A c \in Conns : pc'[c] = IF c = t THEN p ELSE pc[c]
    <3>1. pc \in [Threads -> Places] /\ \A c \in Conns : c \in Threads
      BY DEF SettingsInv, Threads
    <3> QED BY <2>2, <3>1
  <2>4. after' \in [Threads -> {"roots", "watch"}]
    BY <2>1 DEF SettingsInv
  <2>5. \A c \in Conns : c # Rebuilder
    BY DaemonAssumption
  <2>6. \A c \in Conns : /\ pc'[c] \in Saving <=> pc[c] \in Saving
                         /\ pc'[c] = "save" <=> pc[c] = "save"
    <3> SUFFICES ASSUME NEW c \in Conns
                 PROVE  /\ pc'[c] \in Saving <=> pc[c] \in Saving
                        /\ pc'[c] = "save" <=> pc[c] = "save"
      OBVIOUS
    <3>1. CASE c # t
      BY <2>3, <3>1
    <3>2. CASE c = t
      <4>1. pc'[c] = p /\ p \in Saving \ {"save"} /\ pc[c] \in Saving \ {"save"}
        BY <2>1, <2>2, <2>3, <2>5, <3>2
      <4> QED BY <4>1
    <3> QED BY <3>1, <3>2
  <2> QED BY <1>1, <2>1, <2>3, <2>4, <2>6, QuietKeeps
<1> QED BY <1>2, <1>3

LEMMA SettingsScan ==
  ASSUME SettingsInv, Scan
  PROVE  SettingsInv'
<1>0. Rebuilder \in Threads /\ \A d \in Conns : d \in Threads /\ d # Rebuilder
  BY DaemonAssumption DEF Threads
<1>1. life # "down"
  BY <1>0 DEF SettingsInv, Scan, ReadRoots, ScanFile, EndScan, ClearFiles, Begin, Upsert, Commit,
              Build, Finish
<1>2. /\ UNCHANGED <<cfg, cfgFile, answered>> /\ (life' = life \/ life' = "serving")
      /\ after' = after \/ after' = [after EXCEPT ![Rebuilder] = "watch"]
      /\ pc' = pc \/ \E p \in Places : pc' = [pc EXCEPT ![Rebuilder] = p]
  BY DEF Scan, ReadRoots, ScanFile, EndScan, ClearFiles, Begin, Upsert, Commit, Build, Finish, Goto,
         cfgVars, Places
<1>3. /\ pc' \in [Threads -> Places] /\ after' \in [Threads -> {"roots", "watch"}]
      /\ \A c \in Conns : pc'[c] = pc[c] /\ after'[c] = after[c]
  BY <1>0, <1>2 DEF SettingsInv
<1> QED BY <1>1, <1>2, <1>3, QuietKeeps

LEMMA SettingsStep ==
  ASSUME SettingsInv, [Next]_vars
  PROVE  SettingsInv'
<1>1. CASE Crash
  BY <1>1, SettingsDies DEF Crash
<1>2. CASE \/ \E kind \in Happenings, f \in Files : Change(kind, f)
           \/ WatcherLoop \/ UNCHANGED vars
  <2>1. UNCHANGED <<cfg, cfgFile, answered, life, pc, after>>
    BY <1>2 DEF Change, WatcherLoop, ReadEvents, EndLoop, BufferDone, Added, IndexAdd, Removed,
                cfgVars, vars
  <2> QED BY <2>1 DEF SettingsInv, SettingsKept, Kept, Load
<1> QED BY <1>1, <1>2, SettingsStart, SettingsAsked, SettingsControl, SettingsScan DEF Next

\* For any requests and however they fall together: what is in the file is what
\* was answered last or what somebody is asking for, or somebody is writing it.
THEOREM SettingsAreKept == Spec => []SettingsKept
<1>1. SettingsInv => SettingsKept
  BY DEF SettingsInv
<1> QED BY SettingsInit, SettingsStep, <1>1, PTL DEF Spec

\* A crash at any point, also in the middle of a rebuild, of a request or of an
\* event, leaves rows that are all of a complete scan or none, unless a root is
\* removed; and the settings that were answered or asked for, unless it falls
\* between the truncation and the write of the file.
THEOREM CrashIsSurvived == NoRemovals => (Spec => []SurvivesCrash)
<1> SUFFICES ASSUME NoRemovals PROVE Spec => []SurvivesCrash
  OBVIOUS
<1>1. DaemonInv /\ [Next]_vars => DaemonInv'
  BY NextInv
<1>2. DaemonInv /\ SettingsKept => SurvivesCrash
  BY DEF DaemonInv, Rows, SurvivesCrash, WholeOrEmpty
<1> QED BY InitInv, <1>1, <1>2, SettingsAreKept, PTL DEF Spec

-----------------------------------------------------------------------------
(* An index with entries is not replaced by one without.                    *)

\* There are roots at all times, so a scan that finds nothing is suspect and
\* nothing is written for it; and the watcher's buffers are sequences.
Filled ==
  /\ cfg.paths # {}
  /\ at \in {"clear", "begin", "fill", "build"} => found # {}
  /\ watcher.queue \in Seq(Event) /\ watcher.buf \in Seq(Event)

LEMMA RootsStay ==
  ASSUME NoRemovals, DaemonInv, Filled, [Next]_vars
  PROVE  cfg'.paths # {}
<1> USE DEF DaemonInv
<1>1. ASSUME NEW force \in scenario.forced, Start(force)
      PROVE  cfg'.paths # {}
  BY <1>1, Loads DEF Start, Kept
<1>2. ASSUME NEW c \in Conns, NEW r \in Roots, AddPath(c, r)
      PROVE  cfg'.paths # {}
  BY <1>2 DEF AddPath, Kept, Config
<1>3. ASSUME NEW c \in Conns, NEW new \in Config, Set(c, new)
      PROVE  cfg'.paths # {}
  BY <1>3 DEF Set
<1>4. ASSUME NEW c \in Conns, NEW r \in Roots, RemovePath(c, r)
      PROVE  FALSE
  BY <1>4 DEF RemovePath, Accepts, NoRemovals, Shape
<1>5. cfg' = cfg => cfg'.paths # {}
  BY DEF Filled
<1>6. ASSUME NEW c \in Conns, Rebuild(c) \/ Connection(c)
      PROVE  cfg' = cfg
  BY <1>6 DEF Rebuild, Connection, Prune, OpenConfig, Save, Launch, cfgVars
<1>7. Crash \/ (\E kind \in Happenings, f \in Files : Change(kind, f)) => cfg' = cfg
  BY DEF Crash, Dies, Change, cfgVars
<1>8. ASSUME NEW t \in Threads, WatcherControl(t)
      PROVE  cfg' = cfg
  BY <1>8 DEF WatcherControl, Stop, JoinBegins, JoinEnds, Close, Watch, Dies, cfgVars
<1>9. Scan => cfg' = cfg
  BY DEF Scan, ReadRoots, ScanFile, EndScan, ClearFiles, Begin, Upsert, Commit, Build, Finish,
         cfgVars
<1>10. WatcherLoop \/ UNCHANGED vars => cfg' = cfg
  BY DEF WatcherLoop, ReadEvents, EndLoop, BufferDone, Added, IndexAdd, Removed, cfgVars, vars
<1> QED
  BY <1>1, <1>2, <1>3, <1>4, <1>5, <1>6, <1>7, <1>8, <1>9, <1>10 DEF Next, Request

\* Past the end of the scan there is something found.
LEMMA FoundStays ==
  ASSUME NoRemovals, DaemonInv, Filled, [Next]_vars
  PROVE  at' \in {"clear", "begin", "fill", "build"} => found' # {}
<1> USE DEF DaemonInv
<1>0. /\ Rebuilder \in Threads /\ \A c \in Conns : c \in Threads /\ c # Rebuilder
      /\ pc \in [Threads -> Places] /\ after[Rebuilder] \in {"roots", "watch"}
  BY DaemonAssumption DEF Threads, Shape
<1>1. Dies => at' = "idle"
  BY <1>0 DEF Dies, Resting, at
<1>2. ASSUME NEW force \in scenario.forced, Start(force)
      PROVE  at' \in {"roots", "stop"}
  BY <1>0, <1>2 DEF Start, Goto, at
<1>3. ASSUME NEW c \in Conns, Request(c) \/ Connection(c)
      PROVE  at' \in {at, "stop"} /\ found' = found
  BY <1>0, <1>3 DEF Request, Connection, Rebuild, AddPath, RemovePath, Set, Prune, OpenConfig, Save,
         Launch, StartRebuild, Goto, at, scanVars
<1>4. ASSUME NEW t \in Threads, WatcherControl(t), ~ Dies
      PROVE  at' \notin {"clear", "begin", "fill", "build"}
  <2>1. pc[t] \in {"stop", "join", "joining", "close", "watch"}
    BY <1>4 DEF WatcherControl, Stop, JoinBegins, JoinEnds, Close, Watch
  <2>2. t = Rebuilder
    BY <2>1 DEF Alone, Threads
  <2>3. \E p \in {"join", "joining", "close", "roots", "watch", "finish", "open"} :
          pc' = [pc EXCEPT ![Rebuilder] = p]
    BY <1>0, <1>4, <2>2 DEF WatcherControl, Stop, JoinBegins, JoinEnds, Close, Watch, Goto
  <2> QED BY <1>0, <2>3 DEF at
<1>5. Scan => (at' \in {"clear", "begin", "fill", "build"} => found' # {})
  <2>1. ReadRoots => at' = "scan"
    BY <1>0 DEF ReadRoots, Goto, at
  <2>2. EndScan => (at' = "clear" => found' # {}) /\ at' \in {"clear", "stop"}
    BY <1>0 DEF EndScan, Suspect, Filled, Goto, at, scanVars
  <2>3. ClearFiles \/ Begin \/ Commit => at \in {"clear", "begin", "fill"} /\ found' = found
    BY DEF ClearFiles, Begin, Commit, at, scanVars
  <2>4. Build => at' = "stop"
    BY <1>0 DEF Build, Goto, at
  <2>5. Finish => at' = "idle"
    BY <1>0 DEF Finish, Goto, at
  <2>6. ASSUME NEW f \in Files, ScanFile(f)
        PROVE  at' = "scan"
    BY <2>6 DEF ScanFile, at
  <2>7. ASSUME NEW f \in Files, Upsert(f)
        PROVE  at' = at /\ found' = found
    BY <2>7 DEF Upsert, at
  <2> QED BY <2>1, <2>2, <2>3, <2>4, <2>5, <2>6, <2>7 DEF Scan, Filled
<1>6. WatcherLoop \/ (\E kind \in Happenings, f \in Files : Change(kind, f)) \/ UNCHANGED vars
        => at' = at /\ found' = found
  BY DEF WatcherLoop, ReadEvents, EndLoop, BufferDone, Added, IndexAdd, Removed, Change, at,
         scanVars, vars
<1> QED BY <1>1, <1>2, <1>3, <1>4, <1>5, <1>6 DEF Next, Crash, Filled

\* The watcher's buffers hold events.
LEMMA BuffersStay ==
  ASSUME DaemonInv, Filled, [Next]_vars
  PROVE  watcher'.queue \in Seq(Event) /\ watcher'.buf \in Seq(Event)
<1>1. /\ DOMAIN watcher = {"pc", "stop", "open", "dirs", "known", "queue", "buf", "new", "hide"}
      /\ watcher.queue \in Seq(Event) /\ watcher.buf \in Seq(Event)
  BY DEF DaemonInv, Shape, NoWatcher, Filled
<1>2. <<>> \in Seq(Event)
  OBVIOUS
<1>3. Dies => watcher'.queue = <<>> /\ watcher'.buf = <<>>
  BY DEF Dies, NoWatcher
<1>4. ASSUME NEW kind \in Happenings, NEW f \in Files, Change(kind, f)
      PROVE  watcher'.queue \in Seq(Event) /\ watcher'.buf \in Seq(Event)
  <2> DEFINE e == [kind |-> kind, file |-> f]
  <2>1. e \in Event
    BY DEF Event
  <2>2. watcher' = watcher \/ watcher' = [watcher EXCEPT !.queue = Append(@, e)]
    BY <1>4 DEF Change
  <2> HIDE DEF e
  <2>3. \/ watcher' = watcher
        \/ watcher'.queue = Append(watcher.queue, e) /\ watcher'.buf = watcher.buf
    BY <1>1, <2>2
  <2>4. Append(watcher.queue, e) \in Seq(Event)
    BY <1>1, <2>1
  <2> QED BY <1>1, <2>3, <2>4
<1>5. ASSUME NEW t \in Threads, WatcherControl(t), ~ Dies
      PROVE  watcher'.queue \in Seq(Event) /\ watcher'.buf \in Seq(Event)
  <2>1. Stop(t) \/ JoinBegins(t) \/ JoinEnds(t)
          => watcher'.queue = watcher.queue /\ watcher'.buf = watcher.buf
    BY <1>1, <1>5 DEF Stop, JoinBegins, JoinEnds
  <2>2. Close(t) => watcher'.queue = <<>> /\ watcher'.buf = watcher.buf
    BY <1>1 DEF Close
  <2>3. Watch(t) => watcher'.queue = <<>> /\ watcher'.buf = <<>>
    BY <1>5 DEF Watch, NoWatcher
  <2> QED BY <1>1, <1>2, <1>5, <2>1, <2>2, <2>3 DEF WatcherControl
<1>6. ASSUME WatcherLoop
      PROVE  watcher'.queue \in Seq(Event) /\ watcher'.buf \in Seq(Event)
  <2>1. ReadEvents => watcher'.queue = <<>> /\ watcher'.buf = watcher.queue
    BY <1>1 DEF ReadEvents
  <2>2. EndLoop \/ BufferDone \/ IndexAdd
          => watcher'.queue = watcher.queue /\ watcher'.buf = watcher.buf
    BY <1>1 DEF EndLoop, BufferDone, IndexAdd
  <2>3. Added \/ Removed
          => watcher.buf # <<>> /\ watcher'.queue = watcher.queue /\ watcher'.buf = Tail(watcher.buf)
    BY <1>1 DEF Added, Removed, HasEvent
  <2>4. watcher.buf # <<>> => Tail(watcher.buf) \in Seq(Event)
    BY <1>1
  <2> QED BY <1>1, <1>2, <1>6, <2>1, <2>2, <2>3, <2>4 DEF WatcherLoop
<1>7. ASSUME NEW c \in Conns, Request(c) \/ Connection(c)
      PROVE  watcher' = watcher
  BY <1>7 DEF Request, Connection, Rebuild, AddPath, RemovePath, Set, Prune, OpenConfig, Save, Launch
<1>8. Scan \/ UNCHANGED vars \/ (\E force \in scenario.forced : Start(force)) => watcher' = watcher
  BY DEF Scan, ReadRoots, ScanFile, EndScan, ClearFiles, Begin, Upsert, Commit, Build, Finish,
         Start, vars
<1> QED BY <1>1, <1>2, <1>3, <1>4, <1>5, <1>6, <1>7, <1>8 DEF Next, Crash

\* What may empty the index.
LEMMA EmptiesRarely ==
  ASSUME DaemonInv, Filled, [Next]_vars, index # {}, index' = {}
  PROVE  \/ life' = "down" \/ watcher' # watcher
         \/ \E c \in Conns : pc[c] = "prune"
<1>1. life # "down"
  BY DEF DaemonInv, Phases
<1>2. ~ \E force \in scenario.forced : Start(force)
  BY <1>1 DEF Start
<1>3. ~ Build
  BY DEF Build, Filled, at
<1>4. Removed => watcher' # watcher
  <2>1. Removed => /\ watcher.buf # <<>>
                   /\ watcher' = [watcher EXCEPT !.buf = Tail(watcher.buf)]
    BY DEF Removed, HasEvent
  <2>2. watcher.buf # <<>> => Tail(watcher.buf) # watcher.buf
    <3>1. watcher.buf \in Seq(Event) BY DEF Filled
    <3>2. ASSUME watcher.buf # <<>>
          PROVE  Len(Tail(watcher.buf)) = Len(watcher.buf) - 1 /\ Len(watcher.buf) \in Nat
      BY <3>1, <3>2
    <3>3. \A n \in Nat : n - 1 # n OBVIOUS
    <3> QED BY <3>2, <3>3, Zenon
  <2>3. "buf" \in DOMAIN watcher
    BY DEF DaemonInv, Shape, NoWatcher
  <2> QED BY <2>1, <2>2, <2>3
<1>5. IndexAdd => index' # {}
  BY DEF IndexAdd
<1>6. Crash \/ Dies => life' = "down"
  BY DEF Crash, Dies
<1>7. ASSUME NEW c \in Conns, Request(c) \/ Connection(c)
      PROVE  pc[c] = "prune"
  BY <1>7 DEF Request, Connection, Rebuild, AddPath, RemovePath, Set, Prune, OpenConfig, Save, Launch
<1>8. ASSUME NEW t \in Threads, WatcherControl(t)
      PROVE  Dies
  BY <1>8 DEF WatcherControl, Stop, JoinBegins, JoinEnds, Close, Watch
<1>9. Scan => Build
  BY DEF Scan, ReadRoots, ScanFile, EndScan, ClearFiles, Begin, Upsert, Commit, Finish
<1>10. WatcherLoop => Removed \/ IndexAdd
  BY DEF WatcherLoop, ReadEvents, EndLoop, BufferDone, Added
<1>11. ~ \E kind \in Happenings, f \in Files : Change(kind, f)
  BY DEF Change
<1>12. ~ UNCHANGED vars
  BY DEF vars
<1> QED
  BY <1>2, <1>3, <1>4, <1>5, <1>6, <1>7, <1>8, <1>9, <1>10, <1>11, <1>12 DEF Next

\* An index with entries is emptied by an event or the end of the process only,
\* never by a rebuild, whatever the scan finds and however requests, events and
\* crashes fall between its steps; unless a root is removed.
THEOREM IndexNeverEmptied == NoRemovals => (Spec => NeverEmptied)
<1> SUFFICES ASSUME NoRemovals PROVE Spec => NeverEmptied
  OBVIOUS
<1>1. Init => Filled
  <2>1. Init => cfg.paths # {}
    BY InitInv, Loads DEF Init, DaemonInv, Kept
  <2>2. Init => at = "idle"
    BY DEF Init, Resting, Threads, at
  <2>3. Init => watcher.queue \in Seq(Event) /\ watcher.buf \in Seq(Event)
    BY DEF Init, NoWatcher
  <2> QED BY <2>1, <2>2, <2>3 DEF Filled
<1>2. DaemonInv /\ Filled /\ [Next]_vars => DaemonInv' /\ Filled'
  BY NextInv, RootsStay, FoundStays, BuffersStay DEF Filled
<1>3. DaemonInv /\ Filled /\ [Next]_vars
        => [index # {} /\ index' = {} => \/ life' = "down" \/ cfg.paths = {} \/ watcher' # watcher
                                        \/ \E c \in Conns : pc[c] = "prune"]_vars
  BY EmptiesRarely
<1> QED BY InitInv, <1>1, <1>2, <1>3, PTL DEF Spec, NeverEmptied

-----------------------------------------------------------------------------
(* Beside remove-path.                                                     *)

\* Only remove-path is asked for, one at a time; files only go, and nothing ends
\* the process.  Each is needed: a process that is ended, if only by a second
\* request in join(), may leave the file truncated, and what the watcher is told
\* of a new or changed file, it may add after the file's root is pruned.
RemovalsAlone ==
  /\ \A c, d \in Conns : c = d
  /\ \A s \in Scenarios :
       s.requests = {"remove-path"} => ~ s.crash /\ s.changes \subseteq {"delete"}

\* One thread at a time stops and starts the watcher: main() before it serves,
\* then the connection.
OneAtATime ==
  /\ \A c \in Conns :
       /\ pc[c] \in {"idle", "prune", "stop", "join", "joining", "close", "watch", "open", "save"}
       /\ after[c] = "watch"
       /\ pc[c] # "idle" => life = "serving" /\ arg[c] \in Roots
       /\ pc[c] \in {"close", "watch"} => watcher.pc = "none"
  /\ life # "init" => at = "idle"
  /\ life = "down" => watcher.pc = "none"
  /\ at \notin {"idle", "finish"} => watcher.pc = "none"
  /\ arg \in [Conns -> Roots \cup {None}]

\* The watcher is told of files that are gone, and adds none.
OnlyDeletions ==
  /\ watcher.pc # "add"
  /\ watcher.queue \in Seq(Event) /\ watcher.buf \in Seq(Event)
  /\ \A i \in DOMAIN watcher.queue : watcher.queue[i].kind = "delete"
  /\ \A i \in DOMAIN watcher.buf : watcher.buf[i].kind = "delete"

\* The first scan is of an empty table; its rows are the index from then on.
SameRows ==
  /\ index \subseteq Files /\ db \subseteq Files /\ todo \subseteq Files /\ found \subseteq Files
  /\ txn <=> at = "fill"
  /\ at \notin {"begin", "fill", "build"} => db = index
  /\ at # "fill" => saved = db
  /\ at \in {"begin", "fill"} => saved = {}
  /\ at = "fill" => db \cup todo = found
  /\ at = "build" => db = found
  /\ ~ complete => saved = {}
  /\ life = "down" => db = {} /\ todo = {} /\ found = {}

\* Every entry and every row is below a root, unless it is to be pruned.
Rooted ==
  /\ life # "down" =>
       \A f \in index \cup db :
         RootOf[f] \in cfg.paths \/ \E c \in Conns : pc[c] = "prune" /\ arg[c] = RootOf[f]
  /\ life = "init" => \A f \in todo \cup found : RootOf[f] \in cfg.paths

RemovalInv == Shape /\ OneAtATime /\ OnlyDeletions /\ SameRows /\ Rooted /\ Kept

Removing == scenario.requests = {"remove-path"}

\* What may be done to the daemon is given.
LEMMA ScenarioStays == [Next]_vars => scenario' = scenario
  BY DEF Next, vars, Start, Crash, Dies, Change, Request, Rebuild, AddPath, RemovePath, Set, Connection,
         Prune, OpenConfig, Save, Launch, WatcherControl, Stop, JoinBegins, JoinEnds, Close, Watch,
         Scan, ReadRoots, ScanFile, EndScan, ClearFiles, Begin, Upsert, Commit, Build, Finish,
         WatcherLoop, ReadEvents, EndLoop, BufferDone, Added, IndexAdd, Removed, outside

\* The first start finds no rows and scans.
LEMMA RemovalStart ==
  ASSUME RemovalInv, NEW force \in scenario.forced, Start(force)
  PROVE  RemovalInv'
<1> USE DEF RemovalInv
<1>0. Rebuilder \in Threads /\ \A c \in Conns : c \in Threads /\ c # Rebuilder
  BY DaemonAssumption DEF Threads
<1>1. /\ life = "down" /\ life' = "init" /\ cfg' = Load(cfgFile) /\ cfgFile' = cfgFile
      /\ db' = saved /\ saved' = saved /\ txn' = txn /\ complete' = complete
      /\ scenario' = scenario /\ rebuilding' = rebuilding /\ after' = after /\ arg' = arg
      /\ todo' = todo /\ found' = found /\ watcher' = watcher
  BY DEF Start, outside, scanVars
<1>2. at = "idle" /\ db = {} /\ saved = {} /\ index = {} /\ todo = {} /\ found = {}
  BY <1>1 DEF OneAtATime, SameRows
<1>3. index' = index /\ pc' = [pc EXCEPT ![Rebuilder] = "roots"]
  BY <1>2 DEF Start, Goto
<1>4. at' = "roots" /\ \A c \in Conns : pc'[c] = pc[c]
  BY <1>0, <1>3 DEF at, Shape
<1>5. Shape' BY <1>1, <1>3 DEF Shape, Places
<1>6. OneAtATime' BY <1>1, <1>4 DEF OneAtATime
<1>7. OnlyDeletions' BY <1>1 DEF OnlyDeletions
<1>8. SameRows' BY <1>1, <1>2, <1>3, <1>4 DEF SameRows
<1>9. Rooted' BY <1>1, <1>2, <1>3 DEF Rooted
<1>10. Kept' BY <1>1, Loads DEF Kept
<1> QED BY <1>5, <1>6, <1>7, <1>8, <1>9, <1>10

\* A file goes, and the watcher may be told.
LEMMA RemovalChange ==
  ASSUME RemovalsAlone, Removing, RemovalInv, NEW kind \in Happenings, NEW f \in Files, Change(kind, f)
  PROVE  RemovalInv'
<1> USE DEF RemovalInv
<1>1. kind = "delete"
  <2>1. kind \in scenario.changes BY DEF Change
  <2>2. scenario.changes \subseteq {"delete"} BY DEF RemovalsAlone, Removing, Shape
  <2> QED BY <2>1, <2>2
<1>2. /\ UNCHANGED <<scenario, life, index, rebuilding, pc, after, arg, todo, found>>
      /\ UNCHANGED <<cfg, cfgFile, db, saved, txn, complete>>
  BY DEF Change, cfgVars, dbVars, scanVars
<1>3. \/ watcher' = watcher
      \/ watcher' = [watcher EXCEPT !.queue = Append(watcher.queue, [kind |-> kind, file |-> f])]
  BY DEF Change
<1>4. /\ watcher'.pc = watcher.pc /\ watcher'.buf = watcher.buf
      /\ \/ watcher'.queue = watcher.queue
         \/ watcher'.queue = Append(watcher.queue, [kind |-> "delete", file |-> f])
      /\ DOMAIN watcher' = DOMAIN watcher
  BY <1>1, <1>3 DEF Shape, NoWatcher
<1>5. Shape' BY <1>2, <1>4 DEF Shape
<1>6. OneAtATime' BY <1>2, <1>4 DEF OneAtATime, at
<1>7. OnlyDeletions'
  <2>1. [kind |-> "delete", file |-> f] \in Event BY DEF Event, Happenings
  <2>2. CASE watcher'.queue = watcher.queue
    BY <1>4, <2>2 DEF OnlyDeletions
  <2>3. CASE watcher'.queue = Append(watcher.queue, [kind |-> "delete", file |-> f])
    BY <1>4, <2>1, <2>3 DEF OnlyDeletions
  <2> QED BY <1>4, <2>2, <2>3
<1>8. SameRows' BY <1>2 DEF SameRows, at
<1>9. Rooted' BY <1>2 DEF Rooted
<1>10. Kept' BY <1>2 DEF Kept, Load, Config
<1> QED BY <1>5, <1>6, <1>7, <1>8, <1>9, <1>10

\* The request takes the root from the configuration, then from index and rows,
\* and saves at the end.
LEMMA RemovalRequest ==
  ASSUME RemovalsAlone, Removing, RemovalInv, NEW c \in Conns, Request(c) \/ Connection(c)
  PROVE  RemovalInv'
<1> USE DEF RemovalInv
<1>0. /\ Rebuilder \in Threads /\ c \in Threads /\ c # Rebuilder /\ None \notin Roots
      /\ \A d \in Conns : d = c
  BY DaemonAssumption DEF Threads, RemovalsAlone
<1>a. ASSUME NEW p \in Places, pc' = [pc EXCEPT ![c] = p]
      PROVE  at' = at /\ pc'[c] = p /\ pc' \in [Threads -> Places]
  BY <1>0, <1>a DEF at, Shape
<1>1. CASE Rebuild(c) \/ (\E r \in Roots : AddPath(c, r)) \/ (\E new \in Config : Set(c, new))
  BY <1>1 DEF Rebuild, AddPath, Set, Accepts, Removing
<1>2. ASSUME NEW r \in Roots, RemovePath(c, r)
      PROVE  RemovalInv'
  <2>1. /\ UNCHANGED <<life, scenario, cfgFile, index, db, saved, txn, complete, rebuilding,
                       after, todo, found, watcher>>
        /\ cfg' = [cfg EXCEPT !.paths = cfg.paths \ {r}]
        /\ arg' = [arg EXCEPT ![c] = r]
        /\ life = "serving" /\ pc[c] = "idle" /\ pc' = [pc EXCEPT ![c] = "prune"]
    BY <1>2 DEF RemovePath, Accepts, outside, dbVars, scanVars, Goto
  <2>2. at' = at /\ pc'[c] = "prune" /\ pc' \in [Threads -> Places]
    BY <1>a, <2>1 DEF Places
  <2>3. /\ arg'[c] = r /\ arg' \in [Conns -> Roots \cup {None}]
        /\ cfg' \in Config /\ cfg'.paths = cfg.paths \ {r}
    BY <2>1 DEF OneAtATime, Kept, Config
  <2>4. Shape' BY <2>1, <2>2 DEF Shape
  <2>5. OneAtATime' BY <1>0, <2>1, <2>2, <2>3 DEF OneAtATime
  <2>6. OnlyDeletions' BY <2>1 DEF OnlyDeletions
  <2>7. SameRows' BY <2>1, <2>2 DEF SameRows
  <2>8. Rooted' BY <1>0, <2>1, <2>2, <2>3 DEF Rooted
  <2>9. Kept' BY <2>1, <2>2, <2>3 DEF Kept
  <2> QED BY <2>4, <2>5, <2>6, <2>7, <2>8, <2>9
<1>3. CASE Prune(c)
  <2>1. /\ UNCHANGED <<life, scenario, cfg, cfgFile, txn, complete, rebuilding,
                       after, arg, todo, found, watcher>>
        /\ pc[c] = "prune" /\ pc' = [pc EXCEPT ![c] = "stop"]
        /\ index' = index \ Under(arg[c]) /\ db' = db \ Under(arg[c])
        /\ saved' = (IF txn THEN saved ELSE db \ Under(arg[c]))
    BY <1>3 DEF Prune, Write, outside, cfgVars, scanVars, Goto
  <2>2. at' = at /\ pc'[c] = "stop" /\ pc' \in [Threads -> Places]
    BY <1>a, <2>1 DEF Places
  <2>3. life = "serving" /\ at = "idle"
    BY <2>1 DEF OneAtATime
  <2>4. Shape' BY <2>1, <2>2 DEF Shape
  <2>5. OneAtATime' BY <1>0, <2>1, <2>2 DEF OneAtATime
  <2>6. OnlyDeletions' BY <2>1 DEF OnlyDeletions
  <2>7. SameRows' BY <2>1, <2>2, <2>3 DEF SameRows
  <2>8. Rooted' BY <1>0, <2>1, <2>2, <2>3 DEF Rooted, SameRows, Under
  <2>9. Kept' BY <2>1, <2>2 DEF Kept
  <2> QED BY <2>4, <2>5, <2>6, <2>7, <2>8, <2>9
<1>4. CASE OpenConfig(c) \/ Save(c)
  <2>1. /\ UNCHANGED <<life, scenario, cfg, index, db, saved, txn, complete, rebuilding,
                       after, todo, found, watcher>>
        /\ pc[c] \in {"open", "save"}
    BY <1>4 DEF OpenConfig, Save, outside, dbVars, scanVars
  <2>2. arg[c] # None /\ life = "serving"
    BY <1>0, <2>1 DEF OneAtATime
  <2>3. \/ pc' = [pc EXCEPT ![c] = "save"] /\ cfgFile' = Truncated /\ arg' = arg
        \/ pc' = [pc EXCEPT ![c] = "idle"] /\ cfgFile' = cfg /\ arg' = [arg EXCEPT ![c] = None]
    BY <1>4, <2>2 DEF OpenConfig, Save, Goto
  <2>4. /\ at' = at /\ pc' \in [Threads -> Places] /\ arg' \in [Conns -> Roots \cup {None}]
        /\ \/ pc'[c] = "save" /\ cfgFile' = Truncated /\ arg' = arg
           \/ pc'[c] = "idle" /\ cfgFile' = cfg
    BY <1>a, <2>3 DEF Places, OneAtATime
  <2>5. Shape' BY <2>1, <2>4 DEF Shape
  <2>6. OneAtATime' BY <1>0, <2>1, <2>2, <2>4 DEF OneAtATime
  <2>7. OnlyDeletions' BY <2>1 DEF OnlyDeletions
  <2>8. SameRows' BY <2>1, <2>4 DEF SameRows
  <2>9. Rooted' BY <1>0, <2>1, <2>2, <2>4 DEF Rooted
  <2>10. Kept' BY <2>1, <2>4, Loads DEF Kept
  <2> QED BY <2>5, <2>6, <2>7, <2>8, <2>9, <2>10
<1>5. CASE Launch(c)
  BY <1>5 DEF Launch, OneAtATime
<1> QED BY <1>1, <1>2, <1>3, <1>4, <1>5 DEF Request, Connection

\* The thread that stops the watcher is the only one under way, so no join and no
\* start of a thread ends the process.
LEMMA RemovalControl ==
  ASSUME RemovalsAlone, RemovalInv, NEW t \in Threads, WatcherControl(t)
  PROVE  RemovalInv'
<1> USE DEF RemovalInv
<1>0. /\ Rebuilder \in Threads /\ \A d \in Conns : d \in Threads /\ d # Rebuilder
      /\ \A d, e \in Conns : d = e
  BY DaemonAssumption DEF Threads, RemovalsAlone
<1>1. pc[t] \in {"stop", "join", "joining", "close", "watch"}
  BY DEF WatcherControl, Stop, JoinBegins, JoinEnds, Close, Watch
<1>2. \/ t = Rebuilder /\ life = "init" /\ watcher.pc = "none"
      \/ t \in Conns /\ life = "serving" /\ at = "idle" /\ after[t] = "watch"
  BY <1>1 DEF Threads, OneAtATime, at
<1>3. \A u \in Threads : u # t => pc[u] = "idle"
  BY <1>0, <1>1, <1>2 DEF Threads, OneAtATime, at
<1>4. pc[t] \in {"close", "watch"} => watcher.pc = "none"
  BY <1>1, <1>2 DEF OneAtATime
<1>5. /\ UNCHANGED <<life, scenario, cfg, cfgFile, index, db, saved, txn, complete, rebuilding,
                     after, arg, todo, found>>
      /\ \E p \in Places :
           /\ pc' = [pc EXCEPT ![t] = p]
           /\ \/ p = "join" /\ watcher' = [watcher EXCEPT !.stop = TRUE]
              \/ p = "joining" /\ pc[t] = "join" /\ watcher' = watcher /\ watcher.pc # "none"
              \/ p = "close" /\ watcher' = watcher /\ watcher.pc = "none"
              \/ p = "close" /\ watcher' = [watcher EXCEPT !.pc = "none"]
              \/ /\ p = after[t] /\ pc[t] = "close"
                 /\ watcher' = [watcher EXCEPT !.open = FALSE, !.queue = <<>>]
              \/ /\ p = (IF t = Rebuilder THEN "finish" ELSE "open") /\ pc[t] = "watch"
                 /\ watcher' = [NoWatcher EXCEPT !.pc = "poll", !.open = TRUE, !.hide = cfg.hide,
                                         !.dirs = (index \cap Dirs) \ watcher.known,
                                         !.known = (index \cap Dirs) \cup watcher.known]
  <2>1. CASE Stop(t)
    BY <2>1 DEF Stop, Goto, outside, cfgVars, dbVars, scanVars, Places
  <2>2. CASE JoinBegins(t)
    <3>1. ~ \E u \in Threads : pc[u] = "joining"
      BY <1>3, <2>2 DEF JoinBegins
    <3> QED BY <2>2, <3>1 DEF JoinBegins, Goto, outside, cfgVars, dbVars, scanVars, Places
  <2>3. CASE JoinEnds(t)
    BY <2>3 DEF JoinEnds, Goto, outside, cfgVars, dbVars, scanVars, Places
  <2>4. CASE Close(t)
    BY <2>4 DEF Close, Goto, outside, cfgVars, dbVars, scanVars, Places, Shape
  <2>5. CASE Watch(t)
    <3>1. pc[t] = "watch" /\ watcher.pc = "none"
      BY <1>4, <2>5 DEF Watch
    <3> QED BY <2>5, <3>1 DEF Watch, Goto, outside, cfgVars, dbVars, scanVars, Places
  <2> QED BY <2>1, <2>2, <2>3, <2>4, <2>5 DEF WatcherControl
<1>6. /\ DOMAIN watcher' = DOMAIN watcher
      /\ watcher'.pc \in {watcher.pc, "none", "poll"}
      /\ watcher.pc = "none" /\ watcher'.pc # "none" => pc[t] = "watch" /\ pc'[t] \in {"finish", "open"}
      /\ watcher'.queue \in {watcher.queue, <<>>} /\ watcher'.buf \in {watcher.buf, <<>>}
  BY <1>5 DEF Shape, NoWatcher
<1>7. /\ \A u \in Threads : u # t => pc'[u] = "idle"
      /\ pc' \in [Threads -> Places]
      /\ pc'[t] \in {"join", "joining", "close", "roots", "watch", "finish", "open"}
      /\ t \in Conns => pc'[t] \in {"join", "joining", "close", "watch", "open"}
      /\ t = Rebuilder => pc'[t] \in {"join", "joining", "close", "roots", "watch", "finish"}
      /\ pc'[t] \in {"close", "watch", "roots"} => watcher'.pc = "none"
  <2>1. PICK p \in Places : /\ pc' = [pc EXCEPT ![t] = p]
           /\ \/ p = "join"
              \/ p = "joining"
              \/ p = "close" /\ watcher' = watcher /\ watcher.pc = "none"
              \/ p = "close" /\ watcher' = [watcher EXCEPT !.pc = "none"]
              \/ /\ p = after[t] /\ pc[t] = "close"
                 /\ watcher' = [watcher EXCEPT !.open = FALSE, !.queue = <<>>]
              \/ p = (IF t = Rebuilder THEN "finish" ELSE "open")
    BY <1>5
  <2>2. pc'[t] = p /\ \A u \in Threads : u # t => pc'[u] = pc[u]
    BY <2>1 DEF Shape
  <2>3. pc' \in [Threads -> Places] BY <2>1 DEF Shape
  <2>4. \/ p \in {"join", "joining"}
        \/ p = "close" /\ watcher'.pc = "none"
        \/ p = after[t] /\ pc[t] = "close" /\ watcher'.pc = watcher.pc
        \/ p = (IF t = Rebuilder THEN "finish" ELSE "open")
    BY <2>1 DEF Shape, NoWatcher
  <2>5. after[t] \in {"roots", "watch"} BY DEF Shape
  <2> QED BY <1>0, <1>2, <1>3, <1>4, <2>2, <2>3, <2>4, <2>5
<1>8. Shape' BY <1>5, <1>6, <1>7 DEF Shape
<1>9. /\ \A c \in Conns : pc[c] # "prune" /\ pc'[c] # "prune"
      /\ (\A c \in Conns : pc'[c] = "idle") => \A c \in Conns : pc[c] = "idle"
  BY <1>0, <1>1, <1>2, <1>3, <1>7
<1>10. /\ t = Rebuilder => at = pc[t] /\ at' = pc'[t]
       /\ t \in Conns => at = "idle" /\ at' = "idle"
  BY <1>0, <1>3, <1>7 DEF at
<1>11. OneAtATime'
  <2>1. ASSUME NEW c \in Conns
        PROVE  /\ pc'[c] \in {"idle", "prune", "stop", "join", "joining", "close", "watch",
                               "open", "save"}
               /\ after'[c] = "watch"
               /\ pc'[c] # "idle" => life' = "serving" /\ arg'[c] \in Roots
               /\ pc'[c] \in {"close", "watch"} => watcher'.pc = "none"
    <3>1. CASE c = t
      BY <1>0, <1>1, <1>2, <1>5, <1>7, <3>1 DEF OneAtATime
    <3>2. CASE c # t
      BY <1>0, <1>5, <1>7, <3>2 DEF OneAtATime
    <3> QED BY <3>1, <3>2
  <2>2. at' \notin {"idle", "finish"} => watcher'.pc = "none"
    BY <1>2, <1>6, <1>7, <1>10
  <2> QED BY <1>2, <1>5, <1>10, <2>1, <2>2 DEF OneAtATime
<1>12. OnlyDeletions'
  <2>1. <<>> \in Seq(Event) /\ DOMAIN <<>> = {}
    OBVIOUS
  <2>2. watcher'.queue \in Seq(Event) /\ \A i \in DOMAIN watcher'.queue : watcher'.queue[i].kind = "delete"
    BY <1>6, <2>1 DEF OnlyDeletions
  <2>3. watcher'.buf \in Seq(Event) /\ \A i \in DOMAIN watcher'.buf : watcher'.buf[i].kind = "delete"
    BY <1>6, <2>1 DEF OnlyDeletions
  <2> QED BY <1>6, <2>2, <2>3 DEF OnlyDeletions
<1>13. SameRows' BY <1>1, <1>2, <1>5, <1>7, <1>10 DEF SameRows
<1>14. Rooted' BY <1>5, <1>9 DEF Rooted
<1>15. Kept' BY <1>5, <1>9 DEF Kept
<1> QED BY <1>8, <1>11, <1>12, <1>13, <1>14, <1>15

\* The scan before the daemon serves, which no request meets.
LEMMA RemovalScan ==
  ASSUME RemovalInv, Scan
  PROVE  RemovalInv'
<1> USE DEF RemovalInv
<1>0. /\ Rebuilder \in Threads /\ \A d \in Conns : d \in Threads /\ d # Rebuilder
  BY DaemonAssumption DEF Threads
<1>1. at \in {"roots", "scan", "clear", "begin", "fill", "build", "finish"}
  BY DEF Scan, ReadRoots, ScanFile, EndScan, ClearFiles, Begin, Upsert, Commit, Build, Finish, at
<1>2. life = "init" /\ (\A c \in Conns : pc[c] = "idle") /\ (at # "finish" => watcher.pc = "none")
  BY <1>1 DEF OneAtATime
<1>3. /\ UNCHANGED <<scenario, cfg, cfgFile, arg, watcher>>
      /\ rebuilding' \in BOOLEAN /\ after' \in [Threads -> {"roots", "watch"}]
      /\ \A c \in Conns : after'[c] = after[c]
      /\ life' \in {"init", "serving"}
  BY <1>0, <1>2 DEF Scan, ReadRoots, ScanFile, EndScan, ClearFiles, Begin, Upsert, Commit, Build, Finish,
         outside, cfgVars, Shape
<1>4. ASSUME NEW p \in Places, pc' = [pc EXCEPT ![Rebuilder] = p],
             txn' \in BOOLEAN, complete' \in BOOLEAN,
             life' = IF p = "idle" THEN "serving" ELSE life,
             at = "finish" => p = "idle"
      PROVE  Shape' /\ OneAtATime' /\ OnlyDeletions' /\ Kept' /\ at' = p
  <2>1. at' = p /\ pc' \in [Threads -> Places] /\ \A c \in Conns : pc'[c] = pc[c]
    BY <1>0, <1>4 DEF at, Shape
  <2>2. Shape' BY <1>3, <1>4, <2>1 DEF Shape
  <2>3. OneAtATime'
    <3>1. p \notin {"idle", "finish"} => watcher.pc = "none"
      BY <1>1, <1>2, <1>4
    <3> QED BY <1>2, <1>3, <1>4, <2>1, <3>1 DEF OneAtATime
  <2>4. OnlyDeletions' BY <1>3 DEF OnlyDeletions
  <2>5. Kept' BY <1>2, <1>3, <2>1 DEF Kept
  <2> QED BY <2>1, <2>2, <2>3, <2>4, <2>5
<1>5. pc = [pc EXCEPT ![Rebuilder] = at] /\ at \in Places /\ txn \in BOOLEAN /\ complete \in BOOLEAN
  BY <1>0 DEF Shape, at
<1>6. CASE ReadRoots
  <2>1. /\ UNCHANGED <<life, index, db, saved, txn, complete>>
        /\ at = "roots" /\ pc' = [pc EXCEPT ![Rebuilder] = "scan"]
        /\ todo' = UNION {Under(r) : r \in cfg.paths} /\ found' = {}
    BY <1>6 DEF ReadRoots, dbVars, Goto, at
  <2>2. Shape' /\ OneAtATime' /\ OnlyDeletions' /\ Kept' /\ at' = "scan"
    BY <1>4, <1>5, <2>1 DEF Places
  <2>3. todo' \subseteq Files /\ \A f \in todo' : RootOf[f] \in cfg.paths
    BY <2>1 DEF Under
  <2>4. SameRows' BY <1>2, <2>1, <2>2, <2>3 DEF SameRows
  <2>5. Rooted' BY <1>2, <1>3, <2>1, <2>3 DEF Rooted
  <2> QED BY <2>2, <2>4, <2>5
<1>7. CASE \E f \in Files : ScanFile(f)
  <2>1. /\ UNCHANGED <<life, index, db, saved, txn, complete, pc>>
        /\ at = "scan" /\ todo' \subseteq todo /\ found' \subseteq found \cup todo
    BY <1>7 DEF ScanFile, dbVars, at
  <2>2. Shape' /\ OneAtATime' /\ OnlyDeletions' /\ Kept' /\ at' = "scan"
    BY <1>4, <1>5, <2>1
  <2>3. SameRows' BY <1>2, <2>1, <2>2 DEF SameRows
  <2>4. Rooted' BY <1>2, <1>3, <2>1 DEF Rooted
  <2> QED BY <2>2, <2>3, <2>4
<1>8. CASE EndScan
  <2>1. \E p \in {"stop", "clear"} : pc' = [pc EXCEPT ![Rebuilder] = p]
    BY <1>8 DEF EndScan, Goto
  <2>2. /\ UNCHANGED <<life, index, db, saved, txn, todo, found>>
        /\ at = "scan" /\ complete' = (complete \/ saved = found)
    BY <1>8 DEF EndScan, scanVars, at
  <2>3. PICK p \in {"stop", "clear"} : pc' = [pc EXCEPT ![Rebuilder] = p]
    BY <2>1
  <2>4. Shape' /\ OneAtATime' /\ OnlyDeletions' /\ Kept' /\ at' = p
    BY <1>4, <1>5, <2>2, <2>3 DEF Places
  <2>5. SameRows' BY <1>2, <2>2, <2>3, <2>4 DEF SameRows
  <2>6. Rooted' BY <1>2, <1>3, <2>2 DEF Rooted
  <2> QED BY <2>4, <2>5, <2>6
<1>9. CASE ClearFiles
  <2>1. /\ UNCHANGED <<life, index, txn, todo, found>>
        /\ at = "clear" /\ pc' = [pc EXCEPT ![Rebuilder] = "begin"]
        /\ db' = {} /\ saved' = (IF txn THEN saved ELSE {}) /\ complete' = FALSE
    BY <1>9 DEF ClearFiles, Write, Goto, scanVars, at
  <2>2. Shape' /\ OneAtATime' /\ OnlyDeletions' /\ Kept' /\ at' = "begin"
    BY <1>4, <1>5, <2>1 DEF Places
  <2>3. SameRows' BY <1>2, <2>1, <2>2 DEF SameRows
  <2>4. Rooted' BY <1>2, <1>3, <2>1 DEF Rooted
  <2> QED BY <2>2, <2>3, <2>4
<1>10. CASE Begin
  <2>1. /\ UNCHANGED <<life, index, db, saved, complete, found>>
        /\ at = "begin" /\ pc' = [pc EXCEPT ![Rebuilder] = "fill"]
        /\ txn' = TRUE /\ todo' = found
    BY <1>10 DEF Begin, Goto, at
  <2>2. Shape' /\ OneAtATime' /\ OnlyDeletions' /\ Kept' /\ at' = "fill"
    BY <1>4, <1>5, <2>1 DEF Places
  <2>3. SameRows' BY <1>2, <2>1, <2>2 DEF SameRows
  <2>4. Rooted' BY <1>2, <1>3, <2>1 DEF Rooted
  <2> QED BY <2>2, <2>3, <2>4
<1>11. CASE \E f \in Files : Upsert(f)
  <2>1. PICK f \in Files :
        /\ UNCHANGED <<life, index, txn, complete, found, pc>>
        /\ at = "fill" /\ f \in todo /\ todo' = todo \ {f}
        /\ db' = db \cup {f} /\ saved' = (IF txn THEN saved ELSE db \cup {f})
    BY <1>11 DEF Upsert, Write, at
  <2>2. Shape' /\ OneAtATime' /\ OnlyDeletions' /\ Kept' /\ at' = "fill"
    BY <1>4, <1>5, <2>1
  <2>3. SameRows' BY <1>2, <2>1, <2>2 DEF SameRows
  <2>4. Rooted' BY <1>2, <1>3, <2>1 DEF Rooted
  <2> QED BY <2>2, <2>3, <2>4
<1>12. CASE Commit
  <2>1. /\ UNCHANGED <<life, index, db, todo, found>>
        /\ at = "fill" /\ todo = {} /\ pc' = [pc EXCEPT ![Rebuilder] = "build"]
        /\ saved' = db /\ txn' = FALSE /\ complete' = TRUE
    BY <1>12 DEF Commit, Goto, scanVars, at
  <2>2. Shape' /\ OneAtATime' /\ OnlyDeletions' /\ Kept' /\ at' = "build"
    BY <1>4, <1>5, <2>1 DEF Places
  <2>3. SameRows' BY <1>2, <2>1, <2>2 DEF SameRows
  <2>4. Rooted' BY <1>2, <1>3, <2>1 DEF Rooted
  <2> QED BY <2>2, <2>3, <2>4
<1>13. CASE Build
  <2>1. /\ UNCHANGED <<life, db, saved, txn, complete, todo>>
        /\ at = "build" /\ pc' = [pc EXCEPT ![Rebuilder] = "stop"] /\ index' = found /\ found' = {}
    BY <1>13 DEF Build, dbVars, Goto, at
  <2>2. Shape' /\ OneAtATime' /\ OnlyDeletions' /\ Kept' /\ at' = "stop"
    BY <1>4, <1>5, <2>1 DEF Places
  <2>3. SameRows' BY <1>2, <2>1, <2>2 DEF SameRows
  <2>4. Rooted' BY <1>2, <1>3, <2>1 DEF Rooted
  <2> QED BY <2>2, <2>3, <2>4
<1>14. CASE Finish
  <2>1. /\ UNCHANGED <<index, db, saved, txn, complete, todo, found>>
        /\ at = "finish" /\ pc' = [pc EXCEPT ![Rebuilder] = "idle"] /\ life' = "serving"
    BY <1>14 DEF Finish, dbVars, scanVars, Goto, at
  <2>2. Shape' /\ OneAtATime' /\ OnlyDeletions' /\ Kept' /\ at' = "idle"
    BY <1>4, <1>5, <2>1 DEF Places
  <2>3. SameRows' BY <2>1, <2>2 DEF SameRows
  <2>4. Rooted' BY <1>2, <1>3, <2>1 DEF Rooted
  <2> QED BY <2>2, <2>3, <2>4
<1> QED BY <1>6, <1>7, <1>8, <1>9, <1>10, <1>11, <1>12, <1>13, <1>14 DEF Scan

\* Each event takes a file from both index and rows.
LEMMA RemovalWatcher ==
  ASSUME RemovalInv, WatcherLoop
  PROVE  RemovalInv'
<1> USE DEF RemovalInv
<1>1. /\ UNCHANGED <<life, scenario, cfg, cfgFile, complete, rebuilding, pc, after, arg, todo, found>>
      /\ watcher.pc \in {"poll", "next"}
      /\ txn' = txn
  BY DEF WatcherLoop, ReadEvents, EndLoop, BufferDone, Added, IndexAdd, Removed, HasEvent, Write,
         outside, cfgVars, dbVars, scanVars, OnlyDeletions
<1>2. life # "down" /\ at \in {"idle", "finish"} /\ ~ txn /\ saved = db /\ db = index
  BY <1>1 DEF OneAtATime, SameRows
<1>3. watcher.buf # <<>> => Head(watcher.buf).kind = "delete"
  BY DEF OnlyDeletions
<1>4. ~ Added
  BY <1>3 DEF Added, HasEvent
<1>5. /\ \/ index' = index /\ db' = db /\ saved' = saved
         \/ \E f : index' = index \ {f} /\ db' = db \ {f} /\ saved' = db'
      /\ DOMAIN watcher' = DOMAIN watcher
      /\ watcher'.pc \in {"poll", "next", "ended"}
      /\ watcher'.queue \in {watcher.queue, <<>>}
      /\ \/ watcher'.buf \in {watcher.buf, watcher.queue}
         \/ watcher.buf # <<>> /\ watcher'.buf = Tail(watcher.buf)
  <2>1. CASE ReadEvents
    <3>1. watcher' = [watcher EXCEPT !.pc = "next", !.buf = watcher.queue, !.queue = <<>>]
      BY <2>1 DEF ReadEvents
    <3>2. DOMAIN watcher = {"pc", "stop", "open", "dirs", "known", "queue", "buf", "new", "hide"}
      BY DEF Shape, NoWatcher
    <3>3. /\ DOMAIN watcher' = DOMAIN watcher /\ watcher'.pc = "next"
          /\ watcher'.queue = <<>> /\ watcher'.buf = watcher.queue
      BY <3>1, <3>2
    <3> QED BY <2>1, <3>3 DEF ReadEvents, dbVars
  <2>2. CASE EndLoop
    BY <1>1, <2>2 DEF EndLoop, dbVars, Shape, NoWatcher
  <2>3. CASE BufferDone
    BY <1>1, <2>3 DEF BufferDone, dbVars, Shape, NoWatcher
  <2>4. CASE Removed
    BY <1>1, <1>2, <2>4 DEF Removed, HasEvent, Write, Shape, NoWatcher
  <2> QED BY <1>1, <1>4, <2>1, <2>2, <2>3, <2>4 DEF WatcherLoop, IndexAdd
<1>6. at' = at BY <1>1 DEF at
<1>7. Shape' BY <1>1, <1>5 DEF Shape
<1>8. OneAtATime' BY <1>1, <1>5, <1>6 DEF OneAtATime
<1>9. OnlyDeletions'
  <2>1. <<>> \in Seq(Event) /\ DOMAIN <<>> = {}
    OBVIOUS
  <2>2. ASSUME watcher.buf # <<>>
        PROVE  /\ Tail(watcher.buf) \in Seq(Event)
               /\ \A i \in DOMAIN Tail(watcher.buf) : Tail(watcher.buf)[i].kind = "delete"
    BY <2>2 DEF OnlyDeletions
  <2>3. watcher'.queue \in Seq(Event) /\ \A i \in DOMAIN watcher'.queue : watcher'.queue[i].kind = "delete"
    BY <1>5, <2>1 DEF OnlyDeletions
  <2>4. watcher'.buf \in Seq(Event) /\ \A i \in DOMAIN watcher'.buf : watcher'.buf[i].kind = "delete"
    BY <1>5, <2>2 DEF OnlyDeletions
  <2> QED BY <1>5, <2>3, <2>4 DEF OnlyDeletions
<1>10. SameRows' BY <1>1, <1>2, <1>5, <1>6 DEF SameRows
<1>11. Rooted' BY <1>1, <1>5 DEF Rooted
<1>12. Kept' BY <1>1 DEF Kept
<1> QED BY <1>7, <1>8, <1>9, <1>10, <1>11, <1>12

\* No step breaks the invariant.
LEMMA RemovalNext ==
  ASSUME RemovalsAlone, Removing, RemovalInv, [Next]_vars
  PROVE  RemovalInv'
<1>1. CASE \E force \in scenario.forced : Start(force)
  BY <1>1, RemovalStart
<1>2. ~ Crash
  BY DEF Crash, RemovalsAlone, Removing, RemovalInv, Shape
<1>3. CASE \E kind \in Happenings, f \in Files : Change(kind, f)
  BY <1>3, RemovalChange
<1>4. ASSUME NEW c \in Conns, Request(c) \/ Connection(c)
      PROVE  RemovalInv'
  BY <1>4, RemovalRequest
<1>5. ASSUME NEW t \in Threads, WatcherControl(t)
      PROVE  RemovalInv'
  BY <1>5, RemovalControl
<1>6. CASE Scan
  BY <1>6, RemovalScan
<1>7. CASE WatcherLoop
  BY <1>7, RemovalWatcher
<1>8. CASE UNCHANGED vars
  <2>1. /\ UNCHANGED <<life, scenario, cfg, cfgFile, index, db, saved, txn, complete, rebuilding>>
        /\ UNCHANGED <<pc, after, arg, todo, found, watcher>>
    BY <1>8 DEF vars, outside, cfgVars, dbVars, scanVars
  <2> QED BY <2>1 DEF RemovalInv, Shape, OneAtATime, OnlyDeletions, SameRows, Rooted, Kept, at
<1> QED BY <1>1, <1>2, <1>3, <1>4, <1>5, <1>6, <1>7, <1>8 DEF Next

\* It holds at first, when nothing is indexed.
LEMMA RemovalInit == Init => RemovalInv
<1> SUFFICES ASSUME Init PROVE RemovalInv
  OBVIOUS
<1>1. DaemonInv
  BY InitInv
<1>2. Rebuilder \in Threads /\ \A c \in Conns : c \in Threads
  BY DEF Threads
<1>3. \A t \in Threads : pc[t] = "idle" /\ after[t] = "watch"
  BY DEF Init, Resting
<1>4. watcher.pc = "none" /\ watcher.queue = <<>> /\ watcher.buf = <<>>
  BY DEF Init, NoWatcher
<1>5. OneAtATime BY <1>2, <1>3, <1>4 DEF Init, OneAtATime, at
<1>6. OnlyDeletions BY <1>4 DEF OnlyDeletions
<1>7. SameRows BY <1>2, <1>3 DEF Init, SameRows, at
<1>8. Rooted BY DEF Init, Rooted
<1>9. Kept BY <1>1 DEF DaemonInv
<1> QED BY <1>1, <1>5, <1>6, <1>7, <1>8, <1>9 DEF RemovalInv, DaemonInv

\* It holds for ever.
LEMMA RemovalAlways == RemovalsAlone => (Spec => [](Removing => RemovalInv))
<1> SUFFICES ASSUME RemovalsAlone PROVE Spec => [](Removing => RemovalInv)
  OBVIOUS
<1>1. Init => (Removing => RemovalInv)
  BY RemovalInit
<1>2. (Removing => RemovalInv) /\ [Next]_vars => (Removing => RemovalInv)'
  <2>1. [Next]_vars => (Removing' => Removing)
    BY ScenarioStays DEF Removing
  <2> QED BY <2>1, RemovalNext
<1> QED BY <1>1, <1>2, PTL DEF Spec

\* Where removing is all that is asked for, each entry and each row is below a
\* configured root as soon as the request is answered, whatever files go while
\* it prunes, waits for the watcher and starts it again.
THEOREM RemovedRootStaysOut == RemovalsAlone => (Spec => []RemovedStaysOut)
<1> SUFFICES ASSUME RemovalsAlone PROVE Spec => []RemovedStaysOut
  OBVIOUS
<1>1. (Removing => RemovalInv) => RemovedStaysOut
  <2> SUFFICES ASSUME Removing, RemovalInv, life = "serving", pc = Resting,
                      NEW f \in index \cup saved
               PROVE  RootOf[f] \in cfg.paths
    BY DEF RemovedStaysOut, OnlyConfigured, Removing
  <2>1. at = "idle" /\ \A c \in Conns : pc[c] = "idle"
    BY DEF Resting, Threads, at
  <2>2. f \in index \cup db
    BY <2>1 DEF RemovalInv, SameRows
  <2> QED BY <2>1, <2>2 DEF RemovalInv, Rooted
<1> QED BY <1>1, RemovalAlways, PTL

\* There the index is the table as well, the committed rows are whole or none,
\* and the settings are kept.
THEOREM RemovalsKeepRows ==
  RemovalsAlone => (Spec => [](Removing => IndexIsTable /\ SurvivesCrash))
<1> SUFFICES ASSUME RemovalsAlone PROVE Spec => [](Removing => IndexIsTable /\ SurvivesCrash)
  OBVIOUS
<1>1. (Removing => RemovalInv) /\ SettingsKept => (Removing => IndexIsTable /\ SurvivesCrash)
  <2> SUFFICES ASSUME Removing, RemovalInv, SettingsKept PROVE IndexIsTable /\ SurvivesCrash
    OBVIOUS
  <2>1. IndexIsTable
    BY DEF RemovalInv, SameRows, OnlyDeletions, IndexIsTable, Writing, at
  <2>2. WholeOrEmpty
    BY DEF RemovalInv, SameRows, Shape, WholeOrEmpty
  <2> QED BY <2>1, <2>2 DEF SurvivesCrash
<1> QED BY <1>1, RemovalAlways, SettingsAreKept, PTL
=============================================================================
