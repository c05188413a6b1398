# Lsearch: specifications, checks and proofs

Lsearch is a file search for Linux in the manner of *Everything*. A daemon,
`lsearchd`, scans the configured directories, keeps every file name in memory
and in a SQLite table, follows changes with inotify, and answers searches over
a Unix socket. A command line, a TUI, a GUI, an MCP server and a D-Bus service
are its clients. This directory holds TLA+ modules that model the daemon and
its client library, TLC configurations that check them, and TLAPS proofs.
Paths below are relative to `src/`.

- `tlc -config X.cfg M` checks module `M` (see the table of runs);
  `tlapm M.tla` checks its proofs.
- `PROJECT.json` maps each definition to the lines it models, and lists the
  hazards, each with the properties that guard against it.

## 1. Inventory

| component | state | operations | interacts with | what is hard | what makes it correct |
|---|---|---|---|---|---|
| **hot index** `core/search.cpp`, `Index` | vector `entries_`, hash map `pathIndex_` to positions, counters `dirs_`, `bytes_` | `build add remove replace removePathAndSubtree clear` | called by daemon and watcher under the writer's side of `idxLock_` | positions after swap-and-pop and compaction; counters that are only adjusted | a position is always that of its path; one entry per path; it is a set of files |
| **query engine** `core/search.cpp` | slices of the vector, a shared count, per-worker results | `search searchEx countEx` | under the reader's side of `idxLock_` | workers racing for the last slots below the cap, relaxed loads | exact unless capped; capped answers are bounds; the answer does not depend on the schedule |
| **full scan** `core/indexer.cpp` | queue of directories, `busy`, `visitedDirs`, a result per worker | `fullScan` | called by the rebuild thread | when is the scan over; lost wake-ups; links and cycles | ends; ends not too early; complete; no directory scanned twice |
| **inotify watcher** `core/watcher.cpp` | `wdToPath_`, `pathToWd_`, `stop_`, a thread | `start stop addWatch`, the loop | calls back `Daemon::applyWatch` | events describe the past; directories filled before they are watched; restart | every directory watched; the index catches up with the disk |
| **database** `core/db.cpp` | rows, an open transaction | `upsert remove removeSubtree clearFiles loadAll begin commit` | daemon, under `dbLock_` | crash between two writes | the rows are those of the index; whole or none after a crash |
| **configuration** `core/config.cpp`, `core/util.cpp` | `cfg_`, the file | `load save isExcluded isHiddenName` | daemon, scan, watcher | save is truncate and write; comma-separated lists | what is answered OK survives a restart, but for a crash within a save |
| **daemon core** `daemon/daemon.cpp` | `cfg_ idx_ db_ watcher_ rebuilding_` | `init doFullScan rebuildAsync applyWatch restartWatcher handleRequest` | all of the above | rebuild thread, watcher thread and connection threads on the same state; crash | index, table, configuration and disk agree |
| **socket server** `daemon/daemon.cpp` | `connFds_ connThreads_ running_`, a buffer per connection | `run serveConnection shutdown ~Daemon` | clients, kernel | descriptors given out again; clients that hang; lines cut anywhere | shutdown ends and leaves nothing; framing does not matter |
| **process start** `daemon/main.cpp` | lock file, socket file | `main acquireInstanceLock` | other instances, clients that spawn one | two cold starts; start during shutdown | one daemon; its socket is its own |
| **IPC client** `ipc/client.cpp`, `ipc/proto.cpp` | `fd_ recvBuf_ v2_ v3_ lastSearchLegacy_` | `connect ping search searchEx countEx capabilities connectOrSpawn` | the daemon, of any version | a daemon replaced under a kept connection; replies cut short | nothing of an old daemon or an old reply is used for a new one |
| **MCP server** `mcp/` | a buffer of input, one client, a page per call | `main handleLine handleToolCall doSearchEx doLegacyPage paginate`, JSON | client library, the assistant's pipe | lines cut anywhere, lines too long, names that are no UTF-8; one retry; pages from answers that are arbitrary subsets | every request has one answer; one end of the daemon does not show; pages follow each other |
| **D-Bus service** `dbus/` | one client, the time of the last rebuild | `handleSearch handleStats handleRebuild` | client library | one retry; throttling by the wall clock | pages as above; rebuilds let through again |
| **TUI** `tui/main.cpp` | `g_query g_sort g_results g_cursor g_scroll`, two atomics | the keys, `worker openSelected` | client library, a worker thread | the worker replaces rows the user moves in | the list is the answer to the last question; the cursor is in it and in view |
| **GUI** `gui/main.cpp` | widgets, `query_ pending_ running_`, the table | `runSearch searchLoop fillTable onFilterChanged ~MainWindow` | client library, a worker thread, Qt's events | lost wake-ups, answers posted late | as above; closing ends |
| **command line** `cli/main.cpp` | none | one request per process | client library | | |

Calls go down this table's layers: clients send lines over the socket to
connection threads; those change configuration, index and table, or start the
detached rebuild thread, which scans, rewrites the table, rebuilds the index
and restarts the watcher; the watcher's thread calls back into the daemon.
`idxLock_` and `dbLock_` are held one after the other, never nested; `cfg_` and
`watcher_` are shared by threads without a lock.

## 2. Modules

| module | models | state corresponds to | proved |
|---|---|---|---|
| `FileCatalog` | what `Index` promises: a set of files by path | | |
| `Index` | the updates of class `Index` | `index.entries` = `entries_`, `index.at` = `pathIndex_`, `dirs`, `bytes` modulo `Modulus` | `IndexProofs` |
| `SearchScan` | one query: workers over slices, one action per turn and per atomic operation | `count` = the shared atomic, `hits` = the workers' results | `SearchScanProofs` |
| `Paging` | pages cut from answers | the page, the pages so far | `SearchScanProofs` |
| `Json`, `Texts` | what is done to bytes: `core/util.cpp`, `ipc/proto.cpp`, `mcp/json.cpp`, requests, rows, arguments, globs, subtrees, lists in the configuration; one operator per function | two texts, built up byte by byte | |
| `Indexer` | one scan: workers, queue and condition variable | `pc[t]` = where worker `t` is, `q`, `busy`, `visitedDirs` | `IndexerProofs` |
| `Watcher` | the inotify thread and, external, the kernel and the file system | both maps, a stack of what `scanNewDir` has still to do, the kernel's queue and watches, the disk, the index | `WatcherProofs` |
| `Daemon` | rebuild, requests, table, configuration, watcher control, crash and restart | one `pc` per connection thread and for the rebuild thread; `watcher` = the `Watcher` object with its thread; `db` / `saved` = rows as seen / as committed; `scenario` = what is done to the daemon in this behaviour | `DaemonProofs` |
| `Server` | accept loop, connection threads, shutdown, destruction and, external, sockets and clients | `thread[c]`, `connFds`, `table` = open descriptors, `sock` | `ServerProofs` |
| `Instance` | `main` of several processes of `lsearchd`, the socket file, and clients that start a daemon | `pc[p]`, `lock` = holder of the flock, `sock` = the socket file and who bound it, `file` = the configuration | `ProgramProofs` |
| `Client` | client library and, above it, the calls of the MCP server and the D-Bus bridge and the processes of the command line | `conn` = `fd_` and `recvBuf_`, `v2`, `v3`; `todo` = the call stack | `ClientProofs` |
| `Mcp` | the MCP server's loop over its input | `buf discarding g_stop`, the pipe | `ProgramProofs` |
| `Tui` | main thread and worker of the TUI | the globals `g_*`, by their names | `ProgramProofs` |
| `Gui` | the main window, its worker and Qt's events | members by their names, `posted` = events not yet handled | |

`MC*` modules define the instances. How they fit together: `Index` implements
`FileCatalog` (`INSTANCE FileCatalog WITH files <- Files`, property
`ImplementsCatalog`), so `Daemon` and `Watcher` use a set for the index;
`Indexer` shows that a scan is complete, so `Daemon` has a scan add each file
under the roots in any order; `SearchScan` shows which answers searches may
give, and `Paging` starts from just these (`Outcomes`, `Searches`); `Texts`
shows that rows and requests survive the wire, so `Client` sends records, and
that the tests of a subtree agree, so `Daemon` has one; `Instance` shows that
one daemon serves at a time, so `Daemon` has one process; `Server`
shows that every line is answered once and in order, and `Client` starts from
that, and `Tui` and `Gui` from an answer or a lost link; `Watcher` has the maps and directory events in full, and `Daemon` the
watcher's thread between the daemon's other threads.

What is abstracted everywhere: names and paths are atoms or short sequences of
names, except in `Texts`, where they are bytes; what a query matches is any set
of entries, and what it says is in `Texts`; log output, rendering and the
wording of errors are left out. What the code leaves open is a
nondeterministic choice: which worker moves, the value a relaxed load returns
(any from the worker's last to the current one), what part of a reply arrives
before a daemon ends, how many bytes `recv` takes. In `Daemon`, an access to
`cfg_` without a lock is one step, although the language calls it a data race:
what goes wrong there goes wrong even so.

### Points of correspondence

- **Index.** One action per method, since callers hold `idxLock_` exclusively.
  The counters are subtracted from without a check, hence the modulus.
- **Indexer.** A worker's turn is split where it gives up the mutex: claim
  (under the mutex), open, a step per name read, pushing what was found, done.
  The condition variable has spurious wake-ups and `notify_one` may pick any
  waiter.
- **SearchScan.** A worker's turn is load, compare, match, `fetch_add`, keep.
- **Daemon.** `doFullScan` is eight actions, one for each stretch that holds a
  lock or is one call: read the roots, scan a file, end (`Suspect`), clear,
  begin, upsert, commit, build; the rebuild thread then restarts the watcher
  and resets `rebuilding_`. `Watcher::stop` is four actions, because two
  threads may be in it at a time. `applyWatch` writes table and index in two
  actions. `Config::save` truncates and writes in two.
- **Watcher.** The kernel's instance has a queue and its own numbering of
  watches, and tells of an inode what has a watch on it (`Event`). An event is handled in steps: what it is, then, for a new directory,
  add the watch, list, and the same for what the listing found.
- **Server.** `recv` takes 1 to `Chunk` units; `send` blocks without `Room`.
  The end of a connection erases its descriptor and then closes it, as two
  actions, because the number is free for others only after the second.
  `connFds[fd]` is how often the vector lists the number; nothing depends on its
  order, so `shutdown` wakes the connections in any.
- **Client.** Calls are on an explicit stack, so that `search` and `searchEx`,
  which fall back on each other, can recurse. Each request is one action: the
  daemon may end after any part of its reply. Three programs are above it: two
  that retry on a new connection, one with a connection for each request.

- **Texts.** Each function is an operator that gives what the function returns:
  a set of at most one result where it can refuse. Loops with an index are
  written as what they compute (`Split`, `Trim`, `SplitHead`), except where the
  loop is what has to be right: `GlobStep` is one turn of `globMatch`, and
  `ParseString`, `ParseMembers` and `UnescapeField` walk as the code does. Each
  is compared with a definition of what it should compute (`Means`, `IsUtf8`), or
  with its inverse.
- **Instance.** `main` is one action per system call that others can see: load,
  look for the file, save, ask or probe, lock, fork, then `Daemon::run`'s unlink, bind, listen and,
  at the end, unlink. A crash ends any process anywhere and frees its lock, but
  leaves the socket file.
- **Mcp.** A turn of the loop is split at `read`; a signal may come anywhere.
- **Tui, Gui.** A section under a mutex is one action; what is atomic or shared
  without a mutex is its own. In `Gui` the condition variable's wait is split
  into test and sleep, since `notify_all` is called without the mutex.

## 3. Runs

| run | configuration | shows |
|---|---|---|
| `index` | `MCIndex.cfg` | every sequence of calls keeps positions valid and paths unique, the counters drift only by overwriting, and the whole implements `FileCatalog` |
| `scan` | `MCIndexer.cfg` | three workers never end early, the result is complete, no directory is scanned twice, whatever links lead to it, and the scan ends |
| `query` | `MCQuery.cfg` | for every set of matches: answers exact unless capped, capped ones true bounds, whatever the schedule; pages are the matches in order or said to be cut; for every two texts: what is sent or saved arrives, globs match what they say, the tests of a subtree agree |
| `daemon` | `MCDaemon.cfg` | with crashes anywhere: index is table, committed rows whole or none and answered settings in the file, a removed root stays out, a scan that found nothing empties nothing, rebuilds end |
| `daemon_apply` | `MCDaemonApply.cfg` | **violated**: settings changed during a rebuild are not scanned for (finding) |
| `watcher` | `MCWatcher.cfg` | within one life of the watcher and up to five changes: maps agree, every directory is watched, the index catches up |
| `watcher_restart` | `MCWatcherRestart.cfg` | **violated**: after a restart known directories have no watch (finding) |
| `server` | `MCServer.cfg` | connection list right though numbers are reused; answers independent of framing; shutdown ends and leaves nothing |
| `server_detached` | `MCServerDetached.cfg` | **violated**: the daemon is destroyed under the rebuild thread (finding) |
| `client` | `MCClient.cfg` | conclusions, replies, pages and counts are of the daemon at hand; one end of a daemon does not show in MCP and D-Bus, and nothing less fails a command; every call is answered |
| `frontends` | `MCFrontEnds.cfg` | TUI and GUI come to show the answer to the last question, the selection stays in the rows and in view, leaving the TUI ends; the MCP server answers every line as it is due |
| `instance` | `MCInstance.cfg` | never two daemons; the socket file is that of the one that serves; a successful start leaves a daemon |

`query`, `frontends` and `client` each hold several systems that do not meet: the
initial state says which of them a behaviour is of (`part`, `program`, `call.by`).

### Bounds, and why they are enough

- `index`: three paths, one below another and one whose name only starts like
  it, two sizes, modulus 4. A removal moves at most one entry and three entries
  give every case of it (the last, the moved one, another); the proofs cover
  the rest.
- `scan`: three workers, twelve names: a hidden, an excluded, one that cannot be
  stat'ed, a directory that cannot be opened, and links that give a cycle and a
  second way to a directory with that one below it, so that what the links lead
  to would be scanned again by a test of the paths alone. With three there are two waiters for a `notify_one` to
  choose from. The proofs have any number.
- `query`, scans: six entries, three workers, cap 3, so that the cap is met by
  one worker, by two at once, by all, and not at all; all sets of matches.
  Pages: up to six matches with a cap of five: one below, at, and one above.
  Texts (`MCBytes`, `MCLongest`): per topic the bytes its functions tell apart,
  in texts long enough for each of their branches: rows of 4 and 3 bytes,
  subtrees of 4, globs of 5 against 5 (two stars and a return to the last),
  base64 of two groups, two `\\u` escapes, a pair and what is short of one,
  UTF-8 of all lengths and one byte too few, JSON of 6 bytes and two levels, numbers of 6 bytes: `1e777`
  is refused, `1e-777` zero, `0.1e17` comes back as an integer and `1e17` does not.
  The limits of the code are scaled down: `LimitMax` 11, `PathMax` 3,
  `EncodedMax` 8, `UnderMax` 3, `PageMax` 2, `MaxDepth` 2.
- `daemon`: two roots, four files of which one is a directory and one hidden,
  one connection, any number of rebuilds and crashes, in three scenarios:
  `Growing`, where two of three files come and go, roots are added and the
  daemon crashes; `Setting`, where all settings change, one file does, and the
  daemon crashes; and `Removing`, with remove-path while files are deleted.
  Each of the properties concerns one rebuild or one change against one other
  thread. `most` of a scenario and `QueueLimit` bound the environment.
- `watcher`: directories two deep, five operations: enough to create a
  directory, fill it, delete it and create it again while the first events
  wait. The queue does not overflow (20 events). Six are enough for what
  `MCWatcherAgain.cfg` finds (section 5); the proofs have any number where no directory goes.
- `server`: two clients, requests at and above the limit of a line, pieces of
  one to three units, room for one answer, two descriptors, so that a
  descriptor that is closed is the one the next connection gets.
- `client`: daemons of three versions and one that promises too much, two ends
  of a daemon, two calls: an end in each attempt, or one in each call.
- `frontends`: TUI: three changes of the question, answers of up to three rows,
  one or two rows of room, a query that fails. GUI: three events besides
  closing, three texts of which one is refused, spurious wake-ups. MCP: every
  one or two of thirteen kinds of line, at, one above and more than a read
  above the limit, and an unfinished rest.
- `instance`: three processes, so that a start can meet an end and a crash; one
  client, one crash.

`CHECK_DEADLOCK FALSE` stands where the system comes to rest: the server when
the daemon is gone, the client after its last call, the programs of `frontends`
after their end, and `instance` when all processes have been started. The pages
and texts of `query` may stop (`Stop`), its workers may not.

### Fairness

- `Indexer`: weak fairness of each thread: they are OS threads, and what blocks
  them is modelled (the condition variable, the join). `SearchScan`, `Paging` and `Texts`
  have safety properties only and assume none.
- `Daemon`: weak fairness of the rebuild thread, of each connection thread once
  it has taken a request, of the watcher's thread and of the start after a
  crash (`RebuildEnds` is about one life; without the start it holds as well,
  as a crash resets `rebuilding`). None of requests, changes and crashes.
- `Watcher`: weak fairness of the watcher's thread; files need never change.
- `Server`: weak fairness of the daemon's threads and, for the clients in
  `Readers` only, of reading what is there. Nothing is assumed of the other
  client: it may never read, write, or hang up.
- `Client`: weak fairness of the program's one thread. No fairness of daemons:
  none has to come up.
- `Instance`: weak fairness of each process once it has been started; none of
  starts, crashes, and clients.
- `Tui`: weak fairness of the worker, which polls, and of the main thread where
  it does not wait for a key. None of keys.
- `Gui`: weak fairness of the worker; strong fairness of the events Qt has to
  handle (a timer that has run out, what the destructor does) and of
  `FillTable`. Strong, because each may be kept from the mutex or behind other
  events again and again: Qt handles posted events in their order, and no thread
  holds `gmut_` for longer than a few assignments. None of the user.
- `Mcp`: weak fairness of the program; none of the client or of signals.

## 4. Proofs

**`IndexProofs`** (for any paths, sizes, modulus and snapshots):
`PositionsAlwaysValid`, with `OneEntryPerPath` and `IndexImplementsCatalog`
under the assumption that no vector given to `build()` has a path twice (rows
of a table with `path` as its key; scans of roots that do not overlap). The
invariant `PointersValid` is not inductive alone: that the swap in `remove()`
re-points the right entry, and that compaction in `removePathAndSubtree` gives
each kept entry the position that is computed, needs `Sound` (hash map and
vector have the same paths, positions in range). The refinement adds `Unique`.
Lemmas on ranks in a set of positions (`RankBounds`, `RankOneToOne`,
`NthExists`) carry the compaction.
`DriftByOverwriteOnly`, under the same assumption, is the action property
`DriftOnlyByOverwrite`: whatever a call does to positions, the counters go along
with the entries, modulo 2^64 for any modulus, unless `add()` overwrites. The
counts are sums over positions (`Total`), so the proof is about these: what a new
member adds (`TotalAppended`), the last one moved into a hole takes away
(`TotalHole`), a set of positions leaves (`TotalSplit`) and compaction keeps
(`TotalKept`). Each is an induction over positions, which is done without an
induction theorem: a set that contains 0, and k with k - 1, has no least number
missing (`Upward`, from `LeastNat`); so is `SumsExist`, that the sums the recursive
function stands for exist at all. `Carried` takes the difference through the wrapped
counter. Without the assumption, `remove()` may leave the path of a second entry
in the map, and a `replace()` that begins with it is not an addition.
`IndexTypesAlways` has the types, under no assumption.

**`IndexerProofs`** (for any tree, roots, filters, links and any finite number
of workers): `TypesHold`, `NoWorkerEndsEarly`, `ScanIsComplete`. The
invariant is `ScanInv`, the conjunction of types, `Control` (what each program
counter says of the others), `NoEarlyExit` (once a worker has ended, the queue
is empty and nobody is busy) and `NothingLost` (whatever is known and not yet
in a result is queued, or with a worker). `Complete` speaks of the merged
result only, so it says nothing of the steps before and has to be strengthened
to `NothingLost`, which needs `NoEarlyExit` for the merge.
`DirectoriesScannedOnce` gives `ScannedOnce` where `RootsApart` holds: no root is
named twice, and with links not followed (when `visitedDirs` is not used) none
lies in the tree of another. With links followed a directory is its inode, and two
paths of one inode are not both queued, but for two roots, which are not tested.
Its invariant is `EntryInv`: a path is in one
place only, in the queue, with a worker, or to be pushed (`Once`); of the paths
that were ever queued no two are one directory (`Identified`), since each inode
was in `visitedDirs` before the next was tested; entries come
from directories that are open or closed (`Entered`), and with a parent of its
own each path is found from one directory (`Origin`). That a path has one parent
is an assumption on the tree (`IndexerAssumption`).

**`ProgramProofs`**, of `Instance` (for any number of processes, clients, starts, crashes):
`OnlyOneDaemon` and `SocketIsOwn`. The invariant is `InstanceInv`, the
conjunction of types, `LockHeld` (a process past the lock holds it; it is given
back only by the process that has it, or when that ends), `SockOf` (from bind to
unlink the socket file is that of the holder of the lock) and `PeerKnown` (the
daemon a process talks to is one). `OwnSocket` is not inductive without the
first two: that no other process unlinks the file rests on every unlink being
made under the lock.

Of `Tui` (for any letters, answers of any length, terminals of any size) it has
`SelectionStaysInView`. The invariant `Listing` has the cursor in the list
and the screen with a row at least; what a step may do to the view follows from it.

Of `Mcp` (for any script of lines, any sizes of reads and of the limit, and a signal
at any time) it has `McpTypesAlways` and `RequestsAnswered`, which is
`OneAnswerEach` where `ShortLines` holds: of no line is more dropped than one
buffer (`MCMcpLong.cfg` has such a line, and the property fails). The
invariant `Stream` says where the loop is in what was written: `e` has the ends of
the lines, and what is in the buffer and what is still in the pipe are together the
rest of the stream after the last end taken or, while a line is discarded, after a
position more than the limit into it (`TakenTo`). `Answers`
says that each line taken was answered as often as it is due, in order, and the
dropped one once. That a stream has such ends is an induction over the lines of
the script (`WrittenEnds`), with `FlattenSeq` unfolded by `FlattenJoins`.

**`SearchScanProofs`** (for any number of entries, workers and matches, any cap
and limit): `SlotsAlwaysExact` and `AnswersAlwaysTrue`. The invariant is
`ScanInv`, the conjunction of types, `InRange` (each worker is in its own range),
`Gathered` (what a worker has gone past is what it has collected and counted, up
to the cap), `Stopped` (a worker that has ended is at the end of its range, or
the count has met the cap) and `Answered`. The properties speak of answers and of
the sum over all workers; they follow only from what each worker has gone past,
and from that the ranges cover the entries without overlap (`RangesApart`,
`RangesCover`, about the quotients that divide them). `TopCardinality` shows
that as many matches have a rank below the limit as are kept.
`PagesAlwaysRight` (for any number of matches, sizes of pages and answers that
are right or said to be cut, which `AnswersTrue` is about): the pages, put
together, are the matches in order without gap or repetition, or say that they
are cut. `PagesInv` adds what is known before the last page: with no more matches
than the cap, the pages so far are all of the matches up to the next offset.

**`WatcherProofs`** (for any finite set of paths, any filters, changes of files and
limits): `MapsAlwaysAgree`, if no directory is moved, and within one life of the
watcher. That `IN_IGNORED` takes the right pair out of both maps needs
`Numbered` (the kernel gives no number twice) and `Placed` (a watch that is in
the maps is of the directory made under that path), which a moved directory
breaks (`Unmoved`). That directories have paths of their own, and files have
nothing below them, is `PathsAssumption`.
`NewDirectoriesWatched` and `IndexFollowsDisk` say that `EveryDirectoryWatched`
and `SettledIsCurrent` (the safety part of `BecomesCurrent`, which the run checks)
hold for any number of changes, as long as no directory is
deleted or renamed (`DirsStay`) and the queue and the watches stay below their
limits (`Roomy`); files may come, go and be renamed, and directories come, at
any moment. Both properties speak of the watcher at rest; the invariant
`FollowInv` says what is under way. `Watching`: each watch is on the directory
that is at its path. `Queue`, `Working`: each event and each task can be given
its path, below a directory with a watch. `Indexed`: an entry of a file that is
gone has its end in the queue. `Ordered`: the end of an earlier file is followed
by the beginning of the one that is there now. `Following`: what is there, in
a directory that has its watch, is in the index, or told of, or to be emitted, or
in a directory to be listed. At rest, a directory without a watch with the
shortest path would be in one that has its own (`SettledWatched`). Where
directories are deleted `Watching` fails while `IN_DELETE_SELF` waits, and so
does the property (`MCWatcherAgain.cfg`).

**`DaemonProofs`** (for any roots, files, connections, and any scenarios without
remove-path): `CrashIsSurvived` and, where no scan is forced at the start,
`IndexStaysTable`. The invariant is `DaemonInv`: `Shape` and `Alone` (connections
touch only the configuration), `Phases` (from `Watcher::stop` to
`Watcher::start` there is no watcher's thread, and without a rebuild the rebuild
thread is at rest), `Rows` (what the table holds and what of it is committed, for
each step of the rebuild) and `Kept` (types of configuration and file);
`IndexIsTable` adds `Indexed`. `SettingsAreKept` is for any scenario: the
configuration file has the settings that were answered last, or those of a
request not answered yet, unless a crash has just left it truncated. `answered`
is a history variable, and the invariant `SettingsInv` says who may be about to
save (`Saving`) while the file is not what is in memory, and that what is in
memory is always something answered or asked for. `CrashIsSurvived` is this and
the rows (`WholeOrEmpty`). `IndexNeverEmptied`
is an action property: no step but that of an event or the end of the process
takes an index from some entries to none. It needs `Filled`: there are roots at
all times, so that a scan without a result is suspect, and whatever is being
written after it is not empty. That
the table is written by one thread at a time is the point of `Phases`: with
remove-path it does not hold, as two threads stop and start the watcher (see
`MCDaemonDiffer.cfg`).
`RemovedRootStaysOut` and `RemovalsKeepRows` (for any roots and files) have one
connection that removes roots while files go: then `RemovedStaysOut`,
`IndexIsTable` and `SurvivesCrash` hold. The invariant is `RemovalInv`:
`OneAtATime` has `main()` stop and start the watcher before it serves and the
connection from then on, so that no join ends the process; `SameRows` makes index
and table one, `OnlyDeletions` says that the watcher adds nothing to them, and
`Rooted` that what is below no root is about to be pruned. Its assumption,
`RemovalsAlone`, is as strong as it is because of the code: with a second
connection, a crash, or a file that is made or changed beside the removal, TLC finds
entries below no root (`Resurrecting` of `MCDaemon`, and its `Removing` with
`Conns = {c1, c2}`).

**`ServerProofs`** (for any number of clients, whatever they write, and any
limits): `RegisteredAlways`, `NothingLeftAlways`, `TypesAlways`, which bounds
the buffers, and `FramingAlways`. The invariant `ServerInv` adds to types: a thread's number is its
connection's and no open number is without one (`Own`, `Owners`); `connFds_` has
exactly the open numbers, each once, but for a connection that is about to enter
and one that is erased and not yet closed (`Lists`); who waits to be accepted
waits once and has no thread (`Accepting`, `Waiting`); when `run` has returned each
thread has ended (`Ended`). `Registered` alone is not inductive: that the number
a new connection gets is in nobody's entry rests on erasing before closing. The
bound of a buffer, a line and a piece, needs that what waits for more has no end
of line in it (`Clean`), and that what follows one came with it (`Short`).
`FramingAlways` is `FramingIndependent`, with `FramingInv`: a client's thread is at a
position `p` of what was written, and the buffer and what was not received are
the rest of it (`Placed`); every line up to `p` that is due an answer has one,
except that the thread may hold one it is about to send or to refuse (`Place`);
and none of them ended the connection (`NoStop`). So how `recv` cut the bytes
shows in `Placed` only. That the code looks at the limit in two ways matters in
`FrameLong` and `FrameTooLong`: a line refused because the buffer is full without an
end is one that is too long whatever its end is (its end, or that of the stream,
is farther off than the limit allows).

**`ClientProofs`** (for daemons of any versions, any number of ends and of calls):
`CachesAlways`, `InStepAlways`, `RightPageAlways`, `OneEndSurvivedAlways`. Of a
daemon's version it is assumed that the oldest requests are there, and that
`search2`, `count2` and `capabilities` came together (`ClientAssumption`). The
invariant `ClientInv` is about the
stack of calls: `Shape` says which frame may stand on which, for which function
and with which argument; `Stacked` says of each frame what it relies on (`FrameOK`:
connected or not, what is known of the daemon, how often it has tried) and of the
one just returned to what its result may be (`Returned`). `Links` orders daemons by
the ends before them, and `Excused` counts those the client has learned of, which
is what `OneEndSurvived` needs: an attempt fails only for an end that no earlier
one has used up. `CachesAreOfThisDaemon` and `InStep` are almost inductive alone;
`RightPage` rests on all of the rest, since a result passes through up to five
frames, two of them functions that fall back on each other.

`TypeOK` (`TextsTypeOK`, `TuiTypeOK`, ...), where no run lists it, holds in the
module's run and is the invariant a proof would start from.

Only model-checked: all of `Gui`; the properties of `Watcher` where directories are
deleted, as they hold for a few changes only; what of `Instance` and `Tui` is not named
above; and what the functions of `Texts` and `Json` compute (`LinesFaithful`,
`GlobRight`, `SubtreesAgree`): `Json` has recursive operators, and induction over
texts of every length is beyond the provers but where it can be had from least
numbers, as above.
So is every liveness property, since the provers have no fairness or ENABLED.

## 5. Where the code differs from what it promises

Three runs are expected to fail; `PROJECT.json` quotes the promise:
`daemon_apply`, `watcher_restart`, `server_detached`.

The other configurations are not runs of the project. Each reproduces, in some
seconds, a behaviour met while modelling, with the property named:

| configuration | property | behaviour |
|---|---|---|
| `MCIndexDrift.cfg` | `CountersExact` | `add()` of a known path subtracts its size and never adds the new one |
| `MCIndexerNested.cfg` | `ScannedOnce` | overlapping roots, links not followed: the inner one is scanned twice, and its files are found twice |
| `MCDaemonDiffer.cfg` | `NewFilesShowUp` | a file made between the scan of its directory and the start of the watcher is missed |
| | `RemovalSurvivesRestart` | remove-path of the last root saves an empty list, which loads as the home directory |
| | `GoodDataServed` | a forced scan at the start that finds nothing serves an empty index over the rows it keeps |
| | `OnlyConfigured` | remove-path during a rebuild that has read the roots: the files come back; remove-path while the watcher holds an event of a file below the root: it is added after the pruning; a crash during the save, after which home is the only root and the rows of the others are loaded |
| | `WatcherStops` | two threads in `Watcher::stop` |
| | `AnswersSurvive` | settings are answered, a later request truncates the file to save, and a crash before it writes: the next start has the defaults |
| `MCWatcherMove.cfg` | `SettledIsCurrent` | a renamed directory: `IN_MOVE_SELF` comes after `IN_MOVED_TO` |
| `MCWatcherAgain.cfg` | `EveryDirectoryWatched` | six changes: `d/e` is deleted and made again while `d` is listed; `addWatch` takes the new one for watched (`watcher.cpp:22`), the end of the old one takes it out of the map (line 114), and it stays without a watch, against `docs/specs/001-index-core.md:28` |
| `MCClientUnder.cfg` | `RefusedByOldOnly` | a lost connection is taken for an old daemon |
| | `TotalIsTold` | the D-Bus bridge sends pages with a total of 0 and does not say that it is not known |
| `MCInstanceConfig.cfg` | `AddedIsKept` | two starts with `--add` read and save the configuration without the lock: one addition is lost |
| `MCInstanceEnding.cfg` | `AnyStartServes` | a start while the last daemon ends finds the lock taken, exits with success, and nothing serves |
| `MCQueryDiffer.cfg` | `ExactCapIsReported` | as many matches as the cap: capped or not, by the schedule |
| | `RowsAreByteExact` | a path that ends with a space loses it on the wire, since `split` trims each field |
| | `AnyOffsetIsUnderstood` | a tool call with an offset beyond `kLimitMax` is let pass, refused by the daemon, and answered as if the daemon were not there |
| | `StarIsAnyText` | a star in a file's name is compared to the pattern's star as a letter first, and the match is missed |
| | `SubtreesAgree` | with letters of both cases: LIKE deletes the rows below `/a/B` with those below `/a/b`, the index keeps them |
| | `RootsCanBeRemoved` | a root that ends with a slash is accepted, and nothing is below it for remove-path |
| `MCFrontEndsDiffer.cfg` | `OpensWhatIsDrawn` | TUI: Enter opens another file than the one drawn under the cursor, if the worker has replaced the rows |
| | `AlwaysInView` | TUI: in a terminal that has become smaller the cursor is below its edge |
| | `GuiQuitEnds` | GUI: the destructor notifies without the mutex; the worker misses it, and `join` waits for ever |
| | `StopEnds` | MCP: a signal between the test of `g_stop` and `read` is not seen before the client writes |
| `MCMcpLong.cfg` | `OneAnswerEach` | MCP: a line that is dropped in pieces is answered once per piece over the limit |

The passing runs stay clear of these in two ways, and say nothing of the other
cases. Some constants leave them out: in `daemon`, remove-path has no rebuild
and no new file beside it; `watcher` has no restart, no renamed directory and no
more than five changes; in `scan`, roots overlap only with links followed; in
`query`, the letters of a topic are of one case; in `frontends`, lines are of at
most a read above the limit. And some properties name what they leave out:
`StartServes` is of starts in whose beginning no daemon was ending (`clean`);
`RemovedStaysOut` of scenarios with remove-path alone; `SettingsKept`, in
`SurvivesCrash`, excuses a crash between truncation and write; `ScannedOnce` two
roots of one inode; `DriftOnlyByOverwrite` the overwriting `add()`; in
`LinesFaithful`, `RowsArrive` is of names without a space at the end and
`ArgumentsArrive` has a sum above `kLimitMax` refused; `GlobRight` is of names
without a star, and `SubtreesAgree` of roots without a slash at the end. For each
there is a property or an instance above without the condition, which fails. The
exception is the two roots of one inode: with links followed both are scanned, each
under its own path, since `core/indexer.cpp:113` puts roots into `visitedDirs`
without a test.

Two more were read, not run: `core/watcher.cpp:155` leaves hidden directories
out of the watches when `index_hidden` is on instead of when it is off, and the
branch at line 124 indexes a hidden or excluded file once it is modified
(`Modified` of `Watcher` does so, and `SettledIsCurrent` leaves these out).

## 6. Not modelled

- Regular expressions and the test of a substring (the library's).
- SQL, schema and failing SQLite calls: the code does not look at the results of
  most, so a full disk leaves the table empty and the index filled
  (`daemon/daemon.cpp:76`); a model that has them fail has to say what SQLite
  keeps. `Config::save` into a full disk is the same. A crash between its
  truncation and its write loses all settings (`core/config.cpp:74`): that is in
  `Daemon`, see `AnswersSurvive` in section 5; in `Instance` the file is written
  in one step.
- Data races of the language. `cfg_` is written by connection threads and read by
  others without a lock (`daemon/daemon.cpp:379`).
- Timeouts. `connect` asks for one of 5000 ms in microseconds in `tv_usec`, which
  `setsockopt` refuses (`ipc/client.cpp:56`), so there is none, and a daemon that
  never answers is not in `Client`.
- Clocks. The throttle of rebuilds in `dbus/logic.cpp:80` compares times of the
  wall clock, which lets nothing through after the clock has been set back; in
  `Client` it refuses or not, once a rebuild has been done.
- An overflow of the inotify queue (`core/watcher.cpp:108`): the event has no
  descriptor and is skipped, and what was lost with it is made up for by the next
  rebuild only. `Daemon` and `Watcher` drop events beyond `QueueLimit`; the runs
  stay below it.
- In JSON, integers beyond 64 bits, and which decimals are the same double: a
  double is the decimal it was read from, of few digits, and `Printed` writes that
  in the form `%.17g` gives it, where the code writes 17 digits of the double
  (0.10000000000000001 for 0.1). A double that is integral and below 10^17 is
  written without a point and read back as an integer, in both.
- What an MCP session announces (`initialize`, `tools/list`), D-Bus marshalling,
  the GUI's menus, tray and styles, the output of the command line: constants and
  layout, no state shared with the rest.
- Vendored code (`third_party/`), packaging (`scripts/`), and `.s.cpp` and
  `.clean.cpp`, two copies of another state of the GUI, which no build file names.

## 7. Plan

Done: `Index`, `Indexer`, `SearchScan`, `Daemon`, `Watcher`, `Server`, `Client`,
`Paging`, then `Instance`, `Tui`, `Gui`, `Mcp`, `Json` and `Texts`: first what
all else rests on, then what shares state between threads, then the protocol,
then those who use it.

To model next: SQLite calls that fail and two connections with every request in `Daemon`.

To prove next, in order of what it is worth:
1. `Watcher`: that `MapsAgree` holds over restarts with the directories given.
2. `Gui`: its type invariant, and that its table shows one answer at a time.
3. `Texts`, freed from the recursive operators of `Json`: that a row survives the
   wire for texts of every length, by induction from least numbers as in
   `IndexProofs`.
