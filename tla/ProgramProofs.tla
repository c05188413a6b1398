---------------------------- MODULE ProgramProofs ----------------------------
(* Proofs about the programs around the daemon's work: that one daemon runs  *)
(* and the socket file is its own (module Instance); that the row selected in *)
(* the terminal is one of the list (module Tui); that the MCP server answers  *)
(* what is written to it however the pipe cuts it (module Mcp).              *)
EXTENDS Instance, Tui, Mcp, SequenceTheorems, FiniteSetTheorems, WellFoundedInduction, TLAPS

-----------------------------------------------------------------------------
(* One daemon, for any number of processes and clients, and any kills.      *)

\* What the proof needs of the types.
Types ==
  /\ pc \in [Procs -> Running \cup {"off", "ended"}]
  /\ peer \in [Procs -> Procs \cup {None}]
  /\ lock \in Procs \cup {None}
  /\ sock \in [by : Procs, listens : BOOLEAN] \cup {None}

\* The lock is held from the moment it is taken to the end of the process.
LockHeld == \A p \in Procs : pc[p] \in PastLock <=> lock = p

\* From bind to unlink the file is the holder's; it listens from listen on.
SockOf ==
  \A p \in Procs :
    /\ pc[p] = "listen" => sock = [by |-> p, listens |-> FALSE]
    /\ pc[p] \in {"serve", "stopping"} => sock = [by |-> p, listens |-> TRUE]

\* A command goes to a process.
PeerKnown == \A p \in Procs : pc[p] \in {"shutdown", "forward"} => peer[p] \in Procs

InstanceInv == Types /\ LockHeld /\ SockOf /\ PeerKnown

\* The states without the lock, for the steps that stay among them.
Before == {"load", "stat", "save", "ask", "shutdown", "probe", "forward", "lock", "off", "ended"}

-----------------------------------------------------------------------------

\* A step of one process outside the lock, which leaves lock and file alone.
LEMMA StepBefore ==
  ASSUME InstanceInv, NEW p \in Procs, pc[p] \in Before, NEW at \in Before,
         pc' = [pc EXCEPT ![p] = at], UNCHANGED <<lock, sock>>,
         peer' \in [Procs -> Procs \cup {None}],
         \A q \in Procs \ {p} : peer'[q] = peer[q],
         at \in {"shutdown", "forward"} => peer'[p] \in Procs
  PROVE  InstanceInv'
<1>1. Types'
  BY DEF InstanceInv, Types, Before, Running
<1>2. LockHeld'
  BY DEF InstanceInv, Types, LockHeld, Before, PastLock, Ending
<1>3. SockOf'
  BY DEF InstanceInv, Types, SockOf, Before
<1>4. PeerKnown'
  BY DEF InstanceInv, Types, PeerKnown
<1> QED BY <1>1, <1>2, <1>3, <1>4 DEF InstanceInv

\* A start.
LEMMA StepStarted ==
  ASSUME InstanceInv, NEW p \in Procs, NEW k, Started(p, k), UNCHANGED <<lock, sock, peer>>
  PROVE  InstanceInv'
<1>1. pc[p] \in Before /\ "load" \in Before /\ pc' = [pc EXCEPT ![p] = "load"]
  BY DEF Started, Go, Before
<1>2. peer' \in [Procs -> Procs \cup {None}]
  BY DEF InstanceInv, Types
<1> QED BY <1>1, <1>2, StepBefore

\* Whoever is reached is a process.
LEMMA ReachesProc ==
  ASSUME InstanceInv, Reachable
  PROVE  sock.by \in Procs
BY DEF InstanceInv, Types, Reachable

\* main() up to the lock, without the command that stops a daemon.
LEMMA StepMain ==
  ASSUME InstanceInv, NEW p \in Procs,
         LoadConfig(p) \/ StatConfig(p) \/ SaveConfig(p) \/ AskConnect(p)
           \/ ShutdownFails(p) \/ Probe(p) \/ Forward(p)
  PROVE  InstanceInv'
<1> DEFINE MovesTo(at) == /\ pc[p] \in Before /\ at \in Before
                          /\ pc' = [pc EXCEPT ![p] = at] /\ UNCHANGED <<lock, sock>>
<1>0. peer \in [Procs -> Procs \cup {None}]
  BY DEF InstanceInv, Types
<1>1. ASSUME UNCHANGED peer, NEW at \in Before \ {"shutdown", "forward"}, MovesTo(at)
      PROVE  InstanceInv'
  BY <1>0, <1>1, StepBefore
<1>2. ASSUME Reachable, peer' = [peer EXCEPT ![p] = sock.by],
             NEW at \in {"shutdown", "forward"}, MovesTo(at)
      PROVE  InstanceInv'
  <2>1. peer' \in [Procs -> Procs \cup {None}] /\ peer'[p] \in Procs
    BY <1>0, <1>2, ReachesProc
  <2>2. \A q \in Procs \ {p} : peer'[q] = peer[q]
    BY <1>0, <1>2
  <2> QED BY <2>1, <2>2, <1>2, StepBefore
<1>3. CASE LoadConfig(p)
  <2>1. MovesTo("stat") /\ UNCHANGED peer
    BY <1>3 DEF LoadConfig, Go, Before
  <2> QED BY <2>1, <1>1 DEF Before
<1>4. CASE StatConfig(p) \/ SaveConfig(p)
  <2>1. (MovesTo("save") \/ MovesTo("ask") \/ MovesTo("probe")) /\ UNCHANGED peer
    BY <1>4 DEF StatConfig, SaveConfig, Configured, Go, Before
  <2> QED BY <2>1, <1>1 DEF Before
<1>5. CASE AskConnect(p)
  <2>1. CASE Reachable
    <3>1. MovesTo("shutdown") /\ peer' = [peer EXCEPT ![p] = sock.by]
      BY <1>5, <2>1 DEF AskConnect, Go, Before
    <3> QED BY <3>1, <2>1, <1>2
  <2>2. CASE ~Reachable
    <3>1. MovesTo("ended") /\ UNCHANGED peer
      BY <1>5, <2>2 DEF AskConnect, Exit, Go, Before
    <3> QED BY <3>1, <1>1 DEF Before
  <2> QED BY <2>1, <2>2
<1>6. CASE ShutdownFails(p)
  <2>1. MovesTo("ended") /\ UNCHANGED peer
    BY <1>6 DEF ShutdownFails, Exit, Go, Before
  <2> QED BY <2>1, <1>1 DEF Before
<1>7. CASE Probe(p)
  <2>1. CASE Reachable
    <3>1. MovesTo("forward") /\ peer' = [peer EXCEPT ![p] = sock.by]
      BY <1>7, <2>1 DEF Probe, Go, Before
    <3> QED BY <3>1, <2>1, <1>2
  <2>2. CASE ~Reachable
    <3>1. MovesTo("lock") /\ UNCHANGED peer
      BY <1>7, <2>2 DEF Probe, Go, Before
    <3> QED BY <3>1, <1>1 DEF Before
  <2> QED BY <2>1, <2>2
<1>8. CASE Forward(p)
  <2>1. MovesTo("ended") /\ UNCHANGED peer
    BY <1>8 DEF Forward, Exit, Go, Before
  <2> QED BY <2>1, <1>1 DEF Before
<1> QED BY <1>3, <1>4, <1>5, <1>6, <1>7, <1>8

\* A daemon is told to stop: two processes move, and the lock stays.
LEMMA StepShutdown ==
  ASSUME InstanceInv, NEW p \in Procs, ShutdownDone(p)
  PROVE  InstanceInv'
<1> DEFINE d == peer[p]
<1>1. d \in Procs /\ d # p /\ pc[d] = "serve" /\ pc[p] = "shutdown"
  BY DEF InstanceInv, PeerKnown, ShutdownDone
<1>2. pc \in [Procs -> Running \cup {"off", "ended"}]
  BY DEF InstanceInv, Types
<1>3. /\ pc'[p] = "ended" /\ pc'[d] = "stopping"
      /\ \A q \in Procs \ {p, d} : pc'[q] = pc[q]
      /\ UNCHANGED <<peer, lock, sock>>
  BY <1>1, <1>2 DEF ShutdownDone
<1>4. Types'
  BY <1>1 DEF InstanceInv, Types, ShutdownDone, Running, PastLock, Ending
<1>5. LockHeld'
  BY <1>1, <1>3 DEF InstanceInv, LockHeld, PastLock, Ending
<1>6. SockOf'
  BY <1>1, <1>3 DEF InstanceInv, SockOf
<1>7. PeerKnown'
  BY <1>1, <1>3 DEF InstanceInv, PeerKnown
<1> QED BY <1>4, <1>5, <1>6, <1>7 DEF InstanceInv

\* Taking the lock: whoever had it has none of the states past it any more.
LEMMA StepLock ==
  ASSUME InstanceInv, NEW p \in Procs, Lock(p)
  PROVE  InstanceInv'
<1>0. pc[p] = "lock" /\ pc \in [Procs -> Running \cup {"off", "ended"}]
  BY DEF Lock, InstanceInv, Types
<1>1. CASE lock = None
  <2>1. pc' = [pc EXCEPT ![p] = "fork"] /\ lock' = p /\ UNCHANGED <<peer, sock>>
    BY <1>1 DEF Lock, Go
  <2>2. Types'
    BY <2>1 DEF InstanceInv, Types, Running, PastLock
  <2>3. LockHeld'
    BY <2>1, <1>0, <1>1, InstanceAssumption DEF InstanceInv, LockHeld, PastLock, Ending
  <2>4. SockOf' /\ PeerKnown'
    BY <2>1, <1>0 DEF InstanceInv, SockOf, PeerKnown
  <2> QED BY <2>2, <2>3, <2>4 DEF InstanceInv
<1>2. CASE lock # None
  <2>1. pc' = [pc EXCEPT ![p] = "ended"] /\ UNCHANGED <<lock, peer, sock>>
    BY <1>2 DEF Lock, Exit, Go
  <2>2. peer' \in [Procs -> Procs \cup {None}] /\ pc[p] \in Before /\ "ended" \in Before
    BY <2>1, <1>0 DEF InstanceInv, Types, Before
  <2> QED BY <2>1, <2>2, StepBefore
<1> QED BY <1>1, <1>2

\* The holder of the lock is alone past it, so nobody else's file is touched.
LEMMA StepDaemon ==
  ASSUME InstanceInv, NEW p \in Procs,
         Fork(p) \/ Unlink(p) \/ Bind(p) \/ Listen(p) \/ UnlinkAtEnd(p) \/ ProcessEnds(p)
  PROVE  InstanceInv'
<1>1. /\ lock = p
      /\ \A q \in Procs \ {p} : pc[q] \notin PastLock
      /\ pc \in [Procs -> Running \cup {"off", "ended"}]
      /\ peer \in [Procs -> Procs \cup {None}]
      /\ sock \in [by : Procs, listens : BOOLEAN] \cup {None}
      /\ \A q \in Procs : pc[q] \in {"shutdown", "forward"} => peer[q] \in Procs
  BY DEF InstanceInv, Types, LockHeld, PeerKnown, PastLock, Ending, Fork, Unlink, Bind,
         Listen, UnlinkAtEnd, ProcessEnds
<1>2. ASSUME NEW at \in PastLock \ {"listen", "serve", "stopping"},
             pc' = [pc EXCEPT ![p] = at], UNCHANGED <<lock, peer>>,
             sock' \in {sock, None}
      PROVE  InstanceInv'
  BY <1>1, <1>2 DEF InstanceInv, Types, LockHeld, SockOf, PeerKnown, PastLock, Ending, Running
<1>3. ASSUME pc' = [pc EXCEPT ![p] = "ended"], lock' = None, UNCHANGED <<peer, sock>>
      PROVE  InstanceInv'
  BY <1>1, <1>3, InstanceAssumption
     DEF InstanceInv, Types, LockHeld, SockOf, PeerKnown, PastLock, Ending, Running
<1>4. CASE Fork(p)
  BY <1>4, <1>2 DEF Fork, Go, PastLock, Ending
<1>5. CASE Unlink(p)
  BY <1>5, <1>2 DEF Unlink, Go, PastLock, Ending
<1>6. CASE Bind(p)
  <2>1. CASE sock = None
    <3>1. /\ pc' = [pc EXCEPT ![p] = "listen"] /\ sock' = [by |-> p, listens |-> FALSE]
          /\ UNCHANGED <<lock, peer>>
      BY <1>6, <2>1 DEF Bind, Go
    <3> QED BY <3>1, <1>1 DEF InstanceInv, Types, LockHeld, SockOf, PeerKnown, PastLock, Ending, Running
  <2>2. CASE sock # None
    BY <1>6, <2>2, <1>3 DEF Bind, Go
  <2> QED BY <2>1, <2>2
<1>7. CASE Listen(p)
  <2>1. pc[p] = "listen" /\ sock = [by |-> p, listens |-> FALSE]
    BY <1>7 DEF InstanceInv, SockOf, Listen
  <2>2. /\ pc' = [pc EXCEPT ![p] = "serve"] /\ sock' = [by |-> p, listens |-> TRUE]
        /\ UNCHANGED <<lock, peer>>
    <3>1. sock # None
      <4>1. sock \in [by : Procs, listens : BOOLEAN]
        BY <2>1
      <4> QED BY <4>1, InstanceAssumption
    <3> QED BY <3>1, <2>1, <1>7 DEF Listen, Go
  <2> QED BY <2>2, <1>1 DEF InstanceInv, Types, LockHeld, SockOf, PeerKnown, PastLock, Ending, Running
<1>8. CASE UnlinkAtEnd(p)
  BY <1>8, <1>2 DEF UnlinkAtEnd, Go, PastLock, Ending
<1>9. CASE ProcessEnds(p)
  BY <1>9, <1>3 DEF ProcessEnds, Go
<1> QED BY <1>4, <1>5, <1>6, <1>7, <1>8, <1>9

\* Wherever it is killed, the process leaves the lock, and only the file behind.
LEMMA StepCrash ==
  ASSUME InstanceInv, NEW p \in Procs, Crash(p)
  PROVE  InstanceInv'
BY InstanceAssumption
   DEF InstanceInv, Types, LockHeld, SockOf, PeerKnown, PastLock, Ending, Running, Crash, Go

LEMMA InitInv == Init => InstanceInv
BY InstanceAssumption
   DEF Init, InstanceInv, Types, LockHeld, SockOf, PeerKnown, PastLock, Ending, Running

LEMMA NextInv == InstanceInv /\ [Next]_vars => InstanceInv'
<1> SUFFICES ASSUME InstanceInv, [Next]_vars PROVE InstanceInv'
  OBVIOUS
<1>1. ASSUME NEW p \in Procs, Launch(p) PROVE InstanceInv'
  BY <1>1, StepStarted DEF Launch
<1>2. ASSUME NEW p \in Procs, Main(p) PROVE InstanceInv'
  BY <1>2, StepMain, StepShutdown, StepLock, StepDaemon DEF Main
<1>3. ASSUME NEW p \in Procs, Crash(p) PROVE InstanceInv'
  BY <1>3, StepCrash
<1>4. ASSUME NEW c \in Clients, Call(c) \/ Waited(c) \/ Poll(c) PROVE InstanceInv'
  <2>1. CASE \E p \in Procs : Started(p, [op |-> "start", path |-> None]) /\ Call(c)
    BY <2>1, StepStarted DEF Call
  <2>2. CASE UNCHANGED <<pc, peer, lock, sock>>
    BY <2>2 DEF InstanceInv, Types, LockHeld, SockOf, PeerKnown
  <2> QED BY <1>4, <2>1, <2>2 DEF Call, Waited, Poll
<1>5. CASE UNCHANGED vars
  BY <1>5 DEF vars, InstanceInv, Types, LockHeld, SockOf, PeerKnown
<1> QED BY <1>1, <1>2, <1>3, <1>4, <1>5 DEF Next

\* One process at most is past the lock, whatever starts and is killed.
THEOREM OnlyOneDaemon == Spec => []OneDaemon
<1>1. InstanceInv => OneDaemon
  BY DEF InstanceInv, LockHeld, OneDaemon
<1> QED BY InitInv, NextInv, <1>1, PTL DEF Spec

\* The socket file of a daemon that serves is its own.
THEOREM SocketIsOwn == Spec => []OwnSocket
<1>1. InstanceInv => OwnSocket
  BY DEF InstanceInv, SockOf, OwnSocket
<1> QED BY InitInv, NextInv, <1>1, PTL DEF Spec

-----------------------------------------------------------------------------
(* The selection of module Tui, for any letters, answers of any length, any *)
(* sizes of the terminal and any number of keys.                            *)

\* What the counts of rows are, and where the cursor is.
Listing ==
  /\ g_results.n \in Nat /\ g_cursor \in Nat /\ g_scroll \in Nat
  /\ rows \in Nat \ {0}
  /\ InBounds

\* Nothing is listed at the start.
LEMMA InitListing == TuiInit => Listing
  BY TuiAssumption DEF TuiInit, Listing, InBounds, NoQuestion

\* Every key leaves the cursor in the list, and in view if it was.
LEMMA MoveKeeps ==
  ASSUME Listing, NEW key, NEW to, to = Moved(key)
  PROVE  /\ to[1] \in Nat /\ to[2] \in Nat /\ (to[1] < g_results.n \/ to[1] = 0)
         /\ InView => to[2] <= to[1] /\ to[1] < to[2] + rows
<1> USE DEF Listing, InBounds, InView, Paged, LastRow
<1>1. CASE key = "up"
  <2>1. CASE g_cursor > 0
    <3>1. to = <<g_cursor - 1, IF g_cursor - 1 < g_scroll THEN g_cursor - 1 ELSE g_scroll>>
      BY <1>1, <2>1 DEF Moved
    <3> QED BY <2>1, <3>1
  <2>2. CASE ~ (g_cursor > 0)
    <3>1. to = <<g_cursor, g_scroll>> BY <1>1, <2>2 DEF Moved
    <3> QED BY <3>1
  <2> QED BY <2>1, <2>2
<1>2. CASE key = "down"
  <2>1. CASE g_cursor + 1 < g_results.n
    <3>1. to = <<g_cursor + 1, IF g_cursor + 1 >= g_scroll + rows THEN g_scroll + 1 ELSE g_scroll>>
      BY <1>2, <2>1 DEF Moved
    <3> QED BY <2>1, <3>1
  <2>2. CASE ~ (g_cursor + 1 < g_results.n)
    <3>1. to = <<g_cursor, g_scroll>> BY <1>2, <2>2 DEF Moved
    <3> QED BY <3>1
  <2> QED BY <2>1, <2>2
<1>3. CASE key = "page up"
  <2>1. to = Paged(IF g_cursor < rows THEN 0 ELSE g_cursor - rows) BY <1>3 DEF Moved
  <2> QED BY <2>1
<1>4. CASE key = "page down"
  <2>1. to = Paged(IF g_cursor + rows >= g_results.n THEN LastRow ELSE g_cursor + rows)
    BY <1>4 DEF Moved
  <2> QED BY <2>1
<1>5. CASE key = "home"
  <2>1. to = <<0, 0>> BY <1>5 DEF Moved
  <2> QED BY <2>1
<1>6. CASE key = "end"
  <2>1. CASE g_results.n > 0
    <3>1. to = Paged(LastRow) BY <1>6, <2>1 DEF Moved
    <3> QED BY <2>1, <3>1
  <2>2. CASE ~ (g_results.n > 0)
    <3>1. to = <<g_cursor, g_scroll>> BY <1>6, <2>2 DEF Moved
    <3> QED BY <3>1
  <2> QED BY <2>1, <2>2
<1>7. CASE key \notin {"up", "down", "page up", "page down", "home", "end"}
  <2>1. to = <<g_cursor, g_scroll>> BY <1>7 DEF Moved
  <2> QED BY <2>1
<1> QED BY <1>1, <1>2, <1>3, <1>4, <1>5, <1>6, <1>7

\* The rows under the selection are as they were.
LEMMA SameListing ==
  ASSUME Listing, UNCHANGED <<g_results, g_cursor, g_scroll, rows>>
  PROVE  Listing' /\ (InView => InView')
  BY DEF Listing, InBounds, InView

\* What is drawn stays drawn when there is more room.
LEMMA MoreRoom ==
  ASSUME NEW cursor \in Nat, NEW scroll \in Nat, NEW few \in Nat, NEW more \in Nat,
         cursor < scroll + few, more >= few
  PROVE  cursor < scroll + more
  OBVIOUS

\* Every step keeps the cursor in the list, and in view unless there is less room.
LEMMA NextListing ==
  ASSUME Listing, [TuiNext]_tuiVars
  PROVE  Listing' /\ (InView /\ rows' >= rows => InView')
<1>1. CASE Draw
  <2>1. rows' \in Nat \ {0} /\ g_results' = g_results /\ g_cursor' = g_cursor
    BY <1>1, TuiAssumption DEF Draw
  <2>2. g_scroll' = IF g_scroll + rows' > g_results.n /\ g_results.n > rows'
                    THEN g_results.n - rows' ELSE g_scroll
    BY <1>1 DEF Draw
  <2>0. rows' \in Nat BY <2>1
  <2>3. CASE g_scroll + rows' > g_results.n /\ g_results.n > rows'
    <3>1. g_scroll' = g_results.n - rows' BY <2>2, <2>3
    <3>2. g_scroll' \in Nat BY <2>1, <2>3, <3>1 DEF Listing
    <3>3. Listing' BY <2>1, <3>2 DEF Listing, InBounds
    <3>4. InView => InView' BY <2>1, <2>3, <3>1 DEF Listing, InBounds, InView
    <3> QED BY <3>3, <3>4
  <2>4. CASE ~ (g_scroll + rows' > g_results.n /\ g_results.n > rows')
    <3>1. g_scroll' = g_scroll BY <2>2, <2>4
    <3>2. Listing' BY <2>1, <3>1 DEF Listing, InBounds
    <3>3. g_cursor \in Nat /\ g_scroll \in Nat /\ rows \in Nat BY DEF Listing
    <3>4. InView /\ rows' >= rows => InView'
      BY <2>0, <2>1, <3>1, <3>3, MoreRoom DEF InView
    <3> QED BY <3>2, <3>4
  <2> QED BY <2>3, <2>4
<1>2. CASE MoveKey
  <2>1. PICK key \in {"up", "down", "page up", "page down", "home", "end"} :
          g_cursor' = Moved(key)[1] /\ g_scroll' = Moved(key)[2]
    BY <1>2 DEF MoveKey
  <2>2. g_results' = g_results /\ rows' = rows
    BY <1>2 DEF MoveKey
  <2> QED BY <2>1, <2>2, MoveKeeps DEF Listing, InBounds, InView
<1>3. CASE Clear
  <2>1. g_results'.n = 0 /\ g_cursor' = 0 /\ g_scroll' = 0 /\ rows' = rows
    BY <1>3 DEF Clear
  <2> QED BY <2>1 DEF Listing, InBounds, InView
<1>4. CASE SwapIn
  <2>1. PICK n \in 0 .. MaxRows :
          /\ g_results' = [of |-> asks, n |-> n]
          /\ g_cursor' = IF g_cursor < n THEN g_cursor ELSE IF n = 0 THEN 0 ELSE n - 1
    BY <1>4 DEF SwapIn
  <2>2. g_scroll' = (IF g_scroll > g_cursor' THEN g_cursor' ELSE g_scroll) /\ rows' = rows
    BY <1>4 DEF SwapIn
  <2>3. g_results'.n = n /\ n \in Nat BY <2>1, TuiAssumption
  <2> QED BY <2>1, <2>2, <2>3 DEF Listing, InBounds, InView
<1>5. CASE NoKey \/ OpenSelected \/ EditQuery \/ EditSort \/ Quit \/ Flag \/ Join
  BY <1>5, SameListing DEF NoKey, OpenSelected, EditQuery, EditSort, Quit, Flag, Join, listing
<1>6. CASE ConnectOnce \/ WhileRun \/ TakeFlag \/ ReadQuery \/ ReadSort \/ SearchFails \/ LinkLost
  BY <1>6, SameListing DEF ConnectOnce, WhileRun, TakeFlag, ReadQuery, ReadSort, SearchFails,
                           LinkLost, listing
<1>7. CASE UNCHANGED tuiVars
  BY <1>7, SameListing DEF tuiVars, listing
<1> QED BY <1>1, <1>2, <1>3, <1>4, <1>5, <1>6, <1>7 DEF TuiNext, Key, Worker

\* Whatever the worker puts in place of the rows, and whatever keys the user
\* presses meanwhile, the selected row is one of the list, and only a terminal
\* that shrinks takes it from the screen.
THEOREM SelectionStaysInView == TuiSpec => SelectionInView
<1>1. TuiSpec => []Listing
  BY InitListing, NextListing, PTL DEF TuiSpec
<1>2. Listing => InBounds BY DEF Listing
<1>3. Listing /\ [TuiNext]_tuiVars => [InView /\ rows' >= rows => InView']_tuiVars
  BY NextListing
<1> QED BY <1>1, <1>2, <1>3, PTL DEF TuiSpec, SelectionInView

-----------------------------------------------------------------------------
(* The pipe of module Mcp: what its lines are made of.                       *)

\* A non-empty set of natural numbers has a least element.
LEMMA LeastNat ==
  ASSUME NEW T, T \subseteq Nat, T # {}
  PROVE  \E m \in T : \A k \in T : m <= k
<1> DEFINE R == OpToRel(<, Nat)
<1>1. IsWellFoundedOn(R, Nat)
  BY NatLessThanWellFounded
<1>2. \A k, m \in Nat : k < m => <<k, m>> \in R
  BY DEF OpToRel
<1> HIDE DEF R
<1>3. PICK m \in T : \A k \in T : <<k, m>> \notin R
  BY <1>1, WFMin
<1>4. ASSUME NEW k \in T
      PROVE  m <= k
  <2>1. k \in Nat /\ m \in Nat
    OBVIOUS
  <2>2. ~ (k < m)
    BY <1>2, <1>3, <2>1
  <2> QED BY <2>1, <2>2
<1> QED BY <1>3, <1>4

\* One sequence after the other: what FlattenSeq's function is, up to n.
Joins(g, s, n) == g = [i \in 1..n |-> IF i = 1 THEN s[i] ELSE g[i - 1] \o s[i]]

LEMMA JoinsExists ==
  ASSUME NEW s, NEW n \in Nat
  PROVE  \E g : Joins(g, s, n)
<1> DEFINE Bad == {m \in Nat : ~ \E g : Joins(g, s, m)}
<1>1. SUFFICES ASSUME Bad # {} PROVE FALSE
  OBVIOUS
<1>2. PICK m \in Bad : \A k \in Bad : m <= k
  BY <1>1, LeastNat
<1>3. m # 0
  <2>1. Joins([i \in {} |-> {}], s, 0)
    BY DEF Joins
  <2> QED BY <2>1
<1>4. PICK g : Joins(g, s, m - 1)
  <2>1. m - 1 \in Nat /\ ~ (m <= m - 1)
    BY <1>2, <1>3
  <2> QED BY <1>2, <2>1
<1> DEFINE h == [i \in 1..m |-> IF i = m THEN (IF i = 1 THEN s[i] ELSE g[i - 1] \o s[i]) ELSE g[i]]
<1>5. m \in Nat /\ 1..m = (1..(m - 1)) \cup {m} /\ m \notin 1..(m - 1)
  BY <1>2, <1>3
<1>6. Joins(h, s, m)
  <2>1. ASSUME NEW i \in 1..m
        PROVE  h[i] = IF i = 1 THEN s[i] ELSE h[i - 1] \o s[i]
    <3>1. CASE i = 1 /\ i = m
      BY <3>1
    <3>2. CASE i = 1 /\ i # m
      <4>1. g[1] = s[1]
        BY <1>4, <1>5, <3>2 DEF Joins
      <4> QED BY <3>2, <4>1
    <3>3. CASE i # 1
      <4>1. i - 1 \in 1..m /\ i - 1 # m /\ h[i - 1] = g[i - 1]
        BY <1>5, <3>3
      <4>2. CASE i = m
        BY <3>3, <4>1, <4>2
      <4>3. CASE i # m
        <5>1. i \in 1..(m - 1) /\ g[i] = g[i - 1] \o s[i]
          BY <1>4, <1>5, <3>3, <4>3 DEF Joins
        <5> QED BY <3>3, <4>1, <4>3, <5>1
      <4> QED BY <4>2, <4>3
    <3> QED BY <3>1, <3>2, <3>3
  <2> HIDE DEF h
  <2>2. h = [i \in 1..m |-> h[i]]
    BY DEF h
  <2> QED BY <2>1, <2>2 DEF Joins
<1> QED BY <1>2, <1>6

\* What FlattenSeq makes of a sequence that is not empty.
LEMMA FlattenJoins ==
  ASSUME NEW s, Len(s) \in Nat \ {0}
  PROVE  \E g : Joins(g, s, Len(s)) /\ FlattenSeq(s) = g[Len(s)]
<1> DEFINE f == CHOOSE g : g = [i \in 1..Len(s) |-> IF i = 1 THEN s[i] ELSE g[i - 1] \o s[i]]
<1>1. Joins(f, s, Len(s))
  BY JoinsExists DEF Joins
<1>2. FlattenSeq(s) = f[Len(s)]
  BY DEF FlattenSeq
<1> QED BY <1>1, <1>2

\* Where the first n lines of a script end in a stream of bytes: e[k] is the
\* position of the end of line k; between two ends, and after the last, there is none.
EndsAt(w, e, s, n) ==
  /\ e \in [0..n -> 0..Len(w)] /\ e[0] = 0
  /\ \A k \in 1..n : /\ e[k] = e[k - 1] + s[k].bytes + 1
                     /\ w[e[k]] = 0
                     /\ \A i \in 1..Len(w) : e[k - 1] < i /\ i < e[k] => w[i] # 0
  /\ \A i \in 1..Len(w) : e[n] < i => w[i] # 0

Bytes(s, k) == [i \in 1..s[k].bytes |-> k] \o <<0>>

\* The lines of a script have lengths.
LEMMA BytesNat ==
  ASSUME NEW s \in Seq(Line), NEW k \in 1..Len(s)
  PROVE  s[k].bytes \in Nat
<1>1. s[k] \in Line
  BY ElementOfSeq
<1> QED BY <1>1 DEF Line

\* One more line at the end.
LEMMA LineAdded ==
  ASSUME NEW s \in Seq(Line), NEW n \in Nat, n < Len(s), NEW w \in Seq(0..(Len(s) + 1)),
         NEW e, EndsAt(w, e, s, n), e[n] = Len(w)
  PROVE  /\ w \o Bytes(s, n + 1) \in Seq(0..(Len(s) + 1))
         /\ \E f : /\ EndsAt(w \o Bytes(s, n + 1), f, s, n + 1)
                   /\ f[n + 1] = Len(w \o Bytes(s, n + 1))
<1> DEFINE b == s[n + 1].bytes
           v == w \o Bytes(s, n + 1)
           f == [k \in 0..(n + 1) |-> IF k = n + 1 THEN Len(w) + b + 1 ELSE e[k]]
           T == 0..(Len(s) + 1)
<1>1. b \in Nat /\ Len(s) \in Nat /\ n + 1 \in 1..Len(s) /\ Len(w) \in Nat
  <2>1. Len(s) \in Nat /\ n + 1 \in 1..Len(s) /\ Len(w) \in Nat
    OBVIOUS
  <2> QED BY <2>1, BytesNat
<1>2. /\ Bytes(s, n + 1) \in Seq(0..(Len(s) + 1)) /\ Len(Bytes(s, n + 1)) = b + 1
      /\ \A i \in 1..b : Bytes(s, n + 1)[i] = n + 1
      /\ Bytes(s, n + 1)[b + 1] = 0
  <2> DEFINE l == [i \in 1..b |-> n + 1]
  <2>1. l \in Seq(0..(Len(s) + 1)) /\ Len(l) = b
    BY <1>1
  <2>2. <<0>> \in Seq(0..(Len(s) + 1)) /\ Len(<<0>>) = 1 /\ <<0>>[1] = 0
    BY <1>1
  <2>3. Bytes(s, n + 1) = l \o <<0>>
    BY DEF Bytes
  <2>4. \A i \in 1..b : l[i] = n + 1
    OBVIOUS
  <2> HIDE DEF l, T
  <2>5. /\ l \o <<0>> \in Seq(T) /\ Len(l \o <<0>>) = b + 1
        /\ \A i \in 1..(b + 1) : (l \o <<0>>)[i] = IF i <= b THEN l[i] ELSE <<0>>[i - b]
    <3> HIDE DEF b
    <3>1. l \in Seq(T) /\ <<0>> \in Seq(T)
      BY <2>1, <2>2 DEF T
    <3> QED BY <1>1, <3>1, <2>1, <2>2, ConcatProperties
  <2>6. (l \o <<0>>)[b + 1] = 0
    <3> HIDE DEF b
    <3>1. b + 1 \in 1..(b + 1) /\ ~ (b + 1 <= b) /\ (b + 1) - b = 1
      BY <1>1
    <3> QED BY <2>2, <2>5, <3>1
  <2>7. \A i \in 1..b : (l \o <<0>>)[i] = n + 1
    <3> HIDE DEF b
    <3> QED BY <1>1, <2>4, <2>5
  <2> QED BY <2>3, <2>5, <2>6, <2>7 DEF T
<1>3. /\ v \in Seq(0..(Len(s) + 1)) /\ Len(v) = Len(w) + b + 1
      /\ \A i \in 1..Len(w) : v[i] = w[i]
      /\ \A i \in 1..b : v[Len(w) + i] = n + 1
      /\ v[Len(w) + b + 1] = 0
  <2> HIDE DEF b, T
  <2>0. w \in Seq(T) /\ Bytes(s, n + 1) \in Seq(T)
    BY <1>2 DEF T
  <2>1. /\ v \in Seq(T) /\ Len(v) = Len(w) + (b + 1)
        /\ \A i \in 1..Len(v) :
             v[i] = IF i <= Len(w) THEN w[i] ELSE Bytes(s, n + 1)[i - Len(w)]
    <3>1. /\ v \in Seq(T) /\ Len(v) = Len(w) + Len(Bytes(s, n + 1))
          /\ \A i \in 1..(Len(w) + Len(Bytes(s, n + 1))) :
               v[i] = IF i <= Len(w) THEN w[i] ELSE Bytes(s, n + 1)[i - Len(w)]
      BY <2>0, ConcatProperties
    <3> HIDE DEF v
    <3> QED BY <3>1, <1>2
  <2> QED BY <1>1, <1>2, <2>1 DEF T
<1> HIDE DEF v, b
<1>4. EndsAt(v, f, s, n + 1)
  <2>1. f \in [0..(n + 1) -> 0..Len(v)] /\ f[0] = 0
    BY <1>1, <1>3 DEF EndsAt
  <2>2. ASSUME NEW k \in 1..(n + 1)
        PROVE  /\ f[k] = f[k - 1] + s[k].bytes + 1
               /\ v[f[k]] = 0
               /\ \A i \in 1..Len(v) : f[k - 1] < i /\ i < f[k] => v[i] # 0
    <3>1. CASE k = n + 1
      <4>1. f[k] = Len(w) + b + 1 /\ f[k - 1] = Len(w) /\ s[k].bytes = b
        BY <1>1, <3>1 DEF b
      <4>2. ASSUME NEW i \in 1..Len(v), f[k - 1] < i, i < f[k]
            PROVE  v[i] # 0
        <5> DEFINE j == i - Len(w)
        <5>1. i \in Nat /\ Len(w) < i /\ i < Len(w) + b + 1
          <6> HIDE DEF f
          <6> QED BY <1>1, <1>3, <4>1, <4>2
        <5>2. j \in 1..b /\ i = Len(w) + j
          BY <1>1, <5>1
        <5> HIDE DEF j
        <5>3. v[i] = n + 1
          BY <1>3, <5>2
        <5> QED BY <5>3
      <4> QED BY <1>1, <1>3, <4>1, <4>2
    <3>2. CASE k # n + 1
      <4>1. k \in 1..n /\ k \in 0..(n + 1) /\ k - 1 \in 0..n /\ k - 1 # n + 1 /\ k - 1 \in 0..(n + 1)
        BY <3>2
      <4>2. f[k] = e[k] /\ f[k - 1] = e[k - 1]
        BY <3>2, <4>1
      <4>3. e[k] \in 0..Len(w) /\ e[k - 1] \in 0..Len(w) /\ s[k].bytes \in Nat
        <5>1. k \in 1..Len(s) /\ k \in 0..n
          BY <1>1, <4>1
        <5> QED BY <4>1, <5>1, BytesNat DEF EndsAt
      <4>4. e[k] = e[k - 1] + s[k].bytes + 1 /\ w[e[k]] = 0
        BY <4>1 DEF EndsAt
      <4>5. e[k] \in 1..Len(w)
        BY <1>1, <4>3, <4>4
      <4>6. ASSUME NEW i \in 1..Len(v), f[k - 1] < i, i < f[k]
            PROVE  v[i] # 0
        <5>1. i \in 1..Len(w)
          BY <1>1, <1>3, <4>2, <4>3, <4>6
        <5>2. w[i] # 0
          BY <4>1, <4>2, <4>6, <5>1 DEF EndsAt
        <5> QED BY <1>3, <5>1, <5>2
      <4> QED BY <1>3, <4>2, <4>4, <4>5, <4>6
    <3> QED BY <3>1, <3>2
  <2>3. \A i \in 1..Len(v) : f[n + 1] < i => v[i] # 0
    BY <1>1, <1>3
  <2> HIDE DEF f
  <2> QED BY <2>1, <2>2, <2>3 DEF EndsAt
<1>5. f[n + 1] = Len(v)
  BY <1>3
<1> HIDE DEF f
<1>6. v \in Seq(0..(Len(s) + 1)) /\ \E h : EndsAt(v, h, s, n + 1) /\ h[n + 1] = Len(v)
  BY <1>3, <1>4, <1>5
<1> QED BY <1>6 DEF v

\* The whole stream is in pieces as the script says.
LEMMA WrittenEnds ==
  ASSUME NEW s \in Seq(Line), NEW rest \in Nat
  PROVE  /\ Written(s, rest) \in Seq(0..(Len(s) + 1))
         /\ \E e : EndsAt(Written(s, rest), e, s, Len(s))
<1> DEFINE S == [k \in DOMAIN s |-> [i \in 1..s[k].bytes |-> k] \o <<0>>]
           T == 0..(Len(s) + 1)
           r == [i \in 1..rest |-> Len(s) + 1]
<1>1. Len(s) \in Nat /\ DOMAIN s = 1..Len(s)
  OBVIOUS
<1>2. Len(S) = Len(s) /\ \A k \in 1..Len(s) : S[k] = Bytes(s, k)
  <2>1. S = [k \in 1..Len(s) |-> Bytes(s, k)]
    BY <1>1 DEF Bytes
  <2> HIDE DEF S
  <2> QED BY <1>1, <2>1
<1>3. r \in Seq(T) /\ Len(r) = rest /\ \A i \in 1..rest : r[i] = Len(s) + 1
  BY <1>1
<1>4. Written(s, rest) = FlattenSeq(S) \o r
  BY DEF Written
<1> HIDE DEF S, r, T
<1>5. /\ FlattenSeq(S) \in Seq(T)
      /\ \E e : EndsAt(FlattenSeq(S), e, s, Len(s)) /\ e[Len(s)] = Len(FlattenSeq(S))
  <2>1. EndsAt(<< >>, [k \in {0} |-> 0], s, 0)
    BY DEF EndsAt
  <2>2. CASE Len(s) = 0
    <3>1. FlattenSeq(S) = << >>
      BY <1>1, <2>2 DEF FlattenSeq, S
    <3> QED BY <2>1, <2>2, <3>1, <1>1
  <2>3. CASE Len(s) # 0
    <3>1. PICK g : Joins(g, S, Len(s)) /\ FlattenSeq(S) = g[Len(s)]
      BY <1>1, <1>2, <2>3, FlattenJoins
    <3> DEFINE Good(m) == /\ g[m] \in Seq(T)
                          /\ \E e : EndsAt(g[m], e, s, m) /\ e[m] = Len(g[m])
               Bad == {m \in 1..Len(s) : ~ Good(m)}
    <3>2. ASSUME Bad # {} PROVE FALSE
      <4>1. PICK m \in Bad : \A k \in Bad : m <= k
        <5>1. Bad \subseteq Nat
          OBVIOUS
        <5> HIDE DEF Bad
        <5> QED BY <5>1, <3>2, LeastNat
      <4>2. m \in 1..Len(s) /\ m \in Nat /\ ~ Good(m)
        BY <1>1, <4>1
      <4>3. CASE m = 1
        <5>1. g[1] = << >> \o Bytes(s, 1)
          <6>1. g[1] = Bytes(s, 1)
            BY <1>1, <1>2, <3>1, <4>2, <4>3 DEF Joins
          <6>2. Bytes(s, 1) \in Seq(Nat)
            <7>1. s[1].bytes \in Nat
              BY <1>1, <4>2, <4>3, BytesNat
            <7> QED BY <7>1 DEF Bytes
          <6> QED BY <6>1, <6>2, ConcatEmptySeq
        <5>2. << >> \in Seq(T) /\ Len(<< >>) = 0
          OBVIOUS
        <5>3. 0 < Len(s) /\ 0 + 1 = 1 /\ [k \in {0} |-> 0][0] = 0
          BY <1>1, <2>3
        <5>4. Good(1)
          BY <2>1, <5>1, <5>2, <5>3, LineAdded DEF T
        <5> QED BY <4>2, <4>3, <5>4
      <4>4. CASE m # 1
        <5>1. /\ m - 1 \in 1..Len(s) /\ m - 1 \in Nat /\ ~ (m <= m - 1) /\ m - 1 < Len(s)
              /\ (m - 1) + 1 = m
          BY <1>1, <4>2, <4>4
        <5>2. Good(m - 1)
          BY <4>1, <5>1
        <5>3. g[m] = g[m - 1] \o Bytes(s, m)
          BY <1>1, <1>2, <3>1, <4>2, <4>4 DEF Joins
        <5>4. Good(m)
          <6> DEFINE n == m - 1
                     w == g[n]
          <6>1. n \in Nat /\ n < Len(s) /\ n + 1 = m /\ w \in Seq(0..(Len(s) + 1))
            BY <5>1, <5>2 DEF T
          <6>2. PICK e : EndsAt(w, e, s, n) /\ e[n] = Len(w)
            BY <5>2
          <6> HIDE DEF n, w
          <6>3. /\ w \o Bytes(s, m) \in Seq(0..(Len(s) + 1))
                /\ \E f : EndsAt(w \o Bytes(s, m), f, s, m) /\ f[m] = Len(w \o Bytes(s, m))
            BY <6>1, <6>2, LineAdded
          <6>4. g[m] = w \o Bytes(s, m)
            BY <5>3 DEF w, n
          <6> QED BY <6>3, <6>4 DEF T
        <5> QED BY <4>2, <5>4
      <4> QED BY <4>3, <4>4
    <3>3. Good(Len(s))
      <4>1. Len(s) \in 1..Len(s)
        BY <1>1, <2>3
      <4> QED BY <3>2, <4>1
    <3> QED BY <3>1, <3>3
  <2> QED BY <2>2, <2>3
<1>6. PICK e : EndsAt(FlattenSeq(S), e, s, Len(s)) /\ e[Len(s)] = Len(FlattenSeq(S))
  BY <1>5
<1> DEFINE w == FlattenSeq(S)
           v == w \o r
<1>7. /\ v \in Seq(T) /\ Len(w) \in Nat /\ Len(v) = Len(w) + rest
      /\ \A i \in 1..(Len(w) + rest) : v[i] = IF i <= Len(w) THEN w[i] ELSE r[i - Len(w)]
  <2> HIDE DEF w
  <2>1. w \in Seq(T)
    BY <1>5 DEF w
  <2>2. Len(w) \in Nat
    BY <2>1
  <2> QED BY <1>3, <2>1, <2>2, ConcatProperties
<1> HIDE DEF w, v
<1>8. EndsAt(w, e, s, Len(s)) /\ e[Len(s)] = Len(w)
  BY <1>6 DEF w
<1>9. EndsAt(v, e, s, Len(s))
  <2>1. e \in [0..Len(s) -> 0..Len(v)] /\ e[0] = 0
    <3>1. \A i \in 0..Len(w) : i \in 0..Len(v)
      BY <1>7
    <3> QED BY <1>8, <3>1 DEF EndsAt
  <2>2. ASSUME NEW k \in 1..Len(s)
        PROVE  /\ e[k] = e[k - 1] + s[k].bytes + 1
               /\ v[e[k]] = 0
               /\ \A i \in 1..Len(v) : e[k - 1] < i /\ i < e[k] => v[i] # 0
    <3>1. e[k] \in 0..Len(w) /\ e[k - 1] \in 0..Len(w) /\ s[k].bytes \in Nat
      <4>1. k \in 0..Len(s) /\ k - 1 \in 0..Len(s)
        BY <1>1
      <4> QED BY <1>8, <4>1, BytesNat DEF EndsAt
    <3>2. /\ e[k] = e[k - 1] + s[k].bytes + 1 /\ w[e[k]] = 0
          /\ \A i \in 1..Len(w) : e[k - 1] < i /\ i < e[k] => w[i] # 0
      BY <1>8 DEF EndsAt
    <3>3. e[k] \in 1..(Len(w) + rest) /\ e[k] <= Len(w)
      BY <1>7, <3>1, <3>2
    <3>4. ASSUME NEW i \in 1..Len(v), e[k - 1] < i, i < e[k]
          PROVE  v[i] # 0
      <4>1. i \in 1..Len(w) /\ i \in 1..(Len(w) + rest) /\ i <= Len(w)
        BY <1>7, <3>1, <3>4
      <4> QED BY <1>7, <3>2, <3>4, <4>1
    <3> QED BY <1>7, <3>2, <3>3, <3>4
  <2>3. ASSUME NEW i \in 1..Len(v), e[Len(s)] < i
        PROVE  v[i] # 0
    <3>1. i \in 1..(Len(w) + rest) /\ ~ (i <= Len(w)) /\ i - Len(w) \in 1..rest
      BY <1>7, <1>8, <2>3
    <3>2. v[i] = Len(s) + 1
      BY <1>3, <1>7, <3>1
    <3> QED BY <1>1, <3>2
  <2> QED BY <2>1, <2>2, <2>3 DEF EndsAt
<1> QED BY <1>4, <1>7, <1>9 DEF v, w, T

-----------------------------------------------------------------------------
\* How far the stream w has been taken, whose lines end at e: buf and stdin are
\* what is after pos.  That is the end of the last line taken, or, while a line
\* is dropped, more than the limit into it.
TakenTo(w, e, pos) ==
  /\ w \in Seq(0..(Len(script) + 1)) /\ EndsAt(w, e, script, Len(script))
  /\ pos \in 0..Len(w) /\ Len(w) = pos + Len(buf) + Len(stdin)
  /\ \A i \in 1..Len(buf) : buf[i] = w[pos + i]
  /\ \A i \in 1..Len(stdin) : stdin[i] = w[pos + Len(buf) + i]
  /\ ~ discarding => pos = e[taken]
  /\ discarding => /\ e[taken] + MaxLineBytes < pos
                   /\ taken < Len(script) => pos < e[taken + 1]

\* The types, of which out's is not needed here, and that a read is only made with
\* room in the buffer.
PipeTypes ==
  /\ script \in Seq(Line) /\ script \in Scripts /\ discarding \in BOOLEAN /\ g_stop \in BOOLEAN
  /\ stdin \in Seq(0..(Len(script) + 1)) /\ buf \in Seq(0..(Len(script) + 1))
  /\ server \in {"while", "lines", "read", "ended"} /\ taken \in 0..Len(script)
  /\ Len(buf) <= MaxLineBytes + MaxRead
  /\ server = "read" => Len(buf) <= MaxLineBytes

Stream == PipeTypes /\ \E w, e, pos : TakenTo(w, e, pos)

\* Nothing is read at the start.
LEMMA InitStream == McpInit => Stream
<1> SUFFICES ASSUME McpInit PROVE Stream
  OBVIOUS
<1>1. PICK rest \in Unfinished : stdin = Written(script, rest)
  BY DEF McpInit
<1>2. script \in Seq(Line) /\ rest \in Nat /\ MaxLineBytes \in Nat /\ MaxRead \in Nat
  BY McpAssumption DEF McpInit
<1>3. PICK e : EndsAt(stdin, e, script, Len(script))
  BY <1>1, <1>2, WrittenEnds
<1>4. stdin \in Seq(0..(Len(script) + 1)) /\ Len(stdin) \in Nat /\ Len(script) \in Nat
  <2>1. stdin \in Seq(0..(Len(script) + 1))
    BY <1>1, <1>2, WrittenEnds
  <2> QED BY <2>1, <1>2
<1>5. PipeTypes
  <2>1. Len(buf) = 0 /\ buf \in Seq(0..(Len(script) + 1))
    BY DEF McpInit
  <2>2. taken \in 0..Len(script)
    BY <1>4 DEF McpInit
  <2>3. Len(buf) <= MaxLineBytes + MaxRead /\ server \in {"while", "lines", "read", "ended"} /\ server # "read"
    BY <1>2, <2>1 DEF McpInit
  <2>4. script \in Scripts /\ discarding \in BOOLEAN /\ g_stop \in BOOLEAN
    BY DEF McpInit
  <2> QED BY <1>2, <1>4, <2>1, <2>2, <2>3, <2>4 DEF PipeTypes
<1>6. TakenTo(stdin, e, 0)
  <2>1. e[0] = 0
    BY <1>3 DEF EndsAt
  <2> QED BY <1>3, <1>4, <2>1 DEF McpInit, TakenTo
<1> QED BY <1>5, <1>6 DEF Stream

\* What the ends of the line after the last one taken are worth.
LEMMA NextEnd ==
  ASSUME PipeTypes, NEW w, NEW e, NEW pos, TakenTo(w, e, pos)
  PROVE  /\ pos \in Nat /\ Len(w) \in Nat /\ e[taken] \in Nat /\ e[taken] <= pos
         /\ taken = Len(script) => \A i \in 1..Len(w) : pos < i => w[i] # 0
         /\ taken < Len(script) =>
              /\ taken + 1 \in 1..Len(script) /\ script[taken + 1].bytes \in Nat
              /\ e[taken + 1] = e[taken] + script[taken + 1].bytes + 1
              /\ e[taken + 1] \in 1..Len(w) /\ w[e[taken + 1]] = 0
              /\ pos < e[taken + 1]
              /\ \A i \in 1..Len(w) : pos < i /\ i < e[taken + 1] => w[i] # 0
<1>1. pos \in Nat /\ Len(w) \in Nat /\ taken \in Nat /\ Len(script) \in Nat /\ MaxLineBytes \in Nat
  BY McpAssumption DEF PipeTypes, TakenTo
<1>2. \A k \in 0..Len(script) : e[k] \in 0..Len(w)
  BY DEF TakenTo, EndsAt
<1>3. e[taken] \in Nat /\ e[taken] <= pos
  <2>1. e[taken] \in 0..Len(w)
    BY <1>2 DEF PipeTypes
  <2> QED BY <1>1, <2>1 DEF TakenTo, PipeTypes
<1>4. ASSUME taken = Len(script), NEW i \in 1..Len(w), pos < i
      PROVE  w[i] # 0
  <2>1. e[Len(script)] < i
    BY <1>1, <1>3, <1>4
  <2> QED BY <1>4, <2>1 DEF TakenTo, EndsAt
<1>5. ASSUME taken < Len(script)
      PROVE  /\ taken + 1 \in 1..Len(script) /\ script[taken + 1].bytes \in Nat
             /\ e[taken + 1] = e[taken] + script[taken + 1].bytes + 1
             /\ e[taken + 1] \in 1..Len(w) /\ w[e[taken + 1]] = 0
             /\ pos < e[taken + 1]
             /\ \A i \in 1..Len(w) : pos < i /\ i < e[taken + 1] => w[i] # 0
  <2>1. taken + 1 \in 1..Len(script) /\ (taken + 1) - 1 = taken
    BY <1>1, <1>5
  <2>2. script[taken + 1].bytes \in Nat
    BY <2>1, BytesNat DEF PipeTypes
  <2>3. /\ e[taken + 1] = e[taken] + script[taken + 1].bytes + 1
        /\ w[e[taken + 1]] = 0
        /\ \A i \in 1..Len(w) : e[taken] < i /\ i < e[taken + 1] => w[i] # 0
    BY <2>1 DEF TakenTo, EndsAt
  <2>4. e[taken + 1] \in 0..Len(w)
    BY <1>1, <1>2, <2>1
  <2>5. e[taken + 1] \in 1..Len(w)
    BY <1>1, <1>3, <2>2, <2>3, <2>4
  <2>6. pos < e[taken + 1]
    BY <1>1, <1>3, <1>5, <2>2, <2>3 DEF TakenTo, PipeTypes
  <2>7. \A i \in 1..Len(w) : pos < i /\ i < e[taken + 1] => w[i] # 0
    BY <1>1, <1>3, <2>3
  <2> QED BY <2>1, <2>2, <2>3, <2>5, <2>6, <2>7
<1> QED BY <1>1, <1>3, <1>4, <1>5

\* Where the loop cuts: the first end in the buffer.
FirstEnd == CHOOSE i \in Ends : \A j \in Ends : i <= j

\* The first end in buf is the one of the next line of the script.
LEMMA CutAtEnd ==
  ASSUME PipeTypes, NEW w, NEW e, NEW pos, TakenTo(w, e, pos), Ends # {}
  PROVE  /\ taken < Len(script) /\ FirstEnd \in 1..Len(buf) /\ pos + FirstEnd = e[taken + 1]
         /\ ~ discarding => FirstEnd - 1 = script[taken + 1].bytes
         /\ discarding => script[taken + 1].bytes > MaxLineBytes
<1>1. FirstEnd \in Ends /\ \A j \in Ends : FirstEnd <= j
  <2>1. Ends \subseteq Nat
    BY DEF Ends, PipeTypes
  <2>2. \E i \in Ends : \A j \in Ends : i <= j
    BY <2>1, LeastNat
  <2> QED BY <2>2 DEF FirstEnd
<1>2. FirstEnd \in 1..Len(buf) /\ Len(buf) \in Nat /\ Len(stdin) \in Nat /\ MaxLineBytes \in Nat
  BY <1>1, McpAssumption DEF Ends, PipeTypes
<1>3. Len(w) = pos + Len(buf) + Len(stdin) /\ \A i \in 1..Len(buf) : buf[i] = w[pos + i]
  BY DEF TakenTo
<1>4. pos \in Nat /\ e[taken] \in Nat
  BY NextEnd
<1>5. w[pos + FirstEnd] = 0 /\ pos + FirstEnd \in 1..Len(w) /\ pos < pos + FirstEnd
  <2>1. buf[FirstEnd] = 0
    BY <1>1 DEF Ends
  <2> QED BY <1>2, <1>3, <1>4, <2>1
<1>6. taken < Len(script)
  <2>1. taken # Len(script)
    BY <1>5, NextEnd
  <2> QED BY <2>1 DEF PipeTypes
<1>7. pos + FirstEnd = e[taken + 1]
  <2>1. /\ e[taken + 1] \in 1..Len(w) /\ w[e[taken + 1]] = 0 /\ pos < e[taken + 1]
        /\ \A i \in 1..Len(w) : pos < i /\ i < e[taken + 1] => w[i] # 0
    BY <1>6, NextEnd
  <2>2. ~ (pos + FirstEnd < e[taken + 1])
    BY <1>5, <2>1
  <2> DEFINE j == e[taken + 1] - pos
  <2>3. e[taken + 1] \in Nat
    BY <2>1
  <2>4. j \in 1..FirstEnd /\ pos + j = e[taken + 1]
    BY <1>2, <1>4, <2>1, <2>2, <2>3
  <2> HIDE DEF j
  <2>5. j \in 1..Len(buf) /\ buf[j] = 0
    BY <1>2, <1>3, <2>1, <2>4
  <2>6. FirstEnd <= j
    BY <1>1, <2>5 DEF Ends, PipeTypes
  <2> QED BY <1>2, <1>4, <2>4, <2>6
<1>8. e[taken + 1] = e[taken] + script[taken + 1].bytes + 1 /\ script[taken + 1].bytes \in Nat
  BY <1>6, NextEnd
<1>9. ASSUME ~ discarding PROVE FirstEnd - 1 = script[taken + 1].bytes
  <2>1. pos = e[taken]
    BY <1>9 DEF TakenTo
  <2> QED BY <1>2, <1>4, <1>7, <1>8, <2>1
<1>10. ASSUME discarding PROVE script[taken + 1].bytes > MaxLineBytes
  <2>1. e[taken] + MaxLineBytes < pos
    BY <1>10 DEF TakenTo
  <2> QED BY <1>2, <1>4, <1>7, <1>8, <2>1
<1> QED BY <1>2, <1>6, <1>7, <1>9, <1>10

\* Without an end in it, all of buf is of the next line.
LEMMA NoEndInBuf ==
  ASSUME PipeTypes, NEW w, NEW e, NEW pos, TakenTo(w, e, pos), Ends = {}, taken < Len(script)
  PROVE  pos + Len(buf) < e[taken + 1]
<1>1. Len(buf) \in Nat /\ Len(stdin) \in Nat /\ pos \in Nat
  BY NextEnd DEF PipeTypes
<1>2. e[taken + 1] \in 1..Len(w) /\ w[e[taken + 1]] = 0 /\ pos < e[taken + 1]
  BY NextEnd
<1> SUFFICES ASSUME ~ (pos + Len(buf) < e[taken + 1]) PROVE FALSE
  OBVIOUS
<1> DEFINE j == e[taken + 1] - pos
<1>3. e[taken + 1] \in Nat
  BY <1>2
<1>4. j \in 1..Len(buf) /\ pos + j = e[taken + 1]
  BY <1>1, <1>2, <1>3
<1> HIDE DEF j
<1>5. buf[j] = 0
  BY <1>2, <1>4 DEF TakenTo
<1> QED BY <1>4, <1>5 DEF Ends, PipeTypes

\* Every step takes from the stream what it adds to the buffer, or cuts from the
\* buffer what it takes, in whatever pieces.
LEMMA NextStream == Stream /\ [McpNext]_mcpVars => Stream'
<1> SUFFICES ASSUME Stream, [McpNext]_mcpVars PROVE Stream'
  OBVIOUS
<1>1. PICK w, e, pos : TakenTo(w, e, pos)
  BY DEF Stream
<1>2. PipeTypes /\ Len(buf) \in Nat /\ Len(stdin) \in Nat /\ MaxLineBytes \in Nat /\ MaxRead \in Nat \ {0}
      /\ Len(script) \in Nat /\ taken \in Nat
  BY McpAssumption DEF Stream, PipeTypes
<1>3. pos \in Nat /\ Len(w) \in Nat /\ e[taken] \in Nat /\ e[taken] <= pos
  BY <1>1, <1>2, NextEnd
<1> DEFINE T == 0..(Len(script) + 1)
<1>4. ASSUME UNCHANGED <<script, stdin, buf, discarding, taken>>, g_stop' \in BOOLEAN,
             server' \in {"while", "lines", "read", "ended"},
             server' = "read" => Len(buf) <= MaxLineBytes
      PROVE  Stream'
  <2>1. PipeTypes'
    BY <1>2, <1>4 DEF PipeTypes
  <2>2. TakenTo(w, e, pos)'
    BY <1>1, <1>4 DEF TakenTo
  <2> QED BY <2>1, <2>2 DEF Stream
<1>5. CASE Signal
  BY <1>2, <1>4, <1>5 DEF Signal, PipeTypes
<1>6. CASE WhileNotStopped
  BY <1>2, <1>4, <1>6 DEF WhileNotStopped, PipeTypes
<1>7. CASE TakeLine
  <2>1. /\ Ends # {} /\ buf' = SubSeq(buf, FirstEnd + 1, Len(buf)) /\ discarding' = FALSE
        /\ taken' = taken + 1 /\ server = "lines" /\ UNCHANGED <<script, stdin, g_stop, server>>
    BY <1>7 DEF TakeLine, FirstEnd
  <2>2. taken < Len(script) /\ FirstEnd \in 1..Len(buf) /\ pos + FirstEnd = e[taken + 1]
    BY <1>1, <1>2, <2>1, CutAtEnd
  <2>3. /\ buf' \in Seq(T) /\ Len(buf') = Len(buf) - FirstEnd
        /\ \A i \in 1..Len(buf') : buf'[i] = buf[FirstEnd + i]
    <3>1. buf \in Seq(T) /\ FirstEnd + 1 \in 1..(Len(buf) + 1)
      BY <1>2, <2>2 DEF PipeTypes
    <3> HIDE DEF T
    <3> QED BY <1>2, <2>1, <2>2, <3>1, SubSeqProperties
  <2>4. PipeTypes'
    <3>1. taken' \in 0..Len(script) /\ Len(buf') <= MaxLineBytes + MaxRead
      BY <1>2, <2>1, <2>2, <2>3 DEF PipeTypes
    <3> QED BY <1>2, <2>1, <2>3, <3>1 DEF PipeTypes
  <2>6. PICK q : q = pos + FirstEnd
    OBVIOUS
  <2>5. TakenTo(w, e, q)'
    <3>0. Len(w) = pos + Len(buf) + Len(stdin)
      BY <1>1 DEF TakenTo
    <3>1. q \in 0..Len(w) /\ Len(w) = q + Len(buf') + Len(stdin')
      <4>1. Len(stdin') = Len(stdin)
        BY <2>1
      <4>2. q \in Nat /\ q <= pos + Len(buf) /\ q + (Len(buf) - FirstEnd) = pos + Len(buf)
        BY <1>2, <1>3, <2>2, <2>6
      <4> QED BY <1>2, <1>3, <2>3, <3>0, <4>1, <4>2
    <3>2. \A i \in 1..Len(buf') : buf'[i] = w[q + i]
      <4> TAKE i \in 1..Len(buf')
      <4>1. FirstEnd + i \in 1..Len(buf) /\ pos + (FirstEnd + i) = q + i
        BY <1>2, <1>3, <2>2, <2>3, <2>6
      <4> QED BY <1>1, <2>3, <4>1 DEF TakenTo
    <3>3. \A i \in 1..Len(stdin') : stdin'[i] = w[q + Len(buf') + i]
      <4>1. q + Len(buf') = pos + Len(buf)
        BY <1>2, <1>3, <2>2, <2>3, <2>6
      <4> QED BY <1>1, <2>1, <4>1 DEF TakenTo
    <3>4. w \in Seq(0..(Len(script) + 1)) /\ EndsAt(w, e, script, Len(script))
      BY <1>1 DEF TakenTo
    <3>5. q = e[taken']
      BY <2>1, <2>2, <2>6
    <3> QED BY <2>1, <3>1, <3>2, <3>3, <3>4, <3>5 DEF TakenTo
  <2> QED BY <2>4, <2>5 DEF Stream
<1>8. CASE Drop
  <2>1. /\ Ends = {} /\ buf' = << >> /\ discarding' = TRUE /\ Len(buf) > MaxLineBytes
        /\ server' = "while" /\ UNCHANGED <<script, stdin, g_stop, taken>>
    BY <1>8 DEF Drop
  <2>2. PipeTypes'
    BY <1>2, <2>1 DEF PipeTypes
  <2>4. PICK q : q = pos + Len(buf)
    OBVIOUS
  <2>3. TakenTo(w, e, q)'
    <3>0. Len(w) = pos + Len(buf) + Len(stdin) /\ w \in Seq(0..(Len(script) + 1))
          /\ EndsAt(w, e, script, Len(script))
      BY <1>1 DEF TakenTo
    <3>1. Len(buf') = 0
      BY <2>1
    <3>2. q \in 0..Len(w) /\ Len(w) = q + Len(buf') + Len(stdin')
      BY <1>2, <1>3, <2>1, <2>4, <3>0, <3>1
    <3>3. \A i \in 1..Len(stdin') : stdin'[i] = w[q + Len(buf') + i]
      <4>1. q + Len(buf') = pos + Len(buf)
        BY <1>2, <1>3, <2>4, <3>1
      <4> QED BY <1>1, <2>1, <4>1 DEF TakenTo
    <3>4. e[taken] + MaxLineBytes < q
      BY <1>2, <1>3, <2>1, <2>4
    <3>5. taken < Len(script) => q < e[taken + 1]
      BY <1>1, <1>2, <2>1, <2>4, NoEndInBuf
    <3>6. \A i \in 1..Len(buf') : buf'[i] = w[q + i]
      BY <3>1
    <3> QED BY <2>1, <3>0, <3>2, <3>3, <3>4, <3>5, <3>6 DEF TakenTo
  <2> QED BY <2>2, <2>3 DEF Stream
<1>9. CASE ToRead
  BY <1>2, <1>4, <1>9 DEF ToRead, PipeTypes
<1>10. CASE Read
  <2>1. PICK n \in 1..(IF MaxRead < Len(stdin) THEN MaxRead ELSE Len(stdin)) :
           buf' = buf \o SubSeq(stdin, 1, n) /\ stdin' = SubSeq(stdin, n + 1, Len(stdin))
    BY <1>10 DEF Read
  <2>2. server = "read" /\ server' = "while" /\ UNCHANGED <<script, discarding, g_stop, taken>>
    BY <1>10 DEF Read
  <2>3. n \in 1..Len(stdin) /\ n <= MaxRead /\ n \in Nat
    BY <1>2
  <2>4. buf \in Seq(T) /\ stdin \in Seq(T)
    BY <1>2 DEF PipeTypes
  <2>5. /\ SubSeq(stdin, 1, n) \in Seq(T) /\ Len(SubSeq(stdin, 1, n)) = n
        /\ \A i \in 1..n : SubSeq(stdin, 1, n)[i] = stdin[i]
    <3> HIDE DEF T
    <3>1. \A i \in 1..n : 1 + i - 1 = i
      BY <2>3
    <3>2. n - 1 + 1 = n /\ 1 \in 1..(Len(stdin) + 1) /\ n \in 0..Len(stdin)
      BY <1>2, <2>3
    <3> QED BY <2>3, <2>4, <3>1, <3>2, SubSeqProperties
  <2>6. /\ buf' \in Seq(T) /\ Len(buf') = Len(buf) + n
        /\ \A i \in 1..Len(buf') : buf'[i] = IF i <= Len(buf) THEN buf[i] ELSE stdin[i - Len(buf)]
    <3>1. /\ buf' \in Seq(T) /\ Len(buf') = Len(buf) + n
          /\ \A i \in 1..(Len(buf) + n) :
               buf'[i] = IF i <= Len(buf) THEN buf[i] ELSE SubSeq(stdin, 1, n)[i - Len(buf)]
      <4> HIDE DEF T
      <4> QED BY <2>1, <2>4, <2>5, ConcatProperties
    <3>2. \A i \in 1..(Len(buf) + n) : ~ (i <= Len(buf)) => i - Len(buf) \in 1..n
      BY <1>2, <2>3
    <3> QED BY <2>5, <3>1, <3>2
  <2>7. /\ stdin' \in Seq(T) /\ Len(stdin') = Len(stdin) - n
        /\ \A i \in 1..Len(stdin') : stdin'[i] = stdin[n + i]
    <3> HIDE DEF T
    <3> QED BY <1>2, <2>1, <2>3, <2>4, SubSeqProperties
  <2>8. PipeTypes'
    <3>1. Len(buf') <= MaxLineBytes + MaxRead
      BY <1>2, <2>2, <2>3, <2>6 DEF PipeTypes
    <3> QED BY <1>2, <2>2, <2>6, <2>7, <3>1 DEF PipeTypes
  <2>9. TakenTo(w, e, pos)'
    <3>1. Len(w) = pos + Len(buf') + Len(stdin')
      BY <1>1, <1>2, <1>3, <2>3, <2>6, <2>7 DEF TakenTo
    <3>2. ASSUME NEW i \in 1..Len(buf')
          PROVE  buf'[i] = w[pos + i]
      <4>1. CASE i <= Len(buf)
        <5>1. i \in 1..Len(buf) /\ buf'[i] = buf[i]
          BY <1>2, <2>6, <4>1
        <5> QED BY <1>1, <5>1 DEF TakenTo
      <4>2. CASE ~ (i <= Len(buf))
        <5>1. i - Len(buf) \in 1..Len(stdin) /\ pos + Len(buf) + (i - Len(buf)) = pos + i
          BY <1>2, <1>3, <2>3, <2>6, <4>2
        <5>2. buf'[i] = stdin[i - Len(buf)]
          BY <2>6, <4>2
        <5> QED BY <1>1, <5>1, <5>2 DEF TakenTo
      <4> QED BY <4>1, <4>2
    <3>3. ASSUME NEW i \in 1..Len(stdin')
          PROVE  stdin'[i] = w[pos + Len(buf') + i]
      <4>1. n + i \in 1..Len(stdin) /\ pos + Len(buf) + (n + i) = pos + Len(buf') + i
        BY <1>2, <1>3, <2>3, <2>6, <2>7
      <4>2. stdin'[i] = stdin[n + i]
        BY <2>7
      <4>3. stdin[n + i] = w[pos + Len(buf) + (n + i)]
        BY <1>1, <4>1 DEF TakenTo
      <4> QED BY <4>1, <4>2, <4>3
    <3> QED BY <1>1, <2>2, <3>1, <3>2, <3>3 DEF TakenTo
  <2> QED BY <2>8, <2>9 DEF Stream
<1>11. CASE Eof
  BY <1>2, <1>4, <1>11 DEF Eof, PipeTypes
<1>12. CASE UNCHANGED mcpVars
  BY <1>2, <1>4, <1>12 DEF mcpVars, PipeTypes
<1> QED BY <1>5, <1>6, <1>7, <1>8, <1>9, <1>10, <1>11, <1>12 DEF McpNext, Server

-----------------------------------------------------------------------------
(* What is answered.                                                       *)

Hows == {"null", "error", "result"}

\* A line that is not empty has no answer or one, and is due that many.
LEMMA AnswerDue ==
  ASSUME NEW l \in Line, l.bytes # 0, l.bytes <= MaxLineBytes
  PROVE  \/ Answer(l) = << >> /\ 0 \in Due(l)
         \/ \E x \in Hows : /\ Answer(l) = <<x>> /\ 1 \in Due(l)
                            /\ l.id /\ l.parses /\ l.object => x # "null"
<1>1. ~ (l.bytes > MaxLineBytes) /\ l.id \in BOOLEAN /\ l.parses \in BOOLEAN /\ l.object \in BOOLEAN
  BY McpAssumption DEF Line
<1>2. CASE ~ l.parses \/ ~ l.object
  BY <1>1, <1>2 DEF Answer, Due, Hows
<1>3. CASE ~ (~ l.parses \/ ~ l.object) /\ l.method = ""
  BY <1>1, <1>3 DEF Answer, Due, Hows
<1>4. CASE ~ (~ l.parses \/ ~ l.object) /\ l.method # "" /\ l.meta = "bad"
  BY <1>1, <1>4 DEF Answer, Due, Hows
<1>5. CASE /\ ~ (~ l.parses \/ ~ l.object) /\ l.method # "" /\ l.meta # "bad"
           /\ ~ l.id \/ l.method = "notifications/"
  BY <1>1, <1>5 DEF Answer, Due, Hows
<1>6. CASE /\ ~ (~ l.parses \/ ~ l.object) /\ l.method # "" /\ l.meta # "bad"
           /\ l.id /\ l.method # "notifications/"
  <2>1. 1 \in Due(l)
    BY <1>1, <1>6 DEF Due
  <2>2. Answer(l) = <<"result">> \/ Answer(l) = <<"error">>
    BY <1>6 DEF Answer
  <2> QED BY <2>1, <2>2 DEF Hows
<1> QED BY <1>2, <1>3, <1>4, <1>5, <1>6, <1>1

OutTyped == out \in Seq((1..(Len(script) + 1)) \X Hows)

\* What taking a line does to the answers.
LEMMA LineTaken ==
  ASSUME Stream, OutTyped, TakeLine, NEW k, k = taken + 1
  PROVE  /\ k \in 1..Len(script) /\ taken' = k /\ discarding' = FALSE /\ script' = script
         /\ \/ discarding /\ out' = out /\ script[k].bytes > MaxLineBytes
            \/ ~ discarding /\ out' = out /\ 0 \in Due(script[k]) /\ script[k].bytes <= MaxLineBytes
            \/ /\ ~ discarding /\ 1 \in Due(script[k])
               /\ \E x \in Hows :
                    /\ out' = out \o << <<k, x>> >>
                    /\ script[k].bytes > MaxLineBytes => x = "null"
                    /\ script[k].id /\ script[k].bytes <= MaxLineBytes /\ script[k].parses
                         /\ script[k].object => x # "null"
<1>1. PICK w, e, pos : TakenTo(w, e, pos)
  BY DEF Stream
<1> DEFINE n == FirstEnd - 1
<1>2. /\ Ends # {} /\ discarding' = FALSE /\ taken' = k /\ script' = script
      /\ out' = out \o IF discarding THEN << >>
                       ELSE IF n > MaxLineBytes THEN << <<k, "null">> >>
                       ELSE IF n = 0 THEN << >> ELSE HandleLine(k, n)
  BY DEF TakeLine, FirstEnd
<1>3. /\ taken < Len(script) /\ discarding \in BOOLEAN
      /\ ~ discarding => n = script[k].bytes
      /\ discarding => script[k].bytes > MaxLineBytes
  BY <1>1, <1>2, CutAtEnd DEF Stream, PipeTypes
<1> HIDE DEF n
<1>4. k \in 1..Len(script)
  BY <1>3 DEF Stream, PipeTypes
<1>5. script[k] \in Line /\ script[k].bytes \in Nat /\ MaxLineBytes \in Nat
  BY <1>4, BytesNat, ElementOfSeq, McpAssumption DEF Stream, PipeTypes
<1>6. out \o << >> = out
  BY ConcatEmptySeq DEF OutTyped
<1>7. CASE discarding
  BY <1>2, <1>3, <1>4, <1>6, <1>7
<1>8. CASE ~ discarding /\ n > MaxLineBytes
  <2>1. out' = out \o << <<k, "null">> >>
    BY <1>2, <1>8
  <2>2. script[k].bytes > MaxLineBytes /\ ~ (script[k].bytes <= MaxLineBytes) /\ script[k].bytes # 0
    BY <1>3, <1>5, <1>8
  <2>3. 1 \in Due(script[k])
    BY <2>2 DEF Due
  <2> QED BY <1>2, <1>4, <1>8, <2>1, <2>2, <2>3 DEF Hows
<1>9. CASE ~ discarding /\ ~ (n > MaxLineBytes) /\ n = 0
  <2>1. out' = out
    BY <1>2, <1>6, <1>9
  <2>2. script[k].bytes = 0 /\ script[k].bytes <= MaxLineBytes
    BY <1>3, <1>5, <1>9
  <2>3. 0 \in Due(script[k])
    BY <2>2 DEF Due
  <2> QED BY <1>2, <1>4, <1>9, <2>1, <2>2, <2>3
<1>10. CASE ~ discarding /\ ~ (n > MaxLineBytes) /\ n # 0
  <2>1. out' = out \o HandleLine(k, n)
    BY <1>2, <1>10
  <2>2. n = script[k].bytes /\ script[k].bytes # 0 /\ script[k].bytes <= MaxLineBytes
        /\ ~ (script[k].bytes > MaxLineBytes)
    BY <1>3, <1>5, <1>10
  <2>3. HandleLine(k, n) = [i \in DOMAIN Answer(script[k]) |-> <<k, Answer(script[k])[i]>>]
    BY <2>2 DEF HandleLine
  <2>4. CASE Answer(script[k]) = << >> /\ 0 \in Due(script[k])
    <3>1. HandleLine(k, n) = << >>
      BY <2>3, <2>4
    <3> QED BY <1>2, <1>4, <1>6, <1>10, <2>1, <2>2, <2>4, <3>1
  <2>5. CASE \E x \in Hows : /\ Answer(script[k]) = <<x>> /\ 1 \in Due(script[k])
                             /\ script[k].id /\ script[k].parses /\ script[k].object => x # "null"
    <3>1. PICK x \in Hows : /\ Answer(script[k]) = <<x>> /\ 1 \in Due(script[k])
                            /\ script[k].id /\ script[k].parses /\ script[k].object => x # "null"
      BY <2>5
    <3>2. HandleLine(k, n) = << <<k, x>> >>
      BY <2>3, <3>1
    <3>3. out' = out \o << <<k, x>> >>
      BY <2>1, <3>2
    <3> QED BY <1>2, <1>4, <1>10, <2>2, <3>1, <3>3
  <2> QED BY <1>5, <2>2, <2>4, <2>5, AnswerDue
<1> QED BY <1>7, <1>8, <1>9, <1>10

\* One more answer.
LEMMA OneMore ==
  ASSUME OutTyped, NEW k \in 1..(Len(script) + 1), NEW x \in Hows, out' = out \o << <<k, x>> >>
  PROVE  /\ out' \in Seq((1..(Len(script) + 1)) \X Hows) /\ Len(out) \in Nat
         /\ DOMAIN out = 1..Len(out) /\ DOMAIN out' = 1..(Len(out) + 1)
         /\ \A i \in 1..Len(out) : out'[i] = out[i]
         /\ out'[Len(out) + 1] = <<k, x>>
<1> DEFINE P == (1..(Len(script) + 1)) \X Hows
           a == <<k, x>>
<1>1. a \in P /\ out \in Seq(P)
  BY DEF OutTyped
<1> HIDE DEF P, a
<1>2. out' = Append(out, a)
  BY <1>1, AppendIsConcat DEF a
<1>3. /\ Append(out, a) \in Seq(P) /\ Len(Append(out, a)) = Len(out) + 1
      /\ \A i \in 1..Len(out) : Append(out, a)[i] = out[i]
      /\ Append(out, a)[Len(out) + 1] = a
  BY <1>1, AppendProperties
<1>4. Len(out) \in Nat /\ DOMAIN out = 1..Len(out) /\ DOMAIN out' = 1..Len(out')
  BY <1>1, <1>2, <1>3
<1> QED BY <1>2, <1>3, <1>4 DEF P, a

\* Too much without an end: what that does to the answers.
LEMMA LineDropped ==
  ASSUME Stream, OutTyped, Drop
  PROVE  /\ taken + 1 \in 1..(Len(script) + 1) /\ out' = out \o << <<taken + 1, "null">> >>
         /\ taken' = taken /\ discarding' = TRUE /\ script' = script
         /\ taken < Len(script) /\ script[taken + 1].bytes <= 2 * MaxLineBytes + 1 => ~ discarding
<1>1. taken + 1 \in 1..(Len(script) + 1)
  BY DEF Stream, PipeTypes
<1>2. out' = Append(out, <<taken + 1, "null">>) /\ taken' = taken /\ discarding' = TRUE /\ script' = script
      /\ Ends = {} /\ Len(buf) > MaxLineBytes
  BY DEF Drop
<1>3. out' = out \o << <<taken + 1, "null">> >>
  <2> DEFINE P == (1..(Len(script) + 1)) \X Hows
             a == <<taken + 1, "null">>
  <2>1. a \in P /\ out \in Seq(P)
    BY <1>1 DEF OutTyped, Hows
  <2> HIDE DEF P, a
  <2>2. Append(out, a) = out \o <<a>>
    BY <2>1, AppendIsConcat
  <2> QED BY <1>2, <2>2 DEF a
<1>4. ASSUME taken < Len(script), script[taken + 1].bytes <= 2 * MaxLineBytes + 1, discarding
      PROVE  FALSE
  <2>1. PICK w, e, pos : TakenTo(w, e, pos)
    BY DEF Stream
  <2>2. pos + Len(buf) < e[taken + 1]
    BY <1>2, <1>4, <2>1, NoEndInBuf DEF Stream
  <2>3. /\ e[taken + 1] = e[taken] + script[taken + 1].bytes + 1 /\ script[taken + 1].bytes \in Nat
        /\ e[taken] \in Nat /\ pos \in Nat
    BY <1>4, <2>1, NextEnd DEF Stream
  <2>4. e[taken] + MaxLineBytes < pos
    BY <1>4, <2>1 DEF TakenTo
  <2>5. MaxLineBytes \in Nat /\ Len(buf) \in Nat
    BY McpAssumption DEF Stream, PipeTypes
  <2> QED BY <1>2, <1>4, <2>2, <2>3, <2>4, <2>5
<1> QED BY <1>1, <1>2, <1>3, <1>4

\* Answers are to lines there are.
LEMMA NextTyped == Stream /\ OutTyped /\ [McpNext]_mcpVars => OutTyped'
<1> SUFFICES ASSUME Stream, OutTyped, [McpNext]_mcpVars PROVE OutTyped'
  OBVIOUS
<1>1. CASE TakeLine
  <2>0. PICK k : k = taken + 1
    OBVIOUS
  <2>1. k \in 1..Len(script) /\ script' = script /\ Len(script) \in Nat
    <3>1. Len(script) \in Nat
      BY DEF Stream, PipeTypes
    <3> QED BY <1>1, <2>0, <3>1, LineTaken
  <2>2. out' = out \/ \E x \in Hows : out' = out \o << <<k, x>> >>
    BY <1>1, <2>0, LineTaken
  <2>3. k \in 1..(Len(script) + 1)
    BY <2>1
  <2> QED BY <2>1, <2>2, <2>3, OneMore DEF OutTyped
<1>2. CASE Drop
  <2>1. /\ taken + 1 \in 1..(Len(script) + 1) /\ out' = out \o << <<taken + 1, "null">> >>
        /\ script' = script
    BY <1>2, LineDropped
  <2>2. "null" \in Hows
    BY DEF Hows
  <2> QED BY <2>1, <2>2, OneMore DEF OutTyped
<1>3. CASE UNCHANGED <<script, out>>
  BY <1>3 DEF OutTyped
<1> QED BY <1>1, <1>2, <1>3
        DEF McpNext, Server, Signal, WhileNotStopped, ToRead, Read, Eof, mcpVars

\* What a line that has been taken may say of its answers.
Right(k) ==
  /\ Cardinality(To(k)) \in Due(script[k])
  /\ script[k].bytes > MaxLineBytes => \A i \in To(k) : out[i][2] = "null"
  /\ script[k].id /\ script[k].bytes <= MaxLineBytes /\ script[k].parses /\ script[k].object
       => \A i \in To(k) : out[i][2] # "null"

\* Lines of which no more than one buffer is dropped.
ShortLines == \A k \in 1..Len(script) : script[k].bytes <= 2 * MaxLineBytes + 1

Ordered == \A i, j \in DOMAIN out : i < j => out[i][1] <= out[j][1]

\* The answers are of lines taken, and one of the line that is being dropped.
Answers ==
  /\ ShortLines /\ Ordered
  /\ \A i \in DOMAIN out : out[i][1] <= taken \/ (discarding /\ out[i] = <<taken + 1, "null">>)
  /\ \A k \in 1..taken : Right(k)
  /\ discarding /\ taken < Len(script) => Cardinality(To(taken + 1)) = 1

\* One more answer, in order.
LEMMA OneMoreTo ==
  ASSUME OutTyped, Ordered, NEW k \in 1..(Len(script) + 1), NEW x \in Hows,
         out' = out \o << <<k, x>> >>, \A i \in DOMAIN out : out[i][1] <= k
  PROVE  /\ Ordered'
         /\ \A l \in Nat : l # k => To(l)' = To(l) /\ \A i \in To(l) : out'[i] = out[i]
         /\ To(k)' = To(k) \cup {Len(out) + 1} /\ Len(out) + 1 \notin To(k)
         /\ \A i \in DOMAIN out : out'[i] = out[i]
         /\ DOMAIN out' = DOMAIN out \cup {Len(out) + 1}
         /\ out'[Len(out) + 1] = <<k, x>>
<1>1. /\ Len(out) \in Nat /\ DOMAIN out = 1..Len(out) /\ DOMAIN out' = 1..(Len(out) + 1)
      /\ \A i \in 1..Len(out) : out'[i] = out[i]
      /\ out'[Len(out) + 1] = <<k, x>>
  BY OneMore
<1>2. PICK n : n = Len(out)
  OBVIOUS
<1>3. /\ n \in Nat /\ DOMAIN out = 1..n /\ DOMAIN out' = (1..n) \cup {n + 1} /\ n + 1 \notin 1..n
      /\ \A i \in 1..n : out'[i] = out[i]
      /\ out'[n + 1][1] = k
  BY <1>1, <1>2
<1>4. Ordered'
  <2>1. ASSUME NEW i \in DOMAIN out', NEW j \in DOMAIN out', i < j
        PROVE  out'[i][1] <= out'[j][1]
    <3>1. i \in 1..n /\ (j \in 1..n \/ j = n + 1)
      BY <1>3, <2>1
    <3>2. CASE j \in 1..n
      BY <1>3, <2>1, <3>1, <3>2 DEF Ordered
    <3>3. CASE j = n + 1
      BY <1>3, <3>1, <3>3
    <3> QED BY <3>1, <3>2, <3>3
  <2> QED BY <2>1 DEF Ordered
<1>5. ASSUME NEW l \in Nat, l # k
      PROVE  To(l)' = To(l) /\ \A i \in To(l) : out'[i] = out[i]
  BY <1>3, <1>5 DEF To
<1>6. To(k)' = To(k) \cup {n + 1} /\ n + 1 \notin To(k)
  BY <1>3 DEF To
<1>7. \A i \in DOMAIN out : out'[i] = out[i]
  BY <1>3
<1> QED BY <1>1, <1>2, <1>3, <1>4, <1>5, <1>6, <1>7

\* What is right stays so while the answers to the line stay.
LEMMA RightStays ==
  ASSUME NEW k, Right(k), script' = script, To(k)' = To(k), \A i \in To(k) : out'[i] = out[i]
  PROVE  Right(k)'
BY DEF Right

\* Every step leaves the answers right.
LEMMA NextAnswers == Stream /\ OutTyped /\ Answers /\ [McpNext]_mcpVars => Answers'
<1> SUFFICES ASSUME Stream, OutTyped, Answers, [McpNext]_mcpVars PROVE Answers'
  OBVIOUS
<1>1. Len(script) \in Nat /\ taken \in Nat /\ taken <= Len(script) /\ discarding \in BOOLEAN
      /\ MaxLineBytes \in Nat
  BY McpAssumption DEF Stream, PipeTypes
<1>2. PICK k : k = taken + 1
  OBVIOUS
<1>3. k \in Nat /\ k \in 1..(Len(script) + 1) /\ ~ (k <= taken) /\ taken <= k
  BY <1>1, <1>2
<1>4. \A i \in DOMAIN out : out[i][1] \in Nat
  BY DEF OutTyped
<1>5. \A i \in DOMAIN out : out[i][1] <= k
  BY <1>1, <1>2, <1>3, <1>4 DEF Answers
<1>6. ~ discarding => To(k) = {}
  BY <1>3 DEF Answers, To
<1>7. Cardinality({}) = 0 /\ \A n : Cardinality({n}) = 1
  BY FS_EmptySet, FS_Singleton
<1>8. CASE TakeLine
  <2>1. /\ k \in 1..Len(script) /\ taken' = k /\ discarding' = FALSE /\ script' = script
        /\ \/ discarding /\ out' = out /\ script[k].bytes > MaxLineBytes
           \/ ~ discarding /\ out' = out /\ 0 \in Due(script[k]) /\ script[k].bytes <= MaxLineBytes
           \/ /\ ~ discarding /\ 1 \in Due(script[k])
              /\ \E x \in Hows :
                   /\ out' = out \o << <<k, x>> >>
                   /\ script[k].bytes > MaxLineBytes => x = "null"
                   /\ script[k].id /\ script[k].bytes <= MaxLineBytes /\ script[k].parses
                        /\ script[k].object => x # "null"
    BY <1>2, <1>8, LineTaken
  <2>2. script[k].bytes \in Nat
    BY <2>1, BytesNat DEF Stream, PipeTypes
  <2>3. ShortLines'
    BY <2>1 DEF Answers, ShortLines
  <2>4. \A j \in 1..k : j = k \/ j \in 1..taken
    <3> TAKE j \in 1..k
    <3> QED BY <1>1, <1>2
  <2>5. CASE out' = out
    <3>1. Ordered'
      BY <2>5 DEF Answers, Ordered
    <3>2. \A i \in DOMAIN out' : out'[i][1] <= k
      BY <1>5, <2>5
    <3>3. \A j : To(j)' = To(j)
      BY <2>5 DEF To
    <3>4. Right(k)'
      <4>1. CASE discarding
        <5>1. script[k].bytes > MaxLineBytes
          BY <1>5, <1>7, <2>1, <4>1, <2>5, OneMore
        <5>2. taken < Len(script) /\ Cardinality(To(k)) = 1
          BY <1>1, <1>2, <2>1, <4>1 DEF Answers
        <5>3. 1 \in Due(script[k])
          <6>1. script[k].bytes # 0
            BY <1>1, <2>2, <5>1
          <6> QED BY <5>1, <6>1 DEF Due
        <5>4. \A i \in To(k) : out[i][2] = "null"
          BY <1>2, <1>3 DEF Answers, To
        <5>5. ~ (script[k].bytes <= MaxLineBytes)
          BY <1>1, <2>2, <5>1
        <5> QED BY <2>1, <2>5, <3>3, <5>2, <5>3, <5>4, <5>5 DEF Right
      <4>2. CASE ~ discarding
        <5>1. To(k)' = {}
          BY <1>6, <3>3, <4>2
        <5>2. 0 \in Due(script[k])
          <6>1. ASSUME NEW x \in Hows, out' = out \o << <<k, x>> >>
                PROVE  FALSE
            BY <1>3, <2>5, <6>1, OneMore
          <6> QED BY <2>1, <4>2, <6>1
        <5> QED BY <1>7, <2>1, <5>1, <5>2 DEF Right
      <4> QED BY <4>1, <4>2
    <3>5. ASSUME NEW j \in 1..taken
          PROVE  Right(j)'
      BY <2>1, <2>5, <3>3, RightStays DEF Answers
    <3>6. \A j \in 1..taken' : Right(j)'
      BY <2>1, <2>4, <3>4, <3>5
    <3>7. /\ \A i \in DOMAIN out' : out'[i][1] <= taken'
          /\ ~ discarding'
      BY <2>1, <3>2
    <3> QED BY <2>3, <3>1, <3>6, <3>7 DEF Answers
  <2>6. CASE out' # out
    <3>1. PICK x \in Hows :
             /\ out' = out \o << <<k, x>> >>
             /\ script[k].bytes > MaxLineBytes => x = "null"
             /\ script[k].id /\ script[k].bytes <= MaxLineBytes /\ script[k].parses
                  /\ script[k].object => x # "null"
      BY <2>1, <2>6
    <3>2. ~ discarding /\ 1 \in Due(script[k])
      BY <2>1, <2>6
    <3>3. /\ Ordered'
          /\ \A l \in Nat : l # k => To(l)' = To(l) /\ \A i \in To(l) : out'[i] = out[i]
          /\ To(k)' = To(k) \cup {Len(out) + 1}
          /\ \A i \in DOMAIN out : out'[i] = out[i]
          /\ DOMAIN out' = DOMAIN out \cup {Len(out) + 1}
          /\ out'[Len(out) + 1] = <<k, x>>
      BY <1>3, <1>5, <3>1, OneMoreTo DEF Answers
    <3>4. \A i \in DOMAIN out' : out'[i][1] <= k
      BY <1>3, <1>5, <3>3
    <3>5. Right(k)'
      <4>1. PICK n : n = Len(out) + 1
        OBVIOUS
      <4>2. To(k)' = {n} /\ out'[n][2] = x
        BY <1>6, <3>2, <3>3, <4>1
      <4> QED BY <1>7, <2>1, <3>1, <3>2, <4>2 DEF Right
    <3>6. ASSUME NEW j \in 1..taken
          PROVE  Right(j)'
      <4>1. j \in Nat /\ j # k
        BY <1>1, <1>2
      <4> QED BY <2>1, <3>3, <4>1, RightStays DEF Answers
    <3>7. \A j \in 1..taken' : Right(j)'
      BY <2>1, <2>4, <3>5, <3>6
    <3>8. /\ \A i \in DOMAIN out' : out'[i][1] <= taken'
          /\ ~ discarding'
      BY <2>1, <3>4
    <3> QED BY <2>3, <3>3, <3>7, <3>8 DEF Answers
  <2> QED BY <2>5, <2>6
<1>9. CASE Drop
  <2>1. /\ out' = out \o << <<k, "null">> >>
        /\ taken' = taken /\ discarding' = TRUE /\ script' = script
        /\ taken < Len(script) /\ script[k].bytes <= 2 * MaxLineBytes + 1 => ~ discarding
    BY <1>2, <1>9, LineDropped
  <2>2. /\ Ordered'
        /\ \A l \in Nat : l # k => To(l)' = To(l) /\ \A i \in To(l) : out'[i] = out[i]
        /\ To(k)' = To(k) \cup {Len(out) + 1}
        /\ \A i \in DOMAIN out : out'[i] = out[i]
        /\ DOMAIN out' = DOMAIN out \cup {Len(out) + 1}
        /\ out'[Len(out) + 1] = <<k, "null">>
    BY <1>3, <1>5, <2>1, OneMoreTo DEF Answers, Hows
  <2>3. ShortLines'
    BY <2>1 DEF Answers, ShortLines
  <2>4. \A i \in DOMAIN out' : out'[i][1] <= taken \/ out'[i] = <<taken + 1, "null">>
    BY <1>2, <2>2 DEF Answers
  <2>5. ASSUME NEW j \in 1..taken
        PROVE  Right(j)'
    <3>1. j \in Nat /\ j # k
      BY <1>1, <1>2
    <3> QED BY <2>1, <2>2, <3>1, RightStays DEF Answers
  <2>6. ASSUME taken < Len(script)
        PROVE  Cardinality(To(k)') = 1
    <3>1. k \in 1..Len(script)
      BY <1>1, <1>2, <2>6
    <3>2. To(k) = {}
      BY <1>6, <2>1, <2>6, <3>1 DEF Answers, ShortLines
    <3>3. PICK n : n = Len(out) + 1
      OBVIOUS
    <3>4. To(k)' = {n}
      BY <2>2, <3>2, <3>3
    <3> QED BY <1>7, <3>4
  <2>7. taken' < Len(script') => Cardinality(To(taken + 1)') = 1
    <3>1. taken < Len(script) => Cardinality(To(k)') = 1
      BY <2>6
    <3>2. To(taken + 1)' = To(k)'
      BY <1>2, <2>1 DEF To
    <3> QED BY <2>1, <3>1, <3>2
  <2>8. \A i \in DOMAIN out' : out'[i][1] <= taken' \/ (discarding' /\ out'[i] = <<taken' + 1, "null">>)
    <3>1. taken' = taken /\ discarding'
      BY <2>1
    <3> QED BY <2>4, <3>1
  <2>9. \A j \in 1..taken' : Right(j)'
    BY <2>1, <2>5
  <2> QED BY <2>2, <2>3, <2>7, <2>8, <2>9 DEF Answers
<1>10. CASE UNCHANGED <<script, discarding, taken, out>>
  BY <1>10 DEF Answers, ShortLines, Ordered, Right, To
<1> QED BY <1>8, <1>9, <1>10
        DEF McpNext, Server, Signal, WhileNotStopped, ToRead, Read, Eof, mcpVars

-----------------------------------------------------------------------------

\* The types.
THEOREM McpTypesAlways == McpSpec => []McpTypeOK
<1>1. McpInit => OutTyped
  BY DEF McpInit, OutTyped
<1>2. Stream /\ OutTyped => McpTypeOK
  BY DEF Stream, OutTyped, PipeTypes, McpTypeOK, Hows
<1> QED BY <1>1, <1>2, InitStream, NextStream, NextTyped, PTL DEF McpSpec

\* However the pipe cuts what a client writes, every line that was read is
\* answered as often as it is due, in order.
THEOREM RequestsAnswered == McpSpec /\ ShortLines => []OneAnswerEach
<1>1. McpInit => OutTyped
  BY DEF McpInit, OutTyped
<1>2. McpInit /\ ShortLines => Answers
  <2> SUFFICES ASSUME McpInit, ShortLines PROVE Answers
    OBVIOUS
  <2>1. out = << >> /\ taken = 0 /\ ~ discarding
    BY DEF McpInit
  <2> QED BY <2>1 DEF Answers, Ordered
<1>3. Answers => OneAnswerEach
  BY DEF Answers, Right, Ordered, OneAnswerEach
<1> QED BY <1>1, <1>2, <1>3, InitStream, NextStream, NextTyped, NextAnswers, PTL DEF McpSpec
===============================================================================
