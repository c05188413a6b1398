-------------------------------- MODULE Server --------------------------------
(***************************************************************************)
(* The socket server of lsearchd: Daemon::run, Daemon::serveConnection,      *)
(* Daemon::shutdown and Daemon::~Daemon (daemon/daemon.cpp).                 *)
(*                                                                         *)
(* The main thread accepts; each connection has a thread that takes bytes,   *)
(* cuts them into lines and answers every line before it takes the next.     *)
(* When a line asks for shutdown, the main thread wakes the threads that     *)
(* wait for their clients, joins all of them, and destroys the daemon.       *)
(*                                                                         *)
(* Bytes are units: NL ends a line, and a line of the one unit "shutdown" or *)
(* "rebuild" is that request.  What other lines do to the index is in module *)
(* Daemon; here the answer to a line is the line.                            *)
(***************************************************************************)
EXTENDS Naturals, Sequences, FiniteSets, SequencesExt, FiniteSetsExt

CONSTANTS
  Clients,   \* each makes at most one connection
  Readers,   \* the clients that go on reading and stay
  WiresOf(_), \* what each client may write, sequences of units
  MaxLine,   \* kMaxRequestLine
  Chunk,     \* the size of tmp
  Room,      \* how many answers the kernel keeps for a client
  MaxFd      \* descriptors 1..MaxFd; there are enough

NL      == "newline"
TooBig  == <<"ERR line too long">>
noOne   == "no one"

ASSUME ServerAssumption ==
  /\ IsFiniteSet(Clients) /\ Readers \subseteq Clients /\ noOne \notin Clients
  /\ \A c \in Clients : \A w \in WiresOf(c) : w \in Seq(ToSet(w))
  /\ MaxLine \in Nat \ {0} /\ Chunk \in 1..(MaxLine + 1)
  /\ Room \in Nat \ {0} /\ MaxFd \in Nat /\ MaxFd >= Cardinality(Clients)

VARIABLES
  running,     \* running_
  main,        \* where the main thread is
  accepted,    \* the client whose connection is c in run()
  connFds,     \* connFds_: how often it lists each descriptor
  toWake,      \* toWake, the same of what is left of it
  rebuilding,  \* the detached thread of startRebuild runs
  thread,      \* thread[c]: where the thread of client c is
  fdOf, buf, out,  \* its fd, buf and out
  backlog,     \* kernel: connections to accept
  table,       \* kernel: table[fd] is whose connection is open as fd
  sock,        \* kernel: the daemon's side of the connection of c
  sent,        \* sent[c]: what client c has written
  answers      \* answers[c]: what the daemon has sent to c

mainVars   == <<main, accepted, toWake>>
threadVars == <<thread, fdOf, buf, out>>
kernelVars == <<backlog, table, sock>>
vars == <<running, mainVars, connFds, rebuilding, threadVars, kernelVars, sent, answers>>

-----------------------------------------------------------------------------
(* Clients and the kernel.                                                  *)

\* A connection: whether the client has it, the bytes to recv, the answers
\* the client has not read, the directions that are shut down, hung up.
NewSock == [up |-> FALSE, in |-> <<>>, unread |-> 0, shut |-> {}, hung |-> FALSE]

NoFds == [fd \in 1..MaxFd |-> 0]

Init ==
  /\ running = TRUE /\ rebuilding = FALSE
  /\ main = "loop" /\ accepted = noOne /\ toWake = NoFds /\ connFds = NoFds
  /\ thread = [c \in Clients |-> "none"] /\ fdOf = [c \in Clients |-> 0]
  /\ buf = [c \in Clients |-> <<>>] /\ out = [c \in Clients |-> <<>>]
  /\ backlog = <<>> /\ table = [fd \in 1..MaxFd |-> noOne]
  /\ sock = [c \in Clients |-> NewSock]
  /\ sent = [c \in Clients |-> <<>>] /\ answers = [c \in Clients |-> <<>>]

\* Until the socket is unlinked a client may connect.  What it ever writes it
\* writes at once: recv takes it in pieces, whenever.
Connect(c) ==
  /\ ~ sock[c].up /\ main \notin {"returned", "gone"}
  /\ \E w \in WiresOf(c) : /\ sent' = [sent EXCEPT ![c] = w]
                          /\ sock' = [sock EXCEPT ![c].up = TRUE, ![c].in = w]
  /\ backlog' = Append(backlog, c)
  /\ UNCHANGED table

Read(c) ==
  /\ sock[c].unread > 0 /\ ~ sock[c].hung
  /\ sock' = [sock EXCEPT ![c].unread = @ - 1]
  /\ UNCHANGED <<backlog, table, sent>>

HangUp(c) ==
  /\ sock[c].up /\ ~ sock[c].hung /\ c \notin Readers
  /\ sock' = [sock EXCEPT ![c].hung = TRUE]
  /\ UNCHANGED <<backlog, table, sent>>

Client(c) ==
  /\ Connect(c) \/ Read(c) \/ HangUp(c)
  /\ UNCHANGED <<running, mainVars, connFds, rebuilding, threadVars, answers>>

-----------------------------------------------------------------------------
(* serveConnection.                                                         *)

\* What the code does when the connection is over, in this order.
CloseFirst == <<"close", "erase", "done">>

Order   == <<"erase", "close", "done">>
Done    == Order[1]
Next1(s) == Order[CHOOSE i \in 2..3 : Order[i - 1] = s]

Go(c, s) == thread' = [thread EXCEPT ![c] = s]

HasLine(b) == NL \in ToSet(b)
Cut(b)     == CHOOSE i \in DOMAIN b : b[i] = NL /\ \A j \in 1..(i - 1) : b[j] # NL

\* Faulty: the size of a line that came whole is not looked at.
NotLong(n) == FALSE

LineTooLong(n) == n > MaxLine
BufTooLong(b)  == ~ HasLine(b) /\ Len(b) > MaxLine

\* while (running_.load())
Check(c) ==
  /\ thread[c] = "check" /\ Go(c, IF running THEN "recv" ELSE Done)
  /\ UNCHANGED <<running, rebuilding, connFds, fdOf, buf, out, table, sock, answers>>

Recv(c) ==
  /\ thread[c] = "recv"
  /\ \/ \E k \in 1..Min({Chunk, Len(sock[c].in)}) :
          /\ buf' = [buf EXCEPT ![c] = @ \o SubSeq(sock[c].in, 1, k)]
          /\ sock' = [sock EXCEPT ![c].in = SubSeq(@, k + 1, Len(@))]
          /\ Go(c, IF BufTooLong(buf'[c]) THEN "reject" ELSE "lines")
     \/ /\ sock[c].in = <<>> /\ (sock[c].hung \/ "rd" \in sock[c].shut)
        /\ Go(c, Done) /\ UNCHANGED <<buf, sock>>
  /\ UNCHANGED <<running, rebuilding, connFds, fdOf, out, table, answers>>

\* handleRequest, of which only this matters here.
Handle(line) ==
  /\ running' = (running /\ line # <<"shutdown">>)
  /\ rebuilding' = (rebuilding \/ line = <<"rebuild">>)

\* A turn of the inner loop, up to the answer.
Line(c) ==
  /\ thread[c] = "lines"
  /\ LET n    == Cut(buf[c])
         line == SubSeq(buf[c], 1, n - 1)
     IN  \/ /\ ~ HasLine(buf[c]) /\ Go(c, "check")
            /\ UNCHANGED <<running, rebuilding, buf, out>>
         \/ /\ HasLine(buf[c]) /\ LineTooLong(Len(line)) /\ Go(c, "reject")
            /\ UNCHANGED <<running, rebuilding, buf, out>>
         \/ /\ HasLine(buf[c]) /\ ~ LineTooLong(Len(line))
            /\ buf' = [buf EXCEPT ![c] = SubSeq(@, n + 1, Len(@))]
            /\ IF line = <<>>
               THEN UNCHANGED <<running, rebuilding, thread, out>>
               ELSE Handle(line) /\ out' = [out EXCEPT ![c] = line] /\ Go(c, "send")
  /\ UNCHANGED <<connFds, fdOf, table, sock, answers>>

Broken(c) == sock[c].hung \/ "wr" \in sock[c].shut

\* ::send waits for room, and fails when no one is there to read.
Send(c) ==
  /\ thread[c] = "send"
  /\ \/ Broken(c) /\ Go(c, Done) /\ UNCHANGED <<sock, answers>>
     \/ /\ ~ Broken(c) /\ sock[c].unread < Room
        /\ sock' = [sock EXCEPT ![c].unread = @ + 1]
        /\ answers' = [answers EXCEPT ![c] = Append(@, out[c])]
        /\ Go(c, "sent")
  /\ UNCHANGED <<running, rebuilding, connFds, fdOf, buf, out, table>>

\* Faulty: back to recv, with lines still in the buffer.
OneLineOnly(c) ==
  /\ thread[c] = "sent" /\ Go(c, "check")
  /\ UNCHANGED <<running, rebuilding, connFds, fdOf, buf, out, table, sock, answers>>

Sent(c) ==
  /\ thread[c] = "sent"
  /\ Go(c, IF ~ running THEN "check" ELSE IF BufTooLong(buf[c]) THEN "reject" ELSE "lines")
  /\ UNCHANGED <<running, rebuilding, connFds, fdOf, buf, out, table, sock, answers>>

Reject(c) ==
  /\ thread[c] = "reject" /\ Go(c, Done)
  /\ \/ Broken(c) /\ UNCHANGED <<sock, answers>>
     \/ /\ ~ Broken(c) /\ sock[c].unread < Room
        /\ sock' = [sock EXCEPT ![c].unread = @ + 1]
        /\ answers' = [answers EXCEPT ![c] = Append(@, TooBig)]
  /\ UNCHANGED <<running, rebuilding, connFds, fdOf, buf, out, table>>

\* Under connM_.
Erase(c) ==
  /\ thread[c] = "erase" /\ Go(c, Next1("erase"))
  /\ connFds' = [connFds EXCEPT ![fdOf[c]] = 0]
  /\ UNCHANGED <<running, rebuilding, fdOf, buf, out, table, sock, answers>>

Close(c) ==
  /\ thread[c] = "close" /\ Go(c, Next1("close"))
  /\ table' = [table EXCEPT ![fdOf[c]] = noOne]
  /\ UNCHANGED <<running, rebuilding, connFds, fdOf, buf, out, sock, answers>>

Serve(c) ==
  /\ \/ Check(c) \/ Recv(c) \/ Line(c) \/ Send(c) \/ Sent(c) \/ Reject(c)
     \/ Erase(c) \/ Close(c)
  /\ UNCHANGED <<mainVars, backlog, sent>>

RebuildEnds ==
  /\ rebuilding /\ rebuilding' = FALSE
  /\ UNCHANGED <<running, mainVars, connFds, threadVars, kernelVars, sent, answers>>

-----------------------------------------------------------------------------
(* run, then ~Daemon.                                                       *)

Loop ==
  /\ main = "loop" /\ main' = IF running THEN "poll" ELSE "copy"
  /\ UNCHANGED <<accepted, toWake, connFds, thread, fdOf, backlog, table, sock>>

\* poll returns 0.
PollAgain ==
  /\ main = "poll" /\ backlog = <<>> /\ main' = "loop"
  /\ UNCHANGED <<accepted, toWake, connFds, thread, fdOf, backlog, table, sock>>

Free == {fd \in DOMAIN table : table[fd] = noOne}

\* accept gives the lowest descriptor that is free.
Accept ==
  /\ main = "poll" /\ backlog # <<>>
  /\ LET c == Head(backlog) IN
       /\ accepted' = c /\ fdOf' = [fdOf EXCEPT ![c] = Min(Free)]
       /\ table' = [table EXCEPT ![Min(Free)] = c]
  /\ backlog' = Tail(backlog) /\ main' = "register"
  /\ UNCHANGED <<toWake, connFds, thread, sock>>

\* Under connM_.
Register ==
  /\ main = "register" /\ main' = "spawn"
  /\ connFds' = [connFds EXCEPT ![fdOf[accepted]] = @ + 1]
  /\ UNCHANGED <<accepted, toWake, thread, fdOf, backlog, table, sock>>

Spawn ==
  /\ main = "spawn" /\ main' = "loop"
  /\ Go(accepted, "check") /\ accepted' = noOne
  /\ UNCHANGED <<toWake, connFds, fdOf, backlog, table, sock>>

\* Under connM_.
Copy ==
  /\ main = "copy" /\ main' = "wake" /\ toWake' = connFds
  /\ UNCHANGED <<accepted, connFds, thread, fdOf, backlog, table, sock>>

\* Faulty: SHUT_RD.
ReadSideOnly == {"rd"}

ShutRdWr == {"rd", "wr"}

\* ::shutdown of the next descriptor, whoever has it now.
Wake ==
  /\ main = "wake"
  /\ \/ toWake = NoFds /\ main' = "join" /\ UNCHANGED <<toWake, sock>>
     \/ \E fd \in DOMAIN toWake :
          /\ toWake[fd] > 0 /\ toWake' = [toWake EXCEPT ![fd] = @ - 1]
          /\ sock' = [c \in Clients |->
                       IF table[fd] = c THEN [sock[c] EXCEPT !.shut = ShutRdWr] ELSE sock[c]]
          /\ UNCHANGED main
  /\ UNCHANGED <<accepted, connFds, thread, fdOf, backlog, table>>

\* Faulty: the threads are not waited for.
JoinNone ==
  /\ main = "join" /\ main' = "returned"
  /\ UNCHANGED <<accepted, toWake, connFds, thread, fdOf, backlog, table, sock>>

\* The joins, then watcher_.stop() and unlink().
Join ==
  /\ main = "join" /\ \A c \in Clients : thread[c] \in {"none", "done"}
  /\ main' = "returned"
  /\ UNCHANGED <<accepted, toWake, connFds, thread, fdOf, backlog, table, sock>>

\* The destructor closes listenFd_ and with it the connections that nobody
\* accepted.
Destroy ==
  /\ main = "returned" /\ main' = "gone" /\ backlog' = <<>>
  /\ UNCHANGED <<accepted, toWake, connFds, thread, fdOf, table, sock>>

Main ==
  /\ \/ Loop \/ PollAgain \/ Accept \/ Register \/ Spawn
     \/ Copy \/ Wake \/ Join \/ Destroy
  /\ UNCHANGED <<running, rebuilding, buf, out, sent, answers>>

-----------------------------------------------------------------------------

Next == Main \/ RebuildEnds \/ \E c \in Clients : Serve(c) \/ Client(c)

\* Threads get to run.  Of the clients only the readers do their part, and only
\* in that they read.
Spec ==
  /\ Init /\ [][Next]_vars
  /\ WF_vars(Main) /\ WF_vars(RebuildEnds)
  /\ \A c \in Clients : WF_vars(Serve(c))
  /\ \A c \in Readers : WF_vars(Client(c) /\ Read(c))

-----------------------------------------------------------------------------

TypeOK ==
  /\ running \in BOOLEAN /\ rebuilding \in BOOLEAN
  /\ main \in {"loop", "poll", "register", "spawn", "copy", "wake", "join",
               "returned", "gone"}
  /\ accepted \in Clients \union {noOne}
  /\ connFds \in [1..MaxFd -> Nat] /\ toWake \in [1..MaxFd -> Nat]
  /\ thread \in [Clients -> {"none", "check", "recv", "lines", "send", "sent",
                             "reject", "erase", "close", "done"}]
  /\ fdOf \in [Clients -> 0..MaxFd]
  /\ \A c \in Clients : /\ sock[c].unread \in 0..Room
                        /\ Len(buf[c]) <= MaxLine + Chunk
                        /\ thread[c] = "recv" => Len(buf[c]) <= MaxLine
  /\ table \in [1..MaxFd -> Clients \union {noOne}]

Serving(c) == thread[c] \notin {"none", "erase", "close", "done"}

\* The list of connections says, for every thread that serves one, the number
\* that is its own connection now, and no number twice: erasing by value can
\* take no other thread's entry, though the kernel gives numbers out again
\* (serveConnection, the epilogue).
Registered ==
  /\ \A c \in Clients : Serving(c) => connFds[fdOf[c]] > 0 /\ table[fdOf[c]] = c
  /\ \A fd \in DOMAIN connFds : connFds[fd] <= 1

\* When run() has returned no thread is left that uses the daemon, and no
\* connection is open or listed (run, the joins).
NothingLeft ==
  main \in {"returned", "gone"} =>
    /\ connFds = NoFds /\ \A fd \in DOMAIN table : table[fd] = noOne
    /\ \A c \in Clients : thread[c] \in {"none", "done"}

\* Where the lines of what a client wrote end: at each NL and, of what follows
\* the last, after it all.
Ends(w)      == {i \in DOMAIN w : w[i] = NL} \union {Len(w) + 1}
LineTo(w, i) == SubSeq(w, Max({0} \union {j \in 1..(i - 1) : w[j] = NL}) + 1, i - 1)

\* A line too long, or a request for shutdown: nothing after it is answered.
Long(w, i) == Len(LineTo(w, i)) > MaxLine
Stop(w, i) == Long(w, i) \/ (LineTo(w, i) = <<"shutdown">> /\ i <= Len(w))

\* The ends of the lines that are answered, and the answers those bytes ask for.
Due(w)   == {i \in Ends(w) : /\ LineTo(w, i) # <<>> /\ (i <= Len(w) \/ Long(w, i))
                             /\ \A j \in Ends(w) : j < i => ~ Stop(w, j)}
Asked(w) ==
  [n \in 1..Cardinality(Due(w)) |->
     LET i == CHOOSE i \in Due(w) : Cardinality({j \in Due(w) : j <= i}) = n
     IN  IF Long(w, i) THEN TooBig ELSE LineTo(w, i)]

\* However the bytes come in pieces, a client gets the answers its bytes ask
\* for, in order, and no other (serveConnection, the limit of 1 MiB included).
FramingIndependent == \A c \in Clients : IsPrefix(answers[c], Asked(sent[c]))

\* A client that reads gets all its answers, whatever other clients do, unless
\* the daemon shuts down.
Answered ==
  \A c \in Readers :
    (thread[c] # "none" /\ sent[c] # <<>>)
      ~> (answers[c] = Asked(sent[c]) \/ ~ running)

\* After a request for shutdown the daemon ends, also when clients neither
\* read, nor write, nor hang up.
ShutdownEnds == ~ running ~> main = "gone"

\* No thread uses the daemon after its destruction (docs/specs/002: shutdown
\* rules out any use after free).  The thread of a rebuild is detached.
NoUseAfterFree == main = "gone" => ~ rebuilding
=============================================================================
