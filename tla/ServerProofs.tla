----------------------------- MODULE ServerProofs -----------------------------
(* That the list of connections is right, that nothing is left when run()    *)
(* returns, the bound of the buffers, and that the answers do not depend on  *)
(* how the bytes come in pieces, for any number of clients, any bytes they   *)
(* write and any limits.                                                    *)
EXTENDS Server, FiniteSetTheorems, SequenceTheorems, WellFoundedInduction, TLAPS

Mains   == {"loop", "poll", "register", "spawn", "copy", "wake", "join", "returned", "gone"}
Talking == {"check", "recv", "lines", "send", "sent", "reject"}
Threads == Talking \union {"none", "erase", "close", "done"}

\* Everything a client may write.
Units == UNION {UNION {ToSet(w) : w \in WiresOf(c)} : c \in Clients}
Socks == [up : BOOLEAN, in : Seq(Units), unread : 0..Room, shut : SUBSET {"rd", "wr"},
          hung : BOOLEAN]

Types ==
  /\ running \in BOOLEAN /\ rebuilding \in BOOLEAN
  /\ main \in Mains /\ accepted \in Clients \union {noOne}
  /\ connFds \in [1..MaxFd -> Nat] /\ toWake \in [1..MaxFd -> Nat]
  /\ thread \in [Clients -> Threads] /\ fdOf \in [Clients -> 0..MaxFd]
  /\ table \in [1..MaxFd -> Clients \union {noOne}]
  /\ backlog \in Seq(Clients) /\ sock \in [Clients -> Socks]

\* The clients whose connection is open in the daemon, and of them those that
\* the list has.
Holds(c)  == thread[c] \notin {"none", "done"} \/ accepted = c
Listed(c) == thread[c] \notin {"none", "close", "done"} \/ (accepted = c /\ main = "spawn")

\* A thread's number is its connection's, and no open number is without one.
Own    == \A c \in Clients : Holds(c) => fdOf[c] \in 1..MaxFd /\ table[fdOf[c]] = c
Owners == \A fd \in 1..MaxFd :
            table[fd] # noOne => Holds(table[fd]) /\ fdOf[table[fd]] = fd

\* The list is exactly the open numbers, but for the moment before each enters
\* and the one after it is erased.
Lists ==
  \A fd \in 1..MaxFd :
    connFds[fd] = IF table[fd] # noOne /\ Listed(table[fd]) THEN 1 ELSE 0

Accepting ==
  /\ accepted # noOne <=> main \in {"register", "spawn"}
  /\ accepted # noOne => thread[accepted] = "none" /\ sock[accepted].up

\* Who waits to be accepted waits once, and has no thread.
Waiting ==
  /\ \A i \in 1..Len(backlog) :
       thread[backlog[i]] = "none" /\ accepted # backlog[i] /\ sock[backlog[i]].up
  /\ \A i, j \in 1..Len(backlog) : backlog[i] = backlog[j] => i = j
  /\ \A c \in Clients : ~ sock[c].up => thread[c] = "none"

Ended == main \in {"returned", "gone"} => \A c \in Clients : thread[c] \in {"none", "done"}

ServerInv == Types /\ Own /\ Owners /\ Lists /\ Accepting /\ Waiting /\ Ended

\* Without NL and not too long: what recv may add to.
Clean(b) == Len(b) <= MaxLine /\ \A i \in 1..Len(b) : b[i] # NL

\* What follows the first NL came with it, in one recv.
Short(b) == \A i \in 1..Len(b) : b[i] = NL => Len(b) - i < Chunk

BufOK(c) ==
  /\ Len(buf[c]) <= MaxLine + Chunk
  /\ thread[c] \in {"none", "recv"} \/ (thread[c] = "check" /\ running) => Clean(buf[c])
  /\ thread[c] = "lines" => Short(buf[c]) /\ (HasLine(buf[c]) \/ Len(buf[c]) <= MaxLine)
  /\ thread[c] \in {"send", "sent"} => Short(buf[c]) /\ Len(buf[c]) <= MaxLine

BufInv == buf \in [Clients -> Seq(Units)] /\ \A c \in Clients : BufOK(c)

-----------------------------------------------------------------------------

LEMMA InitServer == Init => ServerInv
<1> USE ServerAssumption
<1> SUFFICES ASSUME Init PROVE ServerInv
  OBVIOUS
<1>1. sock \in [Clients -> Socks]
  BY DEF Init, NewSock, Socks
<1>2. Types
  <2>1. connFds \in [1..MaxFd -> Nat] /\ toWake \in [1..MaxFd -> Nat]
    BY DEF Init, NoFds
  <2>2. thread \in [Clients -> Threads] /\ fdOf \in [Clients -> 0..MaxFd]
    BY DEF Init, Threads
  <2>3. table \in [1..MaxFd -> Clients \union {noOne}] /\ backlog \in Seq(Clients)
    BY DEF Init
  <2> QED BY <1>1, <2>1, <2>2, <2>3 DEF Init, Types, Mains
<1>3. Own /\ Owners /\ Lists /\ Accepting /\ Waiting /\ Ended
  BY DEF Init, Own, Owners, Lists, Holds, Listed, Accepting, Waiting, Ended, NoFds
<1> QED BY <1>2, <1>3 DEF ServerInv

\* What a client does to its side leaves the server's order alone.
LEMMA StepSock ==
  ASSUME ServerInv, sock' \in [Clients -> Socks],
         \A c \in Clients : sock'[c].up = sock[c].up,
         UNCHANGED <<running, mainVars, connFds, rebuilding, thread, fdOf, backlog, table>>
  PROVE  ServerInv'
<1>1. Types'
  BY DEF ServerInv, Types, mainVars
<1>2. Own' /\ Owners' /\ Lists' /\ Ended'
  BY DEF ServerInv, Own, Owners, Lists, Holds, Listed, Ended, mainVars
<1>3. Accepting'
  BY ServerAssumption DEF ServerInv, Types, Accepting, mainVars
<1>4. Waiting'
  <2>1. \A i \in 1..Len(backlog) : backlog[i] \in Clients
    BY DEF ServerInv, Types
  <2> QED BY <2>1 DEF ServerInv, Waiting, mainVars
<1> QED BY <1>1, <1>2, <1>3, <1>4 DEF ServerInv

\* Someone new: no thread is its, and it is not accepted nor waits.
LEMMA StepConnect ==
  ASSUME ServerInv, NEW c \in Clients, ~ sock[c].up, main \notin {"returned", "gone"},
         sock' \in [Clients -> Socks],
         sock'[c].up, \A d \in Clients \ {c} : sock'[d].up = sock[d].up,
         backlog' = Append(backlog, c),
         UNCHANGED <<running, mainVars, connFds, rebuilding, thread, fdOf, table>>
  PROVE  ServerInv'
<1>0. Types /\ thread[c] = "none" /\ accepted # c
      /\ \A i \in 1..Len(backlog) : backlog[i] # c
  BY ServerAssumption DEF ServerInv, Waiting, Accepting
<1>1. Types'
  BY <1>0 DEF Types, mainVars
<1>2. Own' /\ Owners' /\ Lists' /\ Ended'
  BY DEF ServerInv, Own, Owners, Lists, Holds, Listed, Ended, mainVars
<1>3. Accepting'
  BY <1>0, ServerAssumption DEF ServerInv, Types, Accepting, mainVars
<1>4. Waiting'
  <2>1. /\ Len(backlog') = Len(backlog) + 1 /\ Len(backlog) \in Nat
        /\ \A i \in 1..Len(backlog) : backlog'[i] = backlog[i] /\ backlog[i] \in Clients
        /\ backlog'[Len(backlog) + 1] = c
    BY <1>0 DEF Types
  <2> QED BY <2>1, <1>0 DEF ServerInv, Waiting, mainVars
<1> QED BY <1>1, <1>2, <1>3, <1>4 DEF ServerInv

LEMMA UnitsOf ==
  ASSUME NEW c \in Clients, NEW w \in WiresOf(c)
  PROVE  w \in Seq(Units)
<1>1. w \in Seq(ToSet(w)) /\ ToSet(w) \subseteq Units
  BY ServerAssumption DEF Units
<1> HIDE DEF Units
<1>2. Len(w) \in Nat /\ w \in [1..Len(w) -> ToSet(w)]
  BY <1>1
<1> QED BY <1>1, <1>2

LEMMA StepClient ==
  ASSUME ServerInv, NEW c \in Clients, Client(c)
  PROVE  ServerInv'
<1>0. sock \in [Clients -> Socks] /\ sock[c] \in Socks
  BY DEF ServerInv, Types
<1>1. CASE Connect(c)
  <2>1. PICK w \in WiresOf(c) : sock' = [sock EXCEPT ![c].up = TRUE, ![c].in = w]
    BY <1>1 DEF Connect
  <2>2. w \in Seq(Units)
    BY UnitsOf
  <2>3. sock' \in [Clients -> Socks] /\ sock'[c].up
    BY <1>0, <2>1, <2>2 DEF Socks
  <2>4. \A d \in Clients \ {c} : sock'[d].up = sock[d].up
    BY <1>0, <2>1
  <2> QED BY <1>1, <2>3, <2>4, StepConnect DEF Client, Connect, threadVars
<1>2. CASE Read(c)
  <2>0. sock[c].unread \in 0..Room /\ sock[c].unread - 1 \in 0..Room
    BY <1>0, <1>2, ServerAssumption DEF Read, Socks
  <2>1. sock' = [sock EXCEPT ![c].unread = sock[c].unread - 1]
    BY <1>2 DEF Read
  <2>2. [sock[c] EXCEPT !.unread = sock[c].unread - 1] \in Socks
    BY <1>0, <2>0 DEF Socks
  <2>3. sock' \in [Clients -> Socks]
    BY <1>0, <2>1, <2>2
  <2>4. \A d \in Clients : sock'[d].up = sock[d].up
    BY <1>0, <2>1 DEF Socks
  <2> QED BY <1>2, <2>3, <2>4, StepSock DEF Client, Read, threadVars
<1>3. CASE HangUp(c)
  <2>1. sock' \in [Clients -> Socks] /\ \A d \in Clients : sock'[d].up = sock[d].up
    BY <1>0, <1>3 DEF HangUp, Socks
  <2> QED BY <1>3, <2>1, StepSock DEF Client, HangUp, threadVars
<1> QED BY <1>1, <1>2, <1>3 DEF Client

\* What a thread does before its epilogue.
LEMMA StepTalk ==
  ASSUME ServerInv, NEW c \in Clients, NEW s \in Talking \union {"erase"},
         thread[c] \in Talking, thread' = [thread EXCEPT ![c] = s],
         sock' \in [Clients -> Socks],
         \A d \in Clients : sock'[d].up = sock[d].up,
         running' \in BOOLEAN, rebuilding' \in BOOLEAN,
         UNCHANGED <<mainVars, connFds, fdOf, backlog, table>>
  PROVE  ServerInv'
<1>0. Types /\ thread'[c] = s /\ \A d \in Clients \ {c} : thread'[d] = thread[d]
  BY DEF ServerInv, Types
<1>1. Types'
  BY <1>0 DEF Types, mainVars, Threads
<1>2. \A d \in Clients : /\ Holds(d)' = Holds(d) /\ Listed(d)' = Listed(d)
                         /\ thread'[d] \in {"none", "done"} <=> thread[d] \in {"none", "done"}
                         /\ thread'[d] = "none" <=> thread[d] = "none"
  BY <1>0 DEF Holds, Listed, Talking, mainVars
<1>7. UNCHANGED <<fdOf, table>> /\ \A d \in Clients : Holds(d)' <=> Holds(d)
  BY <1>2
<1>3. Own' /\ Owners'
  <2>1. Own'
    BY <1>7 DEF ServerInv, Own
  <2>2. ASSUME NEW fd \in 1..MaxFd, table[fd] # noOne
        PROVE  Holds(table[fd])' /\ fdOf'[table[fd]] = fd
    <3>1. table[fd] \in Clients
      BY <1>0, <2>2 DEF Types
    <3>2. Holds(table[fd]) /\ fdOf[table[fd]] = fd
      BY <2>2 DEF ServerInv, Owners
    <3> QED BY <1>7, <3>1, <3>2
  <2>3. Owners'
    BY <1>7, <2>2 DEF Owners
  <2> QED BY <2>1, <2>3
<1>6. Lists'
  <2>1. ASSUME NEW fd \in 1..MaxFd
        PROVE  connFds'[fd] = IF table'[fd] # noOne /\ Listed(table[fd])' THEN 1 ELSE 0
    BY <1>0, <1>2 DEF ServerInv, Types, Lists
  <2> QED BY <2>1 DEF Lists
<1>4. Ended' /\ Accepting'
  BY <1>0, <1>2, ServerAssumption DEF ServerInv, Types, Ended, Accepting, mainVars
<1>5. Waiting'
  <2>1. \A i \in 1..Len(backlog) : backlog[i] \in Clients
    BY DEF ServerInv, Types
  <2> QED BY <1>2, <2>1 DEF ServerInv, Waiting, mainVars
<1> QED BY <1>1, <1>3, <1>4, <1>5, <1>6 DEF ServerInv

\* The order of the epilogue, taken apart.
LEMMA Epilogue == Done = "erase" /\ Next1("erase") = "close" /\ Next1("close") = "done"
<1>1. Order[1] = "erase" /\ Order[2] = "close" /\ Order[3] = "done"
  BY DEF Order
<1>2. \A i \in 2..3 : i = 2 \/ i = 3
  OBVIOUS
<1>3. (CHOOSE i \in 2..3 : Order[i - 1] = "erase") = 2
  BY <1>1, <1>2
<1>4. (CHOOSE i \in 2..3 : Order[i - 1] = "close") = 3
  BY <1>1, <1>2
<1> QED BY <1>1, <1>3, <1>4 DEF Done, Next1

LEMMA StepErase ==
  ASSUME ServerInv, NEW c \in Clients, Erase(c), UNCHANGED <<mainVars, backlog>>
  PROVE  ServerInv'
<1>0. /\ Types /\ thread[c] = "erase" /\ thread' = [thread EXCEPT ![c] = "close"]
      /\ connFds' = [connFds EXCEPT ![fdOf[c]] = 0]
      /\ fdOf[c] \in 1..MaxFd /\ table[fdOf[c]] = c
      /\ UNCHANGED <<running, rebuilding, fdOf, table, sock>>
  BY Epilogue DEF ServerInv, Types, Own, Holds, Erase, Go
<1>1. Types'
  BY <1>0 DEF Types, mainVars, Threads
<1>2. /\ thread'[c] = "close" /\ \A d \in Clients \ {c} : thread'[d] = thread[d]
      /\ \A d \in Clients : Holds(d)' = Holds(d)
      /\ \A d \in Clients \ {c} : Listed(d)' = Listed(d)
  BY <1>0 DEF Types, Holds, Listed, mainVars
<1>3. Own' /\ Owners'
  <2>1. Own'
    BY <1>0, <1>2 DEF ServerInv, Own
  <2>2. ASSUME NEW fd \in 1..MaxFd, table[fd] # noOne
        PROVE  Holds(table[fd])' /\ fdOf[table[fd]] = fd
    <3>1. table[fd] \in Clients
      BY <1>0, <2>2 DEF Types
    <3>2. Holds(table[fd]) /\ fdOf[table[fd]] = fd
      BY <2>2 DEF ServerInv, Owners
    <3>3. Holds(table[fd])' = Holds(table[fd])
      BY <1>0, <1>2, <3>1
    <3> QED BY <3>2, <3>3
  <2>3. Owners'
    BY <1>0, <2>2 DEF Owners
  <2> QED BY <2>1, <2>3
<1>4. accepted # c
  BY <1>0, ServerAssumption DEF ServerInv, Accepting
<1>5. Lists'
  <2>1. ~ Listed(c)'
    BY <1>2, <1>4 DEF Listed, mainVars
  <2>2. \A fd \in 1..MaxFd : table[fd] = c => fd = fdOf[c]
    BY <1>0, ServerAssumption DEF ServerInv, Owners
  <2>3. ASSUME NEW fd \in 1..MaxFd
        PROVE  connFds'[fd] = IF table'[fd] # noOne /\ Listed(table[fd])' THEN 1 ELSE 0
    <3>1. CASE fd = fdOf[c]
      BY <1>0, <2>1, <3>1 DEF Types
    <3>2. CASE fd # fdOf[c]
      <4>1. connFds'[fd] = connFds[fd] /\ (table[fd] # noOne => table[fd] \in Clients \ {c})
        BY <1>0, <2>2, <3>2 DEF Types
      <4> QED BY <1>0, <1>2, <4>1 DEF ServerInv, Lists
    <3> QED BY <3>1, <3>2
  <2> QED BY <1>0, <2>3 DEF Lists
<1>6. Ended' /\ Accepting'
  BY <1>0, <1>2, <1>4, ServerAssumption DEF ServerInv, Types, Ended, Accepting, mainVars
<1>7. Waiting'
  <2>1. \A i \in 1..Len(backlog) : backlog[i] \in Clients
    BY DEF ServerInv, Types
  <2> QED BY <1>0, <1>2, <2>1 DEF ServerInv, Waiting, mainVars
<1> QED BY <1>1, <1>3, <1>5, <1>6, <1>7 DEF ServerInv

LEMMA StepClose ==
  ASSUME ServerInv, NEW c \in Clients, Close(c), UNCHANGED <<mainVars, backlog>>
  PROVE  ServerInv'
<1>0. /\ Types /\ thread[c] = "close" /\ thread' = [thread EXCEPT ![c] = "done"]
      /\ table' = [table EXCEPT ![fdOf[c]] = noOne]
      /\ fdOf[c] \in 1..MaxFd /\ table[fdOf[c]] = c
      /\ UNCHANGED <<running, rebuilding, connFds, fdOf, sock>>
  BY Epilogue DEF ServerInv, Types, Own, Holds, Close, Go
<1>1. Types'
  BY <1>0 DEF Types, mainVars, Threads
<1>2. accepted # c
  BY <1>0, ServerAssumption DEF ServerInv, Accepting
<1>3. /\ thread'[c] = "done" /\ \A d \in Clients \ {c} : thread'[d] = thread[d]
      /\ ~ Holds(c)'
      /\ \A d \in Clients \ {c} : Holds(d)' = Holds(d) /\ Listed(d)' = Listed(d)
  BY <1>0, <1>2 DEF Types, Holds, Listed, mainVars
<1>4. \A fd \in 1..MaxFd : table[fd] = c => fd = fdOf[c]
  BY <1>0, ServerAssumption DEF ServerInv, Owners
<1>5. /\ table'[fdOf[c]] = noOne
      /\ \A fd \in 1..MaxFd : fd # fdOf[c] => table'[fd] = table[fd] /\ table[fd] # c
  BY <1>0, <1>4 DEF Types
<1>6. Own'
  <2>1. ASSUME NEW d \in Clients, Holds(d)'
        PROVE  fdOf'[d] \in 1..MaxFd /\ table'[fdOf'[d]] = d
    <3>1. d # c /\ fdOf[d] \in 1..MaxFd /\ table[fdOf[d]] = d
      BY <1>3, <2>1 DEF ServerInv, Own
    <3> QED BY <1>0, <1>5, <3>1
  <2> QED BY <2>1 DEF Own
<1>7. Owners'
  BY <1>0, <1>3, <1>5 DEF ServerInv, Types, Owners
<1>8. Lists'
  <2>1. ASSUME NEW fd \in 1..MaxFd
        PROVE  connFds'[fd] = IF table'[fd] # noOne /\ Listed(table[fd])' THEN 1 ELSE 0
    <3>1. CASE fd = fdOf[c]
      BY <1>0, <1>2, <1>5, <3>1 DEF ServerInv, Lists, Listed
    <3>2. CASE fd # fdOf[c]
      <4>1. table'[fd] = table[fd] /\ (table[fd] # noOne => table[fd] \in Clients \ {c})
        BY <1>0, <1>5, <3>2 DEF Types
      <4> QED BY <1>0, <1>3, <4>1 DEF ServerInv, Lists
    <3> QED BY <3>1, <3>2
  <2>2. ASSUME NEW fd \in 1..MaxFd, table'[fd] # noOne
        PROVE  table'[fd] = table[fd]
    BY <1>5, <2>2
  <2> QED BY <2>1, <2>2 DEF Lists
<1>9. Ended' /\ Accepting'
  BY <1>0, <1>2, <1>3, ServerAssumption DEF ServerInv, Types, Ended, Accepting, mainVars
<1>10. Waiting'
  <2>1. \A i \in 1..Len(backlog) : backlog[i] \in Clients
    BY DEF ServerInv, Types
  <2>2. \A d \in Clients : thread[d] = "none" => thread'[d] = "none"
    BY <1>0, <1>3
  <2>3. sock[c].up
    BY <1>0 DEF ServerInv, Waiting
  <2> QED BY <1>0, <1>3, <2>1, <2>2, <2>3 DEF ServerInv, Waiting, mainVars
<1> QED BY <1>1, <1>6, <1>7, <1>8, <1>9, <1>10 DEF ServerInv

LEMMA MinOfTwo ==
  ASSUME NEW a \in Nat, NEW b \in Nat
  PROVE  Min({a, b}) \in Nat /\ Min({a, b}) <= a /\ Min({a, b}) <= b
<1>1. \E x \in {a, b} : \A y \in {a, b} : x =< y
  OBVIOUS
<1>2. Min({a, b}) \in {a, b} /\ \A y \in {a, b} : Min({a, b}) =< y
  BY <1>1 DEF Min
<1> QED BY <1>2

\* recv takes from what the client wrote, and an answer waits for the client.
LEMMA SockTaken ==
  ASSUME sock \in [Clients -> Socks], NEW c \in Clients, NEW k \in Nat,
         sock' = [sock EXCEPT ![c].in = SubSeq(@, k + 1, Len(@))]
  PROVE  sock' \in [Clients -> Socks] /\ \A d \in Clients : sock'[d].up = sock[d].up
<1> DEFINE rest == SubSeq(sock[c].in, k + 1, Len(sock[c].in))
<1>1. rest \in Seq(Units)
  BY DEF Socks
<1>2. sock' = [sock EXCEPT ![c] = [sock[c] EXCEPT !.in = rest]]
  OBVIOUS
<1> HIDE DEF rest
<1>3. [sock[c] EXCEPT !.in = rest] \in Socks /\ [sock[c] EXCEPT !.in = rest].up = sock[c].up
  BY <1>1 DEF Socks
<1> QED BY <1>2, <1>3

LEMMA SockAnswered ==
  ASSUME sock \in [Clients -> Socks], NEW c \in Clients, sock[c].unread < Room,
         sock' = [sock EXCEPT ![c].unread = @ + 1]
  PROVE  sock' \in [Clients -> Socks] /\ \A d \in Clients : sock'[d].up = sock[d].up
<1>1. sock[c].unread + 1 \in 0..Room
  BY ServerAssumption DEF Socks
<1>2. [sock[c] EXCEPT !.unread = sock[c].unread + 1] \in Socks
      /\ [sock[c] EXCEPT !.unread = sock[c].unread + 1].up = sock[c].up
  BY <1>1 DEF Socks
<1> QED BY <1>2

LEMMA StepServe ==
  ASSUME ServerInv, NEW c \in Clients, Serve(c)
  PROVE  ServerInv'
<1>0. /\ sock \in [Clients -> Socks] /\ sock[c] \in Socks /\ thread \in [Clients -> Threads]
      /\ running \in BOOLEAN /\ rebuilding \in BOOLEAN
      /\ UNCHANGED <<mainVars, backlog>>
  BY DEF ServerInv, Types, Serve
<1> DEFINE Talks(s) == thread[c] \in Talking /\ thread' = [thread EXCEPT ![c] = s]
           Quiet == sock' \in [Clients -> Socks] /\ \A d \in Clients : sock'[d].up = sock[d].up
<1>1. CASE Check(c)
  <2> PICK s \in {"recv", "erase"} : Talks(s)
    BY <1>1, Epilogue DEF Check, Go, Talking
  <2> QED BY <1>0, <1>1, StepTalk DEF Check, Talking
<1>2. CASE Recv(c)
  <2>1. PICK s \in {"reject", "lines", "erase"} : Talks(s)
    BY <1>2, Epilogue DEF Recv, Go, Talking
  <2>2. Quiet
    <3>1. CASE UNCHANGED sock
      BY <1>0, <3>1
    <3>2. CASE \E k \in 1..Min({Chunk, Len(sock[c].in)}) :
                 sock' = [sock EXCEPT ![c].in = SubSeq(@, k + 1, Len(@))]
      <4>1. Min({Chunk, Len(sock[c].in)}) \in Nat
        <5>1. sock[c].in \in Seq(Units)
          BY <1>0 DEF Socks
        <5>2. Chunk \in Nat /\ Len(sock[c].in) \in Nat
          BY <5>1, ServerAssumption
        <5> QED BY <5>2, MinOfTwo
      <4>2. 1..Min({Chunk, Len(sock[c].in)}) \subseteq Nat
        BY <4>1
      <4>3. PICK k \in Nat : sock' = [sock EXCEPT ![c].in = SubSeq(@, k + 1, Len(@))]
        BY <3>2, <4>2
      <4> QED BY <1>0, <4>3, SockTaken
    <3> QED BY <1>2, <3>1, <3>2 DEF Recv
  <2> QED BY <1>0, <1>2, <2>1, <2>2, StepTalk DEF Recv, Talking
<1>3. CASE Line(c)
  <2>1. PICK s \in {"check", "reject", "lines", "send"} : Talks(s)
    BY <1>0, <1>3 DEF Line, Go, Talking
  <2>2. running' \in BOOLEAN /\ rebuilding' \in BOOLEAN
    BY <1>0, <1>3 DEF Line, Handle
  <2> QED BY <1>0, <1>3, <2>1, <2>2, StepTalk DEF Line, Talking
<1>4. CASE Send(c)
  <2>1. PICK s \in {"erase", "sent"} : Talks(s)
    BY <1>4, Epilogue DEF Send, Go, Talking
  <2>2. Quiet
    BY <1>0, <1>4, SockAnswered DEF Send
  <2> QED BY <1>0, <1>4, <2>1, <2>2, StepTalk DEF Send, Talking
<1>5. CASE Sent(c)
  <2> PICK s \in {"check", "reject", "lines"} : Talks(s)
    BY <1>5 DEF Sent, Go, Talking
  <2> QED BY <1>0, <1>5, StepTalk DEF Sent, Talking
<1>6. CASE Reject(c)
  <2>1. Talks("erase")
    BY <1>6, Epilogue DEF Reject, Go, Talking
  <2>2. Quiet
    BY <1>0, <1>6, SockAnswered DEF Reject
  <2> QED BY <1>0, <1>6, <2>1, <2>2, StepTalk DEF Reject, Talking
<1> QED BY <1>0, <1>1, <1>2, <1>3, <1>4, <1>5, <1>6, StepErase, StepClose DEF Serve

-----------------------------------------------------------------------------

\* There is a number for who is accepted: each other client has at most one.
LEMMA FreeToAccept ==
  ASSUME ServerInv, NEW c \in Clients, ~ Holds(c)
  PROVE  Free # {}
<1>1. SUFFICES ASSUME Free = {} PROVE FALSE
  OBVIOUS
<1>0. Types
  BY DEF ServerInv
<1>2. table \in [1..MaxFd -> Clients \ {c}]
  <2>1. \A fd \in 1..MaxFd : table[fd] # noOne /\ table[fd] # c
    BY <1>0, <1>1, ServerAssumption DEF Free, Types, ServerInv, Owners
  <2> QED BY <1>0, <2>1 DEF Types
<1>3. \A i, j \in 1..MaxFd : table[i] = table[j] => i = j
  BY <1>2, ServerAssumption DEF ServerInv, Owners
<1>4. table \in Injection(1..MaxFd, Clients \ {c})
  BY <1>2, <1>3 DEF Injection, IsInjective
<1>5. IsFiniteSet(Clients \ {c}) /\ Cardinality(Clients \ {c}) = Cardinality(Clients) - 1
      /\ Cardinality(Clients) \in Nat
  BY ServerAssumption, FS_RemoveElement, FS_CardinalityType
<1>6. Cardinality(1..MaxFd) <= Cardinality(Clients \ {c})
  BY <1>4, <1>5, FS_Injection
<1>7. Cardinality(1..MaxFd) = MaxFd
  BY ServerAssumption, FS_Interval
<1> QED BY <1>5, <1>6, <1>7, ServerAssumption

\* A non-empty set of naturals has its least number.
LEMMA MinOfSet ==
  ASSUME NEW S, S \subseteq Nat, S # {}
  PROVE  Min(S) \in S /\ \A k \in S : Min(S) =< k
<1> DEFINE R == OpToRel(<, Nat)
<1>1. IsWellFoundedOn(R, Nat)
  BY NatLessThanWellFounded
<1>2. \A k, m \in Nat : k < m => <<k, m>> \in R
  BY DEF OpToRel
<1> HIDE DEF R
<1>3. PICK m \in S : \A k \in S : <<k, m>> \notin R
  BY <1>1, WFMin
<1>4. ASSUME NEW k \in S PROVE m =< k
  <2>1. k \in Nat /\ m \in Nat /\ ~ (k < m)
    BY <1>2, <1>3
  <2> QED BY <2>1
<1> QED BY <1>4 DEF Min

\* A step of the main thread that neither accepts nor starts anything.
LEMMA StepQuiet ==
  ASSUME ServerInv, main \notin {"register", "spawn"}, main' \in Mains \ {"register", "spawn"},
         backlog' \in {backlog, <<>>}, toWake' \in [1..MaxFd -> Nat],
         sock' \in [Clients -> Socks], \A c \in Clients : sock'[c].up = sock[c].up,
         main' \in {"returned", "gone"} => \A c \in Clients : thread[c] \in {"none", "done"},
         UNCHANGED <<running, rebuilding, accepted, connFds, thread, fdOf, table>>
  PROVE  ServerInv'
<1>0. Types /\ accepted = noOne
  BY DEF ServerInv, Accepting
<1>1. Types'
  <2>1. backlog \in Seq(Clients) /\ <<>> \in Seq(Clients)
    BY <1>0 DEF Types
  <2> QED BY <1>0, <2>1 DEF Types
<1>2. Own' /\ Owners' /\ Lists' /\ Accepting' /\ Ended'
  BY <1>0 DEF ServerInv, Own, Owners, Lists, Holds, Listed, Accepting, Ended
<1>3. Waiting'
  <2>1. \A i \in 1..Len(backlog) : backlog[i] \in Clients
    BY <1>0 DEF Types
  <2>2. CASE backlog' = backlog
    BY <1>0, <2>1, <2>2 DEF ServerInv, Waiting
  <2>3. CASE backlog' = <<>>
    BY <1>0, <2>3 DEF ServerInv, Waiting
  <2> QED BY <2>2, <2>3
<1> QED BY <1>1, <1>2, <1>3 DEF ServerInv

LEMMA StepWake ==
  ASSUME ServerInv, Wake, UNCHANGED <<running, rebuilding>>
  PROVE  ServerInv'
<1>0. Types /\ main = "wake" /\ main' \in {"wake", "join"}
  BY DEF ServerInv, Wake
<1>1. CASE UNCHANGED <<toWake, sock>>
  BY <1>0, <1>1, StepQuiet DEF Wake, Types, Mains
<1>2. CASE \E fd \in DOMAIN toWake :
             /\ toWake[fd] > 0 /\ toWake' = [toWake EXCEPT ![fd] = @ - 1]
             /\ sock' = [c \in Clients |->
                          IF table[fd] = c THEN [sock[c] EXCEPT !.shut = ShutRdWr] ELSE sock[c]]
  <2>1. PICK fd \in 1..MaxFd :
             /\ toWake[fd] > 0 /\ toWake' = [toWake EXCEPT ![fd] = @ - 1]
             /\ sock' = [c \in Clients |->
                          IF table[fd] = c THEN [sock[c] EXCEPT !.shut = ShutRdWr] ELSE sock[c]]
    BY <1>0, <1>2 DEF Types
  <2>2. toWake' \in [1..MaxFd -> Nat]
    BY <1>0, <2>1 DEF Types
  <2>3. \A c \in Clients : /\ [sock[c] EXCEPT !.shut = ShutRdWr] \in Socks
                           /\ [sock[c] EXCEPT !.shut = ShutRdWr].up = sock[c].up
    BY <1>0 DEF Types, Socks, ShutRdWr
  <2>4. sock' \in [Clients -> Socks] /\ \A c \in Clients : sock'[c].up = sock[c].up
    BY <1>0, <2>1, <2>3 DEF Types
  <2> QED BY <1>0, <2>2, <2>4, StepQuiet DEF Wake, Mains
<1> QED BY <1>1, <1>2 DEF Wake

LEMMA StepAccept ==
  ASSUME ServerInv, Accept, UNCHANGED <<running, rebuilding>>
  PROVE  ServerInv'
<1>0. Types /\ backlog # <<>> /\ main = "poll" /\ main' = "register" /\ accepted = noOne
  BY DEF ServerInv, Accept, Accepting
<1>a. PICK c \in Clients : c = Head(backlog)
  BY <1>0 DEF Types
<1>1. /\ c = backlog[1] /\ Len(backlog) \in Nat \ {0}
      /\ Len(backlog') = Len(backlog) - 1
      /\ \A i \in 1..Len(backlog') : backlog'[i] = backlog[i + 1] /\ backlog[i + 1] \in Clients
      /\ backlog' \in Seq(Clients)
  BY <1>0, <1>a DEF Types, Accept
<1>2. thread[c] = "none" /\ sock[c].up /\ c # noOne
  BY <1>1, ServerAssumption DEF ServerInv, Waiting
<1>3. PICK f \in 1..MaxFd : f = Min(Free) /\ table[f] = noOne
  <2>1. Free # {}
    BY <1>0, <1>1, <1>2, FreeToAccept DEF Holds
  <2>2. Free \subseteq Nat
    BY <1>0 DEF Free, Types
  <2>3. Min(Free) \in Free
    BY <2>1, <2>2, MinOfSet
  <2> QED BY <1>0, <2>3 DEF Free, Types
<1>4. /\ accepted' = c /\ fdOf' = [fdOf EXCEPT ![c] = f] /\ table' = [table EXCEPT ![f] = c]
      /\ UNCHANGED <<toWake, connFds, thread, sock>>
  BY <1>a, <1>3 DEF Accept
<1>5. Types'
  BY <1>0, <1>1, <1>3, <1>4 DEF Types, Mains
<1>6. /\ Holds(c)' /\ ~ Listed(c)'
      /\ \A d \in Clients \ {c} : Holds(d)' = Holds(d) /\ Listed(d)' = Listed(d)
  <2>1. Holds(c)' /\ ~ Listed(c)'
    BY <1>0, <1>2, <1>4 DEF Holds, Listed
  <2>2. ASSUME NEW d \in Clients \ {c}
        PROVE  Holds(d)' = Holds(d) /\ Listed(d)' = Listed(d)
    BY <1>0, <1>4, ServerAssumption DEF Holds, Listed
  <2> QED BY <2>1, <2>2
<1>7. /\ fdOf'[c] = f /\ \A d \in Clients \ {c} : fdOf'[d] = fdOf[d]
      /\ table'[f] = c /\ \A fd \in (1..MaxFd) \ {f} : table'[fd] = table[fd]
      /\ \A fd \in 1..MaxFd : table[fd] # c
  <2>1. ~ Holds(c)
    BY <1>0, <1>2 DEF Holds
  <2> QED BY <1>0, <1>1, <1>2, <1>3, <1>4, <2>1 DEF ServerInv, Types, Owners
<1>8. Own'
  <2>1. ASSUME NEW d \in Clients \ {c}, Holds(d)'
        PROVE  fdOf'[d] \in 1..MaxFd /\ table'[fdOf'[d]] = d
    <3>1. fdOf[d] \in 1..MaxFd /\ table[fdOf[d]] = d /\ d # noOne
      BY <1>6, <2>1, ServerAssumption DEF ServerInv, Own
    <3> QED BY <1>3, <1>7, <3>1
  <2> QED BY <1>3, <1>7, <2>1 DEF Own
<1>9. Owners'
  <2>1. ASSUME NEW fd \in 1..MaxFd, NEW d \in Clients, table'[fd] = d
        PROVE  Holds(d)' /\ fdOf'[d] = fd
    <3>1. CASE fd = f
      <4>1. d = c
        BY <1>7, <2>1, <3>1
      <4> QED BY <1>6, <1>7, <3>1, <4>1
    <3>2. CASE fd # f
      <4>1. table[fd] = d /\ d # c /\ d # noOne
        BY <1>7, <2>1, <3>2, ServerAssumption
      <4>2. Holds(d) /\ fdOf[d] = fd
        BY <4>1 DEF ServerInv, Owners
      <4> QED BY <1>6, <1>7, <4>1, <4>2
    <3> QED BY <3>1, <3>2
  <2>2. \A fd \in 1..MaxFd : table'[fd] # noOne => table'[fd] \in Clients
    BY <1>5 DEF Types
  <2> QED BY <2>1, <2>2 DEF Owners, Holds
<1>10. Lists'
  <2>1. ASSUME NEW fd \in 1..MaxFd
        PROVE  connFds'[fd] = IF table'[fd] # noOne /\ Listed(table[fd])' THEN 1 ELSE 0
    <3>1. CASE fd = f
      BY <1>3, <1>4, <1>6, <1>7, <3>1 DEF ServerInv, Lists
    <3>2. CASE fd # f
      <4>1. table'[fd] = table[fd] /\ (table[fd] # noOne => table[fd] \in Clients \ {c})
        BY <1>0, <1>7, <3>2 DEF Types
      <4> QED BY <1>4, <1>6, <4>1 DEF ServerInv, Lists
    <3> QED BY <3>1, <3>2
  <2> QED BY <2>1 DEF Lists
<1>11. Accepting' /\ Ended'
  BY <1>0, <1>2, <1>4 DEF Accepting, Ended
<1>12. Waiting'
  <2>1. \A i \in 1..Len(backlog) :
          thread[backlog[i]] = "none" /\ sock[backlog[i]].up /\ (backlog[i] = c => i = 1)
    BY <1>1 DEF ServerInv, Waiting
  <2>2. \A i \in 1..Len(backlog') : i + 1 \in 1..Len(backlog) /\ i + 1 # 1
    BY <1>1
  <2>3. ASSUME NEW i \in 1..Len(backlog')
        PROVE  thread'[backlog'[i]] = "none" /\ accepted' # backlog'[i] /\ sock'[backlog'[i]].up
    BY <1>1, <1>4, <2>1, <2>2
  <2>4. ASSUME NEW i \in 1..Len(backlog'), NEW j \in 1..Len(backlog'), backlog'[i] = backlog'[j]
        PROVE  i = j
    <3>1. i + 1 = j + 1
      BY <1>1, <2>2, <2>4 DEF ServerInv, Waiting
    <3> QED BY <1>1, <3>1
  <2>5. \A d \in Clients : ~ sock'[d].up => thread'[d] = "none"
    BY <1>4 DEF ServerInv, Waiting
  <2> QED BY <2>3, <2>4, <2>5 DEF Waiting
<1> QED BY <1>5, <1>8, <1>9, <1>10, <1>11, <1>12 DEF ServerInv

LEMMA StepRegister ==
  ASSUME ServerInv, Register, UNCHANGED <<running, rebuilding>>
  PROVE  ServerInv'
<1>0. /\ Types /\ main = "register" /\ main' = "spawn"
      /\ UNCHANGED <<accepted, toWake, thread, fdOf, backlog, table, sock>>
  BY DEF ServerInv, Register
<1>1. PICK c \in Clients : c = accepted /\ thread[c] = "none"
  BY <1>0 DEF ServerInv, Types, Accepting
<1>2. PICK f \in 1..MaxFd : f = fdOf[c] /\ table[f] = c
  BY <1>1 DEF ServerInv, Own, Holds
<1>3. connFds' = [connFds EXCEPT ![f] = @ + 1]
  BY <1>1, <1>2 DEF Register
<1>4. Types'
  <2>1. connFds' \in [1..MaxFd -> Nat]
    <3>1. connFds \in [1..MaxFd -> Nat] /\ connFds[f] \in Nat
      BY <1>0 DEF Types
    <3>2. connFds[f] + 1 \in Nat
      BY <3>1
    <3> QED BY <1>3, <3>1, <3>2
  <2> QED BY <1>0, <2>1 DEF Types, Mains
<1>5. ~ Listed(c) /\ Listed(c)' /\ \A d \in Clients \ {c} : Listed(d)' = Listed(d)
  BY <1>0, <1>1 DEF Listed
<1>6. Own' /\ Owners'
  BY <1>0 DEF ServerInv, Own, Owners, Holds
<1>7. Lists'
  <2>1. \A fd \in 1..MaxFd : table[fd] = c => fd = f
    BY <1>2, ServerAssumption DEF ServerInv, Owners
  <2>2. ASSUME NEW fd \in 1..MaxFd
        PROVE  connFds'[fd] = IF table'[fd] # noOne /\ Listed(table[fd])' THEN 1 ELSE 0
    <3>1. CASE fd = f
      <4>1. connFds[f] = 0
        BY <1>2, <1>5 DEF ServerInv, Lists
      <4> QED BY <1>0, <1>2, <1>3, <1>5, <3>1, <4>1, ServerAssumption DEF Types
    <3>2. CASE fd # f
      <4>1. table[fd] # noOne => table[fd] \in Clients \ {c}
        BY <1>0, <2>1, <3>2 DEF Types
      <4>2. connFds'[fd] = connFds[fd]
        BY <1>0, <1>3, <3>2 DEF Types
      <4> QED BY <1>0, <1>5, <4>1, <4>2 DEF ServerInv, Lists
    <3> QED BY <3>1, <3>2
  <2> QED BY <2>2 DEF Lists
<1>8. Accepting' /\ Waiting' /\ Ended'
  BY <1>0 DEF ServerInv, Accepting, Waiting, Ended
<1> QED BY <1>4, <1>6, <1>7, <1>8 DEF ServerInv

LEMMA StepSpawn ==
  ASSUME ServerInv, Spawn, UNCHANGED <<running, rebuilding>>
  PROVE  ServerInv'
<1>0. /\ Types /\ main = "spawn" /\ main' = "loop" /\ accepted' = noOne
      /\ UNCHANGED <<toWake, connFds, fdOf, backlog, table, sock>>
  BY DEF ServerInv, Spawn
<1>1. PICK c \in Clients : c = accepted /\ thread[c] = "none" /\ sock[c].up
  BY <1>0 DEF ServerInv, Types, Accepting
<1>2. thread' = [thread EXCEPT ![c] = "check"]
  BY <1>1 DEF Spawn, Go
<1>3. Types'
  BY <1>0, <1>2 DEF Types, Mains, Threads, Talking
<1>4. thread'[c] = "check" /\ \A d \in Clients \ {c} : thread'[d] = thread[d]
  BY <1>0, <1>2 DEF Types
<1>5. \A d \in Clients : (Holds(d)' <=> Holds(d)) /\ (Listed(d)' <=> Listed(d))
  <2>1. Holds(c) /\ Holds(c)' /\ Listed(c) /\ Listed(c)'
    BY <1>0, <1>1, <1>4 DEF Holds, Listed
  <2>2. ASSUME NEW d \in Clients \ {c}
        PROVE  (Holds(d)' <=> Holds(d)) /\ (Listed(d)' <=> Listed(d))
    <3>1. thread'[d] = thread[d] /\ accepted # d /\ accepted' # d
      BY <1>0, <1>1, <1>4, ServerAssumption
    <3>2. Holds(d) <=> thread[d] \notin {"none", "done"}
      BY <3>1 DEF Holds
    <3>3. Listed(d) <=> thread[d] \notin {"none", "close", "done"}
      BY <3>1 DEF Listed
    <3>4. Holds(d)' <=> thread'[d] \notin {"none", "done"}
      BY <3>1 DEF Holds
    <3>5. Listed(d)' <=> thread'[d] \notin {"none", "close", "done"}
      BY <3>1 DEF Listed
    <3> QED BY <3>1, <3>2, <3>3, <3>4, <3>5
  <2> QED BY <2>1, <2>2
<1>6. Own' /\ Owners'
  BY <1>0, <1>5 DEF ServerInv, Types, Own, Owners
<1>7. Lists'
  <2>1. ASSUME NEW fd \in 1..MaxFd
        PROVE  connFds'[fd] = IF table'[fd] # noOne /\ Listed(table[fd])' THEN 1 ELSE 0
    BY <1>0, <1>5 DEF ServerInv, Types, Lists
  <2> QED BY <2>1 DEF Lists
<1>8. Accepting' /\ Ended'
  BY <1>0 DEF Accepting, Ended
<1>9. Waiting'
  <2>1. \A i \in 1..Len(backlog) : backlog[i] \in Clients \ {c}
    BY <1>0, <1>1 DEF ServerInv, Types, Waiting
  <2> QED BY <1>0, <1>1, <1>4, <2>1, ServerAssumption DEF ServerInv, Waiting
<1> QED BY <1>3, <1>6, <1>7, <1>8, <1>9 DEF ServerInv

LEMMA StepMain == ServerInv /\ Main => ServerInv'
<1> SUFFICES ASSUME ServerInv, Main PROVE ServerInv'
  OBVIOUS
<1>0. /\ Types /\ UNCHANGED <<running, rebuilding>> /\ backlog \in {backlog, <<>>}
      /\ sock \in [Clients -> Socks] /\ toWake \in [1..MaxFd -> Nat]
  BY DEF ServerInv, Types, Main
<1>1. CASE Loop
  BY <1>0, <1>1, StepQuiet DEF Loop, Mains
<1>2. CASE PollAgain
  BY <1>0, <1>2, StepQuiet DEF PollAgain, Mains
<1>3. CASE Copy
  <2>1. connFds \in [1..MaxFd -> Nat]
    BY <1>0 DEF Types
  <2> QED BY <1>0, <1>3, <2>1, StepQuiet DEF Copy, Mains
<1>4. CASE Join
  BY <1>0, <1>4, StepQuiet DEF Join, Mains
<1>5. CASE Destroy
  <2>1. \A c \in Clients : thread[c] \in {"none", "done"}
    BY <1>5 DEF ServerInv, Ended, Destroy
  <2> QED BY <1>0, <1>5, <2>1, StepQuiet DEF Destroy, Mains
<1> QED BY <1>0, <1>1, <1>2, <1>3, <1>4, <1>5, StepWake, StepAccept, StepRegister, StepSpawn
        DEF Main

LEMMA StepServer == ServerInv /\ [Next]_vars => ServerInv'
<1> SUFFICES ASSUME ServerInv, [Next]_vars PROVE ServerInv'
  OBVIOUS
<1>0. sock \in [Clients -> Socks] /\ Types
  BY DEF ServerInv, Types
<1>1. CASE UNCHANGED vars
  BY <1>0, <1>1, StepSock DEF vars, mainVars, threadVars, kernelVars
<1>2. CASE RebuildEnds
  <2>1. Types'
    BY <1>0, <1>2 DEF RebuildEnds, Types, mainVars, threadVars, kernelVars
  <2>2. Own' /\ Owners' /\ Lists' /\ Accepting' /\ Waiting' /\ Ended'
    BY <1>2 DEF RebuildEnds, ServerInv, Own, Owners, Lists, Accepting, Waiting, Ended,
                Holds, Listed, mainVars, threadVars, kernelVars
  <2> QED BY <2>1, <2>2 DEF ServerInv
<1> QED BY <1>1, <1>2, StepMain, StepServe, StepClient DEF Next

LEMMA AlwaysServer == Spec => []ServerInv
BY InitServer, StepServer, PTL DEF Spec

\* For any number of clients: while a thread serves a connection, the list has
\* its number, that number is its own connection, and no number stands in the
\* list twice, so that erasing by value takes away no other thread's entry
\* (serveConnection and run).
THEOREM RegisteredAlways == Spec => []Registered
<1>1. ServerInv => Registered
  <2> SUFFICES ASSUME ServerInv PROVE Registered
    OBVIOUS
  <2>1. Types
    BY DEF ServerInv
  <2>2. ASSUME NEW c \in Clients, Serving(c)
        PROVE  connFds[fdOf[c]] > 0 /\ table[fdOf[c]] = c
    <3>1. Holds(c) /\ Listed(c) /\ c # noOne
      BY <2>2, ServerAssumption DEF Serving, Holds, Listed
    <3> QED BY <3>1 DEF ServerInv, Own, Lists
  <2>3. \A fd \in 1..MaxFd : connFds[fd] <= 1
    BY <2>1 DEF ServerInv, Lists
  <2> QED BY <2>1, <2>2, <2>3 DEF Types, Registered
<1> QED BY <1>1, AlwaysServer, PTL

\* For any number of clients and whatever they do: when run() has returned no
\* thread of a connection is left, none is open, and none is listed, also of
\* those accepted while the daemon was told to stop (run, the joins).
THEOREM NothingLeftAlways == Spec => []NothingLeft
<1>1. ServerInv => NothingLeft
  <2> SUFFICES ASSUME ServerInv, main \in {"returned", "gone"}
               PROVE  /\ connFds = NoFds /\ \A fd \in DOMAIN table : table[fd] = noOne
                      /\ \A c \in Clients : thread[c] \in {"none", "done"}
    BY DEF NothingLeft
  <2>1. Types /\ accepted = noOne /\ \A c \in Clients : thread[c] \in {"none", "done"}
    BY DEF ServerInv, Accepting, Ended
  <2>2. \A fd \in 1..MaxFd : table[fd] = noOne
    BY <2>1, ServerAssumption DEF ServerInv, Types, Owners, Holds
  <2>3. \A fd \in 1..MaxFd : connFds[fd] = 0
    BY <2>2 DEF ServerInv, Lists
  <2> QED BY <2>1, <2>2, <2>3 DEF Types, NoFds
<1> QED BY <1>1, AlwaysServer, PTL

-----------------------------------------------------------------------------
(* The bytes that a thread has taken and not answered yet.                  *)

\* Only the thread itself and the main thread that starts it are seen here.
LEMMA BufSame ==
  ASSUME BufInv, UNCHANGED buf, running' => running,
         \A c \in Clients : thread'[c] = thread[c] \/ (thread[c] = "none" /\ thread'[c] = "check")
  PROVE  BufInv'
BY DEF BufInv, BufOK

\* The buffer of one thread and where it goes on.
LEMMA BufOne ==
  ASSUME BufInv, NEW c \in Clients, running' => running, BufOK(c)',
         buf' \in [Clients -> Seq(Units)],
         \A d \in Clients \ {c} : buf'[d] = buf[d] /\ thread'[d] = thread[d]
  PROVE  BufInv'
<1>1. \A d \in Clients \ {c} : BufOK(d)'
  BY DEF BufInv, BufOK
<1> QED BY <1>1 DEF BufInv

LEMMA HasLineIff ==
  ASSUME NEW b \in Seq(Units)
  PROVE  HasLine(b) <=> \E i \in 1..Len(b) : b[i] = NL
BY DEF HasLine, ToSet

\* Cut is where the first line ends.
LEMMA CutFirst ==
  ASSUME NEW b \in Seq(Units), HasLine(b)
  PROVE  Cut(b) \in 1..Len(b) /\ b[Cut(b)] = NL /\ \A j \in 1..(Cut(b) - 1) : b[j] # NL
<1> DEFINE S == {i \in 1..Len(b) : b[i] = NL}
<1>1. S # {} /\ S \subseteq Nat
  BY HasLineIff
<1>2. Min(S) \in S /\ \A j \in S : Min(S) =< j
  BY <1>1, MinOfSet
<1>3. Min(S) \in DOMAIN b /\ b[Min(S)] = NL /\ \A j \in 1..(Min(S) - 1) : b[j] # NL
  <2> DEFINE m == Min(S)
  <2>1. m \in 1..Len(b) /\ b[m] = NL /\ \A j \in S : m =< j
    BY <1>2
  <2> HIDE DEF m
  <2>2. \A j \in 1..(m - 1) : b[j] # NL
    BY <2>1
  <2>3. m \in DOMAIN b
    BY <2>1
  <2> QED BY <2>1, <2>2, <2>3 DEF m
<1>4. Cut(b) \in DOMAIN b /\ b[Cut(b)] = NL /\ \A j \in 1..(Cut(b) - 1) : b[j] # NL
  BY <1>3 DEF Cut
<1> QED BY <1>4

\* What recv appends can be followed by less than Chunk after its first NL.
LEMMA BufRecv ==
  ASSUME ServerInv, BufInv, NEW c \in Clients, Recv(c)
  PROVE  BufInv'
<1>0. /\ buf \in [Clients -> Seq(Units)] /\ buf[c] \in Seq(Units) /\ Len(buf[c]) \in Nat
      /\ Clean(buf[c]) /\ running' = running /\ thread \in [Clients -> Threads]
      /\ sock[c].in \in Seq(Units) /\ MaxLine \in Nat /\ Chunk \in Nat
  BY ServerAssumption DEF ServerInv, Types, Socks, BufInv, BufOK, Recv
<1>1. CASE UNCHANGED buf /\ Go(c, Done)
  <2>1. BufOK(c)'
    BY <1>0, <1>1, Epilogue DEF BufInv, BufOK, Go
  <2> QED BY <1>0, <1>1, <2>1, BufOne DEF Go
<1>2. CASE \E k \in 1..Min({Chunk, Len(sock[c].in)}) :
             /\ buf' = [buf EXCEPT ![c] = @ \o SubSeq(sock[c].in, 1, k)]
             /\ Go(c, IF BufTooLong(buf'[c]) THEN "reject" ELSE "lines")
  <2>1. Len(sock[c].in) \in Nat
    BY <1>0
  <2>2. /\ Min({Chunk, Len(sock[c].in)}) \in Nat /\ Min({Chunk, Len(sock[c].in)}) <= Chunk
        /\ Min({Chunk, Len(sock[c].in)}) <= Len(sock[c].in)
    BY <1>0, <2>1, MinOfTwo
  <2>3. PICK k \in Nat :
             /\ k <= Chunk /\ k <= Len(sock[c].in)
             /\ buf' = [buf EXCEPT ![c] = buf[c] \o SubSeq(sock[c].in, 1, k)]
             /\ Go(c, IF BufTooLong(buf'[c]) THEN "reject" ELSE "lines")
    <3>1. \A k \in 1..Min({Chunk, Len(sock[c].in)}) :
            k \in Nat /\ k <= Chunk /\ k <= Len(sock[c].in)
      BY <1>0, <2>1, <2>2
    <3> QED BY <1>2, <3>1
  <2>4. PICK b \in Seq(Units) : b = buf[c] \o SubSeq(sock[c].in, 1, k)
    <3>1. \A i \in 1..k : sock[c].in[i] \in Units
      BY <1>0, <2>3, ElementOfSeq
    <3>2. SubSeq(sock[c].in, 1, k) \in Seq(Units)
      BY <2>3, <3>1, SubSeqProperties
    <3> QED BY <1>0, <3>2, ConcatProperties
  <2>5. /\ Len(b) = Len(buf[c]) + k /\ Len(b) \in Nat
        /\ \A i \in 1..Len(buf[c]) : b[i] = buf[c][i]
    BY <1>0, <2>3, <2>4
  <2>6. buf'[c] = b /\ buf' \in [Clients -> Seq(Units)]
    BY <1>0, <2>3, <2>4
  <2>7. Len(b) <= MaxLine + Chunk
    BY <1>0, <2>3, <2>5 DEF Clean
  <2>8. Short(b)
    <3>1. ASSUME NEW i \in 1..Len(b), b[i] = NL PROVE Len(b) - i < Chunk
      <4>1. ~ (i <= Len(buf[c]))
        BY <1>0, <2>5, <3>1 DEF Clean
      <4> QED BY <1>0, <2>3, <2>5, <4>1
    <3> QED BY <3>1 DEF Short
  <2>9. thread'[c] = IF BufTooLong(b) THEN "reject" ELSE "lines"
    BY <1>0, <2>3, <2>6 DEF Go
  <2>10. ~ BufTooLong(b) => HasLine(b) \/ Len(b) <= MaxLine
    BY <1>0, <2>5 DEF BufTooLong
  <2>11. BufOK(c)'
    BY <2>6, <2>7, <2>8, <2>9, <2>10 DEF BufOK
  <2> QED BY <1>0, <2>3, <2>6, <2>11, BufOne DEF Go
<1> QED BY <1>1, <1>2 DEF Recv

LEMMA BufLine ==
  ASSUME ServerInv, BufInv, NEW c \in Clients, Line(c)
  PROVE  BufInv'
<1>0. /\ buf \in [Clients -> Seq(Units)] /\ buf[c] \in Seq(Units) /\ Len(buf[c]) \in Nat
      /\ Len(buf[c]) <= MaxLine + Chunk
      /\ Short(buf[c]) /\ (HasLine(buf[c]) \/ Len(buf[c]) <= MaxLine)
      /\ (running' => running) /\ thread \in [Clients -> Threads]
      /\ MaxLine \in Nat /\ Chunk \in Nat /\ Chunk <= MaxLine + 1 /\ thread[c] = "lines"
  BY ServerAssumption DEF ServerInv, Types, BufInv, BufOK, Line, Handle
<1>1. CASE UNCHANGED buf /\ ~ HasLine(buf[c]) /\ Go(c, "check")
  <2>1. Clean(buf[c])
    BY <1>0, <1>1, HasLineIff DEF Clean
  <2>2. BufOK(c)'
    BY <1>0, <1>1, <2>1 DEF BufOK, Go
  <2> QED BY <1>0, <1>1, <2>2, BufOne DEF Go
<1>2. CASE UNCHANGED buf /\ Go(c, "reject")
  <2>1. BufOK(c)'
    BY <1>0, <1>2 DEF BufOK, Go
  <2> QED BY <1>0, <1>2, <2>1, BufOne DEF Go
<1>3. CASE /\ HasLine(buf[c])
           /\ buf' = [buf EXCEPT ![c] = SubSeq(@, Cut(buf[c]) + 1, Len(@))]
           /\ UNCHANGED thread \/ Go(c, "send")
  <2>1. PICK n \in 1..Len(buf[c]) : n = Cut(buf[c]) /\ buf[c][n] = NL
    BY <1>0, <1>3, CutFirst
  <2>2. PICK b \in Seq(Units) : b = SubSeq(buf[c], n + 1, Len(buf[c]))
    <3>1. \A i \in (n + 1)..Len(buf[c]) : buf[c][i] \in Units
      BY <1>0, ElementOfSeq
    <3>2. SubSeq(buf[c], n + 1, Len(buf[c])) \in Seq(Units)
      BY <1>0, <3>1, SubSeqProperties
    <3> QED BY <3>2
  <2>3. /\ Len(b) = Len(buf[c]) - n /\ Len(b) \in Nat
        /\ \A i \in 1..Len(b) : b[i] = buf[c][i + n] /\ i + n \in 1..Len(buf[c])
    BY <1>0, <2>2
  <2>4. buf'[c] = b /\ buf' \in [Clients -> Seq(Units)]
    BY <1>0, <1>3, <2>1, <2>2
  <2>5. Len(b) <= MaxLine
    BY <1>0, <2>1, <2>3 DEF Short
  <2>6. Short(b)
    <3>1. ASSUME NEW i \in 1..Len(b), b[i] = NL PROVE Len(b) - i < Chunk
      <4>1. Len(buf[c]) - (i + n) < Chunk
        BY <1>0, <2>3, <3>1 DEF Short
      <4> QED BY <1>0, <2>1, <2>3, <4>1
    <3> QED BY <3>1 DEF Short
  <2>7. thread'[c] \in {"lines", "send"}
    BY <1>0, <1>3 DEF Go
  <2>8. BufOK(c)'
    BY <1>0, <2>3, <2>4, <2>5, <2>6, <2>7 DEF BufOK
  <2>9. \A d \in Clients \ {c} : buf'[d] = buf[d] /\ thread'[d] = thread[d]
    BY <1>0, <1>3 DEF Go
  <2> QED BY <1>0, <2>4, <2>8, <2>9, BufOne
<1> QED BY <1>1, <1>2, <1>3 DEF Line

LEMMA BufServe ==
  ASSUME ServerInv, BufInv, NEW c \in Clients, Serve(c)
  PROVE  BufInv'
<1>0. /\ buf \in [Clients -> Seq(Units)] /\ thread \in [Clients -> Threads]
      /\ BufOK(c)
  BY DEF ServerInv, Types, BufInv
<1>1. ASSUME UNCHANGED <<running, buf>>, NEW s, Go(c, s), BufOK(c)'
      PROVE  BufInv'
  BY <1>0, <1>1, BufOne DEF Go
<1>2. CASE Check(c)
  <2>1. Go(c, IF running THEN "recv" ELSE "erase") /\ BufOK(c)'
    BY <1>0, <1>2, Epilogue DEF Check, Go, BufOK
  <2> QED BY <1>1, <1>2, <2>1 DEF Check
<1>3. CASE Send(c)
  <2>1. PICK s \in {"erase", "sent"} : Go(c, s) /\ BufOK(c)'
    BY <1>0, <1>3, Epilogue DEF Send, Go, BufOK
  <2> QED BY <1>1, <1>3, <2>1 DEF Send
<1>4. CASE Sent(c)
  <2>1. PICK s \in {"check", "reject", "lines"} : Go(c, s) /\ BufOK(c)'
    BY <1>0, <1>4 DEF Sent, Go, BufOK, BufTooLong
  <2> QED BY <1>1, <1>4, <2>1 DEF Sent
<1>5. CASE Reject(c)
  <2>1. Go(c, "erase") /\ BufOK(c)'
    BY <1>0, <1>5, Epilogue DEF Reject, Go, BufOK
  <2> QED BY <1>1, <1>5, <2>1 DEF Reject
<1>6. CASE Erase(c)
  <2>1. Go(c, "close") /\ BufOK(c)'
    BY <1>0, <1>6, Epilogue DEF Erase, Go, BufOK
  <2> QED BY <1>1, <1>6, <2>1 DEF Erase
<1>7. CASE Close(c)
  <2>1. Go(c, "done") /\ BufOK(c)'
    BY <1>0, <1>7, Epilogue DEF Close, Go, BufOK
  <2> QED BY <1>1, <1>7, <2>1 DEF Close
<1> QED BY <1>2, <1>3, <1>4, <1>5, <1>6, <1>7, BufRecv, BufLine DEF Serve

LEMMA BufMain ==
  ASSUME ServerInv, BufInv, Main
  PROVE  BufInv'
<1>0. /\ UNCHANGED <<running, buf>> /\ thread \in [Clients -> Threads]
      /\ UNCHANGED thread \/ Spawn
  BY DEF ServerInv, Types, Main, Loop, PollAgain, Accept, Register, Copy, Wake, Join, Destroy
<1>1. CASE UNCHANGED thread
  BY <1>0, <1>1, BufSame
<1>2. CASE Spawn
  <2>1. accepted \in Clients /\ thread[accepted] = "none"
    BY <1>2 DEF ServerInv, Types, Accepting, Spawn
  <2> QED BY <1>0, <1>2, <2>1, BufSame DEF Spawn, Go
<1> QED BY <1>0, <1>1, <1>2

LEMMA AlwaysBuf == Spec => []BufInv
<1>1. Init => BufInv
  BY ServerAssumption DEF Init, BufInv, BufOK, Clean, Short
<1>2. ServerInv /\ BufInv /\ [Next]_vars => BufInv'
  <2> SUFFICES ASSUME ServerInv, BufInv, [Next]_vars PROVE BufInv'
    OBVIOUS
  <2>1. CASE UNCHANGED vars
    BY <2>1, BufSame DEF vars, threadVars
  <2>2. CASE RebuildEnds
    BY <2>2, BufSame DEF RebuildEnds, threadVars
  <2>3. ASSUME NEW c \in Clients, Client(c) PROVE BufInv'
    BY <2>3, BufSame DEF Client, threadVars
  <2> QED BY <2>1, <2>2, <2>3, BufMain, BufServe DEF Next
<1> QED BY <1>1, <1>2, AlwaysServer, PTL DEF Spec

\* For any clients and limits: no buffer of a connection ever holds more than a
\* line and a piece, and none waits for more with a line still in it
\* (serveConnection, where the length is looked at before and after a line is
\* cut but not after an empty one).
THEOREM TypesAlways == Spec => []TypeOK
<1>1. ServerInv /\ BufInv => TypeOK
  <2> SUFFICES ASSUME ServerInv, BufInv PROVE TypeOK
    OBVIOUS
  <2>1. Types
    BY DEF ServerInv
  <2>2. ASSUME NEW c \in Clients
        PROVE  /\ sock[c].unread \in 0..Room /\ Len(buf[c]) <= MaxLine + Chunk
               /\ thread[c] = "recv" => Len(buf[c]) <= MaxLine
    BY <2>1 DEF Types, Socks, BufInv, BufOK, Clean
  <2> QED BY <2>1, <2>2 DEF Types, TypeOK, Mains, Threads, Talking
<1> QED BY <1>1, AlwaysServer, AlwaysBuf, PTL

-----------------------------------------------------------------------------
(* What is answered, against what was written.                              *)

\* A client has written w.  The lines up to p are taken; b is in the buffer
\* and r not received yet.
StartsAt(w, p)     == p = 0 \/ w[p] = NL
Placed(w, b, r, p) ==
  /\ p + Len(b) + Len(r) = Len(w) /\ StartsAt(w, p)
  /\ \A i \in 1..Len(b) : b[i] = w[p + i]
  /\ \A i \in 1..Len(r) : r[i] = w[p + Len(b) + i]

\* The lines up to p that are answered; that none of them is the last.
DueTo(w, p)  == {i \in Due(w) : i <= p}
NoStop(w, p) == \A j \in Ends(w) : j <= p => ~ Stop(w, j)

\* The next line that is answered after p ends at e.
NextDue(w, p, e) == e \in Due(w) /\ p < e /\ \A j \in Due(w) : j <= p \/ e <= j

\* What the thread still has to answer, where it is.
Place(s, w, p, b, o, a, go) ==
  /\ s \in {"none", "check", "recv", "lines", "sent", "reject"} =>
       Len(a) = Cardinality(DueTo(w, p))
  /\ s = "none" => p = 0 /\ b = <<>> /\ a = <<>>
  /\ s \in {"recv", "lines"} \/ (s \in {"check", "send", "sent"} /\ go) => NoStop(w, p)
  /\ s = "send" => /\ p \in Due(w) /\ o = LineTo(w, p) /\ ~ Long(w, p)
                   /\ Len(a) + 1 = Cardinality(DueTo(w, p))
  /\ s = "reject" => \E e \in Due(w) : NextDue(w, p, e) /\ Long(w, e)

Right(w, a) ==
  Len(a) <= Cardinality(Due(w)) /\ \A n \in 1..Len(a) : a[n] = Asked(w)[n]

Frame(s, w, b, r, o, a, go) ==
  Right(w, a) /\ \E p \in Nat : Placed(w, b, r, p) /\ Place(s, w, p, b, o, a, go)

FrameOK(c) ==
  Frame(thread[c], sent[c], buf[c], sock[c].in, out[c], answers[c], running)

FramingInv ==
  /\ sent \in [Clients -> Seq(Units)] /\ out \in [Clients -> Seq(Units)]
  /\ answers \in [Clients -> Seq(Seq(Units) \union {TooBig})]
  /\ \A c \in Clients : FrameOK(c)

-----------------------------------------------------------------------------

LEMMA EndsTyped ==
  ASSUME NEW w \in Seq(Units)
  PROVE  /\ Len(w) \in Nat /\ Ends(w) \subseteq 1..(Len(w) + 1) /\ Ends(w) \subseteq Nat
         /\ Len(w) + 1 \in Ends(w)
         /\ \A i \in 1..Len(w) : i \in Ends(w) <=> w[i] = NL
         /\ Due(w) \subseteq Ends(w)
         /\ IsFiniteSet(Due(w)) /\ Cardinality(Due(w)) \in Nat
         /\ \A p : IsFiniteSet(DueTo(w, p)) /\ Cardinality(DueTo(w, p)) \in Nat
                   /\ Cardinality(DueTo(w, p)) <= Cardinality(Due(w))
<1>1. Len(w) \in Nat /\ DOMAIN w = 1..Len(w)
  OBVIOUS
<1>2. /\ Ends(w) \subseteq 1..(Len(w) + 1) /\ Ends(w) \subseteq Nat
      /\ Len(w) + 1 \in Ends(w)
      /\ \A i \in 1..Len(w) : i \in Ends(w) <=> w[i] = NL
  BY <1>1 DEF Ends
<1>3. Due(w) \subseteq Ends(w)
  BY DEF Due
<1>4. IsFiniteSet(1..(Len(w) + 1))
  BY <1>1, FS_Interval
<1>5. IsFiniteSet(Due(w)) /\ Cardinality(Due(w)) \in Nat
  BY <1>2, <1>3, <1>4, FS_Subset, FS_CardinalityType
<1>6. ASSUME NEW p
      PROVE  /\ IsFiniteSet(DueTo(w, p)) /\ Cardinality(DueTo(w, p)) \in Nat
             /\ Cardinality(DueTo(w, p)) <= Cardinality(Due(w))
  <2>1. DueTo(w, p) \in SUBSET Due(w)
    BY DEF DueTo
  <2> QED BY <1>5, <2>1, FS_Subset, FS_CardinalityType
<1> QED BY <1>1, <1>2, <1>3, <1>5, <1>6

\* From the start of a line to the next end is a line.
LEMMA LineOfNext ==
  ASSUME NEW w \in Seq(Units), NEW p \in 0..Len(w), StartsAt(w, p),
         NEW e \in Ends(w), p < e, \A j \in (p + 1)..(e - 1) : w[j] # NL
  PROVE  LineTo(w, e) = SubSeq(w, p + 1, e - 1)
<1> DEFINE S == {0} \union {j \in 1..(e - 1) : w[j] = NL}
<1>1. e \in Nat /\ p \in Nat
  BY EndsTyped
<1>2. p \in S
  BY <1>1 DEF StartsAt
<1>3. \A j \in S : j \in Nat /\ p >= j
  BY <1>1
<1> HIDE DEF S
<1>4. Max(S) \in S /\ \A j \in S : Max(S) >= j
  <2>1. \E x \in S : \A y \in S : x >= y
    BY <1>2, <1>3
  <2> QED BY <2>1 DEF Max
<1>5. Max(S) = p
  <2>1. PICK m : m = Max(S)
    OBVIOUS
  <2>2. m \in Nat /\ p >= m /\ m >= p
    BY <1>2, <1>3, <1>4, <2>1
  <2>3. m = p
    BY <1>1, <2>2
  <2> QED BY <2>1, <2>3
<1> QED BY <1>5 DEF LineTo, S

\* The line after p, if it has anything in it and is not the rest that may yet
\* become a line, is the next to be answered.
LEMMA DueNext ==
  ASSUME NEW w \in Seq(Units), NEW p \in 0..Len(w), NoStop(w, p),
         NEW e \in Ends(w), p < e, \A j \in (p + 1)..(e - 1) : w[j] # NL,
         LineTo(w, e) # <<>>, e <= Len(w) \/ Long(w, e)
  PROVE  NextDue(w, p, e)
<1>1. e \in 1..(Len(w) + 1) /\ p \in Nat /\ Len(w) \in Nat
  BY EndsTyped
<1>2. \A j \in Ends(w) : j <= p \/ e <= j
  <2>1. ASSUME NEW j \in Ends(w), ~ (j <= p), ~ (e <= j) PROVE FALSE
    <3>1. j \in Nat
      BY EndsTyped
    <3>2. j \in (p + 1)..(e - 1) /\ j \in 1..Len(w)
      BY <1>1, <2>1, <3>1
    <3>3. w[j] = NL
      BY <2>1, <3>2, EndsTyped
    <3> QED BY <3>2, <3>3
  <2> QED BY <2>1
<1>3. \A j \in Ends(w) : j < e => ~ Stop(w, j)
  <2>1. \A j \in Ends(w) : j \in Nat
    BY EndsTyped
  <2> QED BY <1>1, <1>2, <2>1 DEF NoStop
<1>4. e \in Due(w)
  BY <1>3 DEF Due
<1> QED BY <1>2, <1>4, EndsTyped DEF NextDue

\* An empty line, and one that is no request for shutdown, leaves the next line
\* to be answered as well; an empty one counts for nothing.
LEMMA StopNext ==
  ASSUME NEW w \in Seq(Units), NEW p \in 0..Len(w), NoStop(w, p),
         NEW e \in 1..Len(w), p < e, \A j \in (p + 1)..(e - 1) : w[j] # NL,
         ~ Stop(w, e)
  PROVE  NoStop(w, e)
<1> SUFFICES ASSUME NEW j \in Ends(w), j <= e PROVE ~ Stop(w, j)
  BY DEF NoStop
<1>1. j \in Nat /\ p \in Nat /\ Len(w) \in Nat
  BY EndsTyped
<1>2. CASE j <= p
  BY <1>2 DEF NoStop
<1>3. CASE j = e
  BY <1>3
<1>4. CASE ~ (j <= p) /\ j # e
  <2>1. j \in (p + 1)..(e - 1) /\ j \in 1..Len(w)
    BY <1>1, <1>4
  <2>2. w[j] = NL
    BY <2>1, EndsTyped
  <2> QED BY <2>1, <2>2
<1> QED BY <1>2, <1>3, <1>4

LEMMA EmptySkipped ==
  ASSUME NEW w \in Seq(Units), NEW p \in 0..Len(w),
         NEW e \in 1..Len(w), p < e, \A j \in (p + 1)..(e - 1) : w[j] # NL,
         LineTo(w, e) = <<>>
  PROVE  DueTo(w, e) = DueTo(w, p) /\ ~ Stop(w, e)
<1>1. p \in Nat /\ Len(w) \in Nat /\ e \in Nat
  BY EndsTyped
<1>2. ASSUME NEW j \in Due(w), j <= e PROVE j <= p
  <2>1. j \in Nat /\ j \in Ends(w) /\ j # e
    BY EndsTyped DEF Due
  <2>2. CASE ~ (j <= p)
    <3>1. j \in (p + 1)..(e - 1) /\ j \in 1..Len(w)
      BY <1>1, <1>2, <2>1, <2>2
    <3>2. w[j] = NL
      BY <2>1, <3>1, EndsTyped
    <3> QED BY <3>1, <3>2
  <2> QED BY <2>2
<1>3. \A j \in Due(w) : j <= p => j <= e
  <2>1. \A j \in Due(w) : j \in Nat
    BY EndsTyped
  <2> QED BY <1>1, <2>1
<1>4. ~ Stop(w, e)
  BY ServerAssumption DEF Stop, Long
<1> QED BY <1>2, <1>3, <1>4 DEF DueTo

\* What is answered next makes one more.
LEMMA CountNext ==
  ASSUME NEW w \in Seq(Units), NEW p \in Nat, NEW e, NextDue(w, p, e)
  PROVE  Cardinality(DueTo(w, e)) = Cardinality(DueTo(w, p)) + 1
<1>0. \A j \in Due(w) : j \in Nat
  BY EndsTyped
<1>1. e \in Nat /\ e \in Due(w)
  BY EndsTyped DEF NextDue
<1>2. DueTo(w, e) = DueTo(w, p) \union {e} /\ e \notin DueTo(w, p)
  <2>1. \A j \in Due(w) : (j <= e) <=> (j <= p \/ j = e)
    <3>1. ASSUME NEW j \in Due(w) PROVE (j <= e) <=> (j <= p \/ j = e)
      <4>1. j \in Nat /\ (j <= p \/ e <= j) /\ p < e
        BY <1>0 DEF NextDue
      <4> QED BY <1>1, <4>1
    <3> QED BY <3>1
  <2>2. ~ (e <= p)
    BY <1>1 DEF NextDue
  <2> QED BY <1>1, <2>1, <2>2 DEF DueTo
<1> QED BY <1>2, EndsTyped, FS_AddElement

\* A line is answered with the member of Asked that is at its rank.
LEMMA AskedAt ==
  ASSUME NEW w \in Seq(Units), NEW e \in Due(w)
  PROVE  /\ Cardinality(DueTo(w, e)) \in 1..Cardinality(Due(w))
         /\ Asked(w)[Cardinality(DueTo(w, e))] =
              IF Long(w, e) THEN TooBig ELSE LineTo(w, e)
<1>0. \A j \in Due(w) : j \in Nat
  BY EndsTyped
<1>1. e \in Nat /\ e \in DueTo(w, e)
  BY <1>0 DEF DueTo
<1>4. Cardinality(DueTo(w, e)) \in 1..Cardinality(Due(w))
  <2>1. Cardinality(DueTo(w, e)) # 0
    BY <1>1, EndsTyped, FS_EmptySet
  <2> QED BY <2>1, EndsTyped
<1>5. PICK m \in 1..Cardinality(Due(w)) : m = Cardinality(DueTo(w, e))
  BY <1>4
<1>6. ASSUME NEW i \in Due(w), Cardinality(DueTo(w, i)) = m PROVE i = e
  <2>1. ASSUME NEW a \in Due(w), NEW b \in Due(w), a < b
        PROVE  Cardinality(DueTo(w, a)) < Cardinality(DueTo(w, b))
    <3>1. a \in Nat /\ b \in Nat
      BY <1>0
    <3>2. DueTo(w, a) \in SUBSET DueTo(w, b) /\ b \in DueTo(w, b) /\ b \notin DueTo(w, a)
      <4>1. \A j \in Due(w) : j <= a => j <= b
        BY <1>0, <2>1, <3>1
      <4>2. b <= b /\ ~ (b <= a)
        BY <2>1, <3>1
      <4> QED BY <4>1, <4>2 DEF DueTo
    <3>3. DueTo(w, a) # DueTo(w, b)
      BY <3>2
    <3> QED BY <3>2, <3>3, EndsTyped, FS_Subset
  <2>2. i \in Nat
    BY <1>0
  <2>3. ~ (i < e) /\ ~ (e < i)
    BY <1>1, <1>5, <1>6, <2>1, EndsTyped
  <2> QED BY <1>1, <2>2, <2>3
<1>7. (CHOOSE i \in Due(w) : Cardinality({j \in Due(w) : j <= i}) = m) = e
  <2>1. \A i \in Due(w) : {j \in Due(w) : j <= i} = DueTo(w, i)
    BY DEF DueTo
  <2>2. Cardinality({j \in Due(w) : j <= e}) = m
    BY <1>1, <1>5, <2>1
  <2>3. \A i \in Due(w) : Cardinality({j \in Due(w) : j <= i}) = m => i = e
    BY <1>6, <2>1
  <2> QED BY <1>1, <2>2, <2>3
<1>8. Asked(w)[m] = IF Long(w, e) THEN TooBig ELSE LineTo(w, e)
  <2> DEFINE f == [n \in 1..Cardinality(Due(w)) |->
                     LET i == CHOOSE i \in Due(w) : Cardinality({j \in Due(w) : j <= i}) = n
                     IN  IF Long(w, i) THEN TooBig ELSE LineTo(w, i)]
             at == CHOOSE i \in Due(w) : Cardinality({j \in Due(w) : j <= i}) = m
  <2>1. Asked(w) = f
    BY DEF Asked
  <2>2. f[m] = IF Long(w, at) THEN TooBig ELSE LineTo(w, at)
    OBVIOUS
  <2> HIDE DEF f, at
  <2>3. at = e
    BY <1>7 DEF at
  <2> QED BY <2>1, <2>2, <2>3
<1> QED BY <1>4, <1>5, <1>8

-----------------------------------------------------------------------------
(* What one turn of the thread does to it.                                  *)

\* A connection that nobody has taken anything of.
LEMMA FrameFresh ==
  ASSUME NEW w \in Seq(Units), NEW o, NEW go \in BOOLEAN
  PROVE  Frame("none", w, <<>>, w, o, <<>>, go)
<1>1. Right(w, <<>>)
  BY EndsTyped DEF Right
<1>2. Placed(w, <<>>, w, 0)
  BY DEF Placed, StartsAt
<1>3. DueTo(w, 0) = {}
  <2>1. \A i \in Due(w) : i \in 1..(Len(w) + 1) /\ Len(w) \in Nat
    BY EndsTyped
  <2>2. \A i \in Due(w) : ~ (i <= 0)
    BY <2>1
  <2> QED BY <2>2 DEF DueTo
<1>4. Place("none", w, 0, <<>>, o, <<>>, go)
  BY <1>3, FS_EmptySet DEF Place
<1> QED BY <1>1, <1>2, <1>4 DEF Frame

\* No request for shutdown has been taken where the thread may start or go on.
LEMMA FrameStart ==
  ASSUME NEW w \in Seq(Units), NEW b, NEW r, NEW o, NEW a, NEW go \in BOOLEAN,
         Frame("none", w, b, r, o, a, go)
  PROVE  Frame("check", w, b, r, o, a, go)
<1>1. PICK p \in Nat : Placed(w, b, r, p) /\ Place("none", w, p, b, o, a, go)
  BY DEF Frame
<1>2. p = 0 /\ NoStop(w, 0)
  <2>1. \A j \in Ends(w) : j \in 1..(Len(w) + 1) /\ Len(w) \in Nat
    BY EndsTyped
  <2>2. \A j \in Ends(w) : ~ (j <= 0)
    BY <2>1
  <2> QED BY <1>1, <2>2 DEF Place, NoStop
<1>3. Place("check", w, p, b, o, a, go)
  BY <1>1, <1>2 DEF Place
<1> QED BY <1>1, <1>3 DEF Frame

LEMMA FrameCheck ==
  ASSUME NEW w, NEW b, NEW r, NEW o, NEW a, Frame("check", w, b, r, o, a, TRUE)
  PROVE  Frame("recv", w, b, r, o, a, TRUE)
<1>1. PICK p \in Nat : Placed(w, b, r, p) /\ Place("check", w, p, b, o, a, TRUE)
  BY DEF Frame
<1>2. Place("recv", w, p, b, o, a, TRUE)
  BY <1>1 DEF Place
<1> QED BY <1>1, <1>2 DEF Frame

\* Then nothing of this connection matters but what has been answered.
LEMMA FrameOver ==
  ASSUME NEW s, NEW t \in {"erase", "close", "done"}, NEW w, NEW b, NEW r, NEW o, NEW a,
         NEW go, Frame(s, w, b, r, o, a, go)
  PROVE  Frame(t, w, b, r, o, a, go)
<1>1. PICK p \in Nat : Placed(w, b, r, p)
  BY DEF Frame
<1>2. Place(t, w, p, b, o, a, go)
  BY DEF Place
<1> QED BY <1>1, <1>2 DEF Frame

\* That the daemon is told to stop takes nothing back.
LEMMA FrameStops ==
  ASSUME NEW s, NEW w, NEW b, NEW r, NEW o, NEW a, NEW go, NEW on, on => go,
         Frame(s, w, b, r, o, a, go)
  PROVE  Frame(s, w, b, r, o, a, on)
<1>1. PICK p \in Nat : Placed(w, b, r, p) /\ Place(s, w, p, b, o, a, go)
  BY DEF Frame
<1>2. Place(s, w, p, b, o, a, on)
  BY <1>1 DEF Place
<1> QED BY <1>1, <1>2 DEF Frame

\* Nothing in the buffer ends a line, and it is longer than a line may be: so is
\* the line, wherever it ends.
LEMMA FrameTooLong ==
  ASSUME NEW w \in Seq(Units), NEW b \in Seq(Units), NEW r \in Seq(Units), NEW p \in Nat,
         Placed(w, b, r, p), NoStop(w, p), BufTooLong(b)
  PROVE  \E e \in Due(w) : NextDue(w, p, e) /\ Long(w, e)
<1>0. Len(w) \in Nat /\ Len(b) \in Nat /\ Len(r) \in Nat /\ p \in 0..Len(w)
      /\ p + Len(b) <= Len(w) /\ MaxLine \in Nat /\ Len(b) > MaxLine
  <2>1. Len(w) \in Nat /\ Len(b) \in Nat /\ Len(r) \in Nat /\ Len(b) > MaxLine
    BY DEF BufTooLong
  <2>2. p + Len(b) + Len(r) = Len(w)
    BY DEF Placed
  <2> QED BY <2>1, <2>2, ServerAssumption
<1>1. \A i \in 1..Len(b) : w[p + i] # NL
  BY HasLineIff DEF BufTooLong, Placed
<1> DEFINE S == {j \in Ends(w) : p < j}
<1>2. Min(S) \in S /\ \A j \in S : Min(S) =< j
  <2>1. S \subseteq Nat
    BY EndsTyped
  <2>2. Len(w) + 1 \in S
    BY <1>0, EndsTyped
  <2> QED BY <2>1, <2>2, MinOfSet
<1>3. PICK e \in Ends(w) : p < e /\ \A j \in Ends(w) : p < j => e <= j
  BY <1>2
<1>4. e \in 1..(Len(w) + 1)
  BY EndsTyped
<1>5. \A j \in (p + 1)..(e - 1) : w[j] # NL
  <2>1. ASSUME NEW j \in (p + 1)..(e - 1), w[j] = NL PROVE FALSE
    <3>1. j \in 1..Len(w) /\ p < j /\ ~ (e <= j)
      BY <1>0, <1>4
    <3>2. j \in Ends(w)
      BY <2>1, <3>1, EndsTyped
    <3> QED BY <1>3, <3>1, <3>2
  <2> QED BY <2>1
<1>6. e > p + Len(b)
  <2>1. CASE e <= p + Len(b)
    <3>1. e \in 1..Len(w) /\ e - p \in 1..Len(b) /\ p + (e - p) = e
      BY <1>0, <1>3, <1>4, <2>1
    <3>2. w[e] = NL
      BY <3>1, EndsTyped
    <3> QED BY <1>1, <3>1, <3>2
  <2> QED BY <1>0, <1>4, <2>1
<1>7. Len(LineTo(w, e)) = e - 1 - p
  <2>1. LineTo(w, e) = SubSeq(w, p + 1, e - 1)
    BY <1>0, <1>3, <1>5, LineOfNext DEF Placed
  <2>2. \A i \in (p + 1)..(e - 1) : w[i] \in Units
    BY <1>0, <1>4, ElementOfSeq
  <2>3. Len(SubSeq(w, p + 1, e - 1)) = IF p + 1 <= e - 1 THEN e - 1 - (p + 1) + 1 ELSE 0
    BY <1>0, <1>4, <2>2, SubSeqProperties
  <2> QED BY <1>0, <1>3, <1>4, <2>1, <2>3
<1>8. Long(w, e) /\ LineTo(w, e) # <<>>
  <2>1. Len(LineTo(w, e)) > MaxLine /\ Len(LineTo(w, e)) # 0
    BY <1>0, <1>4, <1>6, <1>7
  <2>2. LineTo(w, e) # <<>>
    <3>1. Len(<<>>) = 0
      OBVIOUS
    <3> QED BY <2>1, <3>1
  <2> QED BY <2>1, <2>2 DEF Long
<1>9. NextDue(w, p, e)
  BY <1>0, <1>3, <1>5, <1>8, DueNext
<1> QED BY <1>8, <1>9 DEF NextDue

\* recv moves what it takes from one to the other.
LEMMA PlacedTaken ==
  ASSUME NEW w \in Seq(Units), NEW b \in Seq(Units), NEW r \in Seq(Units), NEW p \in Nat,
         Placed(w, b, r, p), NEW k \in 1..Len(r),
         NEW b2 \in Seq(Units), b2 = b \o SubSeq(r, 1, k),
         NEW r2 \in Seq(Units), r2 = SubSeq(r, k + 1, Len(r))
  PROVE  Placed(w, b2, r2, p)
<1>1. Len(b) \in Nat /\ Len(r) \in Nat /\ k \in Nat /\ k <= Len(r) /\ 1 <= k /\ Len(w) \in Nat
  OBVIOUS
<1>2. PICK q : q = SubSeq(r, 1, k)
  OBVIOUS
<1>3. q \in Seq(Units) /\ Len(q) = k /\ \A i \in 1..k : q[i] = r[i]
  <2>1. \A i \in 1..k : r[i] \in Units
    BY <1>1, ElementOfSeq
  <2> QED BY <1>1, <1>2, <2>1, SubSeqProperties
<1>4. /\ Len(b2) = Len(b) + k
      /\ \A i \in 1..Len(b) : b2[i] = b[i]
      /\ \A i \in (Len(b) + 1)..(Len(b) + k) : b2[i] = r[i - Len(b)]
  BY <1>1, <1>2, <1>3
<1>5. Len(r2) = Len(r) - k /\ \A i \in 1..Len(r2) : r2[i] = r[k + i]
  BY <1>1
<1>6. p + Len(b2) + Len(r2) = Len(w)
  BY <1>1, <1>4, <1>5 DEF Placed
<1>7. ASSUME NEW i \in 1..Len(b2) PROVE b2[i] = w[p + i]
  <2>1. CASE i <= Len(b)
    BY <1>1, <1>4, <2>1 DEF Placed
  <2>2. CASE ~ (i <= Len(b))
    <3>1. i - Len(b) \in 1..Len(r) /\ i \in (Len(b) + 1)..(Len(b) + k)
          /\ p + Len(b) + (i - Len(b)) = p + i
      BY <1>1, <1>4, <2>2
    <3> QED BY <1>4, <3>1 DEF Placed
  <2> QED BY <2>1, <2>2
<1>8. ASSUME NEW i \in 1..Len(r2) PROVE r2[i] = w[p + Len(b2) + i]
  <2>1. k + i \in 1..Len(r) /\ p + Len(b) + (k + i) = p + Len(b2) + i
    BY <1>1, <1>4, <1>5
  <2> QED BY <1>5, <2>1 DEF Placed
<1> QED BY <1>6, <1>7, <1>8 DEF Placed

LEMMA FrameRecv ==
  ASSUME NEW w \in Seq(Units), NEW b \in Seq(Units), NEW r \in Seq(Units), NEW k \in 1..Len(r),
         NEW b2 \in Seq(Units), b2 = b \o SubSeq(r, 1, k),
         NEW r2 \in Seq(Units), r2 = SubSeq(r, k + 1, Len(r)),
         NEW o, NEW a, NEW go, Frame("recv", w, b, r, o, a, go)
  PROVE  Frame(IF BufTooLong(b2) THEN "reject" ELSE "lines", w, b2, r2, o, a, go)
<1>1. PICK p \in Nat : Placed(w, b, r, p) /\ Place("recv", w, p, b, o, a, go)
  BY DEF Frame
<1>2. Placed(w, b2, r2, p)
  BY <1>1, PlacedTaken
<1>3. NoStop(w, p) /\ Len(a) = Cardinality(DueTo(w, p))
  BY <1>1 DEF Place
<1>4. CASE BufTooLong(b2)
  <2>1. \E e \in Due(w) : NextDue(w, p, e) /\ Long(w, e)
    BY <1>2, <1>3, <1>4, FrameTooLong
  <2>2. Place("reject", w, p, b2, o, a, go)
    BY <1>3, <2>1 DEF Place
  <2> QED BY <1>2, <1>4, <2>2 DEF Frame
<1>5. CASE ~ BufTooLong(b2)
  <2>1. Place("lines", w, p, b2, o, a, go)
    BY <1>3 DEF Place
  <2> QED BY <1>2, <1>5, <2>1 DEF Frame
<1> QED BY <1>4, <1>5

LEMMA FrameWait ==
  ASSUME NEW w, NEW b, NEW r, NEW o, NEW a, NEW go, Frame("lines", w, b, r, o, a, go)
  PROVE  Frame("check", w, b, r, o, a, go)
<1>1. PICK p \in Nat : Placed(w, b, r, p) /\ Place("lines", w, p, b, o, a, go)
  BY DEF Frame
<1>2. Place("check", w, p, b, o, a, go)
  BY <1>1 DEF Place
<1> QED BY <1>1, <1>2 DEF Frame

\* The line that is taken from the buffer, and what stays.
FirstOf(b) == SubSeq(b, 1, Cut(b) - 1)
RestOf(b)  == SubSeq(b, Cut(b) + 1, Len(b))

\* The first line of the buffer is the next of what was written.
LEMMA FirstLine ==
  ASSUME NEW w \in Seq(Units), NEW b \in Seq(Units), NEW r \in Seq(Units), NEW p \in Nat,
         Placed(w, b, r, p), HasLine(b), NEW e, e = p + Cut(b)
  PROVE  /\ Cut(b) \in 1..Len(b) /\ p \in 0..Len(w) /\ e \in 1..Len(w) /\ e \in Nat /\ p < e
         /\ e \in Ends(w) /\ w[e] = NL
         /\ \A j \in (p + 1)..(e - 1) : w[j] # NL
         /\ FirstOf(b) = LineTo(w, e)
<1>a. PICK n : n = Cut(b)
  OBVIOUS
<1>1. n \in 1..Len(b) /\ b[n] = NL /\ \A j \in 1..(n - 1) : b[j] # NL
  BY <1>a, CutFirst
<1>e. e = p + n
  BY <1>a
<1>2. Len(b) \in Nat /\ Len(r) \in Nat /\ Len(w) \in Nat /\ p + Len(b) <= Len(w)
  <2>1. Len(b) \in Nat /\ Len(r) \in Nat /\ Len(w) \in Nat
    OBVIOUS
  <2> QED BY <2>1 DEF Placed
<1>3. p \in 0..Len(w) /\ e \in 1..Len(w) /\ p < e /\ e \in Nat
  BY <1>1, <1>2, <1>e
<1>4. w[e] = NL /\ e \in Ends(w)
  <2>1. w[e] = NL
    BY <1>1, <1>e DEF Placed
  <2> QED BY <1>3, <2>1, EndsTyped
<1>5. \A j \in (p + 1)..(e - 1) : w[j] # NL
  <2>1. ASSUME NEW j \in (p + 1)..(e - 1) PROVE w[j] # NL
    <3>1. j - p \in 1..(n - 1) /\ j - p \in 1..Len(b) /\ p + (j - p) = j
      BY <1>1, <1>2, <1>e
    <3> QED BY <1>1, <3>1 DEF Placed
  <2> QED BY <2>1
<1>6. LineTo(w, e) = SubSeq(w, p + 1, e - 1)
  BY <1>3, <1>4, <1>5, LineOfNext DEF Placed
<1>7. PICK x : x = SubSeq(b, 1, n - 1)
  OBVIOUS
<1>8. x \in Seq(Units) /\ Len(x) = n - 1 /\ \A i \in 1..(n - 1) : x[i] = b[i]
  <2>1. \A i \in 1..(n - 1) : b[i] \in Units
    BY <1>1, <1>2, ElementOfSeq
  <2> QED BY <1>1, <1>2, <1>7, <2>1, SubSeqProperties
<1>9. PICK y : y = SubSeq(w, p + 1, e - 1)
  OBVIOUS
<1>10. y \in Seq(Units) /\ Len(y) = n - 1 /\ \A i \in 1..(n - 1) : y[i] = w[p + i]
  <2>1. PICK from \in Nat : from = p + 1
    OBVIOUS
  <2>2. PICK to \in Nat : to = e - 1
    BY <1>3
  <2>3. \A i \in from..to : w[i] \in Units
    <3>1. from >= 1 /\ to <= Len(w) /\ Len(w) \in Nat
      BY <1>2, <1>3, <2>1, <2>2
    <3>2. \A i \in from..to : i \in 1..Len(w)
      BY <3>1
    <3> QED BY <3>2, ElementOfSeq
  <2>4. /\ y \in Seq(Units) /\ Len(y) = IF from <= to THEN to - from + 1 ELSE 0
        /\ \A i \in 1..(to - from + 1) : y[i] = w[from + i - 1]
    <3>1. y = SubSeq(w, from, to)
      BY <1>9, <2>1, <2>2
    <3>2. from \in Int /\ to \in Int
      BY <2>1, <2>2
    <3>3. /\ SubSeq(w, from, to) \in Seq(Units)
          /\ Len(SubSeq(w, from, to)) = IF from <= to THEN to - from + 1 ELSE 0
          /\ \A i \in 1..(to - from + 1) : SubSeq(w, from, to)[i] = w[from + i - 1]
      BY <2>3, <3>2, SubSeqProperties
    <3> QED BY <3>1, <3>3
  <2>5. to - from + 1 = n - 1 /\ Len(y) = n - 1
    <3>1. n \in Nat /\ n >= 1
      BY <1>1, <1>2
    <3>2. to - from + 1 = n - 1
      <4>1. to = p + n - 1 /\ from = p + 1
        BY <1>e, <2>1, <2>2, <3>1
      <4> QED BY <3>1, <4>1
    <3>3. ~ (from <= to) => n - 1 = 0
      BY <1>e, <2>1, <2>2, <3>1
    <3> QED BY <2>4, <3>2, <3>3
  <2>6. \A i \in 1..(n - 1) : from + i - 1 = p + i
    BY <2>1
  <2> QED BY <2>4, <2>5, <2>6
<1>11. x = y
  <2>1. \A i \in 1..(n - 1) : x[i] = y[i]
    <3>1. \A i \in 1..(n - 1) : i \in 1..Len(b)
      BY <1>1, <1>2
    <3> QED BY <1>8, <1>10, <3>1 DEF Placed
  <2> QED BY <1>8, <1>10, <2>1, SeqEqual
<1>12. FirstOf(b) = LineTo(w, e)
  BY <1>6, <1>7, <1>9, <1>11, <1>a DEF FirstOf
<1> QED BY <1>1, <1>3, <1>4, <1>5, <1>12, <1>a

LEMMA FrameLong ==
  ASSUME NEW w \in Seq(Units), NEW b \in Seq(Units), NEW r \in Seq(Units), HasLine(b),
         LineTooLong(Len(FirstOf(b))),
         NEW o, NEW a, NEW go, Frame("lines", w, b, r, o, a, go)
  PROVE  Frame("reject", w, b, r, o, a, go)
<1>1. PICK p \in Nat : Placed(w, b, r, p) /\ Place("lines", w, p, b, o, a, go)
  BY DEF Frame
<1>2. NoStop(w, p) /\ Len(a) = Cardinality(DueTo(w, p))
  BY <1>1 DEF Place
<1>4. PICK e : e = p + Cut(b)
  OBVIOUS
<1>5. /\ p \in 0..Len(w) /\ e \in 1..Len(w) /\ e \in Nat /\ p < e /\ e \in Ends(w)
      /\ \A j \in (p + 1)..(e - 1) : w[j] # NL
      /\ FirstOf(b) = LineTo(w, e)
  BY <1>1, <1>4, FirstLine
<1>6. Long(w, e) /\ LineTo(w, e) # <<>>
  <2>1. Len(<<>>) = 0 /\ ~ (0 > MaxLine)
    BY ServerAssumption
  <2> QED BY <1>5, <2>1 DEF Long, LineTooLong
<1>7. NextDue(w, p, e)
  BY <1>2, <1>5, <1>6, DueNext
<1>8. Place("reject", w, p, b, o, a, go)
  BY <1>2, <1>6, <1>7 DEF Place, NextDue
<1> QED BY <1>1, <1>8 DEF Frame

\* A line is taken from the buffer: an empty one is nothing, any other is to be
\* answered with what it asks for.
LEMMA PlacedCut ==
  ASSUME NEW w \in Seq(Units), NEW b \in Seq(Units), NEW r \in Seq(Units), NEW p \in Nat,
         Placed(w, b, r, p), NEW n \in 1..Len(b), w[p + n] = NL,
         NEW b2 \in Seq(Units), b2 = SubSeq(b, n + 1, Len(b))
  PROVE  Placed(w, b2, r, p + n)
<1>1. Len(b) \in Nat /\ Len(r) \in Nat /\ Len(w) \in Nat /\ n \in Nat /\ n <= Len(b)
  OBVIOUS
<1>2. Len(b2) = Len(b) - n /\ Len(b2) \in Nat /\ \A i \in 1..Len(b2) : b2[i] = b[n + i]
  BY <1>1
<1>3. (p + n) + Len(b2) + Len(r) = Len(w)
  <2>1. p + Len(b) + Len(r) = Len(w)
    BY DEF Placed
  <2>2. (p + n) + Len(b2) = p + Len(b)
    BY <1>1, <1>2
  <2> QED BY <2>1, <2>2
<1>4. ASSUME NEW i \in 1..Len(b2) PROVE b2[i] = w[(p + n) + i]
  <2>1. n + i \in 1..Len(b) /\ p + (n + i) = (p + n) + i
    BY <1>1, <1>2
  <2> QED BY <1>2, <2>1 DEF Placed
<1>5. (p + n) + Len(b2) = p + Len(b)
  BY <1>1, <1>2
<1> QED BY <1>3, <1>4, <1>5 DEF Placed, StartsAt

LEMMA FrameLine ==
  ASSUME NEW w \in Seq(Units), NEW b \in Seq(Units), NEW r \in Seq(Units), HasLine(b),
         ~ LineTooLong(Len(FirstOf(b))), RestOf(b) \in Seq(Units),
         NEW o, NEW a, NEW go \in BOOLEAN, Frame("lines", w, b, r, o, a, go),
         NEW on \in BOOLEAN, on => go /\ FirstOf(b) # <<"shutdown">>
  PROVE  /\ FirstOf(b) = <<>> => Frame("lines", w, RestOf(b), r, o, a, go)
         /\ FirstOf(b) # <<>> => Frame("send", w, RestOf(b), r, FirstOf(b), a, on)
<1>1. PICK p \in Nat : Placed(w, b, r, p) /\ Place("lines", w, p, b, o, a, go)
  BY DEF Frame
<1>a. PICK n : n = Cut(b)
  OBVIOUS
<1>b. PICK line : line = FirstOf(b)
  OBVIOUS
<1>c. PICK b2 \in Seq(Units) : b2 = RestOf(b)
  OBVIOUS
<1>2. NoStop(w, p) /\ Len(a) = Cardinality(DueTo(w, p))
  BY <1>1 DEF Place
<1>3. PICK e : e = p + Cut(b)
  OBVIOUS
<1>4. /\ n \in 1..Len(b) /\ p \in 0..Len(w) /\ e \in 1..Len(w) /\ e \in Nat /\ p < e
      /\ e \in Ends(w) /\ w[e] = NL
      /\ \A j \in (p + 1)..(e - 1) : w[j] # NL
      /\ line = LineTo(w, e)
  BY <1>1, <1>3, <1>a, <1>b, FirstLine
<1>5. Placed(w, b2, r, e)
  BY <1>1, <1>3, <1>4, <1>a, <1>c, PlacedCut DEF RestOf
<1>6. ~ Long(w, e)
  BY <1>4, <1>b DEF LineTooLong, Long
<1>7. CASE line = <<>>
  <2>1. DueTo(w, e) = DueTo(w, p) /\ NoStop(w, e)
    BY <1>2, <1>4, <1>7, EmptySkipped, StopNext
  <2>2. Place("lines", w, e, b2, o, a, go)
    BY <1>2, <2>1 DEF Place
  <2> QED BY <1>1, <1>4, <1>5, <1>7, <1>b, <1>c, <2>2 DEF Frame
<1>8. CASE line # <<>>
  <2>1. NextDue(w, p, e)
    BY <1>2, <1>4, <1>8, DueNext
  <2>2. e \in Due(w) /\ Len(a) + 1 = Cardinality(DueTo(w, e))
    BY <1>2, <2>1, CountNext DEF NextDue
  <2>3. line # <<"shutdown">> => NoStop(w, e)
    <3>1. line # <<"shutdown">> => ~ Stop(w, e)
      BY <1>4, <1>6 DEF Stop
    <3> QED BY <1>2, <1>4, <3>1, StopNext
  <2>4. Place("send", w, e, b2, line, a, on)
    BY <1>4, <1>6, <1>b, <2>2, <2>3 DEF Place
  <2> QED BY <1>1, <1>4, <1>5, <1>8, <1>b, <1>c, <2>4 DEF Frame
<1> QED BY <1>7, <1>8, <1>b, <1>c

\* An answer more, which is the one that was due.
LEMMA RightMore ==
  ASSUME NEW w \in Seq(Units), NEW a \in Seq(Seq(Units) \union {TooBig}),
         NEW x \in Seq(Units) \union {TooBig}, Right(w, a),
         Len(a) + 1 <= Cardinality(Due(w)), x = Asked(w)[Len(a) + 1]
  PROVE  Right(w, Append(a, x))
<1> DEFINE T == Seq(Units) \union {TooBig}
<1>1. a \in Seq(T) /\ x \in T
  OBVIOUS
<1> HIDE DEF T
<1>2. Len(a) \in Nat /\ Len(Append(a, x)) = Len(a) + 1
      /\ \A i \in 1..Len(a) : Append(a, x)[i] = a[i]
      /\ Append(a, x)[Len(a) + 1] = x
  BY <1>1
<1>3. ASSUME NEW i \in 1..Len(Append(a, x)) PROVE Append(a, x)[i] = Asked(w)[i]
  <2>1. i \in 1..Len(a) \/ i = Len(a) + 1
    BY <1>2
  <2> QED BY <1>2, <2>1 DEF Right
<1> QED BY <1>2, <1>3 DEF Right

LEMMA FrameSend ==
  ASSUME NEW w \in Seq(Units), NEW b, NEW r, NEW o \in Seq(Units),
         NEW a \in Seq(Seq(Units) \union {TooBig}), NEW go, Frame("send", w, b, r, o, a, go)
  PROVE  Frame("sent", w, b, r, o, Append(a, o), go)
<1>1. PICK p \in Nat : Placed(w, b, r, p) /\ Place("send", w, p, b, o, a, go)
  BY DEF Frame
<1>2. /\ p \in Due(w) /\ o = LineTo(w, p) /\ ~ Long(w, p)
      /\ Len(a) + 1 = Cardinality(DueTo(w, p)) /\ (go => NoStop(w, p))
  BY <1>1 DEF Place
<1>3. Len(a) + 1 <= Cardinality(Due(w)) /\ o = Asked(w)[Len(a) + 1]
  BY <1>2, AskedAt
<1>4. Right(w, Append(a, o))
  BY <1>3, RightMore DEF Frame
<1>5. Len(Append(a, o)) = Len(a) + 1
  OBVIOUS
<1>6. Place("sent", w, p, b, o, Append(a, o), go)
  BY <1>2, <1>5 DEF Place
<1> QED BY <1>1, <1>4, <1>6 DEF Frame

LEMMA FrameSent ==
  ASSUME NEW w \in Seq(Units), NEW b \in Seq(Units), NEW r \in Seq(Units), NEW o, NEW a,
         NEW go \in BOOLEAN, Frame("sent", w, b, r, o, a, go)
  PROVE  Frame(IF ~ go THEN "check" ELSE IF BufTooLong(b) THEN "reject" ELSE "lines",
               w, b, r, o, a, go)
<1>1. PICK p \in Nat : Placed(w, b, r, p) /\ Place("sent", w, p, b, o, a, go)
  BY DEF Frame
<1>2. Len(a) = Cardinality(DueTo(w, p)) /\ (go => NoStop(w, p))
  BY <1>1 DEF Place
<1>3. CASE ~ go
  <2>1. Place("check", w, p, b, o, a, go)
    BY <1>2, <1>3 DEF Place
  <2> QED BY <1>1, <1>3, <2>1 DEF Frame
<1>4. CASE go /\ BufTooLong(b)
  <2>1. \E e \in Due(w) : NextDue(w, p, e) /\ Long(w, e)
    BY <1>1, <1>2, <1>4, FrameTooLong
  <2>2. Place("reject", w, p, b, o, a, go)
    BY <1>2, <2>1 DEF Place
  <2> QED BY <1>1, <1>4, <2>2 DEF Frame
<1>5. CASE go /\ ~ BufTooLong(b)
  <2>1. Place("lines", w, p, b, o, a, go)
    BY <1>2, <1>5 DEF Place
  <2> QED BY <1>1, <1>5, <2>1 DEF Frame
<1> QED BY <1>3, <1>4, <1>5

LEMMA FrameReject ==
  ASSUME NEW w \in Seq(Units), NEW b, NEW r, NEW o,
         NEW a \in Seq(Seq(Units) \union {TooBig}), NEW go, Frame("reject", w, b, r, o, a, go)
  PROVE  Frame("erase", w, b, r, o, Append(a, TooBig), go)
<1>1. PICK p \in Nat : Placed(w, b, r, p) /\ Place("reject", w, p, b, o, a, go)
  BY DEF Frame
<1>2. Len(a) = Cardinality(DueTo(w, p))
  BY <1>1 DEF Place
<1>3. PICK e \in Due(w) : NextDue(w, p, e) /\ Long(w, e)
  BY <1>1 DEF Place
<1>4. Len(a) + 1 <= Cardinality(Due(w)) /\ TooBig = Asked(w)[Len(a) + 1]
  <2>1. Len(a) + 1 = Cardinality(DueTo(w, e))
    BY <1>2, <1>3, CountNext
  <2> QED BY <1>3, <2>1, AskedAt
<1>5. Right(w, Append(a, TooBig))
  BY <1>4, RightMore DEF Frame
<1>6. Place("erase", w, p, b, o, Append(a, TooBig), go)
  BY DEF Place
<1> QED BY <1>1, <1>5, <1>6 DEF Frame

-----------------------------------------------------------------------------

\* Steps in which no connection's bytes or answers move.
LEMMA FrameSame ==
  ASSUME ServerInv, BufInv, FramingInv, running' \in BOOLEAN, running' => running,
         UNCHANGED <<sent, out, answers, buf>>,
         \A c \in Clients : sock'[c].in = sock[c].in,
         \A c \in Clients : thread'[c] = thread[c] \/ (thread[c] = "none" /\ thread'[c] = "check")
  PROVE  FramingInv'
<1>1. ASSUME NEW c \in Clients PROVE FrameOK(c)'
  <2>1. /\ sent[c] \in Seq(Units) /\ running \in BOOLEAN
        /\ Frame(thread[c], sent[c], buf[c], sock[c].in, out[c], answers[c], running)
    BY DEF FramingInv, FrameOK, ServerInv, Types
  <2>2. Frame(thread'[c], sent[c], buf[c], sock[c].in, out[c], answers[c], running)
    BY <2>1, FrameStart
  <2>3. Frame(thread'[c], sent[c], buf[c], sock[c].in, out[c], answers[c], running')
    BY <2>2, FrameStops
  <2> QED BY <2>3 DEF FrameOK
<1> QED BY <1>1 DEF FramingInv

\* Steps of one thread.
LEMMA FrameOne ==
  ASSUME FramingInv, NEW c \in Clients, running' => running, FrameOK(c)',
         out' \in [Clients -> Seq(Units)],
         answers' \in [Clients -> Seq(Seq(Units) \union {TooBig})],
         UNCHANGED sent,
         \A d \in Clients \ {c} :
           /\ thread'[d] = thread[d] /\ buf'[d] = buf[d] /\ sock'[d].in = sock[d].in
           /\ out'[d] = out[d] /\ answers'[d] = answers[d]
  PROVE  FramingInv'
<1>1. ASSUME NEW d \in Clients \ {c} PROVE FrameOK(d)'
  <2>1. Frame(thread[d], sent[d], buf[d], sock[d].in, out[d], answers[d], running)
    BY DEF FramingInv, FrameOK
  <2>2. Frame(thread[d], sent[d], buf[d], sock[d].in, out[d], answers[d], running')
    BY <2>1, FrameStops
  <2>3. Frame(thread'[d], sent'[d], buf'[d], sock'[d].in, out'[d], answers'[d], running')
    BY <2>2
  <2> QED BY <2>3 DEF FrameOK
<1> QED BY <1>1 DEF FramingInv

LEMMA FrameInit == Init => FramingInv
<1> SUFFICES ASSUME Init PROVE FramingInv
  OBVIOUS
<1>1. \A c \in Clients : /\ thread[c] = "none" /\ sent[c] = <<>> /\ buf[c] = <<>>
                         /\ sock[c].in = <<>> /\ answers[c] = <<>> /\ running \in BOOLEAN
  BY DEF Init, NewSock
<1>2. <<>> \in Seq(Units)
  OBVIOUS
<1>3. \A c \in Clients : FrameOK(c)
  BY <1>1, <1>2, FrameFresh DEF FrameOK
<1>4. /\ sent \in [Clients -> Seq(Units)] /\ out \in [Clients -> Seq(Units)]
      /\ answers \in [Clients -> Seq(Seq(Units) \union {TooBig})]
  BY DEF Init
<1> QED BY <1>3, <1>4 DEF FramingInv

LEMMA FrameClient ==
  ASSUME ServerInv, BufInv, FramingInv, NEW c \in Clients, Client(c)
  PROVE  FramingInv'
<1>0. /\ sock \in [Clients -> Socks] /\ sock[c] \in Socks /\ running \in BOOLEAN
      /\ UNCHANGED <<running, thread, buf, out, answers>>
  BY DEF ServerInv, Types, Client, threadVars
<1>1. CASE Connect(c)
  <2>1. PICK w \in WiresOf(c) : /\ sent' = [sent EXCEPT ![c] = w]
                                /\ sock' = [sock EXCEPT ![c].up = TRUE, ![c].in = w]
    BY <1>1 DEF Connect
  <2>2. w \in Seq(Units)
    BY UnitsOf
  <2>3. thread[c] = "none"
    BY <1>1 DEF ServerInv, Waiting, Connect
  <2>4. buf[c] = <<>> /\ answers[c] = <<>>
    BY <2>3 DEF FramingInv, FrameOK, Frame, Place
  <2>5. /\ sent'[c] = w /\ sock'[c].in = w
        /\ \A d \in Clients \ {c} : sent'[d] = sent[d] /\ sock'[d].in = sock[d].in
        /\ sent' \in [Clients -> Seq(Units)]
    BY <1>0, <2>1, <2>2 DEF FramingInv, Socks
  <2>6. ASSUME NEW d \in Clients PROVE FrameOK(d)'
    <3>1. CASE d = c
      <4>1. Frame("none", w, <<>>, w, out[c], <<>>, running)
        BY <1>0, <2>2, FrameFresh
      <4>2. Frame(thread'[c], sent'[c], buf'[c], sock'[c].in, out'[c], answers'[c], running')
        BY <1>0, <2>3, <2>4, <2>5, <4>1
      <4> QED BY <3>1, <4>2 DEF FrameOK
    <3>2. CASE d # c
      <4>1. Frame(thread[d], sent[d], buf[d], sock[d].in, out[d], answers[d], running)
        BY DEF FramingInv, FrameOK
      <4>2. Frame(thread'[d], sent'[d], buf'[d], sock'[d].in, out'[d], answers'[d], running')
        BY <1>0, <2>5, <3>2, <4>1
      <4> QED BY <4>2 DEF FrameOK
    <3> QED BY <3>1, <3>2
  <2> QED BY <1>0, <2>5, <2>6 DEF FramingInv
<1>2. CASE Read(c) \/ HangUp(c)
  <2>1. UNCHANGED sent /\ \A d \in Clients : sock'[d].in = sock[d].in
    <3>1. CASE Read(c)
      <4>1. sock' = [sock EXCEPT ![c].unread = sock[c].unread - 1]
        BY <3>1 DEF Read
      <4>2. sock'[c].in = sock[c].in
        BY <1>0, <4>1 DEF Socks
      <4> QED BY <1>0, <3>1, <4>1, <4>2 DEF Read
    <3>2. CASE HangUp(c)
      BY <1>0, <3>2 DEF HangUp, Socks
    <3> QED BY <1>2, <3>1, <3>2
  <2> QED BY <1>0, <2>1, FrameSame
<1> QED BY <1>1, <1>2 DEF Client

LEMMA FrameMain ==
  ASSUME ServerInv, BufInv, FramingInv, Main
  PROVE  FramingInv'
<1>0. /\ UNCHANGED <<running, buf, out, sent, answers>> /\ thread \in [Clients -> Threads]
      /\ running \in BOOLEAN /\ sock \in [Clients -> Socks]
      /\ UNCHANGED thread \/ Spawn
      /\ UNCHANGED sock \/ Wake
  BY DEF ServerInv, Types, Main, Loop, PollAgain, Accept, Register, Spawn, Copy, Wake, Join,
         Destroy
<1>1. \A d \in Clients : sock'[d].in = sock[d].in
  BY <1>0 DEF Wake, Socks
<1>2. \A d \in Clients : thread'[d] = thread[d] \/ (thread[d] = "none" /\ thread'[d] = "check")
  <2>1. CASE UNCHANGED thread
    BY <2>1
  <2>2. CASE Spawn
    <3>1. accepted \in Clients /\ thread[accepted] = "none"
      BY <2>2 DEF ServerInv, Types, Accepting, Spawn
    <3> QED BY <1>0, <2>2, <3>1 DEF Spawn, Go
  <2> QED BY <1>0, <2>1, <2>2
<1> QED BY <1>0, <1>1, <1>2, FrameSame

LEMMA FrameServeRecv ==
  ASSUME ServerInv, BufInv, FramingInv, NEW c \in Clients, Recv(c), UNCHANGED sent
  PROVE  FramingInv'
<1>0. /\ buf \in [Clients -> Seq(Units)] /\ buf[c] \in Seq(Units)
      /\ sent[c] \in Seq(Units) /\ running' = running
      /\ sock \in [Clients -> Socks] /\ sock[c].in \in Seq(Units) /\ Chunk \in Nat
      /\ thread \in [Clients -> Threads] /\ thread[c] = "recv"
      /\ UNCHANGED <<out, answers>>
  <2>1. buf \in [Clients -> Seq(Units)] /\ sent \in [Clients -> Seq(Units)]
    BY DEF BufInv, FramingInv
  <2>2. sock \in [Clients -> Socks] /\ sock[c].in \in Seq(Units) /\ thread \in [Clients -> Threads]
    BY DEF ServerInv, Types, Socks
  <2>3. Chunk \in Nat
    BY ServerAssumption
  <2> QED BY <2>1, <2>2, <2>3 DEF Recv
<1>f. Frame("recv", sent[c], buf[c], sock[c].in, out[c], answers[c], running)
  <2>1. Frame(thread[c], sent[c], buf[c], sock[c].in, out[c], answers[c], running)
    BY DEF FramingInv, FrameOK
  <2> QED BY <1>0, <2>1
<1>t. out' \in [Clients -> Seq(Units)] /\ answers' \in [Clients -> Seq(Seq(Units) \union {TooBig})]
  BY <1>0 DEF FramingInv
<1>1. CASE UNCHANGED <<buf, sock>> /\ Go(c, Done)
  <2>1. thread' = [thread EXCEPT ![c] = "erase"]
    BY <1>1, Epilogue DEF Go
  <2>2. Frame("erase", sent[c], buf[c], sock[c].in, out[c], answers[c], running)
    BY <1>f, FrameOver
  <2>3. Frame(thread'[c], sent'[c], buf'[c], sock'[c].in, out'[c], answers'[c], running')
    BY <1>0, <1>1, <2>1, <2>2
  <2>4. FrameOK(c)'
    BY <2>3 DEF FrameOK
  <2> QED BY <1>0, <1>t, <1>1, <2>1, <2>4, FrameOne
<1>2. CASE \E k \in 1..Min({Chunk, Len(sock[c].in)}) :
             /\ buf' = [buf EXCEPT ![c] = @ \o SubSeq(sock[c].in, 1, k)]
             /\ sock' = [sock EXCEPT ![c].in = SubSeq(@, k + 1, Len(@))]
             /\ Go(c, IF BufTooLong(buf'[c]) THEN "reject" ELSE "lines")
  <2>1. Len(sock[c].in) \in Nat
    BY <1>0
  <2>2. PICK k \in 1..Len(sock[c].in) :
             /\ buf' = [buf EXCEPT ![c] = buf[c] \o SubSeq(sock[c].in, 1, k)]
             /\ sock' = [sock EXCEPT ![c].in = SubSeq(@, k + 1, Len(@))]
             /\ Go(c, IF BufTooLong(buf'[c]) THEN "reject" ELSE "lines")
    <3>1. /\ Min({Chunk, Len(sock[c].in)}) \in Nat
          /\ Min({Chunk, Len(sock[c].in)}) <= Len(sock[c].in)
      BY <1>0, <2>1, MinOfTwo
    <3>2. \A k \in 1..Min({Chunk, Len(sock[c].in)}) : k \in 1..Len(sock[c].in)
      BY <2>1, <3>1
    <3> QED BY <1>2, <3>2
  <2>3. PICK b \in Seq(Units) : b = buf[c] \o SubSeq(sock[c].in, 1, k)
    <3>1. \A i \in 1..k : sock[c].in[i] \in Units
      BY <1>0, <2>1, <2>2, ElementOfSeq
    <3>2. SubSeq(sock[c].in, 1, k) \in Seq(Units)
      BY <2>1, <2>2, <3>1, SubSeqProperties
    <3> QED BY <1>0, <3>2, ConcatProperties
  <2>4. PICK r \in Seq(Units) : r = SubSeq(sock[c].in, k + 1, Len(sock[c].in))
    <3>1. \A i \in (k + 1)..Len(sock[c].in) : sock[c].in[i] \in Units
      BY <1>0, <2>1, <2>2, ElementOfSeq
    <3>2. SubSeq(sock[c].in, k + 1, Len(sock[c].in)) \in Seq(Units)
      BY <2>1, <2>2, <3>1, SubSeqProperties
    <3> QED BY <3>2
  <2>5. Frame(IF BufTooLong(b) THEN "reject" ELSE "lines", sent[c], b, r, out[c], answers[c],
              running)
    BY <1>0, <2>2, <2>3, <1>f, <2>4, FrameRecv
  <2>6. buf'[c] = b /\ \A d \in Clients \ {c} : buf'[d] = buf[d]
    BY <1>0, <2>2, <2>3
  <2>7. sock'[c].in = r /\ \A d \in Clients \ {c} : sock'[d].in = sock[d].in
    <3>1. sock' = [sock EXCEPT ![c] = [sock[c] EXCEPT !.in = r]]
      BY <1>0, <2>2, <2>4
    <3>2. [sock[c] EXCEPT !.in = r].in = r
      BY <1>0 DEF Socks
    <3> QED BY <1>0, <3>1, <3>2
  <2>8. /\ thread'[c] = IF BufTooLong(b) THEN "reject" ELSE "lines"
        /\ \A d \in Clients \ {c} : thread'[d] = thread[d]
    BY <1>0, <2>2, <2>6 DEF Go
  <2>9. Frame(thread'[c], sent'[c], buf'[c], sock'[c].in, out'[c], answers'[c], running')
    BY <1>0, <2>5, <2>6, <2>7, <2>8
  <2>10. FrameOK(c)'
    BY <2>9 DEF FrameOK
  <2> QED BY <1>0, <1>t, <2>6, <2>7, <2>8, <2>10, FrameOne
<1> QED BY <1>1, <1>2 DEF Recv

LEMMA FrameServeLine ==
  ASSUME ServerInv, BufInv, FramingInv, NEW c \in Clients, Line(c), UNCHANGED sent
  PROVE  FramingInv'
<1>0. /\ buf \in [Clients -> Seq(Units)] /\ buf[c] \in Seq(Units) /\ Len(buf[c]) \in Nat
      /\ sent[c] \in Seq(Units) /\ running \in BOOLEAN
      /\ sock \in [Clients -> Socks] /\ sock[c].in \in Seq(Units)
      /\ thread \in [Clients -> Threads] /\ thread[c] = "lines"
      /\ out \in [Clients -> Seq(Units)]
      /\ UNCHANGED <<sock, answers>>
  <2>1. /\ buf \in [Clients -> Seq(Units)] /\ sent \in [Clients -> Seq(Units)]
        /\ out \in [Clients -> Seq(Units)]
    BY DEF BufInv, FramingInv
  <2>2. /\ sock \in [Clients -> Socks] /\ sock[c].in \in Seq(Units)
        /\ thread \in [Clients -> Threads] /\ running \in BOOLEAN
    BY DEF ServerInv, Types, Socks
  <2>3. buf[c] \in Seq(Units) /\ sent[c] \in Seq(Units) /\ Len(buf[c]) \in Nat
    BY <2>1
  <2> QED BY <2>1, <2>2, <2>3 DEF Line
<1>f. Frame("lines", sent[c], buf[c], sock[c].in, out[c], answers[c], running)
  <2>1. Frame(thread[c], sent[c], buf[c], sock[c].in, out[c], answers[c], running)
    BY DEF FramingInv, FrameOK
  <2> QED BY <1>0, <2>1
<1>t. answers' \in [Clients -> Seq(Seq(Units) \union {TooBig})]
  BY <1>0 DEF FramingInv
<1>1. CASE UNCHANGED <<running, buf, out>> /\ ~ HasLine(buf[c]) /\ Go(c, "check")
  <2>1. thread' = [thread EXCEPT ![c] = "check"]
    BY <1>1 DEF Go
  <2>2. Frame("check", sent[c], buf[c], sock[c].in, out[c], answers[c], running)
    BY <1>f, FrameWait
  <2>3. Frame(thread'[c], sent'[c], buf'[c], sock'[c].in, out'[c], answers'[c], running')
    BY <1>0, <1>1, <2>1, <2>2
  <2>4. FrameOK(c)'
    BY <2>3 DEF FrameOK
  <2> QED BY <1>0, <1>t, <1>1, <2>1, <2>4, FrameOne
<1>2. CASE /\ UNCHANGED <<running, buf, out>> /\ HasLine(buf[c]) /\ Go(c, "reject")
           /\ LineTooLong(Len(SubSeq(buf[c], 1, Cut(buf[c]) - 1)))
  <2>1. thread' = [thread EXCEPT ![c] = "reject"]
    BY <1>2 DEF Go
  <2>2. Frame("reject", sent[c], buf[c], sock[c].in, out[c], answers[c], running)
    BY <1>0, <1>2, <1>f, FrameLong DEF FirstOf
  <2>3. Frame(thread'[c], sent'[c], buf'[c], sock'[c].in, out'[c], answers'[c], running')
    BY <1>0, <1>2, <2>1, <2>2
  <2>4. FrameOK(c)'
    BY <2>3 DEF FrameOK
  <2> QED BY <1>0, <1>t, <1>2, <2>1, <2>4, FrameOne
<1>3. ASSUME HasLine(buf[c]), NEW n, n = Cut(buf[c]),
             NEW line, line = SubSeq(buf[c], 1, n - 1), ~ LineTooLong(Len(line)),
             buf' = [buf EXCEPT ![c] = SubSeq(@, n + 1, Len(@))],
             IF line = <<>>
               THEN UNCHANGED <<running, rebuilding, thread, out>>
               ELSE Handle(line) /\ out' = [out EXCEPT ![c] = line] /\ Go(c, "send")
      PROVE  FramingInv'
  <2>1. n \in 1..Len(buf[c])
    BY <1>0, <1>3, CutFirst
  <2>2. PICK b \in Seq(Units) : b = SubSeq(buf[c], n + 1, Len(buf[c]))
    <3>1. \A i \in (n + 1)..Len(buf[c]) : buf[c][i] \in Units
      BY <1>0, <2>1, ElementOfSeq
    <3>2. SubSeq(buf[c], n + 1, Len(buf[c])) \in Seq(Units)
      BY <1>0, <2>1, <3>1, SubSeqProperties
    <3> QED BY <3>2
  <2>3. buf'[c] = b /\ \A d \in Clients \ {c} : buf'[d] = buf[d]
    BY <1>0, <1>3, <2>2
  <2>4. line \in Seq(Units)
    <3>1. \A i \in 1..(n - 1) : buf[c][i] \in Units
      BY <1>0, <2>1, ElementOfSeq
    <3> QED BY <1>0, <1>3, <2>1, <3>1, SubSeqProperties
  <2>o. PICK on \in BOOLEAN : on = (running /\ line # <<"shutdown">>)
    OBVIOUS
  <2>5. /\ line = <<>> =>
             Frame("lines", sent[c], b, sock[c].in, out[c], answers[c], running)
        /\ line # <<>> => Frame("send", sent[c], b, sock[c].in, line, answers[c], on)
    <3>1. /\ line = FirstOf(buf[c]) /\ b = RestOf(buf[c]) /\ ~ LineTooLong(Len(FirstOf(buf[c])))
          /\ RestOf(buf[c]) \in Seq(Units) /\ HasLine(buf[c])
      BY <1>3, <2>2 DEF FirstOf, RestOf
    <3>2. on => running /\ FirstOf(buf[c]) # <<"shutdown">>
      BY <2>o, <3>1
    <3>3. /\ FirstOf(buf[c]) = <<>> =>
               Frame("lines", sent[c], RestOf(buf[c]), sock[c].in, out[c], answers[c], running)
          /\ FirstOf(buf[c]) # <<>> =>
               Frame("send", sent[c], RestOf(buf[c]), sock[c].in, FirstOf(buf[c]), answers[c], on)
      BY <1>0, <1>f, <3>1, <3>2, FrameLine
    <3> QED BY <3>1, <3>3
  <2>6. CASE line = <<>>
    <3>1. UNCHANGED <<running, thread, out>>
      BY <1>3, <2>6
    <3>2. Frame(thread'[c], sent'[c], buf'[c], sock'[c].in, out'[c], answers'[c], running')
      BY <1>0, <2>3, <2>5, <2>6, <3>1
    <3>3. FrameOK(c)'
      BY <3>2 DEF FrameOK
    <3> QED BY <1>0, <1>t, <2>3, <3>1, <3>3, FrameOne
  <2>7. CASE line # <<>>
    <3>1. /\ running' = on
          /\ out' = [out EXCEPT ![c] = line] /\ thread' = [thread EXCEPT ![c] = "send"]
      BY <1>3, <2>7, <2>o DEF Handle, Go
    <3>2. Frame(thread'[c], sent'[c], buf'[c], sock'[c].in, out'[c], answers'[c], running')
      BY <1>0, <2>3, <2>5, <2>7, <3>1
    <3>3. FrameOK(c)'
      BY <3>2 DEF FrameOK
    <3>4. out' \in [Clients -> Seq(Units)] /\ (running' => running)
      BY <1>0, <2>4, <2>o, <3>1
    <3> QED BY <1>0, <1>t, <2>3, <3>1, <3>3, <3>4, FrameOne
  <2> QED BY <2>6, <2>7
<1> QED BY <1>1, <1>2, <1>3 DEF Line

\* An answer goes out to the client and stands at the end of its answers.
LEMMA AnswersMore ==
  ASSUME NEW T, answers \in [Clients -> Seq(T)], NEW c \in Clients, NEW x \in T,
         answers' = [answers EXCEPT ![c] = Append(@, x)]
  PROVE  /\ answers' \in [Clients -> Seq(T)] /\ answers'[c] = Append(answers[c], x)
         /\ \A d \in Clients \ {c} : answers'[d] = answers[d]
<1>1. Append(answers[c], x) \in Seq(T)
  OBVIOUS
<1> QED BY <1>1

LEMMA FrameServe ==
  ASSUME ServerInv, BufInv, FramingInv, NEW c \in Clients, Serve(c)
  PROVE  FramingInv'
<1> DEFINE T == Seq(Units) \union {TooBig}
<1>0. /\ buf[c] \in Seq(Units) /\ sent[c] \in Seq(Units) /\ running \in BOOLEAN
      /\ sock \in [Clients -> Socks] /\ sock[c].in \in Seq(Units)
      /\ thread \in [Clients -> Threads]
      /\ out \in [Clients -> Seq(Units)] /\ answers \in [Clients -> Seq(T)]
      /\ answers[c] \in Seq(T) /\ out[c] \in T /\ TooBig \in T /\ out[c] \in Seq(Units)
      /\ UNCHANGED sent
      /\ Frame(thread[c], sent[c], buf[c], sock[c].in, out[c], answers[c], running)
  BY DEF ServerInv, Types, Socks, BufInv, FramingInv, FrameOK, Serve
<1>1. ASSUME NEW s, thread' = [thread EXCEPT ![c] = s],
             UNCHANGED <<running, buf, out, answers, sock>>,
             Frame(s, sent[c], buf[c], sock[c].in, out[c], answers[c], running)
      PROVE  FramingInv'
  <2>1. Frame(thread'[c], sent'[c], buf'[c], sock'[c].in, out'[c], answers'[c], running')
    BY <1>0, <1>1
  <2>2. FrameOK(c)'
    BY <2>1 DEF FrameOK
  <2> QED BY <1>0, <1>1, <2>2, FrameOne
<1>2. ASSUME NEW s, thread' = [thread EXCEPT ![c] = s], NEW x \in T,
             UNCHANGED <<running, buf, out>>,
             sock' = [sock EXCEPT ![c].unread = @ + 1],
             answers' = [answers EXCEPT ![c] = Append(@, x)],
             Frame(s, sent[c], buf[c], sock[c].in, out[c], Append(answers[c], x), running)
      PROVE  FramingInv'
  <2>1. /\ answers' \in [Clients -> Seq(T)] /\ answers'[c] = Append(answers[c], x)
        /\ \A d \in Clients \ {c} : answers'[d] = answers[d]
    BY <1>0, <1>2, AnswersMore
  <2>2. \A d \in Clients : sock'[d].in = sock[d].in
    <3>1. sock' = [sock EXCEPT ![c] = [sock[c] EXCEPT !.unread = sock[c].unread + 1]]
      BY <1>0, <1>2
    <3>2. [sock[c] EXCEPT !.unread = sock[c].unread + 1].in = sock[c].in
      BY <1>0 DEF Socks
    <3> QED BY <1>0, <3>1, <3>2
  <2>3. Frame(thread'[c], sent'[c], buf'[c], sock'[c].in, out'[c], answers'[c], running')
    BY <1>0, <1>2, <2>1, <2>2
  <2>4. FrameOK(c)'
    BY <2>3 DEF FrameOK
  <2> QED BY <1>0, <1>2, <2>1, <2>2, <2>4, FrameOne
<1> HIDE DEF T
<1>3. CASE Check(c)
  <2>1. thread' = [thread EXCEPT ![c] = IF running THEN "recv" ELSE "erase"]
        /\ UNCHANGED <<running, buf, out, answers, sock>> /\ thread[c] = "check"
    BY <1>3, Epilogue DEF Check, Go
  <2>2. CASE running
    <3>1. running = TRUE
      BY <1>0, <2>2
    <3>2. Frame("recv", sent[c], buf[c], sock[c].in, out[c], answers[c], running)
      BY <1>0, <2>1, <3>1, FrameCheck
    <3> QED BY <1>1, <2>1, <2>2, <3>2
  <2>3. CASE ~ running
    <3>1. Frame("erase", sent[c], buf[c], sock[c].in, out[c], answers[c], running)
      BY <1>0, FrameOver
    <3> QED BY <1>1, <2>1, <2>3, <3>1
  <2> QED BY <2>2, <2>3
<1>4. CASE Send(c)
  <2>1. thread[c] = "send" /\ UNCHANGED <<running, buf, out>>
    BY <1>4 DEF Send
  <2>2. CASE Go(c, Done) /\ UNCHANGED <<sock, answers>>
    <3>1. Frame("erase", sent[c], buf[c], sock[c].in, out[c], answers[c], running)
      BY <1>0, FrameOver
    <3> QED BY <1>1, <2>1, <2>2, <3>1, Epilogue DEF Go
  <2>3. CASE /\ sock' = [sock EXCEPT ![c].unread = @ + 1]
             /\ answers' = [answers EXCEPT ![c] = Append(@, out[c])] /\ Go(c, "sent")
    <3>1. Frame("sent", sent[c], buf[c], sock[c].in, out[c], Append(answers[c], out[c]), running)
      BY <1>0, <2>1, FrameSend DEF T
    <3> QED BY <1>0, <1>2, <2>1, <2>3, <3>1 DEF Go
  <2> QED BY <1>4, <2>2, <2>3 DEF Send
<1>5. CASE Sent(c)
  <2>1. /\ thread[c] = "sent" /\ UNCHANGED <<running, buf, out, answers, sock>>
        /\ Go(c, IF ~ running THEN "check" ELSE IF BufTooLong(buf[c]) THEN "reject" ELSE "lines")
    BY <1>5 DEF Sent
  <2>2. Frame(IF ~ running THEN "check" ELSE IF BufTooLong(buf[c]) THEN "reject" ELSE "lines",
              sent[c], buf[c], sock[c].in, out[c], answers[c], running)
    BY <1>0, <2>1, FrameSent
  <2> QED BY <1>1, <2>1, <2>2 DEF Go
<1>6. CASE Reject(c)
  <2>1. thread[c] = "reject" /\ UNCHANGED <<running, buf, out>>
        /\ thread' = [thread EXCEPT ![c] = "erase"]
    BY <1>6, Epilogue DEF Reject, Go
  <2>2. CASE UNCHANGED <<sock, answers>>
    <3>1. Frame("erase", sent[c], buf[c], sock[c].in, out[c], answers[c], running)
      BY <1>0, FrameOver
    <3> QED BY <1>1, <2>1, <2>2, <3>1
  <2>3. CASE /\ sock' = [sock EXCEPT ![c].unread = @ + 1]
             /\ answers' = [answers EXCEPT ![c] = Append(@, TooBig)]
    <3>1. Frame("erase", sent[c], buf[c], sock[c].in, out[c], Append(answers[c], TooBig), running)
      BY <1>0, <2>1, FrameReject DEF T
    <3> QED BY <1>0, <1>2, <2>1, <2>3, <3>1
  <2> QED BY <1>6, <2>2, <2>3 DEF Reject
<1>7. CASE Erase(c) \/ Close(c)
  <2>1. PICK s \in {"close", "done"} :
          /\ thread' = [thread EXCEPT ![c] = s]
          /\ UNCHANGED <<running, buf, out, answers, sock>>
    BY <1>7, Epilogue DEF Erase, Close, Go
  <2>2. Frame(s, sent[c], buf[c], sock[c].in, out[c], answers[c], running)
    BY <1>0, FrameOver
  <2> QED BY <1>1, <2>1, <2>2
<1> QED BY <1>0, <1>3, <1>4, <1>5, <1>6, <1>7, FrameServeRecv, FrameServeLine DEF Serve

\* What those bytes ask for is a sequence.
LEMMA AskedIsSeq ==
  ASSUME NEW w \in Seq(Units)
  PROVE  \E U : Asked(w) \in Seq(U) /\ Len(Asked(w)) = Cardinality(Due(w))
<1>1. PICK N \in Nat : N = Cardinality(Due(w))
  BY EndsTyped
<1>2. PICK f : f = Asked(w)
  OBVIOUS
<1> DEFINE U == {f[n] : n \in 1..N}
<1>3. f \in [1..N -> U]
  BY <1>1, <1>2 DEF Asked
<1> HIDE DEF U
<1>4. f \in Seq(U) /\ Len(f) = N
  BY <1>3
<1> QED BY <1>1, <1>2, <1>4

\* For any number of clients, whatever they write, and for any limit: however
\* the bytes come in pieces and wherever the threads are when the daemon is told
\* to stop, the answers of a client are the first of those its bytes ask for, in
\* their order (serveConnection).  The thread knows how far in what was written
\* it is, that every line it took had its answer, and that none of them was the
\* last.
THEOREM FramingAlways == Spec => []FramingIndependent
<1>1. ServerInv /\ BufInv /\ FramingInv /\ [Next]_vars => FramingInv'
  <2> SUFFICES ASSUME ServerInv, BufInv, FramingInv, [Next]_vars PROVE FramingInv'
    OBVIOUS
  <2>0. running \in BOOLEAN
    BY DEF ServerInv, Types
  <2>1. CASE UNCHANGED vars
    BY <2>0, <2>1, FrameSame DEF vars, mainVars, threadVars, kernelVars
  <2>2. CASE RebuildEnds
    BY <2>0, <2>2, FrameSame DEF RebuildEnds, threadVars, kernelVars
  <2> QED BY <2>1, <2>2, FrameClient, FrameMain, FrameServe DEF Next
<1>2. FramingInv => FramingIndependent
  <2> SUFFICES ASSUME FramingInv, NEW c \in Clients
               PROVE  IsPrefix(answers[c], Asked(sent[c]))
    BY DEF FramingIndependent
  <2> DEFINE T == Seq(Units) \union {TooBig}
  <2>1. /\ answers[c] \in Seq(T) /\ sent[c] \in Seq(Units) /\ Right(sent[c], answers[c])
    BY DEF FramingInv, FrameOK, Frame
  <2>2. PICK U : /\ Asked(sent[c]) \in Seq(U)
                 /\ Len(Asked(sent[c])) = Cardinality(Due(sent[c]))
    BY <2>1, AskedIsSeq
  <2>3. PICK a \in Seq(T) : a = answers[c]
    BY <2>1
  <2>4. PICK t \in Seq(U) : t = Asked(sent[c])
    BY <2>2
  <2> HIDE DEF T
  <2>5. /\ Len(a) <= Len(t) /\ \A i \in 1..Len(a) : a[i] = t[i]
        /\ Len(a) \in Nat /\ Len(t) \in Nat
    BY <2>1, <2>2, <2>3, <2>4 DEF Right
  <2>6. SubSeq(a, 1, Len(a)) = SubSeq(t, 1, Len(a))
    <3> DEFINE V == T \union U
    <3>1. PICK x : x = SubSeq(a, 1, Len(a))
      OBVIOUS
    <3>2. PICK y : y = SubSeq(t, 1, Len(a))
      OBVIOUS
    <3>3. a \in Seq(V) /\ t \in Seq(V)
      OBVIOUS
    <3> HIDE DEF V
    <3>4. \A i \in 1..Len(a) : a[i] \in V /\ t[i] \in V
      BY <2>5, <3>3, ElementOfSeq
    <3>5. x \in Seq(V) /\ Len(x) = Len(a) /\ \A i \in 1..Len(a) : x[i] = a[i]
      BY <2>5, <3>1, <3>3, <3>4, SubSeqProperties
    <3>6. y \in Seq(V) /\ Len(y) = Len(a) /\ \A i \in 1..Len(a) : y[i] = t[i]
      BY <2>5, <3>2, <3>3, <3>4, SubSeqProperties
    <3>7. x = y
      BY <2>5, <3>5, <3>6, SeqEqual
    <3> QED BY <3>1, <3>2, <3>7
  <2> QED BY <2>3, <2>4, <2>5, <2>6 DEF IsPrefix
<1> QED BY <1>1, <1>2, FrameInit, AlwaysServer, AlwaysBuf, PTL DEF Spec
===============================================================================
