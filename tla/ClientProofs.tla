----------------------------- MODULE ClientProofs -----------------------------
(* What module Client promises, for daemons of any versions, any number of   *)
(* ends and of calls.                                                       *)
EXTENDS Client, SequenceTheorems, TLAPS

-----------------------------------------------------------------------------
(* The connection and what was concluded about its daemon.                  *)

\* Ends are counted when they happen: a connection to a daemon that has ended has
\* a lower number than any daemon that runs or will.
Links ==
  /\ deaths \in Nat
  /\ \/ daemon = noDaemon
     \/ daemon = [kind |-> daemon.kind, gen |-> deaths] /\ daemon.kind \in Kinds
  /\ \/ conn = closed
     \/ /\ conn = [gen |-> conn.gen, kind |-> conn.kind, in |-> conn.in]
        /\ conn.kind \in Kinds /\ conn.gen \in Nat /\ conn.gen <= deaths
        /\ conn.gen = deaths => daemon # noDaemon /\ daemon.kind = conn.kind

Can(k, cmd) == cmd \in k.lists /\ cmd \in k.knows

Caches ==
  /\ v2 \in -1..1 /\ v3 \in -1..1
  /\ ~ Connected => v2 = -1 /\ v3 = -1
  /\ v2 = 1 => "search2" \in conn.kind.lists
  /\ v2 = 0 => ~ Can(conn.kind, "search2")
  /\ v3 = 1 => "search3" \in conn.kind.lists
  /\ v3 = 0 => ~ Can(conn.kind, "search3")

\* search3 is known not to be there, or will not be asked for: the daemon is gone.
NoV3 == v3 = 0 \/ (v3 = -1 /\ ~ Alive)

-----------------------------------------------------------------------------
(* The causes of a failure.                                                 *)

Stale == Connected /\ ~ Alive

\* The ends since the call that the client has learned of.
Learned == deaths - call.since - IF Stale THEN 1 ELSE 0

\* A daemon without search2 is there, is at the other end, or was one that ended.
LackSeen ==
  \/ Connected /\ "search2" \notin conn.kind.knows
  \/ Lacking
  \/ Learned >= 1

\* Enough has gone wrong for n attempts to fail.
Excused(n) == Learned >= n \/ call.noStart \/ (call.under /\ LackSeen)

\* Why a function has failed.
FunctionFails ==
  call.noStart \/ Stale \/ (call.under /\ Connected /\ "search2" \notin conn.kind.knows)

-----------------------------------------------------------------------------
(* The stack.                                                               *)

Opening   == {"connect", "spawn", "retry"}
Searching == {"search", "searchLegacy", "counted"}
SearchEx1 == {"searchEx", "searchEx3", "searchEx2"}
Functions == Searching \cup SearchEx1 \cup {"fallback", "countEx", "stats", "rebuild"}
Trying    == {"try", "call", "judge"}
Tried     == {"stats", "search", "searchEx", "rebuild"}
Replying  == {"exPage", "refetch", "refetched", "statsDone", "rebuildDone"}
Program   == Replying \cup {"negotiate", "choose", "legacyPage", "request", "exit"}

Frames ==
  [at : Opening \cup Functions \cup Trying \cup Program \cup {"ensure", "supportsV2", "supportsV3"},
   under : BOOLEAN, f : Printed \cup {"none"}, try : 0..2]

\* A frame does the work of function f with argument u.
Serves(fr, f, u) ==
  \/ fr.at \in SearchEx1 /\ f = "searchEx" /\ u = fr.under
  \/ fr.at = "fallback" /\ f = "searchEx" /\ ~ u
  \/ fr.at \in Searching /\ f \in {"search", "countEx"} /\ ~ u
  \/ fr.at = "countEx" /\ f = "countEx" /\ u = fr.under
  \/ fr.at \in {"stats", "rebuild"} /\ f = fr.at
  \/ fr.at \in Trying /\ f = fr.f /\ u = fr.under

\* The work whose result a frame goes on with, in a call with the argument w.
Wants(fr, f, u, w) ==
  \/ fr.at \in {"judge", "exit"} /\ f = fr.f /\ u = fr.under
  \/ fr.at = "fallback" /\ f = "search" /\ ~ u
  \/ fr.at = "counted" /\ f = "searchEx" /\ ~ u
  \/ fr.at = "exPage" /\ f = "searchEx" /\ u = w
  \/ fr.at \in {"refetch", "refetched"} /\ f = "search" /\ ~ u
  \/ fr.at = "statsDone" /\ f = "stats"
  \/ fr.at = "rebuildDone" /\ f = "rebuild"

Match(a, b, w) == \E f \in Printed, u \in BOOLEAN : Serves(a, f, u) /\ Wants(b, f, u, w)

\* Frame a may be called from frame b.
Fits(a, b, w) ==
  \/ a.at \in Opening \cup {"ensure"} /\ b.at \in {"call", "negotiate", "request"}
  \/ a.at = "supportsV2" /\ b.at = "choose"
  \/ a.at = "supportsV3" /\ b.at \in {"searchEx3", "searchLegacy"}
  \/ a.at \in Functions /\ b.at \in {"judge", "exit", "fallback", "counted"} /\ Match(a, b, w)
  \/ a.at \in Trying /\ b.at \in Replying /\ Match(a, b, w)

Shape ==
  /\ todo \in Seq(Frames)
  /\ \A i \in 1..Len(todo) : i < Len(todo) => Fits(todo[i], todo[i + 1], call.under)
  /\ \A i, j \in 1..Len(todo) :
       i < j /\ todo[j].at = "fallback" => todo[i].at \in {"search", "searchLegacy", "supportsV3"}
  /\ call.by = "cli" =>
       IF todo = <<>> THEN ~ Connected ELSE todo[Len(todo)].at \in {"request", "exit"}

\* What holds as long as a frame is on the stack.
FrameOK(fr) ==
  /\ fr.under => call.under
  /\ fr.at \in Opening => ~ Connected
  /\ fr.at \in Functions \cup {"judge"} => Connected
  /\ fr.at \in {"searchEx2", "fallback"} => NoV3
  /\ fr.at = "fallback" => legacy
  /\ fr.at \in {"refetch", "refetched"} => ~ call.under
  /\ fr.at \in {"request", "exit"} =>
       fr.f \in Printed /\ fr.under = call.under /\ (fr.f = "search" => ~ fr.under)
  /\ fr.at \in Trying => /\ fr.f \in Tried /\ (fr.f = "search" => ~ fr.under)
                         /\ fr.try \in {1, 2} /\ Excused(fr.try - 1)

\* The result is one of function f with argument u.
Good(f, u) ==
  /\ f \in WithRows =>
       \E r \in ToSet(result.rows) :
         /\ result.rows = <<r>>
         /\ r.line.t = "row" \/ (r.line.cmd = "count2" /\ f = "countEx")
         /\ r.line.under = u
         /\ r.unescaped <=> r.line.cmd = "search3"
  /\ f = "searchEx" /\ ~ legacy => result.total = "exact"

\* What holds when the frame called has just returned to this one.
Returned(fr) ==
  /\ fr.at \in {"call", "negotiate", "request"} => IF ok THEN Connected ELSE call.noStart
  /\ fr.at = "searchEx3" /\ ~ ok => NoV3
  /\ fr.at = "searchLegacy" /\ ok => v3 = 1
  /\ ok => \A f \in Printed, u \in BOOLEAN : Wants(fr, f, u, call.under) => Good(f, u)
  /\ ~ ok /\ fr.at \in {"judge", "exit", "fallback", "counted"} => FunctionFails
  /\ ~ ok /\ fr.at \in Replying => Excused(2)

Types ==
  /\ ok \in BOOLEAN /\ legacy \in BOOLEAN
  /\ call = [by |-> call.by, rebuilt |-> call.rebuilt, under |-> call.under,
             since |-> call.since, noStart |-> call.noStart]
  /\ call.under \in BOOLEAN /\ call.noStart \in BOOLEAN /\ call.since \in Int
  /\ result = [rows |-> result.rows, total |-> result.total]

OnStack == {todo[i] : i \in 1..Len(todo)}

Stacked ==
  /\ \A fr \in OnStack : FrameOK(fr)
  /\ \A fr \in OnStack : fr = Head(todo) => Returned(fr)

Answers ==
  /\ RightPage
  /\ answer.is = "error" => Excused(2)

ClientInv ==
  /\ Types /\ Links /\ Caches /\ InStep /\ Learned >= 0
  /\ Shape /\ Stacked /\ Answers

-----------------------------------------------------------------------------
(* Requests.                                                                *)

\* What Ask does, and the g it goes on with.
Asks(cmd, under, many, g) ==
  IF ~ Alive THEN g = Lost /\ UNCHANGED <<daemon, deaths, conn>>
  ELSE LET reply == Reply(daemon, cmd, under) IN
       \E k \in 0..Len(reply) :
         /\ g = Received(conn.in \o SubSeq(reply, 1, k), many)
         /\ deaths' = IF k < Len(reply) THEN deaths + 1 ELSE deaths
         /\ daemon' = IF k < Len(reply) THEN noDaemon ELSE daemon
         /\ conn' = [conn EXCEPT !.in = g.rest]

\* The requests there are, and whether their reply is of many lines.
Requests == {"capabilities", "stats", "search", "search2", "search3"} \X {TRUE}
              \cup {"rebuild", "count2"} \X {FALSE}

\* The lines of a result, one of the daemon's.
Body(cmd, under) ==
  IF cmd \in {"stats", "capabilities"} THEN Line("kv", cmd, FALSE, daemon.gen)
  ELSE IF cmd = "search" THEN Line("row", cmd, FALSE, daemon.gen)
  ELSE IF cmd = "rebuild" THEN Just("OK")
  ELSE IF cmd = "count2" THEN Line("OK", cmd, under, daemon.gen)
  ELSE Line("row", cmd, under, daemon.gen)

LEMMA ConnGen ==
  ASSUME Links
  PROVE  /\ Connected <=> conn.gen \in Nat
         /\ Alive => Connected /\ daemon.kind = conn.kind /\ daemon.gen = deaths
                     /\ conn.gen = deaths /\ daemon.kind \in Kinds
         /\ ~ Connected => conn = closed
BY DEF Links, Connected, Alive, closed, noDaemon

LEMMA ReplyShape ==
  ASSUME NEW cmd, NEW under, NEW many, <<cmd, many>> \in Requests
  PROVE  Reply(daemon, cmd, under) =
           IF cmd \notin daemon.kind.knows THEN <<Just("ERR unknown command")>>
           ELSE IF many THEN <<Just("OK"), Body(cmd, under), Just("END")>>
           ELSE <<Body(cmd, under)>>
BY DEF Requests, Reply, Body

LEMMA PartIs ==
  ASSUME NEW S, NEW s \in Seq(S), NEW t \in Seq(S), NEW m \in Nat \ {0}, NEW n \in Nat,
         n <= Len(s), Len(t) = n - m + 1, \A i \in 1..Len(t) : t[i] = s[m + i - 1]
  PROVE  SubSeq(s, m, n) = t
<1>1. \A i \in m..n : s[i] \in S
  BY ElementOfSeq, LenProperties
<1>2. /\ SubSeq(s, m, n) \in Seq(S)
      /\ Len(SubSeq(s, m, n)) = IF m <= n THEN n - m + 1 ELSE 0
      /\ \A i \in 1..(n - m + 1) : SubSeq(s, m, n)[i] = s[m + i - 1]
  BY <1>1, SubSeqProperties
<1>3. Len(t) \in Nat
  BY LenProperties
<1>4. Len(SubSeq(s, m, n)) = Len(t)
  BY <1>2, <1>3
<1> QED BY <1>2, <1>4, SeqEqual

LEMMA OneLine ==
  ASSUME NEW S, NEW x \in S
  PROVE  /\ <<x>> \in Seq(S) /\ <<x>> # <<>> /\ Len(<<x>>) = 1 /\ DOMAIN <<x>> = {1}
         /\ <<x>>[1] = x /\ Head(<<x>>) = x /\ Tail(<<x>>) = <<>>
         /\ \A i \in DOMAIN <<x>> : <<x>>[i] = x
<1>1. <<x>> \in Seq(S) /\ <<x>> # <<>> /\ Len(<<x>>) = 1 /\ <<x>>[1] = x
  OBVIOUS
<1>2. DOMAIN <<x>> = {1}
  BY <1>1, LenProperties
<1>3. Head(<<x>>) = x
  BY <1>1, HeadTailProperties
<1>4. Len(Tail(<<x>>)) = 0 /\ Tail(<<x>>) \in Seq(S)
  BY <1>1, HeadTailProperties
<1>5. Tail(<<x>>) = <<>>
  BY <1>4, EmptySeq
<1> QED BY <1>1, <1>2, <1>3, <1>5

LEMMA OnePart ==
  ASSUME NEW S, NEW s \in Seq(S), NEW m \in 1..Len(s)
  PROVE  SubSeq(s, m, m) = <<s[m]>>
<1> DEFINE x == s[m]
           t == <<x>>
<1>1. x \in S
  BY ElementOfSeq
<1>2. t \in Seq(S) /\ Len(t) = 1 /\ t[1] = x
  BY <1>1, OneLine
<1>3. m + 1 - 1 = m /\ Len(s) \in Nat
  BY LenProperties
<1> HIDE DEF t
<1>4. Len(t) = m - m + 1 /\ \A i \in 1..Len(t) : t[i] = s[m + i - 1]
  BY <1>2, <1>3
<1>5. SubSeq(s, m, m) = t
  BY <1>2, <1>3, <1>4, PartIs
<1> QED BY <1>5 DEF t

LEMMA PartsOfThree ==
  ASSUME NEW a, NEW b, NEW c
  PROVE  LET s == <<a, b, c>> IN
         /\ SubSeq(s, 1, 0) = <<>> /\ SubSeq(s, 1, 1) = <<a>> /\ SubSeq(s, 1, 2) = <<a, b>>
         /\ SubSeq(s, 1, 3) = s /\ SubSeq(s, 2, 2) = <<b>> /\ SubSeq(s, 4, 3) = <<>>
<1> DEFINE S == {a, b, c}
           s == <<a, b, c>>
<1>1. /\ s \in Seq(S) /\ <<>> \in Seq(S) /\ <<a, b>> \in Seq(S)
  OBVIOUS
<1>2. s[1] = a /\ s[2] = b /\ s[3] = c /\ Len(s) = 3
  OBVIOUS
<1> HIDE DEF s, S
<1>3. SubSeq(s, 1, 0) = <<>> /\ SubSeq(s, 4, 3) = <<>>
  <2>1. Len(<<>>) = 0 - 1 + 1 /\ Len(<<>>) = 3 - 4 + 1 /\ 1..Len(<<>>) = {}
    OBVIOUS
  <2> QED BY <1>1, <1>2, <2>1, PartIs
<1>5. SubSeq(s, 1, 2) = <<a, b>>
  <2> DEFINE t == <<a, b>>
  <2>1. Len(t) = 2 - 1 + 1 /\ \A i \in 1..Len(t) : t[i] = s[1 + i - 1]
    BY <1>2
  <2>2. t \in Seq(S)
    BY <1>1
  <2> HIDE DEF t
  <2>3. SubSeq(s, 1, 2) = t
    BY <1>1, <1>2, <2>1, <2>2, PartIs
  <2> QED BY <2>3 DEF t
<1>6. SubSeq(s, 1, 3) = s
  <2>1. \A i \in 1..3 : s[i] = s[1 + i - 1]
    OBVIOUS
  <2> QED BY <1>1, <1>2, <2>1, PartIs
<1>7. SubSeq(s, 1, 1) = <<a>> /\ SubSeq(s, 2, 2) = <<b>>
  BY <1>1, <1>2, OnePart
<1> QED BY <1>3, <1>5, <1>6, <1>7 DEF s

\* What Received makes of lines, by what the first is and where END is.
LEMMA ReceivedUnknown ==
  ASSUME NEW in, NEW many, in # <<>>, Head(in).t = "ERR unknown command"
  PROVE  Received(in, many) = [is |-> "unknown", body |-> <<>>, rest |-> Tail(in)]
BY DEF Received

LEMMA ReceivedOne ==
  ASSUME NEW in, in # <<>>, Head(in).t \in {"OK", "OK pong"}
  PROVE  Received(in, FALSE) = [is |-> "ok", body |-> <<Head(in)>>, rest |-> Tail(in)]
BY DEF Received

LEMMA ReceivedPart ==
  ASSUME NEW in, in = <<>> \/ Head(in).t = "OK", \A i \in DOMAIN in : in[i].t # "END"
  PROVE  Received(in, TRUE) = Lost
<1>1. {i \in DOMAIN in : in[i].t = "END"} = {}
  OBVIOUS
<1> QED BY <1>1 DEF Received

LEMMA ReceivedAll ==
  ASSUME NEW in, in # <<>>, Head(in).t = "OK", NEW n \in Nat, n \in DOMAIN in,
         \A i \in DOMAIN in : in[i].t = "END" <=> i = n
  PROVE  Received(in, TRUE) =
           [is |-> "ok", body |-> SubSeq(in, 2, n - 1), rest |-> AfterEnd(in, n)]
<1>1. {i \in DOMAIN in : in[i].t = "END"} = {n}
  OBVIOUS
<1>2. (CHOOSE i \in {n} : \A j \in {n} : i <= j) = n
  OBVIOUS
<1> QED BY <1>1, <1>2 DEF Received

\* A reply cut anywhere: only all of it is taken for a reply.
LEMMA ReceivedMany ==
  ASSUME NEW b, b.t # "END", NEW k \in 0..3
  PROVE  Received(SubSeq(<<Just("OK"), b, Just("END")>>, 1, k), TRUE) =
           IF k = 3 THEN [is |-> "ok", body |-> <<b>>, rest |-> <<>>] ELSE Lost
<1> DEFINE o == Just("OK")
           e == Just("END")
           s == <<o, b, e>>
           t1 == <<o>>
           t2 == <<o, b>>
           good == [is |-> "ok", body |-> <<b>>, rest |-> <<>>]
<1>1. o.t = "OK" /\ e.t = "END"
  BY DEF Just, Line
<1> HIDE DEF o, e
<1>2. /\ SubSeq(s, 1, 0) = <<>> /\ SubSeq(s, 1, 1) = t1 /\ SubSeq(s, 1, 2) = t2
      /\ SubSeq(s, 1, 3) = s /\ SubSeq(s, 2, 2) = <<b>> /\ SubSeq(s, 4, 3) = <<>>
  BY PartsOfThree
<1>3. Head(t1) = o /\ \A i \in DOMAIN t1 : t1[i] = o
  BY OneLine
<1>4. Head(t2) = o /\ \A i \in DOMAIN t2 : t2[i] \in {o, b}
  OBVIOUS
<1>5. /\ s # <<>> /\ Head(s) = o /\ DOMAIN s = 1..3 /\ Len(s) = 3
      /\ s[1] = o /\ s[2] = b /\ s[3] = e
  OBVIOUS
<1> SUFFICES Received(SubSeq(s, 1, k), TRUE) = IF k = 3 THEN good ELSE Lost
  BY DEF o, e
<1> HIDE DEF s, t1, t2, good
<1>6. Received(<<>>, TRUE) = Lost
  BY DEF Received
<1>7. Received(t1, TRUE) = Lost
  <2>1. Head(t1).t = "OK" /\ \A i \in DOMAIN t1 : t1[i].t # "END"
    BY <1>1, <1>3
  <2> QED BY <2>1, ReceivedPart
<1>8. Received(t2, TRUE) = Lost
  <2>1. Head(t2).t = "OK" /\ \A i \in DOMAIN t2 : t2[i].t # "END"
    BY <1>1, <1>4
  <2> QED BY <2>1, ReceivedPart
<1>9. Received(s, TRUE) = good
  <2>1. Head(s).t = "OK" /\ \A i \in DOMAIN s : s[i].t = "END" <=> i = 3
    BY <1>1, <1>5
  <2>2. 3 \in Nat /\ 3 \in DOMAIN s
    BY <1>5
  <2>3. Received(s, TRUE) = [is |-> "ok", body |-> SubSeq(s, 2, 3 - 1), rest |-> AfterEnd(s, 3)]
    BY <1>5, <2>1, <2>2, ReceivedAll
  <2>4. AfterEnd(s, 3) = SubSeq(s, 4, 3)
    BY <1>5 DEF AfterEnd
  <2>5. SubSeq(s, 2, 3 - 1) = SubSeq(s, 2, 2)
    OBVIOUS
  <2>6. SubSeq(s, 2, 3 - 1) = <<b>> /\ AfterEnd(s, 3) = <<>>
    BY <1>2, <2>4, <2>5
  <2>7. good = [is |-> "ok", body |-> SubSeq(s, 2, 3 - 1), rest |-> AfterEnd(s, 3)]
    BY <2>6 DEF good
  <2> QED BY <2>3, <2>7
<1> DEFINE R(n) == Received(SubSeq(s, 1, n), TRUE)
<1>10. R(0) = Lost /\ R(1) = Lost /\ R(2) = Lost /\ R(3) = good
  BY <1>2, <1>6, <1>7, <1>8, <1>9
<1> SUFFICES R(k) = IF k = 3 THEN good ELSE Lost
  OBVIOUS
<1> HIDE DEF R
<1> QED BY <1>10

LEMMA OneLineCut ==
  ASSUME NEW b
  PROVE  SubSeq(<<b>>, 1, 0) = <<>> /\ SubSeq(<<b>>, 1, 1) = <<b>>
<1> DEFINE t == <<b>>
<1>1. t \in Seq({b}) /\ Len(t) = 1 /\ t[1] = b
  BY OneLine
<1> HIDE DEF t
<1>2. SubSeq(t, 1, 0) = <<>>
  <2>1. Len(<<>>) = 0 - 1 + 1 /\ 1..Len(<<>>) = {} /\ <<>> \in Seq({b})
    OBVIOUS
  <2> QED BY <1>1, <2>1, PartIs
<1>3. SubSeq(t, 1, 1) = <<t[1]>>
  BY <1>1, OnePart
<1> QED BY <1>1, <1>2, <1>3 DEF t

LEMMA ReceivedSingle ==
  ASSUME NEW b, NEW k \in 0..1, NEW many
  PROVE  /\ k = 0 => Received(SubSeq(<<b>>, 1, k), many) = Lost
         /\ k = 1 /\ b.t \in {"OK", "OK pong"} =>
              Received(SubSeq(<<b>>, 1, k), FALSE) =
                [is |-> "ok", body |-> <<b>>, rest |-> <<>>]
         /\ k = 1 /\ b.t = "ERR unknown command" =>
              Received(SubSeq(<<b>>, 1, k), many) =
                [is |-> "unknown", body |-> <<>>, rest |-> <<>>]
<1> DEFINE t == <<b>>
<1>1. /\ k = 0 => SubSeq(t, 1, k) = <<>>
      /\ k = 1 => SubSeq(t, 1, k) = t
  BY OneLineCut
<1>2. Head(t) = b /\ Tail(t) = <<>> /\ t # <<>>
  BY OneLine
<1>3. Received(<<>>, many) = Lost
  BY DEF Received
<1>4. t = <<Head(t)>>
  BY <1>2
<1> HIDE DEF t
<1>5. b.t \in {"OK", "OK pong"} =>
        Received(t, FALSE) = [is |-> "ok", body |-> t, rest |-> <<>>]
  BY <1>2, <1>4, ReceivedOne
<1>6. b.t = "ERR unknown command" =>
        Received(t, many) = [is |-> "unknown", body |-> <<>>, rest |-> <<>>]
  BY <1>2, ReceivedUnknown
<1> QED BY <1>1, <1>3, <1>5, <1>6 DEF t

\* What a request comes to.
Outcomes(cmd, under, g) ==
  \/ g.is = "lost" /\ ~ Alive'
  \/ g.is = "unknown" /\ Alive /\ cmd \notin conn.kind.knows
  \/ g.is = "ok" /\ Alive /\ cmd \in conn.kind.knows /\ g.body = <<Body(cmd, under)>>

\* What it does to the daemon and the connection.
Used ==
  /\ \/ UNCHANGED <<daemon, deaths>>
     \/ Alive /\ daemon' = noDaemon /\ deaths' = deaths + 1
  /\ conn' = conn \/ (Alive /\ conn' = [conn EXCEPT !.in = <<>>])

LEMMA ReceivedReply ==
  ASSUME NEW cmd, NEW under, NEW many, <<cmd, many>> \in Requests,
         NEW k \in 0..Len(Reply(daemon, cmd, under)), NEW g,
         g = Received(SubSeq(Reply(daemon, cmd, under), 1, k), many)
  PROVE  /\ g.rest = <<>>
         /\ k < Len(Reply(daemon, cmd, under)) => g = Lost
         /\ k = Len(Reply(daemon, cmd, under)) =>
              IF cmd \in daemon.kind.knows THEN g.is = "ok" /\ g.body = <<Body(cmd, under)>>
                                          ELSE g.is = "unknown"
<1> DEFINE b == Body(cmd, under)
           x == Just("ERR unknown command")
<1>1. b.t # "END" /\ (many = FALSE => b.t \in {"OK", "OK pong"})
  BY DEF Requests, Body, Just, Line
<1>2. x.t = "ERR unknown command"
  BY DEF Just, Line
<1>3. many = TRUE \/ many = FALSE
  BY DEF Requests
<1> HIDE DEF b, x
<1>4. CASE cmd \notin daemon.kind.knows
  <2>1. Reply(daemon, cmd, under) = <<x>> /\ Len(<<x>>) = 1
    BY <1>4, ReplyShape, OneLine DEF x
  <2> DEFINE p == SubSeq(<<x>>, 1, k)
  <2>2. g = Received(p, many) /\ k \in 0..1
    BY <2>1
  <2>3. /\ k = 0 => Received(p, many) = Lost
        /\ k = 1 => Received(p, many) = [is |-> "unknown", body |-> <<>>, rest |-> <<>>]
    BY <1>2, <2>2, ReceivedSingle
  <2> HIDE DEF p
  <2> QED BY <1>4, <2>1, <2>2, <2>3 DEF Lost
<1>5. CASE cmd \in daemon.kind.knows /\ many = FALSE
  <2>1. Reply(daemon, cmd, under) = <<b>> /\ Len(<<b>>) = 1
    BY <1>5, ReplyShape, OneLine DEF b
  <2> DEFINE p == SubSeq(<<b>>, 1, k)
             got == Received(p, FALSE)
  <2>2. g = got /\ k \in 0..1
    BY <1>5, <2>1
  <2>3. /\ k = 0 => got = Lost
        /\ k = 1 => got = [is |-> "ok", body |-> <<b>>, rest |-> <<>>]
    BY <1>1, <1>5, <2>2, ReceivedSingle
  <2> HIDE DEF got
  <2> QED BY <1>5, <2>1, <2>2, <2>3 DEF Lost, b
<1>6. CASE cmd \in daemon.kind.knows /\ many = TRUE
  <2> DEFINE s == <<Just("OK"), b, Just("END")>>
             got == Received(SubSeq(s, 1, k), TRUE)
  <2>1. Reply(daemon, cmd, under) = s
    BY <1>6, ReplyShape DEF b
  <2>2. Len(s) = 3
    OBVIOUS
  <2>3. k \in 0..3 /\ g = got
    BY <1>6, <2>1, <2>2
  <2>4. got = IF k = 3 THEN [is |-> "ok", body |-> <<b>>, rest |-> <<>>] ELSE Lost
    BY <1>1, <2>3, ReceivedMany
  <2> HIDE DEF got, s
  <2>5. /\ k = 3 => g.is = "ok" /\ g.body = <<b>> /\ g.rest = <<>>
        /\ k # 3 => g = Lost /\ g.rest = <<>>
    BY <2>3, <2>4 DEF Lost
  <2>6. Len(Reply(daemon, cmd, under)) = 3
    BY <2>1, <2>2
  <2>7. cmd \in daemon.kind.knows /\ Body(cmd, under) = b
    BY <1>6 DEF b
  <2> DEFINE m == Len(Reply(daemon, cmd, under))
  <2>8. k \in 0..3 /\ m = 3
    BY <2>3, <2>6
  <2> HIDE DEF m
  <2>9. /\ k < m => g = Lost
        /\ k = m => g.is = "ok" /\ g.body = <<b>>
        /\ g.rest = <<>>
    BY <2>5, <2>8
  <2> QED BY <2>7, <2>9 DEF m
<1> QED BY <1>3, <1>4, <1>5, <1>6

LEMMA ReplyTyped ==
  ASSUME NEW cmd, NEW under, NEW many, <<cmd, many>> \in Requests
  PROVE  \E S : Reply(daemon, cmd, under) \in Seq(S)
<1> DEFINE x == Just("ERR unknown command")
           o == Just("OK")
           b == Body(cmd, under)
           e == Just("END")
           S == {x, o, b, e}
<1>1. Reply(daemon, cmd, under) \in {<<x>>, <<b>>, <<o, b, e>>}
  BY ReplyShape
<1> HIDE DEF x, o, b, e
<1>2. <<x>> \in Seq(S) /\ <<b>> \in Seq(S) /\ <<o, b, e>> \in Seq(S)
  OBVIOUS
<1>3. Reply(daemon, cmd, under) \in Seq(S)
  BY <1>1, <1>2
<1> QED BY <1>3

LEMMA AskResult ==
  ASSUME Links, InStep, NEW cmd, NEW under, NEW many, <<cmd, many>> \in Requests,
         NEW g, Asks(cmd, under, many, g)
  PROVE  Outcomes(cmd, under, g) /\ Used
<1>0. Lost.is = "lost"
  BY DEF Lost
<1>1. CASE ~ Alive
  <2>1. g = Lost /\ UNCHANGED <<daemon, deaths, conn>>
    BY <1>1 DEF Asks
  <2>2. ~ Alive'
    BY <1>1, <2>1 DEF Alive
  <2>3. g.is = "lost"
    BY <1>0, <2>1
  <2> QED BY <2>1, <2>2, <2>3 DEF Outcomes, Used
<1>2. CASE Alive
  <2> DEFINE reply == Reply(daemon, cmd, under)
             n == Len(reply)
  <2>1. PICK k \in 0..n :
          /\ g = Received(conn.in \o SubSeq(reply, 1, k), many)
          /\ deaths' = IF k < n THEN deaths + 1 ELSE deaths
          /\ daemon' = IF k < n THEN noDaemon ELSE daemon
          /\ conn' = [conn EXCEPT !.in = g.rest]
    BY <1>2 DEF Asks
  <2> DEFINE p == SubSeq(reply, 1, k)
             v == conn.in \o p
  <2>2. PICK S : reply \in Seq(S)
    BY ReplyTyped
  <2>3. p \in Seq(S)
    <3>1. \A i \in 1..k : reply[i] \in S
      BY <2>1, <2>2, ElementOfSeq, LenProperties
    <3> QED BY <2>1, <3>1, SubSeqProperties
  <2>4. conn.in = <<>>
    BY <1>2 DEF InStep
  <2> HIDE DEF p
  <2>5. v = p
    BY <2>3, <2>4, ConcatEmptySeq
  <2>6. g = Received(p, many)
    <3>1. g = Received(v, many)
      BY <2>1 DEF p
    <3> HIDE DEF v
    <3> QED BY <2>5, <3>1
  <2>7. /\ g.rest = <<>>
        /\ k < n => g = Lost
        /\ k = n => IF cmd \in daemon.kind.knows THEN g.is = "ok" /\ g.body = <<Body(cmd, under)>>
                                              ELSE g.is = "unknown"
    BY <2>1, <2>6, ReceivedReply DEF p
  <2>8. Used
    BY <1>2, <2>1, <2>7 DEF Used
  <2>9. daemon.kind = conn.kind /\ deaths \in Nat /\ daemon.gen = deaths /\ conn.gen = deaths
    BY <1>2, ConnGen DEF Links
  <2>10. n \in Nat
    BY <2>2, LenProperties
  <2> HIDE DEF n, reply
  <2>11. CASE k < n
    <3>1. daemon' = noDaemon
      BY <2>1, <2>11
    <3>2. ~ Alive'
      BY <3>1 DEF Alive
    <3>3. g.is = "lost"
      BY <1>0, <2>7, <2>11
    <3> QED BY <2>8, <3>2, <3>3 DEF Outcomes
  <2>12. CASE k = n
    BY <1>2, <2>7, <2>8, <2>9, <2>12 DEF Outcomes
  <2> QED BY <2>1, <2>10, <2>11, <2>12
<1> QED BY <1>1, <1>2

-----------------------------------------------------------------------------
(* Steps that neither open nor close the connection.                        *)

SameCall ==
  /\ call'.under = call.under /\ call'.since = call.since /\ call'.by = call.by
  /\ call.noStart => call'.noStart

Onward ==
  /\ Links' /\ InStep' /\ SameCall
  /\ (Connected' <=> Connected) /\ conn'.kind = conn.kind
  /\ Alive' => Alive
  /\ Stale => Stale'
  /\ LackSeen => LackSeen'
  /\ Learned \in Int /\ Learned' \in Int /\ Learned' >= Learned

\* A daemon may end, at the other end or not, or start.
Goes ==
  \/ UNCHANGED <<daemon, deaths>>
  \/ daemon # noDaemon /\ daemon' = noDaemon /\ deaths' = deaths + 1
  \/ /\ daemon = noDaemon /\ deaths' = deaths
     /\ \E k \in Kinds : daemon' = [kind |-> k, gen |-> deaths]

LEMMA GoesOnward ==
  ASSUME Types, Links, InStep, Learned >= 0, SameCall,
         Goes, conn' = conn \/ (Alive /\ conn' = [conn EXCEPT !.in = <<>>])
  PROVE  Onward
<1> USE DEF noDaemon, closed
<1>1. conn'.gen = conn.gen /\ conn'.kind = conn.kind
  BY DEF Alive, Links
<1>2. Connected' <=> Connected
  BY DEF Connected, Alive, Links
<1>3. deaths \in Nat /\ deaths' \in Nat /\ deaths <= deaths' /\ deaths' <= deaths + 1
  BY DEF Links, Goes
<1>4. /\ Alive => Connected /\ daemon.kind = conn.kind /\ daemon.gen = deaths
                   /\ conn.gen = deaths /\ daemon.kind \in Kinds
      /\ ~ Connected => conn = closed
  BY ConnGen
<1>5. Links'
  BY <1>3, <1>4 DEF Links, Goes, Alive
<1>6. Alive' => Alive
  <2>1. CASE UNCHANGED <<daemon, deaths>>
    BY <1>1, <2>1 DEF Alive
  <2>2. CASE daemon' = noDaemon
    BY <2>2 DEF Alive
  <2>3. ASSUME daemon = noDaemon, NEW k \in Kinds, daemon' = [kind |-> k, gen |-> deaths]
        PROVE  ~ Alive'
    <3>1. daemon'.gen = deaths
      BY <2>3
    <3>2. conn.gen # deaths
      BY <1>3, <2>3 DEF Links
    <3> QED BY <1>1, <3>1, <3>2 DEF Alive
  <2> QED BY <2>1, <2>2, <2>3 DEF Goes
<1>7. InStep'
  <2>1. Alive => [conn EXCEPT !.in = <<>>].in = <<>>
    BY <1>4 DEF Links, Connected
  <2> QED BY <1>6, <2>1 DEF InStep
<1>8. Stale => Stale'
  BY <1>2, <1>6 DEF Stale
<1>9. call.since \in Int /\ call'.since \in Int
  BY DEF Types, SameCall
<1>10. Stale' /\ ~ Stale => deaths' = deaths + 1
  <2>1. SUFFICES ASSUME Stale', ~ Stale PROVE deaths' = deaths + 1
    OBVIOUS
  <2>2. Alive /\ ~ Alive' /\ Connected
    BY <1>2, <2>1 DEF Stale
  <2> QED BY <1>1, <2>2 DEF Goes, Alive
<1>11. Learned \in Int /\ Learned' \in Int /\ Learned' >= Learned
  <2>1. Learned = deaths - call.since - IF Stale THEN 1 ELSE 0
    BY DEF Learned
  <2>2. Learned' = deaths' - call.since - IF Stale' THEN 1 ELSE 0
    BY DEF Learned, SameCall
  <2> QED BY <1>3, <1>8, <1>9, <1>10, <2>1, <2>2
<1>12. LackSeen => LackSeen'
  <2>1. Lacking => Lacking' \/ (Connected /\ "search2" \notin conn.kind.knows) \/ Learned' >= 1
    <3>1. SUFFICES ASSUME Lacking, ~ Lacking', ~ Alive PROVE Learned' >= 1
      BY <1>4 DEF Lacking
    <3>2. daemon # noDaemon /\ daemon' = noDaemon /\ deaths' = deaths + 1
      BY <3>1 DEF Goes, Lacking
    <3>3. Stale' <=> Stale
      BY <1>2, <1>6, <3>1 DEF Stale
    <3>4. Learned' = Learned + 1
      BY <1>3, <1>9, <3>2, <3>3 DEF Learned, SameCall
    <3> QED BY <1>11, <3>4
  <2> QED BY <1>1, <1>2, <1>11, <2>1 DEF LackSeen
<1> QED BY <1>1, <1>2, <1>5, <1>6, <1>7, <1>8, <1>11, <1>12 DEF Onward

\* A connection that is closed: its daemon's end, if it has ended, is learned of.
LEMMA CloseLearns ==
  ASSUME Types, Links, Learned >= 0, SameCall, UNCHANGED <<daemon, deaths>>, conn' = closed
  PROVE  /\ Links' /\ InStep' /\ ~ Connected' /\ ~ Alive'
         /\ Learned \in Int /\ Learned' \in Int
         /\ Learned' = IF Stale THEN Learned + 1 ELSE Learned
         /\ LackSeen => LackSeen'
<1> USE DEF noDaemon, closed
<1>1. Links' /\ ~ Connected'
  BY DEF Links, Connected
<1>2. ~ Alive'
  BY DEF Alive, Links
<1>3. deaths \in Nat /\ call.since \in Int /\ call'.since \in Int
  BY DEF Types, SameCall, Links
<1>4. ~ Stale'
  BY <1>1 DEF Stale
<1>5. /\ Learned \in Int /\ Learned' \in Int
      /\ Learned' = IF Stale THEN Learned + 1 ELSE Learned
  <2>1. Learned = deaths - call.since - IF Stale THEN 1 ELSE 0
    BY DEF Learned
  <2>2. Learned' = deaths - call.since - 0
    BY <1>4 DEF Learned, SameCall
  <2> QED BY <1>3, <2>1, <2>2
<1>6. LackSeen => LackSeen'
  <2>1. CASE Stale
    BY <1>5, <2>1 DEF LackSeen
  <2>2. CASE ~ Stale
    <3>1. Connected => Lacking \/ "search2" \in conn.kind.knows
      BY <2>2, ConnGen DEF Stale, Lacking, Alive
    <3>2. Lacking' <=> Lacking
      BY DEF Lacking
    <3> QED BY <1>5, <2>2, <3>1, <3>2 DEF LackSeen
  <2> QED BY <2>1, <2>2
<1> QED BY <1>1, <1>2, <1>5, <1>6 DEF InStep

LEMMA ExcusesStay ==
  ASSUME Onward, NEW n \in Int
  PROVE  /\ Excused(n) => Excused(n)'
         /\ FunctionFails => FunctionFails'
BY DEF Onward, SameCall, Excused, FunctionFails

LEMMA CachesOnward ==
  ASSUME Onward, Caches, UNCHANGED <<v2, v3>>
  PROVE  Caches'
BY DEF Onward, Caches, Can

LEMMA FrameOnward ==
  ASSUME Onward, NEW fr \in Frames, FrameOK(fr), NoV3 => NoV3',
         (legacy => legacy') \/ fr.at # "fallback"
  PROVE  FrameOK(fr)'
<1>1. fr.at \in Trying => fr.try - 1 \in Int /\ Excused(fr.try - 1)
  BY DEF FrameOK
<1>2. fr.at \in Trying => Excused(fr.try - 1)'
  BY <1>1, ExcusesStay
<1> QED BY <1>2 DEF FrameOK, Onward, SameCall

LEMMA NoV3Onward ==
  ASSUME Onward, v3' = v3
  PROVE  NoV3 => NoV3'
BY DEF Onward, NoV3

-----------------------------------------------------------------------------
(* Steps of the stack.                                                      *)

Below == {todo[i] : i \in 2..Len(todo)}

\* Above a fallback, only these.
OverFallback == {"search", "searchLegacy", "supportsV3"}

Bottom == {"request", "exit"}

LEMMA TailIs ==
  ASSUME todo \in Seq(Frames), todo # <<>>
  PROVE  /\ Len(todo) \in Nat /\ Len(todo) >= 1 /\ Head(todo) = todo[1] /\ Head(todo) \in Frames
         /\ Tail(todo) \in Seq(Frames) /\ Len(Tail(todo)) = Len(todo) - 1
         /\ \A i \in 1..(Len(todo) - 1) : Tail(todo)[i] = todo[i + 1]
         /\ \A i \in 1..Len(todo) : todo[i] \in Frames
<1>1. Len(todo) \in Nat /\ Len(todo) >= 1
  BY EmptySeq, LenProperties
<1>2. \A i \in 1..Len(todo) : todo[i] \in Frames
  BY ElementOfSeq
<1>3. /\ Head(todo) = todo[1]
      /\ Tail(todo) \in Seq(Frames) /\ Len(Tail(todo)) = Len(todo) - 1
      /\ \A i \in 1..Len(Tail(todo)) : Tail(todo)[i] = todo[i + 1]
  BY HeadTailProperties
<1> QED BY <1>1, <1>2, <1>3

LEMMA OnTop ==
  ASSUME Shape, Stacked, todo # <<>>, NEW h, h = Head(todo)
  PROVE  /\ h \in Frames /\ FrameOK(h) /\ Returned(h)
         /\ \A b \in Below : b \in Frames /\ FrameOK(b) /\ b.at \notin Opening
         /\ h.at \notin OverFallback => \A b \in Below : b.at # "fallback"
         /\ h.at \in Program => Below = {}
         /\ h.at \in Trying => \A b \in Below : b.at \in Replying
<1> DEFINE n == Len(todo)
<1>0. todo \in Seq(Frames)
  BY DEF Shape
<1>1. /\ n \in Nat /\ n >= 1 /\ h = todo[1] /\ h \in Frames
      /\ \A i \in 1..n : todo[i] \in Frames
  BY <1>0, TailIs
<1>2. FrameOK(h) /\ Returned(h)
  BY <1>1 DEF Stacked, OnStack
<1>3. \A i \in 2..n : Fits(todo[i - 1], todo[i], call.under)
  <2>1. \A i \in 1..n : i < n => Fits(todo[i], todo[i + 1], call.under)
    BY DEF Shape
  <2> SUFFICES ASSUME NEW i \in 2..n PROVE Fits(todo[i - 1], todo[i], call.under)
    OBVIOUS
  <2>2. i - 1 \in 1..n /\ i - 1 < n /\ i - 1 + 1 = i
    BY <1>1
  <2> QED BY <2>1, <2>2
<1>4. \A a, b, w : Fits(a, b, w) => b.at \notin Opening /\ a.at \notin Program
  BY DEF Fits, Opening, Replying, Functions, Searching, SearchEx1, Trying, Program
<1>5. \A b \in Below : b \in Frames /\ FrameOK(b) /\ b.at \notin Opening
  <2>1. \A i \in 1..n : FrameOK(todo[i])
    BY DEF Stacked, OnStack
  <2> QED BY <1>1, <1>3, <1>4, <2>1 DEF Below
<1>6. h.at \notin OverFallback => \A b \in Below : b.at # "fallback"
  <2>1. \A i, j \in 1..n : i < j /\ todo[j].at = "fallback" => todo[i].at \in OverFallback
    BY DEF Shape, OverFallback
  <2>2. \A j \in 2..n : j \in 1..n /\ 1 \in 1..n /\ 1 < j
    BY <1>1
  <2> QED BY <1>1, <2>1, <2>2 DEF Below
<1>7. h.at \in Program => Below = {}
  <2>1. n >= 2 => Fits(h, todo[2], call.under)
    BY <1>1, <1>3
  <2> QED BY <1>1, <1>4, <2>1 DEF Below
<1>8. h.at \in Trying => \A b \in Below : b.at \in Replying
  <2>1. SUFFICES ASSUME h.at \in Trying PROVE \A b \in Below : b.at \in Replying
    OBVIOUS
  <2>2. \A b, w : Fits(h, b, w) => b.at \in Replying
    BY <2>1 DEF Fits, Opening, Functions, Searching, SearchEx1, Trying
  <2>3. n >= 2 => Fits(h, todo[2], call.under)
    BY <1>1, <1>3
  <2>4. n >= 3 => Fits(todo[2], todo[3], call.under)
    BY <1>1, <1>3
  <2>5. n < 3
    BY <1>1, <1>4, <2>2, <2>3, <2>4 DEF Program
  <2> QED BY <1>1, <2>2, <2>3, <2>5 DEF Below
<1> QED BY <1>1, <1>2, <1>5, <1>6, <1>7, <1>8

\* The top frame h gives way to the frames s.
Replaces(h, s) ==
  /\ todo # <<>> /\ h = Head(todo) /\ todo' = s \o Tail(todo)
  /\ s \in Seq(Frames)
  /\ \A i \in 1..Len(s) : i < Len(s) => Fits(s[i], s[i + 1], call.under)
  /\ s # <<>> => \A b \in Frames : Fits(h, b, call.under) => Fits(s[Len(s)], b, call.under)

\* What a step may do to the frames below the top.
FallbackOK(s) ==
  /\ \A i, j \in 1..Len(s) : i < j /\ s[j].at = "fallback" => s[i].at \in OverFallback
  /\ (\E b \in Below : b.at = "fallback") => \A i \in 1..Len(s) : s[i].at \in OverFallback

LEMMA Replaced ==
  ASSUME Shape, NEW h, NEW s, Replaces(h, s)
  PROVE  LET n == Len(todo)
             m == Len(s)
         IN  /\ n \in Nat /\ n >= 1 /\ m \in Nat /\ (s = <<>> <=> m = 0)
             /\ h = todo[1] /\ h \in Frames
             /\ todo' \in Seq(Frames) /\ Len(todo') = m + n - 1
             /\ \A i \in 1..(m + n - 1) : i <= m => todo'[i] = s[i]
             /\ \A i \in 1..(m + n - 1) : i > m => todo'[i] = todo[i - m + 1]
<1> DEFINE n == Len(todo)
           m == Len(s)
           t == Tail(todo)
<1>1. /\ n \in Nat /\ n >= 1 /\ h = todo[1] /\ h \in Frames
      /\ t \in Seq(Frames) /\ Len(t) = n - 1
      /\ \A i \in 1..(n - 1) : t[i] = todo[i + 1]
  BY TailIs DEF Shape, Replaces
<1>2. s \in Seq(Frames) /\ m \in Nat /\ (s = <<>> <=> m = 0)
  BY LenProperties, EmptySeq DEF Replaces
<1>3. /\ s \o t \in Seq(Frames) /\ Len(s \o t) = m + Len(t)
      /\ \A i \in 1..(m + Len(t)) : (s \o t)[i] = IF i <= m THEN s[i] ELSE t[i - m]
  BY <1>1, <1>2, ConcatProperties
<1>4. todo' = s \o t
  BY DEF Replaces
<1> HIDE DEF m, n, t
<1>5. m + Len(t) = m + n - 1 /\ m + n - 1 \in Nat
  BY <1>1, <1>2
<1>6. todo' \in Seq(Frames) /\ Len(todo') = m + n - 1
  BY <1>3, <1>4, <1>5
<1>7. \A i \in 1..(m + n - 1) : i <= m => todo'[i] = s[i]
  BY <1>3, <1>4, <1>5
<1>8. ASSUME NEW i \in 1..(m + n - 1), i > m
      PROVE  todo'[i] = todo[i - m + 1]
  <2>1. todo'[i] = t[i - m]
    BY <1>2, <1>3, <1>4, <1>5, <1>8
  <2>2. i - m \in 1..(n - 1)
    BY <1>1, <1>2, <1>8
  <2> QED BY <1>1, <2>1, <2>2
<1> QED BY <1>1, <1>2, <1>6, <1>7, <1>8 DEF m, n

LEMMA RestackShape ==
  ASSUME Shape, SameCall, NEW h, NEW s, Replaces(h, s), FallbackOK(s),
         h.at \in Bottom => IF s = <<>> THEN ~ Connected' ELSE s[Len(s)].at \in Bottom
  PROVE  Shape'
<1> DEFINE n == Len(todo)
           m == Len(s)
           z == todo'
           k == m + n - 1
           w == call.under
<1>1. /\ n \in Nat /\ n >= 1 /\ m \in Nat /\ (s = <<>> <=> m = 0)
      /\ h = todo[1] /\ h \in Frames
      /\ z \in Seq(Frames) /\ Len(z) = k
      /\ \A i \in 1..k : i <= m => z[i] = s[i]
      /\ \A i \in 1..k : i > m => z[i] = todo[i - m + 1]
  BY Replaced
<1>2. /\ \A i \in 1..n : todo[i] \in Frames
      /\ \A i \in 1..n : i < n => Fits(todo[i], todo[i + 1], w)
      /\ \A i, j \in 1..n : i < j /\ todo[j].at = "fallback" => todo[i].at \in OverFallback
      /\ call.by = "cli" => IF todo = <<>> THEN ~ Connected ELSE todo[n].at \in Bottom
  BY ElementOfSeq DEF Shape, OverFallback, Bottom
<1>3. /\ todo # <<>>
      /\ \A i \in 1..m : i < m => Fits(s[i], s[i + 1], w)
      /\ s # <<>> => \A b \in Frames : Fits(h, b, w) => Fits(s[m], b, w)
  BY DEF Replaces
<1>4. /\ \A i, j \in 1..m : i < j /\ s[j].at = "fallback" => s[i].at \in OverFallback
      /\ (\E b \in Below : b.at = "fallback") => \A i \in 1..m : s[i].at \in OverFallback
  BY DEF FallbackOK
<1>5. \A i \in 2..n : todo[i] \in Below
  BY DEF Below
<1>6. call'.under = w /\ call'.by = call.by
  BY DEF SameCall
<1>7. h.at \in Bottom => IF s = <<>> THEN ~ Connected' ELSE s[m].at \in Bottom
  OBVIOUS
<1> HIDE DEF n, m, w, z
<1>8. ASSUME NEW i \in 1..k, i < k
      PROVE  Fits(z[i], z[i + 1], w)
  <2>0. i \in Nat /\ i + 1 \in 1..k /\ k \in Nat
    BY <1>1, <1>8
  <2>1. CASE i < m
    <3>1. i <= m /\ i + 1 <= m /\ i \in 1..m
      BY <1>1, <2>0, <2>1
    <3>2. z[i] = s[i] /\ z[i + 1] = s[i + 1]
      BY <1>1, <2>0, <3>1
    <3> QED BY <1>3, <2>1, <3>1, <3>2
  <2>2. CASE i = m
    <3>1. s # <<>> /\ 2 \in 1..n /\ 1 \in 1..n /\ 1 < n /\ (i + 1) - m + 1 = 2 /\ i <= m /\ i + 1 > m
      BY <1>1, <1>8, <2>0, <2>2
    <3>2. z[i] = s[m] /\ z[i + 1] = todo[2]
      <4>1. z[i + 1] = todo[(i + 1) - m + 1]
        BY <1>1, <2>0, <3>1
      <4> QED BY <1>1, <2>2, <3>1, <4>1
    <3>3. Fits(h, todo[2], w)
      <4>1. Fits(todo[1], todo[1 + 1], w)
        BY <1>2, <3>1
      <4> QED BY <1>1, <4>1
    <3> QED BY <1>2, <1>3, <3>1, <3>2, <3>3
  <2>3. CASE i > m
    <3> DEFINE j == i - m + 1
    <3>1. j \in 1..n /\ j < n /\ (i + 1) - m + 1 = j + 1 /\ i + 1 > m
      BY <1>1, <1>8, <2>0, <2>3
    <3>2. z[i] = todo[j]
      BY <1>1, <2>3
    <3>3. z[i + 1] = todo[j + 1]
      <4>1. z[i + 1] = todo[(i + 1) - m + 1]
        BY <1>1, <2>0, <3>1
      <4> QED BY <3>1, <4>1
    <3> HIDE DEF j
    <3> QED BY <1>2, <3>1, <3>2, <3>3
  <2> QED BY <1>1, <2>0, <2>1, <2>2, <2>3
<1>9. ASSUME NEW i \in 1..k, NEW j \in 1..k, i < j, z[j].at = "fallback"
      PROVE  z[i].at \in OverFallback
  <2>0. k \in Nat
    BY <1>1
  <2>1. CASE j <= m
    <3>1. i \in 1..m /\ j \in 1..m /\ i <= m
      BY <1>1, <1>9, <2>0, <2>1
    <3>2. z[i] = s[i] /\ z[j] = s[j]
      BY <1>1, <2>1, <3>1
    <3> QED BY <1>4, <1>9, <3>1, <3>2
  <2>2. CASE i <= m /\ m < j
    <3>1. i \in 1..m /\ j - m + 1 \in 2..n
      BY <1>1, <2>0, <2>2
    <3>2. z[i] = s[i] /\ z[j] = todo[j - m + 1]
      BY <1>1, <2>2
    <3> QED BY <1>4, <1>5, <1>9, <3>1, <3>2
  <2>3. CASE m < i
    <3> DEFINE p == i - m + 1
               q == j - m + 1
    <3>1. p \in 1..n /\ q \in 1..n /\ p < q /\ j > m
      BY <1>1, <1>9, <2>0, <2>3
    <3>2. z[i] = todo[p] /\ z[j] = todo[q]
      BY <1>1, <2>3, <3>1
    <3> HIDE DEF p, q
    <3> QED BY <1>2, <1>9, <3>1, <3>2
  <2> QED BY <1>1, <2>0, <2>1, <2>2, <2>3
<1>10. ASSUME call.by = "cli"
       PROVE  IF z = <<>> THEN ~ Connected' ELSE z[k].at \in Bottom
  <2>1. todo[n].at \in Bottom
    BY <1>2, <1>3, <1>10
  <2>2. (z = <<>> <=> k = 0) /\ k \in Nat
    BY <1>1, EmptySeq
  <2>3. CASE n = 1
    <3>1. h.at \in Bottom /\ k = m
      BY <1>1, <2>1, <2>3
    <3>2. m # 0 => z[k] = s[m]
      BY <1>1, <3>1
    <3> QED BY <1>1, <1>7, <2>2, <3>1, <3>2
  <2>4. CASE n > 1
    <3>1. k \in 1..k /\ k > m /\ k - m + 1 = n
      BY <1>1, <2>4
    <3>2. z[k] = todo[k - m + 1]
      BY <1>1, <3>1
    <3> QED BY <2>1, <2>2, <3>1, <3>2
  <2> QED BY <1>1, <2>3, <2>4
<1> HIDE DEF k
<1>11. /\ z \in Seq(Frames)
       /\ \A i \in 1..Len(z) : i < Len(z) => Fits(z[i], z[i + 1], w)
       /\ \A i, j \in 1..Len(z) : i < j /\ z[j].at = "fallback" => z[i].at \in OverFallback
       /\ call.by = "cli" => IF z = <<>> THEN ~ Connected' ELSE z[Len(z)].at \in Bottom
  BY <1>1, <1>8, <1>9, <1>10
<1> QED BY <1>6, <1>11 DEF Shape, OverFallback, Bottom, z

LEMMA RestackStacked ==
  ASSUME Shape, NEW h, NEW s, Replaces(h, s),
         \A a \in {s[i] : i \in 1..Len(s)} : FrameOK(a)' /\ (a = s[1] => Returned(a)'),
         \A b \in Below : FrameOK(b)' /\ (s = <<>> /\ Fits(h, b, call.under) => Returned(b)')
  PROVE  Stacked'
<1> DEFINE n == Len(todo)
           m == Len(s)
           z == todo'
           k == m + n - 1
           mine == {s[i] : i \in 1..Len(s)}
<1>1. /\ n \in Nat /\ n >= 1 /\ m \in Nat /\ (s = <<>> <=> m = 0)
      /\ h = todo[1] /\ h \in Frames
      /\ z \in Seq(Frames) /\ Len(z) = k
      /\ \A i \in 1..k : i <= m => z[i] = s[i]
      /\ \A i \in 1..k : i > m => z[i] = todo[i - m + 1]
  BY Replaced
<1>2. /\ \A i \in 2..n : todo[i] \in Below
      /\ \A i \in 1..m : s[i] \in mine
  BY DEF Below
<1>3. n >= 2 => Fits(h, todo[2], call.under)
  <2>1. \A i \in 1..n : i < n => Fits(todo[i], todo[i + 1], call.under)
    BY DEF Shape
  <2>2. n >= 2 => 1 \in 1..n /\ 1 < n /\ 1 + 1 = 2
    BY <1>1
  <2> QED BY <1>1, <2>1, <2>2
<1> HIDE DEF n, m, z, mine
<1>4. ASSUME NEW i \in 1..k
      PROVE  /\ z[i] \in mine \/ z[i] \in Below
             /\ i = 1 /\ m > 0 => z[i] \in mine /\ z[i] = s[1]
             /\ i = 1 /\ m = 0 => z[i] \in Below /\ Fits(h, z[i], call.under)
  <2>1. CASE i <= m
    BY <1>1, <1>2, <2>1
  <2>2. CASE i > m
    <3>1. i - m + 1 \in 2..n
      BY <1>1, <2>2
    <3>2. z[i] = todo[i - m + 1] /\ z[i] \in Below
      BY <1>1, <1>2, <2>2, <3>1
    <3>3. i = 1 /\ m = 0 => i - m + 1 = 2 /\ n >= 2
      BY <3>1
    <3> QED BY <1>1, <1>3, <2>2, <3>2, <3>3
  <2> QED BY <1>1, <2>1, <2>2
<1>5. k \in Nat /\ (k # 0 => Head(z) = z[1])
  BY <1>1, EmptySeq, HeadTailProperties
<1> DEFINE S == {z[i] : i \in 1..k}
<1>6. S = OnStack'
  BY <1>1 DEF OnStack, z
<1> HIDE DEF k
<1>7. \A fr \in S : FrameOK(fr)'
  BY <1>4 DEF mine
<1>8. \A fr \in S : fr = Head(z) => Returned(fr)'
  <2> SUFFICES ASSUME NEW fr \in S, fr = Head(z) PROVE Returned(fr)'
    OBVIOUS
  <2>1. 1 \in 1..k /\ fr = z[1]
    BY <1>5
  <2>2. CASE m > 0
    <3>1. fr \in mine /\ fr = s[1]
      BY <1>4, <2>1, <2>2
    <3> QED BY <3>1 DEF mine
  <2>3. CASE m = 0
    <3>1. fr \in Below /\ Fits(h, fr, call.under) /\ s = <<>>
      BY <1>1, <1>4, <2>1, <2>3
    <3> QED BY <3>1
  <2> QED BY <1>1, <2>2, <2>3
<1> HIDE DEF S
<1> QED BY <1>6, <1>7, <1>8 DEF Stacked, z

LEMMA Pops ==
  ASSUME Shape, SameCall, NEW h, todo # <<>>, h = Head(todo), Return,
         h.at \in Bottom => ~ Connected',
         \A b \in Below : FrameOK(b)' /\ (Fits(h, b, call.under) => Returned(b)')
  PROVE  Shape' /\ Stacked'
<1> DEFINE s == <<>>
           w == call.under
<1>1. /\ s \in Seq(Frames) /\ Len(s) = 0 /\ 1..Len(s) = {} /\ {s[i] : i \in 1..Len(s)} = {}
      /\ s = <<>>
  OBVIOUS
<1>2. Tail(todo) \in Seq(Frames)
  BY TailIs DEF Shape
<1>3. s \o Tail(todo) = Tail(todo)
  BY <1>2, ConcatEmptySeq
<1> HIDE DEF s
<1>4. Replaces(h, s)
  BY <1>1, <1>3 DEF Replaces, Return
<1>5. FallbackOK(s)
  BY <1>1 DEF FallbackOK
<1>6. Shape'
  BY <1>1, <1>4, <1>5, RestackShape
<1>7. Stacked'
  BY <1>1, <1>4, RestackStacked
<1> QED BY <1>6, <1>7

LEMMA Pushes ==
  ASSUME Shape, SameCall, NEW h, todo # <<>>, h = Head(todo), NEW a \in Frames, Calls(<<a>>),
         \A b \in Frames : Fits(h, b, call.under) => Fits(a, b, call.under),
         a.at \in OverFallback \/ \A b \in Below : b.at # "fallback",
         h.at \in Bottom => a.at \in Bottom,
         FrameOK(a)' /\ Returned(a)',
         \A b \in Below : FrameOK(b)'
  PROVE  Shape' /\ Stacked'
<1> DEFINE s == <<a>>
<1>1. s \in Seq(Frames) /\ Len(s) = 1 /\ s # <<>> /\ s[1] = a
  BY OneLine
<1>2. todo' = s \o Tail(todo)
  BY DEF Calls
<1> HIDE DEF s
<1>3. {s[i] : i \in 1..Len(s)} = {a} /\ \A i \in 1..Len(s) : i = 1
  BY <1>1
<1>4. Replaces(h, s)
  BY <1>1, <1>2, <1>3 DEF Replaces
<1>5. FallbackOK(s)
  BY <1>1, <1>3 DEF FallbackOK
<1>6. Shape'
  BY <1>1, <1>4, <1>5, RestackShape
<1>7. Stacked'
  BY <1>1, <1>3, <1>4, RestackStacked
<1> QED BY <1>6, <1>7

LEMMA PushesTwo ==
  ASSUME Shape, SameCall, NEW h, todo # <<>>, h = Head(todo), NEW a \in Frames, NEW c \in Frames,
         Calls(<<a, c>>), Fits(a, c, call.under),
         \A b \in Frames : Fits(h, b, call.under) => Fits(c, b, call.under),
         c.at # "fallback" \/ a.at \in OverFallback,
         {a.at, c.at} \subseteq OverFallback \/ \A b \in Below : b.at # "fallback",
         h.at \in Bottom => c.at \in Bottom,
         FrameOK(a)' /\ Returned(a)' /\ FrameOK(c)', a # c,
         \A b \in Below : FrameOK(b)'
  PROVE  Shape' /\ Stacked'
<1> DEFINE s == <<a, c>>
<1>1. s \in Seq(Frames) /\ Len(s) = 2 /\ s # <<>> /\ s[1] = a /\ s[2] = c
  OBVIOUS
<1>2. todo' = s \o Tail(todo)
  BY DEF Calls
<1> HIDE DEF s
<1>3. {s[i] : i \in 1..Len(s)} = {a, c} /\ \A i \in 1..Len(s) : i = 1 \/ i = 2
  BY <1>1
<1>4. Replaces(h, s)
  BY <1>1, <1>2, <1>3 DEF Replaces
<1>5. FallbackOK(s)
  BY <1>1, <1>3 DEF FallbackOK
<1>6. Shape'
  BY <1>1, <1>4, <1>5, RestackShape
<1>7. Stacked'
  BY <1>1, <1>3, <1>4, RestackStacked
<1> QED BY <1>6, <1>7

-----------------------------------------------------------------------------
(* What a frame leaves to the one that called it.                           *)

Delivered(fr) ==
  /\ fr.at \in Opening \cup {"ensure"} => IF ok THEN Connected ELSE call.noStart
  /\ fr.at = "supportsV3" => IF ok THEN v3 = 1 ELSE NoV3
  /\ fr.at \in Functions \cup Trying /\ ok =>
       \A f \in Printed, u \in BOOLEAN : Serves(fr, f, u) => Good(f, u)
  /\ fr.at \in Functions /\ ~ ok => FunctionFails
  /\ fr.at \in Trying /\ ~ ok => Excused(2)

LEMMA GoodTrivial ==
  ASSUME NEW u
  PROVE  Good("stats", u)' /\ Good("rebuild", u)'
BY DEF Good, WithRows

LEMMA DeliveredReturned ==
  ASSUME NEW a \in Frames, NEW b \in Frames, NEW w \in BOOLEAN, w = call'.under,
         Fits(a, b, w), Delivered(a)'
  PROVE  Returned(b)'
<1> USE DEF Opening, Functions, Searching, SearchEx1, Trying, Replying
<1>1. CASE a.at \in Opening \cup {"ensure"}
  <2>1. b.at \in {"call", "negotiate", "request"}
    BY <1>1 DEF Fits
  <2> QED BY <1>1, <2>1 DEF Delivered, Returned, Wants
<1>2. CASE a.at = "supportsV2"
  <2>1. b.at = "choose"
    BY <1>2 DEF Fits
  <2> QED BY <2>1 DEF Returned, Wants
<1>3. CASE a.at = "supportsV3"
  <2>1. b.at \in {"searchEx3", "searchLegacy"}
    BY <1>3 DEF Fits
  <2> QED BY <1>3, <2>1 DEF Delivered, Returned, Wants
<1>4. CASE a.at \in Functions \cup Trying
  <2>1. /\ b.at \in {"judge", "exit", "fallback", "counted"} \cup Replying
        /\ b.at \in Replying => a.at \in Trying
        /\ b.at \notin Replying => a.at \in Functions
        /\ Match(a, b, w)
    BY <1>4 DEF Fits
  <2>2. PICK f0 \in Printed, u0 \in BOOLEAN : Serves(a, f0, u0) /\ Wants(b, f0, u0, w)
    BY <2>1 DEF Match
  <2>3. ASSUME ok', NEW f \in Printed, NEW u \in BOOLEAN, Wants(b, f, u, w)
        PROVE  Good(f, u)'
    <3>1. f = f0 /\ (f \in {"stats", "rebuild"} \/ u = u0)
      BY <2>1, <2>2, <2>3 DEF Wants
    <3>2. CASE f \in {"stats", "rebuild"}
      BY <3>2, GoodTrivial
    <3>3. CASE u = u0
      <4>1. Good(f0, u0)'
        BY <1>4, <2>2, <2>3 DEF Delivered
      <4> QED BY <3>1, <3>3, <4>1
    <3> QED BY <3>1, <3>2, <3>3
  <2>4. \A f \in Printed, u \in BOOLEAN : ok' /\ Wants(b, f, u, call'.under) => Good(f, u)'
    BY <2>3
  <2>5. ~ ok' /\ b.at \in {"judge", "exit", "fallback", "counted"} => FunctionFails'
    BY <2>1 DEF Delivered
  <2>6. ~ ok' /\ b.at \in Replying => Excused(2)'
    BY <2>1 DEF Delivered
  <2> QED BY <2>1, <2>4, <2>5, <2>6 DEF Returned
<1> QED BY <1>1, <1>2, <1>3, <1>4 DEF Fits

-----------------------------------------------------------------------------
(* The invariant, step by step.                                             *)

Quiet ==
  Opening \cup {"ensure", "supportsV2", "supportsV3", "choose", "try", "search", "searchEx",
                "searchEx2", "countEx", "stats", "rebuild", "legacyPage"}

LEMMA QuietReturned ==
  ASSUME NEW a, a.at \in Quiet
  PROVE  Returned(a)'
BY DEF Quiet, Opening, Returned, Replying, Wants

LEMMA FramesMade ==
  ASSUME NEW f \in Opening \cup Functions \cup Program \cup {"ensure", "supportsV2", "supportsV3"},
         NEW u \in BOOLEAN
  PROVE  /\ At(f) \in Frames /\ At(f).at = f /\ At(f).under = FALSE
         /\ Under(f, u) \in Frames /\ Under(f, u).at = f /\ Under(f, u).under = u
BY DEF Frames, At, Under

LEMMA TryMade ==
  ASSUME NEW f \in Printed, NEW u \in BOOLEAN, NEW n \in {1, 2}
  PROVE  LET t == Try(f, u, n) IN
         t \in Frames /\ t.at = "try" /\ t.f = f /\ t.under = u /\ t.try = n
BY DEF Frames, Try, Trying

LEMMA FrameMoved ==
  ASSUME NEW h \in Frames, NEW p \in Trying \cup Bottom
  PROVE  LET t == [h EXCEPT !.at = p] IN
         /\ t \in Frames /\ t.at = p
         /\ t.f = h.f /\ t.under = h.under /\ t.try = h.try
<1>1. p \in Opening \cup Functions \cup Trying \cup Program \cup {"ensure", "supportsV2", "supportsV3"}
  BY DEF Trying, Bottom, Program
<1> QED BY <1>1 DEF Frames

LEMMA BelowOnward ==
  ASSUME Shape, Stacked, Onward, todo # <<>>, NoV3 => NoV3',
         (legacy => legacy') \/ \A b \in Below : b.at # "fallback"
  PROVE  \A b \in Below : FrameOK(b)'
<1>1. PICK h : h = Head(todo)
  OBVIOUS
<1>2. \A b \in Below : b \in Frames /\ FrameOK(b)
  BY <1>1, OnTop
<1> QED BY <1>2, FrameOnward

LEMMA PopsDelivered ==
  ASSUME Types, Shape, Stacked, SameCall, NEW h, todo # <<>>, h = Head(todo), Return,
         h.at \notin Bottom, Delivered(h)', \A b \in Below : FrameOK(b)'
  PROVE  Shape' /\ Stacked'
<1>1. PICK w \in BOOLEAN : w = call.under /\ w = call'.under
  BY DEF Types, SameCall
<1>2. h \in Frames /\ \A b \in Below : b \in Frames
  BY OnTop
<1>3. \A b \in Below : Fits(h, b, call.under) => Returned(b)'
  BY <1>1, <1>2, DeliveredReturned
<1> QED BY <1>3, Pops

LEMMA Steps ==
  ASSUME ClientInv, Onward, Types', Caches', Shape', Stacked', UNCHANGED answer
  PROVE  ClientInv'
<1>1. RightPage'
  BY DEF ClientInv, Answers, RightPage, TotalIsTold, Onward, SameCall
<1>2. answer'.is = "error" => Excused(2)'
  BY ExcusesStay DEF ClientInv, Answers
<1>3. Learned' >= 0
  BY DEF ClientInv, Onward
<1> QED BY <1>1, <1>2, <1>3 DEF ClientInv, Onward, Answers

LEMMA Says2 ==
  ASSUME ClientInv, Onward, Types', Caches', Shape', Stacked', RightPage',
         answer'.is = "error" => Excused(2)'
  PROVE  ClientInv'
BY DEF ClientInv, Onward, Answers

LEMMA TypesStay ==
  ASSUME Types, UNCHANGED <<legacy, ok, result, call>>
  PROVE  Types'
BY DEF Types

LEMMA EnsureKeeps ==
  ASSUME ClientInv, Ensure
  PROVE  ClientInv'
<1> USE DEF ClientInv, toolVars, caches
<1>1. PICK h : h = Head(todo)
  OBVIOUS
<1>2. todo # <<>> /\ h.at = "ensure"
  BY <1>1 DEF Ensure, In
<1>3. SameCall /\ UNCHANGED <<daemon, deaths, conn, v2, v3, legacy, result, call, answer>>
  BY DEF Ensure, Stays, SameCall
<1>4. Onward
  BY <1>3, GoesOnward DEF Goes
<1>5. Caches' /\ (NoV3 => NoV3')
  BY <1>3, <1>4, CachesOnward, NoV3Onward
<1>6. \A b \in Below : FrameOK(b)'
  BY <1>2, <1>3, <1>4, <1>5, BelowOnward
<1>7. Types'
  BY <1>3 DEF Types, Ensure
<1>8. CASE Connected
  <2>1. ok' /\ Return /\ Connected'
    BY <1>4, <1>8 DEF Ensure, Onward
  <2>2. Delivered(h)'
    BY <1>2, <2>1 DEF Delivered, Opening, Functions, Searching, SearchEx1, Trying
  <2>3. Shape' /\ Stacked'
    BY <1>1, <1>2, <1>3, <1>6, <2>1, <2>2, PopsDelivered DEF Bottom
  <2> QED BY <1>3, <1>4, <1>5, <1>7, <2>3, Steps
<1>9. CASE ~ Connected
  <2> DEFINE a == At("connect")
  <2>1. a \in Frames /\ a.at = "connect" /\ a.under = FALSE
    BY FramesMade DEF Opening
  <2> HIDE DEF a
  <2>2. Calls(<<a>>)
    BY <1>9 DEF Ensure, a
  <2>3. ~ Connected'
    BY <1>4, <1>9 DEF Onward
  <2>4. FrameOK(a)'
    BY <2>1, <2>3 DEF FrameOK, Opening, Functions, Searching, SearchEx1, Trying
  <2>5. Returned(a)'
    BY <2>1, QuietReturned DEF Quiet, Opening
  <2>6. \A b, w : Fits(h, b, w) => Fits(a, b, w)
    BY <1>2, <2>1 DEF Fits, Opening, Functions, Searching, SearchEx1, Trying
  <2>7. \A b \in Below : b.at # "fallback"
    BY <1>1, <1>2, OnTop DEF OverFallback
  <2>8. Shape' /\ Stacked'
    BY <1>1, <1>2, <1>3, <1>6, <2>1, <2>2, <2>4, <2>5, <2>6, <2>7, Pushes DEF Bottom
  <2> QED BY <1>3, <1>4, <1>5, <1>7, <2>8, Steps
<1> QED BY <1>8, <1>9

LEMMA ConnectOpens ==
  ASSUME ClientInv, Connect, daemon # noDaemon, ok', Return,
         conn' = [gen |-> daemon.gen, kind |-> daemon.kind, in |-> <<>>],
         UNCHANGED <<daemon, deaths, call>>
  PROVE  ClientInv'
<1> USE DEF ClientInv, toolVars, caches
<1>1. PICK h : h = Head(todo)
  OBVIOUS
<1>2. /\ todo # <<>> /\ h.at \in Opening
      /\ UNCHANGED <<v2, v3, legacy, result, answer>>
  BY <1>1 DEF Connect, In, Opening
<1>3. SameCall
  BY DEF SameCall
<1>4. /\ h \in Frames /\ FrameOK(h)
      /\ \A b \in Below : b \in Frames /\ FrameOK(b) /\ b.at \notin Opening
  BY <1>1, <1>2, OnTop
<1>5. ~ Connected /\ conn = closed /\ v2 = -1 /\ v3 = -1
  BY <1>2, <1>4, ConnGen DEF FrameOK, Caches
<1>6. deaths \in Nat /\ daemon.gen = deaths /\ daemon.kind \in Kinds /\ call.since \in Int
  BY DEF Links, noDaemon, Types
<1>7. /\ conn'.gen = deaths /\ conn'.kind = daemon.kind /\ conn'.in = <<>>
      /\ Connected' /\ Alive' /\ ~ Alive
  BY <1>5, <1>6 DEF Connected, Alive, closed
<1>8. Links' /\ InStep'
  BY <1>6, <1>7 DEF Links, InStep
<1>9. Learned \in Int /\ Learned' = Learned
  BY <1>3, <1>5, <1>6, <1>7 DEF Learned, Stale, SameCall
<1>10. LackSeen => LackSeen'
  BY <1>5, <1>9 DEF LackSeen, Lacking
<1>11. \A n \in Int : Excused(n) => Excused(n)'
  BY <1>9, <1>10 DEF Excused
<1>12. Types' /\ Caches'
  BY <1>2, <1>5, <1>7 DEF Types, Caches
<1>13. ASSUME NEW b \in Below
       PROVE  FrameOK(b)'
  <2>1. /\ b \in Frames /\ FrameOK(b) /\ b.at \notin Opening
        /\ b.at \notin {"searchEx2", "fallback"}
    BY <1>4, <1>5 DEF FrameOK, Functions, SearchEx1
  <2>2. b.at \in Trying => b.try - 1 \in Int /\ Excused(b.try - 1)
    BY <2>1 DEF FrameOK
  <2>3. b.at \in Trying => Excused(b.try - 1)'
    BY <1>11, <2>2
  <2> QED BY <1>3, <1>7, <2>1, <2>3 DEF FrameOK, SameCall
<1>14. Delivered(h)'
  BY <1>2, <1>7 DEF Delivered, Opening, Functions, Searching, SearchEx1, Trying
<1>15. Shape' /\ Stacked'
  BY <1>1, <1>2, <1>3, <1>13, <1>14, PopsDelivered DEF Opening, Bottom
<1>16. RightPage'
  BY <1>2 DEF Answers, RightPage, TotalIsTold
<1>17. answer'.is = "error" => Excused(2)'
  BY <1>2, <1>11 DEF Answers
<1> QED BY <1>8, <1>9, <1>12, <1>15, <1>16, <1>17 DEF Answers

LEMMA ConnectKeeps ==
  ASSUME ClientInv, Connect
  PROVE  ClientInv'
<1> USE DEF ClientInv, toolVars, caches
<1>1. PICK h : h = Head(todo)
  OBVIOUS
<1>2. /\ todo # <<>> /\ h.at \in {"connect", "retry"}
      /\ UNCHANGED <<v2, v3, legacy, result, answer>>
  BY <1>1 DEF Connect, In
<1>a. ASSUME /\ daemon # noDaemon
             /\ conn' = [gen |-> daemon.gen, kind |-> daemon.kind, in |-> <<>>]
             /\ ok' = TRUE /\ Return /\ UNCHANGED <<daemon, deaths, call>>
      PROVE  ClientInv'
  BY <1>a, ConnectOpens
<1>b. ASSUME /\ IF daemon = noDaemon THEN UNCHANGED <<daemon, deaths>>
                 ELSE deaths < MaxDeaths /\ deaths' = deaths + 1 /\ daemon' = noDaemon
             /\ IF In("connect") THEN Calls(<<At("spawn")>>) /\ UNCHANGED <<ok, call>>
                     ELSE ok' = FALSE /\ call' = [call EXCEPT !.noStart = TRUE] /\ Return
             /\ UNCHANGED conn
      PROVE  ClientInv'
  <2>1. SameCall /\ Goes /\ conn' = conn
    BY <1>b DEF SameCall, Types, Goes
  <2>2. Onward
    BY <2>1, GoesOnward
  <2>3. Caches' /\ (NoV3 => NoV3')
    BY <1>2, <2>2, CachesOnward, NoV3Onward
  <2>4. \A b \in Below : FrameOK(b)'
    BY <1>2, <2>2, <2>3, BelowOnward
  <2>5. Types'
    BY <1>2, <1>b DEF Types
  <2>6. h \in Frames /\ FrameOK(h) /\ ~ Connected /\ ~ Connected'
    BY <1>1, <1>2, <2>2, OnTop DEF FrameOK, Opening, Onward
  <2>7. CASE In("connect")
    <3> DEFINE a == At("spawn")
    <3>1. a \in Frames /\ a.at = "spawn" /\ a.under = FALSE
      BY FramesMade DEF Opening
    <3> HIDE DEF a
    <3>2. Calls(<<a>>)
      BY <1>b, <2>7 DEF a
    <3>3. FrameOK(a)'
      BY <2>6, <3>1 DEF FrameOK, Opening, Functions, Searching, SearchEx1, Trying
    <3>4. Returned(a)'
      BY <3>1, QuietReturned DEF Quiet, Opening
    <3>5. \A b, w : Fits(h, b, w) => Fits(a, b, w)
      BY <1>2, <3>1 DEF Fits, Opening, Functions, Searching, SearchEx1, Trying
    <3>6. \A b \in Below : b.at # "fallback"
      BY <1>1, <1>2, OnTop DEF OverFallback
    <3>7. Shape' /\ Stacked'
      BY <1>1, <1>2, <2>1, <2>4, <3>1, <3>2, <3>3, <3>4, <3>5, <3>6, Pushes DEF Bottom
    <3> QED BY <1>2, <2>2, <2>3, <2>5, <3>7, Steps
  <2>8. CASE ~ In("connect")
    <3>1. ok' = FALSE /\ call'.noStart /\ Return
      BY <1>b, <2>8 DEF Types
    <3>2. Delivered(h)'
      BY <1>2, <3>1 DEF Delivered, Opening, Functions, Searching, SearchEx1, Trying
    <3>3. Shape' /\ Stacked'
      BY <1>1, <1>2, <2>1, <2>4, <3>1, <3>2, PopsDelivered DEF Bottom
    <3> QED BY <1>2, <2>2, <2>3, <2>5, <3>3, Steps
  <2> QED BY <2>7, <2>8
<1> QED BY <1>a, <1>b DEF Connect

LEMMA SpawnKeeps ==
  ASSUME ClientInv, Spawn
  PROVE  ClientInv'
<1> USE DEF ClientInv, toolVars, caches
<1>1. PICK h : h = Head(todo)
  OBVIOUS
<1>2. todo # <<>> /\ h.at = "spawn"
  BY <1>1 DEF Spawn, In
<1>3. SameCall /\ Goes /\ UNCHANGED <<conn, v2, v3, legacy, ok, result, call, answer>>
  BY DEF Spawn, SameCall, Goes
<1>4. Onward
  BY <1>3, GoesOnward
<1>5. Caches' /\ (NoV3 => NoV3')
  BY <1>3, <1>4, CachesOnward, NoV3Onward
<1>6. \A b \in Below : FrameOK(b)'
  BY <1>2, <1>3, <1>4, <1>5, BelowOnward
<1>7. Types'
  BY <1>3, TypesStay
<1> DEFINE a == At("retry")
<1>8. a \in Frames /\ a.at = "retry" /\ a.under = FALSE
  BY FramesMade DEF Opening
<1> HIDE DEF a
<1>9. Calls(<<a>>)
  BY DEF Spawn, a
<1>10. ~ Connected'
  BY <1>1, <1>2, <1>4, OnTop DEF FrameOK, Opening, Onward
<1>11. FrameOK(a)'
  BY <1>8, <1>10 DEF FrameOK, Opening, Functions, Searching, SearchEx1, Trying
<1>12. Returned(a)'
  BY <1>8, QuietReturned DEF Quiet, Opening
<1>13. \A b, w : Fits(h, b, w) => Fits(a, b, w)
  BY <1>2, <1>8 DEF Fits, Opening, Functions, Searching, SearchEx1, Trying
<1>14. \A b \in Below : b.at # "fallback"
  BY <1>1, <1>2, OnTop DEF OverFallback
<1>15. Shape' /\ Stacked'
  BY <1>1, <1>2, <1>3, <1>6, <1>8, <1>9, <1>11, <1>12, <1>13, <1>14, Pushes DEF Bottom
<1> QED BY <1>3, <1>4, <1>5, <1>7, <1>15, Steps

LEMMA AskOnward ==
  ASSUME Types, Links, InStep, Learned >= 0, SameCall, NEW cmd, NEW under, NEW many,
         <<cmd, many>> \in Requests, NEW g, Asks(cmd, under, many, g)
  PROVE  Onward /\ Outcomes(cmd, under, g)
<1>1. Outcomes(cmd, under, g) /\ Used
  BY AskResult
<1>2. Goes /\ (conn' = conn \/ (Alive /\ conn' = [conn EXCEPT !.in = <<>>]))
  BY <1>1 DEF Used, Goes, Alive
<1> QED BY <1>1, <1>2, GoesOnward

\* A conclusion drawn from the answer to capabilities is right.
LEMMA NegotiatedRight ==
  ASSUME Types, Links, NEW g, Outcomes("capabilities", FALSE, g),
         NEW cmd, NEW cache \in -1..1, NEW n, n = Negotiated(cache, cmd, g), cache = -1
  PROVE  /\ n \in -1..1
         /\ n # cache => Connected
         /\ n = 1 => cmd \in conn.kind.lists
         /\ n = 0 => ~ Can(conn.kind, cmd)
         /\ n = -1 => ~ Alive'
<1>1. CASE g.is = "lost" /\ ~ Alive'
  BY <1>1 DEF Negotiated
<1>2. CASE g.is = "unknown" /\ Alive /\ "capabilities" \notin conn.kind.knows
  <2>1. Connected /\ conn.kind \in Kinds
    BY <1>2, ConnGen
  <2>2. conn.kind.lists = {}
    BY <1>2, <2>1, ClientAssumption
  <2> QED BY <1>2, <2>1, <2>2 DEF Negotiated, Can
<1>3. CASE g.is = "ok" /\ Alive
  BY <1>3, ConnGen DEF Negotiated, Can
<1> QED BY <1>1, <1>2, <1>3 DEF Outcomes

LEMMA SupportsV2Keeps ==
  ASSUME ClientInv, SupportsV2
  PROVE  ClientInv'
<1> USE DEF ClientInv, toolVars, caches
<1>1. PICK h : h = Head(todo)
  OBVIOUS
<1>2. /\ todo # <<>> /\ h.at = "supportsV2" /\ Return
      /\ UNCHANGED <<v3, legacy, result, call, answer>>
  BY <1>1 DEF SupportsV2, In
<1>3. SameCall
  BY <1>2 DEF SameCall
<1>4. Onward /\ Caches' /\ ok' \in BOOLEAN
  <2>1. CASE v2 >= 0
    <3>1. UNCHANGED <<daemon, deaths, conn, v2>> /\ ok' = (v2 = 1)
      BY <2>1 DEF SupportsV2, Stays
    <3>2. Onward
      BY <1>3, <3>1, GoesOnward DEF Goes
    <3> QED BY <1>2, <3>1, <3>2, CachesOnward
  <2>2. CASE ~ v2 >= 0
    <3>1. PICK g : /\ Asks("capabilities", FALSE, TRUE, g)
                   /\ v2' = Negotiated(v2, "search2", g) /\ ok' = (v2' = 1)
      BY <2>2 DEF SupportsV2, Ask, Asks
    <3>2. <<"capabilities", TRUE>> \in Requests
      BY DEF Requests
    <3>3. Onward /\ Outcomes("capabilities", FALSE, g)
      BY <1>3, <3>1, <3>2, AskOnward
    <3>4. v2 = -1 /\ v2 \in -1..1
      BY <2>2 DEF Caches
    <3>5. /\ v2' \in -1..1
          /\ v2' # v2 => Connected
          /\ v2' = 1 => "search2" \in conn.kind.lists
          /\ v2' = 0 => ~ Can(conn.kind, "search2")
      BY <3>1, <3>3, <3>4, NegotiatedRight
    <3> QED BY <1>2, <3>1, <3>3, <3>4, <3>5 DEF Caches, Onward, Can
  <2> QED BY <2>1, <2>2
<1>5. NoV3 => NoV3'
  BY <1>2, <1>4, NoV3Onward
<1>6. \A b \in Below : FrameOK(b)'
  BY <1>2, <1>4, <1>5, BelowOnward
<1>7. Types'
  BY <1>2, <1>4 DEF Types
<1>8. Delivered(h)'
  BY <1>2 DEF Delivered, Opening, Functions, Searching, SearchEx1, Trying
<1>9. Shape' /\ Stacked'
  BY <1>1, <1>2, <1>3, <1>6, <1>8, PopsDelivered DEF Bottom
<1> QED BY <1>2, <1>4, <1>7, <1>9, Steps

LEMMA SupportsV3Keeps ==
  ASSUME ClientInv, SupportsV3
  PROVE  ClientInv'
<1> USE DEF ClientInv, toolVars, caches
<1>1. PICK h : h = Head(todo)
  OBVIOUS
<1>2. /\ todo # <<>> /\ h.at = "supportsV3" /\ Return
      /\ UNCHANGED <<v2, legacy, result, call, answer>>
  BY <1>1 DEF SupportsV3, In
<1>3. SameCall
  BY <1>2 DEF SameCall
<1>4. /\ Onward /\ Caches' /\ ok' \in BOOLEAN
      /\ NoV3 => NoV3'
      /\ IF ok' THEN v3' = 1 ELSE NoV3'
  <2>1. CASE v3 >= 0
    <3>1. UNCHANGED <<daemon, deaths, conn, v3>> /\ ok' = (v3 = 1)
      BY <2>1 DEF SupportsV3, Stays
    <3>2. Onward
      BY <1>3, <3>1, GoesOnward DEF Goes
    <3>3. v3 \in {0, 1}
      BY <2>1 DEF Caches
    <3> QED BY <1>2, <3>1, <3>2, <3>3, CachesOnward, NoV3Onward DEF NoV3
  <2>2. CASE ~ v3 >= 0
    <3>1. PICK g : /\ Asks("capabilities", FALSE, TRUE, g)
                   /\ v3' = Negotiated(v3, "search3", g) /\ ok' = (v3' = 1)
      BY <2>2 DEF SupportsV3, Ask, Asks
    <3>2. <<"capabilities", TRUE>> \in Requests
      BY DEF Requests
    <3>3. Onward /\ Outcomes("capabilities", FALSE, g)
      BY <1>3, <3>1, <3>2, AskOnward
    <3>4. v3 = -1 /\ v3 \in -1..1
      BY <2>2 DEF Caches
    <3>5. /\ v3' \in -1..1
          /\ v3' # v3 => Connected
          /\ v3' = 1 => "search3" \in conn.kind.lists
          /\ v3' = 0 => ~ Can(conn.kind, "search3")
          /\ v3' = -1 => ~ Alive'
      BY <3>1, <3>3, <3>4, NegotiatedRight
    <3>6. Caches'
      BY <1>2, <3>3, <3>4, <3>5 DEF Caches, Onward, Can
    <3>7. ~ ok' => NoV3'
      <4>1. ok' <=> v3' = 1
        BY <3>1
      <4>2. v3' # 1 => v3' = 0 \/ v3' = -1
        BY <3>5
      <4> QED BY <3>5, <4>1, <4>2 DEF NoV3
    <3>8. NoV3 => NoV3'
      <4>1. SUFFICES ASSUME NoV3 PROVE NoV3'
        OBVIOUS
      <4>2. ~ Alive
        BY <3>4, <4>1 DEF NoV3
      <4>3. g.is = "lost"
        BY <3>3, <4>2 DEF Outcomes
      <4>4. v3' = -1
        BY <3>1, <3>4, <4>3 DEF Negotiated
      <4> QED BY <3>5, <4>4 DEF NoV3
    <3> QED BY <3>1, <3>3, <3>6, <3>7, <3>8
  <2> QED BY <2>1, <2>2
<1>6. \A b \in Below : FrameOK(b)'
  BY <1>2, <1>4, BelowOnward
<1>7. Types'
  BY <1>2, <1>4 DEF Types
<1>8. Delivered(h)'
  BY <1>2, <1>4 DEF Delivered, Opening, Functions, Searching, SearchEx1, Trying
<1>9. Shape' /\ Stacked'
  BY <1>1, <1>2, <1>3, <1>6, <1>8, PopsDelivered DEF Bottom
<1> QED BY <1>2, <1>4, <1>7, <1>9, Steps

LEMMA OneRow ==
  ASSUME NEW b, NEW e
  PROVE  [i \in DOMAIN <<b>> |-> [line |-> <<b>>[i], unescaped |-> e]]
           = <<[line |-> b, unescaped |-> e]>>
<1> DEFINE r == [line |-> b, unescaped |-> e]
           lines == [i \in DOMAIN <<b>> |-> [line |-> <<b>>[i], unescaped |-> e]]
           t == <<r>>
<1>1. DOMAIN <<b>> = {1} /\ <<b>>[1] = b
  BY OneLine
<1>2. lines = [i \in {1} |-> r]
  BY <1>1
<1>3. 1..1 = {1}
  OBVIOUS
<1> HIDE DEF r, lines
<1>4. t \in Seq({r}) /\ Len(t) = 1 /\ t[1] = r
  BY OneLine
<1>5. [i \in {1} |-> r] \in Seq({r}) /\ Len([i \in {1} |-> r]) = 1 /\ [i \in {1} |-> r][1] = r
  <2>1. [i \in 1..1 |-> r] \in Seq({r}) /\ Len([i \in 1..1 |-> r]) = 1
    BY IsASeq, LenProperties
  <2> QED BY <1>3, <2>1
<1> HIDE DEF t
<1>6. [i \in {1} |-> r] = t
  BY <1>4, <1>5, SeqEqual
<1> QED BY <1>2, <1>6 DEF lines, t, r

\* What a search or a count leaves in the result.
LEMMA OutcomeGood ==
  ASSUME NEW cmd \in {"search", "search2", "search3", "count2"}, NEW u \in BOOLEAN,
         NEW g, g.body = <<Body(cmd, u)>>, NEW t, result' = Outcome(cmd, g, t),
         NEW f \in Printed, cmd = "search" => ~ u, cmd = "count2" => f = "countEx",
         f = "searchEx" => t = "exact"
  PROVE  Good(f, u)'
<1> DEFINE b == Body(cmd, u)
           r == [line |-> b, unescaped |-> Unescapes(cmd)]
           t1 == <<r>>
<1>1. /\ b.t = "row" \/ (cmd = "count2" /\ b.cmd = "count2")
      /\ b.under = u /\ b.cmd = cmd
  BY DEF Body, Line
<1> HIDE DEF b
<1>2. result'.rows = t1 /\ result'.total = t
  BY OneRow DEF Outcome, b
<1>3. r.line = b /\ (r.unescaped <=> cmd = "search3")
  BY DEF Unescapes
<1> HIDE DEF r
<1>4. r \in ToSet(t1)
  BY OneLine DEF ToSet
<1> QED BY <1>1, <1>2, <1>3, <1>4 DEF Good

LEMMA OutcomeTyped ==
  ASSUME NEW cmd, NEW g, NEW t, result' = Outcome(cmd, g, t) \/ result' = noResult
  PROVE  result' = [rows |-> result'.rows, total |-> result'.total]
BY DEF Outcome, noResult

\* The work of each frame, one by one.
LEMMA ServesSearchEx ==
  ASSUME NEW fr, fr.at \in SearchEx1, NEW f, NEW u
  PROVE  Serves(fr, f, u) <=> f = "searchEx" /\ u = fr.under
BY DEF Serves, Searching, SearchEx1, Trying

LEMMA ServesSearch ==
  ASSUME NEW fr, fr.at \in Searching, NEW f, NEW u
  PROVE  Serves(fr, f, u) <=> f \in {"search", "countEx"} /\ ~ u
BY DEF Serves, Searching, SearchEx1, Trying

LEMMA ServesFallback ==
  ASSUME NEW fr, fr.at = "fallback", NEW f, NEW u
  PROVE  Serves(fr, f, u) <=> f = "searchEx" /\ ~ u
BY DEF Serves, Searching, SearchEx1, Trying

LEMMA ServesCountEx ==
  ASSUME NEW fr, fr.at = "countEx", NEW f, NEW u
  PROVE  Serves(fr, f, u) <=> f = "countEx" /\ u = fr.under
BY DEF Serves, Searching, SearchEx1, Trying

LEMMA ServesOther ==
  ASSUME NEW fr, fr.at \in {"stats", "rebuild"}, NEW f, NEW u
  PROVE  Serves(fr, f, u) <=> f = fr.at
BY DEF Serves, Searching, SearchEx1, Trying

LEMMA ServesTrying ==
  ASSUME NEW fr, fr.at \in Trying, NEW f, NEW u
  PROVE  Serves(fr, f, u) <=> f = fr.f /\ u = fr.under
BY DEF Serves, Searching, SearchEx1, Trying

LEMMA SearchExKeeps ==
  ASSUME ClientInv, SearchEx
  PROVE  ClientInv'
<1> USE DEF ClientInv, toolVars, caches
<1>1. PICK h : h = Head(todo)
  OBVIOUS
<1>2. /\ todo # <<>> /\ h.at = "searchEx" /\ legacy' = FALSE /\ result' = noResult
      /\ UNCHANGED <<daemon, deaths, conn, v2, v3, ok, call, answer>>
  BY <1>1 DEF SearchEx, In, Stays
<1>3. SameCall
  BY <1>2 DEF SameCall
<1>4. Onward
  BY <1>2, <1>3, GoesOnward DEF Goes
<1>5. Caches' /\ (NoV3 => NoV3')
  BY <1>2, <1>4, CachesOnward, NoV3Onward
<1>6. h \in Frames /\ FrameOK(h) /\ \A b \in Below : b.at # "fallback"
  BY <1>1, <1>2, OnTop DEF OverFallback
<1>7. \A b \in Below : FrameOK(b)'
  BY <1>2, <1>4, <1>5, <1>6, BelowOnward
<1>8. Types'
  BY <1>2, OutcomeTyped DEF Types
<1> DEFINE a == At("supportsV3")
           c == Under("searchEx3", h.under)
<1>9. h.under \in BOOLEAN
  BY <1>6 DEF Frames
<1>10. /\ a \in Frames /\ a.at = "supportsV3" /\ a.under = FALSE
       /\ c \in Frames /\ c.at = "searchEx3" /\ c.under = h.under
  BY <1>9, FramesMade DEF Functions, SearchEx1
<1> HIDE DEF a, c
<1>11. Calls(<<a, c>>)
  BY <1>1 DEF SearchEx, This, a, c
<1>12. Connected' /\ (h.under => call'.under)
  BY <1>2, <1>4, <1>6 DEF FrameOK, Functions, SearchEx1, Onward, SameCall
<1>13. FrameOK(a)' /\ FrameOK(c)'
  BY <1>10, <1>12 DEF FrameOK, Opening, Functions, Searching, SearchEx1, Trying
<1>14. Returned(a)'
  BY <1>10, QuietReturned DEF Quiet
<1>15. Fits(a, c, call.under)
  BY <1>10 DEF Fits
<1>16. \A b, w : Fits(h, b, w) => Fits(c, b, w)
  BY <1>2, <1>10 DEF Fits, Match, Serves, Opening, Functions, Searching, SearchEx1, Trying
<1>17. Shape' /\ Stacked'
  BY <1>1, <1>2, <1>3, <1>6, <1>7, <1>10, <1>11, <1>13, <1>14, <1>15, <1>16, PushesTwo DEF Bottom
<1> QED BY <1>2, <1>4, <1>5, <1>8, <1>17, Steps

\* A frame of the stack that gives way to one that does the same work.
LEMMA PushesFunction ==
  ASSUME Shape, Stacked, Onward, NEW h, todo # <<>>, h = Head(todo), NEW a \in Frames,
         Calls(<<a>>), h.at \in Functions, a.at \in Functions \ {"fallback"}, a.at \in Quiet,
         a.under => h.under,
         a.at = "searchEx2" => NoV3',
         \A f \in Printed, u \in BOOLEAN : Serves(h, f, u) => Serves(a, f, u),
         a.at \in OverFallback \/ h.at \notin OverFallback,
         \A b \in Below : FrameOK(b)'
  PROVE  Shape' /\ Stacked'
<1>1. h \in Frames /\ FrameOK(h)
  BY OnTop
<1>2. Connected' /\ (h.under => call'.under) /\ SameCall
  BY <1>1 DEF FrameOK, Onward, SameCall
<1>3. FrameOK(a)'
  BY <1>1, <1>2 DEF FrameOK, Opening, Functions, Searching, SearchEx1, Trying, Bottom
<1>4. Returned(a)'
  BY QuietReturned
<1>5. \A b, w : Match(h, b, w) => Match(a, b, w)
  BY DEF Match
<1>6. \A b, w : Fits(h, b, w) => Fits(a, b, w)
  BY <1>5 DEF Fits, Opening, Functions, Searching, SearchEx1, Trying
<1>7. a.at \in OverFallback \/ \A b \in Below : b.at # "fallback"
  BY OnTop
<1>8. h.at \notin Bottom
  BY DEF Functions, Searching, SearchEx1, Bottom
<1> QED BY <1>2, <1>3, <1>4, <1>6, <1>7, <1>8, Pushes

\* A function that returns.
LEMMA PopsFunction ==
  ASSUME Types, Shape, Stacked, Onward, NEW h, todo # <<>>, h = Head(todo), Return,
         h.at \in Functions, \A b \in Below : FrameOK(b)',
         ok' => \A f \in Printed, u \in BOOLEAN : Serves(h, f, u) => Good(f, u)',
         ~ ok' => FunctionFails'
  PROVE  Shape' /\ Stacked'
<1>1. Delivered(h)'
  BY DEF Delivered, Opening, Functions, Searching, SearchEx1, Trying
<1>2. h.at \notin Bottom
  BY DEF Functions, Searching, SearchEx1, Bottom
<1> QED BY <1>1, <1>2, PopsDelivered DEF Onward

LEMMA LostFails ==
  ASSUME Onward, Connected, ~ Alive'
  PROVE  FunctionFails'
BY DEF Onward, FunctionFails, Stale

LEMMA SearchEx3Keeps ==
  ASSUME ClientInv, SearchEx3
  PROVE  ClientInv'
<1> USE DEF ClientInv, toolVars, caches
<1>1. PICK h : h = Head(todo)
  OBVIOUS
<1>2. /\ todo # <<>> /\ h.at = "searchEx3"
      /\ UNCHANGED <<v2, legacy, call, answer>>
  BY <1>1 DEF SearchEx3, In
<1>3. SameCall
  BY <1>2 DEF SameCall
<1>4. /\ h \in Frames /\ FrameOK(h) /\ Returned(h) /\ h.under \in BOOLEAN /\ h.at \in Functions
      /\ Connected /\ conn.kind \in Kinds
  BY <1>1, <1>2, OnTop DEF Frames, FrameOK, Functions, SearchEx1, Links, Connected
<1> DEFINE a == Under("searchEx2", h.under)
<1>5. a \in Frames /\ a.at = "searchEx2" /\ a.under = h.under
  BY <1>4, FramesMade DEF Functions, SearchEx1
<1> HIDE DEF a
<1>6. a.at \in Functions \ {"fallback"} /\ a.at \in Quiet /\ h.at \notin OverFallback
  BY <1>2, <1>5 DEF Functions, SearchEx1, Quiet, OverFallback
<1>7. \A f \in Printed, u \in BOOLEAN : Serves(h, f, u) => Serves(a, f, u)
  <2>1. h.at \in SearchEx1 /\ a.at \in SearchEx1
    BY <1>2, <1>5 DEF SearchEx1
  <2> QED BY <1>5, <2>1, ServesSearchEx
<1>a. CASE ~ ok
  <2>1. Calls(<<a>>) /\ UNCHANGED <<daemon, deaths, conn, v3, ok, result>>
    BY <1>1, <1>a DEF SearchEx3, This, Stays, a
  <2>2. Onward
    BY <1>3, <2>1, GoesOnward DEF Goes
  <2>3. Caches' /\ (NoV3 => NoV3') /\ NoV3'
    BY <1>2, <1>4, <1>a, <2>1, <2>2, CachesOnward, NoV3Onward DEF Returned
  <2>4. \A b \in Below : FrameOK(b)'
    BY <1>2, <2>2, <2>3, BelowOnward
  <2>5. Shape' /\ Stacked'
    BY <1>1, <1>2, <1>4, <1>5, <1>6, <1>7, <2>1, <2>2, <2>3, <2>4, PushesFunction
  <2>6. Types'
    BY <1>2, <2>1 DEF Types
  <2> QED BY <1>2, <2>2, <2>3, <2>5, <2>6, Steps
<1>b. CASE ok
  <2>1. PICK g : /\ Asks("search3", h.under, TRUE, g)
                 /\ v3' = V3After(g)
                 /\ IF g.is = "unknown"
                    THEN Calls(<<a>>) /\ UNCHANGED <<ok, result>>
                    ELSE /\ ok' = (g.is = "ok") /\ Return
                         /\ result' = IF ok' THEN Outcome("search3", g, "exact") ELSE result
    BY <1>1, <1>b DEF SearchEx3, This, Ask, Asks, a
  <2>2. <<"search3", TRUE>> \in Requests
    BY DEF Requests
  <2>3. Onward /\ Outcomes("search3", h.under, g)
    BY <1>3, <2>1, <2>2, AskOnward
  <2>4. CASE g.is = "unknown"
    <3>1. "search3" \notin conn.kind.knows /\ v3' = 0
      BY <2>1, <2>3, <2>4 DEF Outcomes, V3After
    <3>2. Caches' /\ NoV3'
      BY <1>2, <1>4, <2>3, <3>1 DEF Caches, Can, Onward, NoV3
    <3>3. \A b \in Below : FrameOK(b)'
      BY <1>2, <2>3, <3>2, BelowOnward
    <3>4. Shape' /\ Stacked'
      BY <1>1, <1>2, <1>4, <1>5, <1>6, <1>7, <2>1, <2>3, <2>4, <3>2, <3>3, PushesFunction
    <3>5. Types'
      BY <1>2, <2>1, <2>4 DEF Types
    <3> QED BY <1>2, <2>3, <3>2, <3>4, <3>5, Steps
  <2>5. CASE g.is # "unknown"
    <3>1. v3' = v3 /\ ok' = (g.is = "ok") /\ Return
          /\ result' = IF ok' THEN Outcome("search3", g, "exact") ELSE result
      BY <2>1, <2>5 DEF V3After
    <3>2. ok' <=> g.is = "ok"
      BY <3>1
    <3>3. Caches' /\ (NoV3 => NoV3')
      BY <1>2, <2>3, <3>1, CachesOnward, NoV3Onward
    <3>4. \A b \in Below : FrameOK(b)'
      BY <1>2, <2>3, <3>3, BelowOnward
    <3>5. ok' => Good("searchEx", h.under)'
      <4>1. SUFFICES ASSUME ok' PROVE Good("searchEx", h.under)'
        OBVIOUS
      <4>2. g.body = <<Body("search3", h.under)>>
        BY <2>3, <3>2, <4>1 DEF Outcomes
      <4>3. result' = Outcome("search3", g, "exact")
        BY <3>1, <4>1
      <4> QED BY <1>4, <4>2, <4>3, OutcomeGood DEF Printed
    <3>6. ok' => \A f \in Printed, u \in BOOLEAN : Serves(h, f, u) => Good(f, u)'
      <4>1. h.at \in SearchEx1
        BY <1>2 DEF SearchEx1
      <4> QED BY <3>5, <4>1, ServesSearchEx
    <3>7. ~ ok' => FunctionFails'
      BY <1>4, <2>3, <2>5, <3>2, LostFails DEF Outcomes
    <3>8. Shape' /\ Stacked'
      BY <1>1, <1>2, <1>4, <2>3, <3>1, <3>4, <3>6, <3>7, PopsFunction
    <3>9. Types'
      <4>1. result' = [rows |-> result'.rows, total |-> result'.total]
        BY <3>1, OutcomeTyped DEF Types
      <4> QED BY <1>2, <3>1, <4>1 DEF Types
    <3> QED BY <1>2, <2>3, <3>3, <3>8, <3>9, Steps
  <2> QED BY <2>4, <2>5
<1> QED BY <1>a, <1>b

\* A function that returns what it has found in a reply.
LEMMA PopsOutcome ==
  ASSUME ClientInv, Onward, Caches', NoV3 => NoV3', NEW h, todo # <<>>, h = Head(todo),
         h.at \in Functions, Return, UNCHANGED <<legacy, call, answer>>,
         NEW cmd, NEW u, NEW g, Outcomes(cmd, u, g), g.is # "unknown", ok' = (g.is = "ok"),
         NEW t, result' = Outcome(cmd, g, t) \/ result' = noResult \/ result' = result,
         ok' => \A f \in Printed, x \in BOOLEAN : Serves(h, f, x) => Good(f, x)'
  PROVE  ClientInv'
<1> USE DEF ClientInv
<1>1. ok' <=> g.is = "ok"
  OBVIOUS
<1>2. Connected
  BY OnTop DEF FrameOK
<1>3. ~ ok' => FunctionFails'
  BY <1>1, <1>2, LostFails DEF Outcomes
<1>4. \A b \in Below : FrameOK(b)'
  BY BelowOnward
<1>5. Shape' /\ Stacked'
  BY <1>3, <1>4, PopsFunction
<1>6. result' = [rows |-> result'.rows, total |-> result'.total]
  BY OutcomeTyped DEF Types
<1>7. ok' \in BOOLEAN
  OBVIOUS
<1>8. Types'
  BY <1>6, <1>7 DEF Types
<1> QED BY <1>5, <1>8, Steps

LEMMA WithoutV2Keeps ==
  ASSUME ClientInv, Onward, Caches', NEW h, todo # <<>>, h = Head(todo), h.at = "searchEx2",
         "search2" \notin conn.kind.knows, WithoutV2(h.under),
         UNCHANGED <<v3, result, call, answer>>
  PROVE  ClientInv'
<1> USE DEF ClientInv
<1>1. /\ h \in Frames /\ FrameOK(h) /\ h.under \in BOOLEAN /\ h.at \in Functions
      /\ Connected /\ NoV3
      /\ \A b \in Below : b.at # "fallback"
  BY OnTop DEF Frames, FrameOK, Functions, SearchEx1, OverFallback
<1>2. NoV3'
  BY <1>1, NoV3Onward
<1>3. SameCall /\ Connected' /\ conn'.kind = conn.kind
  BY <1>1 DEF Onward
<1>4. \A b \in Below : FrameOK(b)'
  BY <1>1, <1>2, BelowOnward
<1>5. CASE h.under
  <2>1. ok' = FALSE /\ Return /\ UNCHANGED legacy
    BY <1>5 DEF WithoutV2
  <2>2. call'.under
    BY <1>1, <1>3, <1>5 DEF FrameOK, SameCall
  <2>3. FunctionFails'
    BY <1>3, <2>2 DEF FunctionFails
  <2>4. Shape' /\ Stacked'
    BY <1>1, <1>4, <2>1, <2>3, PopsFunction
  <2>5. Types'
    BY <2>1 DEF Types
  <2> QED BY <2>4, <2>5, Steps
<1>6. CASE ~ h.under
  <2> DEFINE a == At("search")
             c == At("fallback")
  <2>1. /\ a \in Frames /\ a.at = "search" /\ a.under = FALSE
        /\ c \in Frames /\ c.at = "fallback" /\ c.under = FALSE
    BY FramesMade DEF Functions, Searching
  <2> HIDE DEF a, c
  <2>2. legacy' = TRUE /\ Calls(<<a, c>>) /\ UNCHANGED ok
    BY <1>6 DEF WithoutV2, a, c
  <2>3. FrameOK(a)' /\ FrameOK(c)'
    BY <1>2, <1>3, <2>1, <2>2 DEF FrameOK, Opening, Functions, Searching, SearchEx1, Trying
  <2>4. Returned(a)'
    BY <2>1, QuietReturned DEF Quiet
  <2>5. Fits(a, c, call.under)
    <3>1. Serves(a, "search", FALSE) /\ Wants(c, "search", FALSE, call.under)
      BY <2>1 DEF Serves, Wants, Searching
    <3>2. "search" \in Printed
      BY DEF Printed
    <3>3. Match(a, c, call.under)
      BY <3>1, <3>2 DEF Match
    <3> QED BY <2>1, <3>3 DEF Fits, Functions, Searching
  <2>6. \A b, w : Fits(h, b, w) => Fits(c, b, w)
    <3>1. \A f, u : Serves(h, f, u) => Serves(c, f, u)
      BY <1>6, <2>1, ServesSearchEx, ServesFallback DEF SearchEx1
    <3>2. \A b, w : Match(h, b, w) => Match(c, b, w)
      BY <3>1 DEF Match
    <3> QED BY <2>1, <3>2 DEF Fits, Opening, Functions, Searching, SearchEx1, Trying
  <2>7. Shape' /\ Stacked'
    BY <1>1, <1>3, <1>4, <2>1, <2>2, <2>3, <2>4, <2>5, <2>6, PushesTwo DEF Bottom, OverFallback
  <2>8. Types'
    BY <2>2 DEF Types
  <2> QED BY <2>7, <2>8, Steps
<1> QED BY <1>1, <1>5, <1>6

\* A daemon of which it is known that it has no search2.
LEMMA NoSearch2 ==
  ASSUME Links, Caches, Connected, v2 = 0
  PROVE  "search2" \notin conn.kind.knows
<1>1. conn.kind \in Kinds
  BY DEF Links, Connected
<1> QED BY <1>1, ClientAssumption DEF Caches, Can

LEMMA SearchEx2Keeps ==
  ASSUME ClientInv, SearchEx2
  PROVE  ClientInv'
<1> USE DEF ClientInv, toolVars, caches
<1>1. PICK h : h = Head(todo)
  OBVIOUS
<1>2. /\ todo # <<>> /\ h.at = "searchEx2"
      /\ UNCHANGED <<v3, call, answer>>
  BY <1>1 DEF SearchEx2, In
<1>3. SameCall
  BY <1>2 DEF SameCall
<1>4. /\ h \in Frames /\ FrameOK(h) /\ h.under \in BOOLEAN /\ h.at \in Functions /\ Connected
  BY <1>1, <1>2, OnTop DEF Frames, FrameOK, Functions, SearchEx1
<1>a. CASE v2 = 0
  <2>1. WithoutV2(h.under) /\ UNCHANGED <<daemon, deaths, conn, v2, result>>
    BY <1>1, <1>a DEF SearchEx2, This, Stays
  <2>2. Onward
    BY <1>3, <2>1, GoesOnward DEF Goes
  <2>3. Caches'
    BY <1>2, <2>1, <2>2, CachesOnward
  <2>4. "search2" \notin conn.kind.knows
    BY <1>4, <1>a, NoSearch2
  <2> QED BY <1>1, <1>2, <2>1, <2>2, <2>3, <2>4, WithoutV2Keeps
<1>b. CASE v2 # 0
  <2> DEFINE Then(g) ==
               /\ v2' = IF g.is = "unknown" THEN 0 ELSE v2
               /\ IF g.is = "unknown" THEN WithoutV2(This.under) /\ UNCHANGED result
                  ELSE /\ ok' = (g.is = "ok") /\ Return /\ UNCHANGED legacy
                       /\ result' = IF ok' THEN Outcome("search2", g, "exact") ELSE result
  <2>a. This = h
    BY <1>1 DEF This
  <2>0. Ask("search2", This.under, TRUE, Then)
    BY <1>b DEF SearchEx2
  <2> HIDE DEF Then
  <2>b. \E g : Asks("search2", This.under, TRUE, g) /\ Then(g)
    BY <2>0 DEF Ask, Asks
  <2>1. PICK g : /\ Asks("search2", h.under, TRUE, g)
                 /\ v2' = IF g.is = "unknown" THEN 0 ELSE v2
                 /\ IF g.is = "unknown" THEN WithoutV2(h.under) /\ UNCHANGED result
                    ELSE /\ ok' = (g.is = "ok") /\ Return /\ UNCHANGED legacy
                         /\ result' = IF ok' THEN Outcome("search2", g, "exact") ELSE result
    <3>1. PICK g : Asks("search2", This.under, TRUE, g) /\ Then(g)
      BY <2>b
    <3>2. Asks("search2", h.under, TRUE, g)
      BY <2>a, <3>1
    <3>3. WithoutV2(This.under) => WithoutV2(h.under)
      BY <2>a DEF WithoutV2
    <3> QED BY <3>1, <3>2, <3>3 DEF Then
  <2>2. <<"search2", TRUE>> \in Requests
    BY DEF Requests
  <2>3. Onward /\ Outcomes("search2", h.under, g)
    BY <1>3, <2>1, <2>2, AskOnward
  <2>4. CASE g.is = "unknown"
    <3>1. "search2" \notin conn.kind.knows /\ v2' = 0
      BY <2>1, <2>3, <2>4 DEF Outcomes
    <3>2. Caches'
      BY <1>2, <1>4, <2>3, <3>1 DEF Caches, Can, Onward
    <3> QED BY <1>1, <1>2, <2>1, <2>3, <2>4, <3>1, <3>2, WithoutV2Keeps
  <2>5. CASE g.is # "unknown"
    <3>1. /\ v2' = v2 /\ ok' = (g.is = "ok") /\ Return /\ UNCHANGED legacy
          /\ result' = IF ok' THEN Outcome("search2", g, "exact") ELSE result
      BY <2>1, <2>5
    <3>2. ok' <=> g.is = "ok"
      BY <3>1
    <3>3. Caches' /\ (NoV3 => NoV3')
      BY <1>2, <2>3, <3>1, CachesOnward, NoV3Onward
    <3>5. ok' => Good("searchEx", h.under)'
      <4>1. SUFFICES ASSUME ok' PROVE Good("searchEx", h.under)'
        OBVIOUS
      <4>2. g.body = <<Body("search2", h.under)>>
        BY <2>3, <3>2, <4>1 DEF Outcomes
      <4>3. result' = Outcome("search2", g, "exact")
        BY <3>1, <4>1
      <4> QED BY <1>4, <4>2, <4>3, OutcomeGood DEF Printed
    <3>6. ok' => \A f \in Printed, u \in BOOLEAN : Serves(h, f, u) => Good(f, u)'
      BY <1>2, <3>5, ServesSearchEx DEF SearchEx1
    <3>7. result' = Outcome("search2", g, "exact") \/ result' = result
      BY <3>1
    <3> QED BY <1>1, <1>2, <1>4, <2>3, <2>5, <3>1, <3>3, <3>6, <3>7, PopsOutcome
  <2> QED BY <2>4, <2>5
<1> QED BY <1>a, <1>b

LEMMA CountedKeeps ==
  ASSUME ClientInv, Counted
  PROVE  ClientInv'
<1> USE DEF ClientInv, toolVars, caches
<1>1. PICK h : h = Head(todo)
  OBVIOUS
<1>2. /\ todo # <<>> /\ h.at \in {"fallback", "counted"} /\ Return
      /\ result' = IF ok THEN [result EXCEPT !.total = "count"] ELSE result
      /\ UNCHANGED <<daemon, deaths, conn, v2, v3, legacy, ok, call, answer>>
  BY <1>1 DEF Counted, In, Stays
<1>3. SameCall
  BY <1>2 DEF SameCall
<1>4. Onward
  BY <1>2, <1>3, GoesOnward DEF Goes
<1>5. Caches' /\ (NoV3 => NoV3')
  BY <1>2, <1>4, CachesOnward, NoV3Onward
<1>6. h \in Frames /\ FrameOK(h) /\ Returned(h)
  BY <1>1, <1>2, OnTop
<1>7. \A b \in Below : FrameOK(b)'
  BY <1>2, <1>4, <1>5, BelowOnward
<1>8. result'.rows = result.rows /\ Types'
  BY <1>2 DEF Types
<1>9. ok => Good(IF h.at = "fallback" THEN "search" ELSE "searchEx", FALSE)
  BY <1>2, <1>6 DEF Returned, Wants, Printed
<1>10. ASSUME ok', NEW f \in Printed, NEW u \in BOOLEAN, Serves(h, f, u)
       PROVE  Good(f, u)'
  <2>1. /\ ~ u /\ f \in {"search", "searchEx", "countEx"}
        /\ f = "searchEx" => h.at = "fallback"
    BY <1>2, <1>10, ServesFallback, ServesSearch DEF Searching
  <2>2. PICK r \in ToSet(result.rows) :
          /\ result.rows = <<r>> /\ r.line.t = "row" /\ r.line.under = FALSE
          /\ r.unescaped <=> r.line.cmd = "search3"
    BY <1>2, <1>9, <1>10 DEF Good, WithRows
  <2>3. f = "searchEx" => legacy'
    BY <1>2, <1>6, <2>1 DEF FrameOK
  <2>4. u = FALSE
    BY <2>1
  <2> QED BY <1>8, <2>2, <2>3, <2>4 DEF Good
<1>11. ~ ok' => FunctionFails'
  BY <1>2, <1>4, <1>6, ExcusesStay DEF Returned
<1>12. h.at \in Functions
  BY <1>2 DEF Functions, Searching
<1>13. Shape' /\ Stacked'
  BY <1>1, <1>2, <1>4, <1>7, <1>10, <1>11, <1>12, PopsFunction
<1> QED BY <1>2, <1>4, <1>5, <1>8, <1>13, Steps

LEMMA SearchKeeps ==
  ASSUME ClientInv, Search
  PROVE  ClientInv'
<1> USE DEF ClientInv, toolVars, caches
<1>1. PICK h : h = Head(todo)
  OBVIOUS
<1>2. /\ todo # <<>> /\ h.at = "search" /\ result' = noResult
      /\ UNCHANGED <<daemon, deaths, conn, v2, v3, legacy, ok, call, answer>>
  BY <1>1 DEF Search, In, Stays
<1>3. SameCall
  BY <1>2 DEF SameCall
<1>4. Onward
  BY <1>2, <1>3, GoesOnward DEF Goes
<1>5. Caches' /\ (NoV3 => NoV3')
  BY <1>2, <1>4, CachesOnward, NoV3Onward
<1>6. FrameOK(h) /\ Connected'
  BY <1>1, <1>2, <1>4, OnTop DEF FrameOK, Functions, Searching, Onward
<1>7. \A b \in Below : FrameOK(b)'
  BY <1>2, <1>4, <1>5, BelowOnward
<1>8. Types'
  BY <1>2, OutcomeTyped DEF Types
<1> DEFINE a == At("supportsV3")
           c == At("searchLegacy")
<1>9. /\ a \in Frames /\ a.at = "supportsV3" /\ a.under = FALSE
      /\ c \in Frames /\ c.at = "searchLegacy" /\ c.under = FALSE
  BY FramesMade DEF Functions, Searching
<1> HIDE DEF a, c
<1>10. Calls(<<a, c>>)
  BY DEF Search, a, c
<1>11. FrameOK(a)' /\ FrameOK(c)'
  BY <1>6, <1>9 DEF FrameOK, Opening, Functions, Searching, SearchEx1, Trying
<1>12. Returned(a)'
  BY <1>9, QuietReturned DEF Quiet
<1>13. Fits(a, c, call.under)
  BY <1>9 DEF Fits
<1>14. \A b, w : Fits(h, b, w) => Fits(c, b, w)
  <2>1. \A f, u : Serves(h, f, u) => Serves(c, f, u)
    BY <1>2, <1>9, ServesSearch DEF Searching
  <2>2. \A b, w : Match(h, b, w) => Match(c, b, w)
    BY <2>1 DEF Match
  <2> QED BY <1>2, <1>9, <2>2 DEF Fits, Opening, Functions, Searching, SearchEx1, Trying
<1>15. Shape' /\ Stacked'
  BY <1>1, <1>2, <1>3, <1>7, <1>9, <1>10, <1>11, <1>12, <1>13, <1>14, PushesTwo
     DEF Bottom, OverFallback
<1> QED BY <1>2, <1>4, <1>5, <1>8, <1>15, Steps

LEMMA SearchLegacyKeeps ==
  ASSUME ClientInv, SearchLegacy
  PROVE  ClientInv'
<1> USE DEF ClientInv, toolVars, caches
<1>1. PICK h : h = Head(todo)
  OBVIOUS
<1>2. /\ todo # <<>> /\ h.at = "searchLegacy"
      /\ UNCHANGED <<v2, v3, legacy, call, answer>>
  BY <1>1 DEF SearchLegacy, In
<1>3. SameCall
  BY <1>2 DEF SameCall
<1>4. /\ h \in Frames /\ FrameOK(h) /\ Returned(h) /\ h.at \in Functions /\ Connected
      /\ \A b \in Below : FrameOK(b)
  BY <1>1, <1>2, OnTop DEF FrameOK, Functions, Searching
<1>a. CASE ok
  <2>1. UNCHANGED <<daemon, deaths, conn, ok, result>>
    BY <1>a DEF SearchLegacy, Stays
  <2>2. Onward
    BY <1>3, <2>1, GoesOnward DEF Goes
  <2>3. Caches' /\ (NoV3 => NoV3')
    BY <1>2, <2>2, CachesOnward, NoV3Onward
  <2>4. \A b \in Below : FrameOK(b)'
    BY <1>2, <2>2, <2>3, BelowOnward
  <2>5. \A b \in Below : b.at # "fallback"
    <3>1. ~ NoV3
      BY <1>2, <1>4, <1>a DEF Returned, NoV3
    <3> QED BY <1>4, <3>1 DEF FrameOK
  <2> DEFINE a == Under("searchEx", FALSE)
             c == At("counted")
  <2>6. /\ a \in Frames /\ a.at = "searchEx" /\ a.under = FALSE
        /\ c \in Frames /\ c.at = "counted" /\ c.under = FALSE
    BY FramesMade DEF Functions, Searching, SearchEx1
  <2> HIDE DEF a, c
  <2>7. Calls(<<a, c>>)
    BY <1>a DEF SearchLegacy, a, c
  <2>8. Connected'
    BY <1>4, <2>2 DEF Onward
  <2>9. FrameOK(a)' /\ FrameOK(c)'
    BY <2>6, <2>8 DEF FrameOK, Opening, Functions, Searching, SearchEx1, Trying
  <2>10. Returned(a)'
    BY <2>6, QuietReturned DEF Quiet
  <2>11. Fits(a, c, call.under)
    <3>1. Serves(a, "searchEx", FALSE) /\ Wants(c, "searchEx", FALSE, call.under)
      BY <2>6 DEF Serves, Wants, SearchEx1
    <3>2. "searchEx" \in Printed
      BY DEF Printed
    <3>3. Match(a, c, call.under)
      BY <3>1, <3>2 DEF Match
    <3> QED BY <2>6, <3>3 DEF Fits, Functions, SearchEx1
  <2>12. \A b, w : Fits(h, b, w) => Fits(c, b, w)
    <3>1. \A f, u : Serves(h, f, u) => Serves(c, f, u)
      BY <1>2, <2>6, ServesSearch DEF Searching
    <3>2. \A b, w : Match(h, b, w) => Match(c, b, w)
      BY <3>1 DEF Match
    <3> QED BY <1>2, <2>6, <3>2 DEF Fits, Opening, Functions, Searching, SearchEx1, Trying
  <2>13. Shape' /\ Stacked'
    BY <1>1, <1>2, <1>3, <2>4, <2>5, <2>6, <2>7, <2>9, <2>10, <2>11, <2>12, PushesTwo DEF Bottom
  <2>14. Types'
    BY <1>2, <2>1 DEF Types
  <2> QED BY <1>2, <2>2, <2>3, <2>13, <2>14, Steps
<1>b. CASE ~ ok
  <2>1. PICK g : /\ Asks("search", FALSE, TRUE, g)
                 /\ ok' = (g.is = "ok") /\ Return
                 /\ result' = IF ok' THEN Outcome("search", g, "count") ELSE result
    BY <1>b DEF SearchLegacy, Ask, Asks
  <2>2. <<"search", TRUE>> \in Requests
    BY DEF Requests
  <2>3. Onward /\ Outcomes("search", FALSE, g)
    BY <1>3, <2>1, <2>2, AskOnward
  <2>4. g.is # "unknown"
    <3>1. conn.kind \in Kinds
      BY <1>4 DEF Links, Connected
    <3> QED BY <2>3, <3>1, ClientAssumption DEF Outcomes
  <2>5. ok' <=> g.is = "ok"
    BY <2>1
  <2>6. Caches' /\ (NoV3 => NoV3')
    BY <1>2, <2>3, CachesOnward, NoV3Onward
  <2>7. ASSUME ok', NEW f \in Printed, NEW u \in BOOLEAN, Serves(h, f, u)
        PROVE  Good(f, u)'
    <3>1. u = FALSE /\ f # "searchEx"
      BY <1>2, <2>7, ServesSearch DEF Searching
    <3>2. g.body = <<Body("search", FALSE)>>
      BY <2>3, <2>5, <2>7 DEF Outcomes
    <3>3. result' = Outcome("search", g, "count")
      BY <2>1, <2>7
    <3> QED BY <3>1, <3>2, <3>3, OutcomeGood
  <2>8. result' = Outcome("search", g, "count") \/ result' = result
    BY <2>1
  <2> QED BY <1>1, <1>2, <1>4, <2>1, <2>3, <2>4, <2>6, <2>7, <2>8, PopsOutcome
<1> QED BY <1>a, <1>b

LEMMA StatsKeeps ==
  ASSUME ClientInv, Stats \/ Command
  PROVE  ClientInv'
<1> USE DEF ClientInv, toolVars, caches
<1>1. PICK h : h = Head(todo)
  OBVIOUS
<1>2. /\ todo # <<>> /\ h.at \in {"stats", "rebuild"} /\ Return
      /\ UNCHANGED <<v2, v3, legacy, result, call, answer>>
  BY <1>1 DEF Stats, Command, In
<1>3. SameCall
  BY <1>2 DEF SameCall
<1>4. h.at \in Functions /\ Connected /\ conn.kind \in Kinds
  BY <1>1, <1>2, OnTop DEF FrameOK, Functions, Links, Connected
<1>5. PICK cmd, g :
        cmd \in {"stats", "rebuild"} /\ Asks(cmd, FALSE, cmd = "stats", g) /\ ok' = (g.is = "ok")
  <2>1. CASE Stats
    <3>1. PICK g : Asks("stats", FALSE, TRUE, g) /\ ok' = (g.is = "ok")
      BY <2>1 DEF Stats, Ask, Asks
    <3>2. Asks("stats", FALSE, "stats" = "stats", g)
      BY <3>1 DEF Asks, Received
    <3> QED BY <3>1, <3>2
  <2>2. CASE Command
    <3>1. PICK g : Asks("rebuild", FALSE, FALSE, g) /\ ok' = (g.is = "ok")
      BY <2>2 DEF Command, Ask, Asks
    <3>2. Asks("rebuild", FALSE, "rebuild" = "stats", g)
      BY <3>1 DEF Asks, Received
    <3> QED BY <3>1, <3>2
  <2> QED BY <2>1, <2>2
<1>6. <<cmd, cmd = "stats">> \in Requests
  BY <1>5 DEF Requests
<1>7. Onward /\ Outcomes(cmd, FALSE, g)
  BY <1>3, <1>5, <1>6, AskOnward
<1>8. g.is # "unknown"
  BY <1>4, <1>5, <1>7, ClientAssumption DEF Outcomes
<1>9. Caches' /\ (NoV3 => NoV3')
  BY <1>2, <1>7, CachesOnward, NoV3Onward
<1>10. \A f \in Printed, u \in BOOLEAN : Serves(h, f, u) => Good(f, u)'
  BY <1>2, ServesOther, GoodTrivial
<1> QED BY <1>1, <1>2, <1>4, <1>5, <1>7, <1>8, <1>9, <1>10, PopsOutcome

LEMMA CountRowsKeeps ==
  ASSUME ClientInv, Onward, Caches', NEW h, todo # <<>>, h = Head(todo), h.at = "countEx",
         "search2" \notin conn.kind.knows, CountRows(h.under),
         UNCHANGED <<v3, legacy, result, call, answer>>
  PROVE  ClientInv'
<1> USE DEF ClientInv
<1>1. /\ h \in Frames /\ FrameOK(h) /\ h.under \in BOOLEAN /\ h.at \in Functions /\ Connected
      /\ h.at \notin OverFallback
  BY OnTop DEF Frames, FrameOK, Functions, OverFallback
<1>2. NoV3 => NoV3'
  BY NoV3Onward
<1>3. \A b \in Below : FrameOK(b)'
  BY <1>2, BelowOnward
<1>4. CASE h.under
  <2>1. ok' = FALSE /\ Return
    BY <1>4 DEF CountRows
  <2>2. call'.under /\ Connected' /\ conn'.kind = conn.kind
    BY <1>1, <1>4 DEF FrameOK, Onward, SameCall
  <2>3. FunctionFails'
    BY <2>2 DEF FunctionFails
  <2>4. Shape' /\ Stacked'
    BY <1>1, <1>3, <2>1, <2>3, PopsFunction
  <2>5. Types'
    BY <2>1 DEF Types
  <2> QED BY <2>4, <2>5, Steps
<1>5. CASE ~ h.under
  <2> DEFINE a == At("search")
  <2>1. a \in Frames /\ a.at = "search" /\ a.under = FALSE
    BY FramesMade DEF Functions, Searching
  <2> HIDE DEF a
  <2>2. Calls(<<a>>) /\ UNCHANGED ok
    BY <1>5 DEF CountRows, a
  <2>3. \A f \in Printed, u \in BOOLEAN : Serves(h, f, u) => Serves(a, f, u)
    BY <1>5, <2>1, ServesCountEx, ServesSearch DEF Searching
  <2>4. a.at \in Functions \ {"fallback"} /\ a.at \in Quiet
    BY <2>1 DEF Functions, Searching, Quiet
  <2>5. Shape' /\ Stacked'
    BY <1>1, <1>3, <2>1, <2>2, <2>3, <2>4, PushesFunction
  <2>6. Types'
    BY <2>2 DEF Types
  <2> QED BY <2>5, <2>6, Steps
<1> QED BY <1>4, <1>5

LEMMA CountExKeeps ==
  ASSUME ClientInv, CountEx
  PROVE  ClientInv'
<1> USE DEF ClientInv, toolVars, caches
<1>1. PICK h : h = Head(todo)
  OBVIOUS
<1>2. /\ todo # <<>> /\ h.at = "countEx"
      /\ UNCHANGED <<v3, legacy, call, answer>>
  BY <1>1 DEF CountEx, In
<1>3. SameCall
  BY <1>2 DEF SameCall
<1>4. /\ h \in Frames /\ FrameOK(h) /\ h.under \in BOOLEAN /\ h.at \in Functions /\ Connected
  BY <1>1, <1>2, OnTop DEF Frames, FrameOK, Functions
<1>5. This = h
  BY <1>1 DEF This
<1>6. CountRows(This.under) => CountRows(h.under)
  BY <1>5 DEF CountRows
<1>a. CASE v2 = 0
  <2>1. CountRows(h.under) /\ UNCHANGED <<daemon, deaths, conn, v2, result>>
    <3>1. CountRows(This.under) /\ Stays /\ UNCHANGED <<v2, result>>
      BY <1>a DEF CountEx
    <3> QED BY <1>6, <3>1 DEF Stays
  <2>2. Onward
    BY <1>3, <2>1, GoesOnward DEF Goes
  <2>3. Caches'
    BY <1>2, <2>1, <2>2, CachesOnward
  <2>4. "search2" \notin conn.kind.knows
    BY <1>4, <1>a, NoSearch2
  <2> QED BY <1>1, <1>2, <2>1, <2>2, <2>3, <2>4, CountRowsKeeps
<1>b. CASE v2 # 0
  <2> DEFINE Then(g) ==
               /\ v2' = IF g.is = "unknown" THEN 0 ELSE v2
               /\ IF g.is = "unknown" THEN CountRows(This.under) /\ UNCHANGED result
                  ELSE /\ ok' = (g.is = "ok") /\ Return
                       /\ result' = IF ok' THEN Outcome("count2", g, "exact") ELSE noResult
  <2>0. Ask("count2", This.under, FALSE, Then)
    BY <1>b DEF CountEx
  <2> HIDE DEF Then
  <2>a. PICK g : Asks("count2", This.under, FALSE, g) /\ Then(g)
    BY <2>0 DEF Ask, Asks
  <2>1. /\ Asks("count2", h.under, FALSE, g)
        /\ v2' = IF g.is = "unknown" THEN 0 ELSE v2
        /\ IF g.is = "unknown" THEN CountRows(h.under) /\ UNCHANGED result
           ELSE /\ ok' = (g.is = "ok") /\ Return
                /\ result' = IF ok' THEN Outcome("count2", g, "exact") ELSE noResult
    <3>1. Asks("count2", h.under, FALSE, g)
      BY <1>5, <2>a
    <3> QED BY <1>6, <2>a, <3>1 DEF Then
  <2>2. <<"count2", FALSE>> \in Requests
    BY DEF Requests
  <2>3. Onward /\ Outcomes("count2", h.under, g)
    BY <1>3, <2>1, <2>2, AskOnward
  <2>4. CASE g.is = "unknown"
    <3>1. "count2" \notin conn.kind.knows /\ v2' = 0 /\ conn.kind \in Kinds
      BY <1>4, <2>1, <2>3, <2>4 DEF Outcomes, Links, Connected
    <3>2. "search2" \notin conn.kind.knows
      BY <3>1, ClientAssumption
    <3>3. Caches'
      BY <1>2, <1>4, <2>3, <3>1, <3>2 DEF Caches, Can, Onward
    <3> QED BY <1>1, <1>2, <2>1, <2>3, <2>4, <3>2, <3>3, CountRowsKeeps
  <2>5. CASE g.is # "unknown"
    <3>1. /\ v2' = v2 /\ ok' = (g.is = "ok") /\ Return
          /\ result' = IF ok' THEN Outcome("count2", g, "exact") ELSE noResult
      BY <2>1, <2>5
    <3>2. ok' <=> g.is = "ok"
      BY <3>1
    <3>3. Caches' /\ (NoV3 => NoV3')
      BY <1>2, <2>3, <3>1, CachesOnward, NoV3Onward
    <3>5. ok' => Good("countEx", h.under)'
      <4>1. SUFFICES ASSUME ok' PROVE Good("countEx", h.under)'
        OBVIOUS
      <4>2. g.body = <<Body("count2", h.under)>>
        BY <2>3, <3>2, <4>1 DEF Outcomes
      <4>3. result' = Outcome("count2", g, "exact")
        BY <3>1, <4>1
      <4> QED BY <1>4, <4>2, <4>3, OutcomeGood DEF Printed
    <3>6. ok' => \A f \in Printed, u \in BOOLEAN : Serves(h, f, u) => Good(f, u)'
      BY <1>2, <3>5, ServesCountEx
    <3>7. result' = Outcome("count2", g, "exact") \/ result' = noResult
      BY <3>1
    <3> QED BY <1>1, <1>2, <1>4, <2>3, <2>5, <3>1, <3>3, <3>6, <3>7, PopsOutcome
  <2> QED BY <2>4, <2>5
<1> QED BY <1>a, <1>b

LEMMA AttemptKeeps ==
  ASSUME ClientInv, Attempt
  PROVE  ClientInv'
<1> USE DEF ClientInv, toolVars, caches
<1>1. PICK h : h = Head(todo)
  OBVIOUS
<1>2. /\ todo # <<>> /\ h.at = "try"
      /\ UNCHANGED <<daemon, deaths, conn, v2, v3, legacy, ok, result, call, answer>>
  BY <1>1 DEF Attempt, In, Stays
<1>3. SameCall
  BY <1>2 DEF SameCall
<1>4. Onward
  BY <1>2, <1>3, GoesOnward DEF Goes
<1>5. Caches' /\ (NoV3 => NoV3')
  BY <1>2, <1>4, CachesOnward, NoV3Onward
<1>6. h \in Frames /\ FrameOK(h) /\ \A b \in Below : b.at # "fallback"
  BY <1>1, <1>2, OnTop DEF OverFallback
<1>7. \A b \in Below : FrameOK(b)'
  BY <1>2, <1>4, <1>5, BelowOnward
<1>8. Types'
  BY <1>2, TypesStay
<1> DEFINE a == At("ensure")
           c == [h EXCEPT !.at = "call"]
<1>9. /\ a \in Frames /\ a.at = "ensure" /\ a.under = FALSE
      /\ c \in Frames /\ c.at = "call" /\ c.f = h.f /\ c.under = h.under /\ c.try = h.try
  <2>1. a \in Frames /\ a.at = "ensure" /\ a.under = FALSE
    BY FramesMade
  <2>2. c \in Frames /\ c.at = "call" /\ c.f = h.f /\ c.under = h.under /\ c.try = h.try
    BY <1>6, FrameMoved DEF Trying
  <2> QED BY <2>1, <2>2
<1> HIDE DEF a, c
<1>10. Calls(<<a, c>>)
  BY <1>1 DEF Attempt, This, a, c
<1>11. FrameOK(h)'
  BY <1>2, <1>4, <1>5, <1>6, FrameOnward
<1>12. FrameOK(a)' /\ FrameOK(c)'
  BY <1>2, <1>9, <1>11 DEF FrameOK, Opening, Functions, Searching, SearchEx1, Trying
<1>13. Returned(a)'
  BY <1>9, QuietReturned DEF Quiet
<1>14. Fits(a, c, call.under)
  BY <1>9 DEF Fits
<1>15. \A b, w : Fits(h, b, w) => Fits(c, b, w)
  <2>1. \A f, u : Serves(h, f, u) => Serves(c, f, u)
    BY <1>2, <1>9, ServesTrying DEF Trying
  <2>2. \A b, w : Match(h, b, w) => Match(c, b, w)
    BY <2>1 DEF Match
  <2> QED BY <1>2, <1>9, <2>2 DEF Fits, Opening, Functions, Searching, SearchEx1, Trying
<1>16. Shape' /\ Stacked'
  BY <1>1, <1>2, <1>3, <1>6, <1>7, <1>9, <1>10, <1>12, <1>13, <1>14, <1>15, PushesTwo DEF Bottom
<1> QED BY <1>2, <1>4, <1>5, <1>8, <1>16, Steps

\* A function that is called by a frame that keeps its name.
LEMMA CalledFunction ==
  ASSUME NEW f \in Printed, NEW u \in BOOLEAN, f = "search" => ~ u,
         Connected', u => call'.under
  PROVE  LET a == Under(f, u) IN
         /\ a \in Frames /\ a.at = f /\ a.at \in Functions \ {"fallback"}
         /\ FrameOK(a)' /\ Returned(a)'
         /\ Serves(a, f, u)
<1> DEFINE a == Under(f, u)
<1>1. f \in Functions \ {"fallback", "searchEx2", "searchEx3"} /\ f \in Quiet
  BY DEF Printed, Functions, Searching, SearchEx1, Quiet
<1>2. a \in Frames /\ a.at = f /\ a.under = u
  BY <1>1, FramesMade
<1> HIDE DEF a
<1>3. FrameOK(a)'
  BY <1>1, <1>2 DEF FrameOK, Opening, Functions, Searching, SearchEx1, Trying
<1>4. Returned(a)'
  BY <1>1, <1>2, QuietReturned
<1>5. Serves(a, f, u)
  BY <1>2 DEF Serves, Printed, Searching, SearchEx1
<1> QED BY <1>1, <1>2, <1>3, <1>4, <1>5 DEF a

LEMMA AttemptCallKeeps ==
  ASSUME ClientInv, AttemptCall
  PROVE  ClientInv'
<1> USE DEF ClientInv, toolVars, caches
<1>1. PICK h : h = Head(todo)
  OBVIOUS
<1>2. /\ todo # <<>> /\ h.at = "call"
      /\ UNCHANGED <<daemon, deaths, conn, v2, v3, legacy, ok, result, call, answer>>
  BY <1>1 DEF AttemptCall, In, Stays
<1>3. SameCall
  BY <1>2 DEF SameCall
<1>4. Onward
  BY <1>2, <1>3, GoesOnward DEF Goes
<1>5. Caches' /\ (NoV3 => NoV3')
  BY <1>2, <1>4, CachesOnward, NoV3Onward
<1>6. h \in Frames /\ FrameOK(h) /\ Returned(h) /\ \A b \in Below : b.at # "fallback"
  BY <1>1, <1>2, OnTop DEF OverFallback
<1>7. \A b \in Below : FrameOK(b)'
  BY <1>2, <1>4, <1>5, BelowOnward
<1>8. Types'
  BY <1>2, TypesStay
<1>9. FrameOK(h)'
  BY <1>2, <1>4, <1>5, <1>6, FrameOnward
<1>10. /\ h.f \in Printed /\ h.under \in BOOLEAN /\ (h.f = "search" => ~ h.under)
       /\ h.under => call'.under
  BY <1>2, <1>9, <1>6 DEF FrameOK, Frames, Trying, Tried, Printed
<1>a. CASE ok
  <2>1. Connected'
    BY <1>2, <1>4, <1>6, <1>a DEF Returned, Onward
  <2> DEFINE a == Under(h.f, h.under)
             c == [h EXCEPT !.at = "judge"]
  <2>2. /\ a \in Frames /\ a.at = h.f /\ a.at \in Functions \ {"fallback"}
        /\ FrameOK(a)' /\ Returned(a)' /\ Serves(a, h.f, h.under)
    BY <1>10, <2>1, CalledFunction
  <2>3. c \in Frames /\ c.at = "judge" /\ c.f = h.f /\ c.under = h.under /\ c.try = h.try
    BY <1>6, FrameMoved DEF Trying
  <2> HIDE DEF a, c
  <2>4. Calls(<<a, c>>)
    BY <1>1, <1>a DEF AttemptCall, This, a, c
  <2>5. FrameOK(c)'
    BY <1>2, <1>9, <2>1, <2>3 DEF FrameOK, Opening, Functions, Searching, SearchEx1, Trying
  <2>6. Fits(a, c, call.under)
    <3>1. Wants(c, h.f, h.under, call.under)
      BY <2>3 DEF Wants
    <3>2. Match(a, c, call.under)
      BY <1>10, <2>2, <3>1 DEF Match
    <3> QED BY <2>2, <2>3, <3>2 DEF Fits
  <2>7. \A b, w : Fits(h, b, w) => Fits(c, b, w)
    <3>1. \A f, u : Serves(h, f, u) => Serves(c, f, u)
      BY <1>2, <2>3, ServesTrying DEF Trying
    <3>2. \A b, w : Match(h, b, w) => Match(c, b, w)
      BY <3>1 DEF Match
    <3> QED BY <1>2, <2>3, <3>2 DEF Fits, Opening, Functions, Searching, SearchEx1, Trying
  <2>8. a # c
    BY <2>2, <2>3 DEF Functions, Searching, SearchEx1
  <2>9. Shape' /\ Stacked'
    BY <1>1, <1>2, <1>3, <1>6, <1>7, <2>2, <2>3, <2>4, <2>5, <2>6, <2>7, <2>8, PushesTwo DEF Bottom
  <2> QED BY <1>2, <1>4, <1>5, <1>8, <2>9, Steps
<1>b. CASE ~ ok
  <2>1. Return
    BY <1>b DEF AttemptCall
  <2>2. Excused(2)'
    BY <1>2, <1>4, <1>6, <1>b DEF Returned, Excused, Onward, SameCall
  <2>3. Delivered(h)'
    BY <1>2, <1>b, <2>2 DEF Delivered, Opening, Functions, Searching, SearchEx1, Trying
  <2>4. Shape' /\ Stacked'
    BY <1>1, <1>2, <1>3, <1>7, <2>1, <2>3, PopsDelivered DEF Bottom
  <2> QED BY <1>2, <1>4, <1>5, <1>8, <2>4, Steps
<1> QED BY <1>a, <1>b

\* The connection is closed after a failure: the next attempt, or the end.
LEMMA JudgeCloses ==
  ASSUME ClientInv, Judge, ~ ok
  PROVE  ClientInv'
<1> USE DEF ClientInv, toolVars, caches
<1>1. PICK h : h = Head(todo)
  OBVIOUS
<1>2. /\ todo # <<>> /\ h.at = "judge" /\ Again(h)
      /\ conn' = closed /\ v2' = -1 /\ v3' = -1 /\ legacy' = FALSE
      /\ UNCHANGED <<daemon, deaths, ok, result, call, answer>>
  BY <1>1 DEF Judge, In, This, Again, Close
<1>3. SameCall
  BY <1>2 DEF SameCall
<1>4. /\ h \in Frames /\ FrameOK(h) /\ Returned(h)
      /\ \A b \in Below : b \in Frames /\ FrameOK(b) /\ b.at \in Replying
  BY <1>1, <1>2, OnTop DEF Trying
<1>5. /\ Links' /\ InStep' /\ ~ Connected' /\ ~ Alive'
      /\ Learned \in Int /\ Learned' \in Int
      /\ Learned' = IF Stale THEN Learned + 1 ELSE Learned
      /\ LackSeen => LackSeen'
  BY <1>2, <1>3, CloseLearns
<1>6. Types' /\ Caches'
  <2>1. Types'
    BY <1>2 DEF Types
  <2>2. Caches'
    BY <1>2, <1>5 DEF Caches
  <2> QED BY <2>1, <2>2
<1>7. \A n \in Int : Excused(n) => Excused(n)'
  BY <1>2, <1>5 DEF Excused
<1>8. Excused(h.try)' /\ h.try \in {1, 2} /\ h.f \in Tried /\ (h.f = "search" => ~ h.under)
  <2>1. /\ h.try \in {1, 2} /\ h.f \in Tried /\ (h.f = "search" => ~ h.under)
        /\ Excused(h.try - 1)
    BY <1>2, <1>4 DEF FrameOK, Trying
  <2>2. FunctionFails
    BY <1>2, <1>4 DEF Returned
  <2>3. CASE Stale
    <3>1. Learned' >= h.try \/ call.noStart \/ (call.under /\ LackSeen')
      BY <1>5, <2>1, <2>3 DEF Excused
    <3> QED BY <1>2, <2>1, <3>1 DEF Excused
  <2>4. CASE ~ Stale
    <3>1. call.noStart \/ (call.under /\ LackSeen)
      BY <2>2, <2>4 DEF FunctionFails, LackSeen
    <3> QED BY <1>2, <1>5, <2>1, <3>1 DEF Excused
  <2> QED BY <2>1, <2>3, <2>4
<1>9. \A b \in Below : FrameOK(b)'
  <2> SUFFICES ASSUME NEW b \in Below PROVE FrameOK(b)'
    OBVIOUS
  <2>1. b \in Frames /\ FrameOK(b) /\ b.at \in Replying
    BY <1>4
  <2> QED BY <1>2, <2>1 DEF FrameOK, Replying, Opening, Functions, Searching, SearchEx1, Trying
<1>10. Shape' /\ Stacked'
  <2>1. CASE h.try = 1
    <3> DEFINE a == Try(h.f, h.under, 2)
    <3>1. h.f \in Printed /\ h.under \in BOOLEAN
      BY <1>4, <1>8 DEF Frames, Tried, Printed
    <3>2. a \in Frames /\ a.at = "try" /\ a.f = h.f /\ a.under = h.under /\ a.try = 2
      BY <3>1, TryMade
    <3> HIDE DEF a
    <3>3. Calls(<<a>>)
      BY <1>2, <2>1 DEF Again, a
    <3>4. Excused(a.try - 1)'
      <4>1. PICK n : n = 1
        OBVIOUS
      <4>2. Excused(n)'
        BY <1>8, <2>1, <4>1
      <4>3. a.try - 1 = n
        BY <3>2, <4>1
      <4> QED BY <4>2, <4>3
    <3>5. FrameOK(a)'
      <4>1. h.under => call'.under
        BY <1>2, <1>4 DEF FrameOK
      <4> QED BY <1>8, <3>2, <3>4, <4>1 DEF FrameOK, Opening, Functions, Searching, SearchEx1, Trying
    <3>6. Returned(a)'
      BY <3>2, QuietReturned DEF Quiet
    <3>7. \A b, w : Fits(h, b, w) => Fits(a, b, w)
      <4>1. \A f, u : Serves(h, f, u) => Serves(a, f, u)
        BY <1>2, <3>2, ServesTrying DEF Trying
      <4>2. \A b, w : Match(h, b, w) => Match(a, b, w)
        BY <4>1 DEF Match
      <4> QED BY <1>2, <3>2, <4>2 DEF Fits, Opening, Functions, Searching, SearchEx1, Trying
    <3>8. \A b \in Below : b.at # "fallback"
      BY <1>4 DEF Replying
    <3> QED BY <1>1, <1>2, <1>3, <1>9, <3>2, <3>3, <3>5, <3>6, <3>7, <3>8, Pushes DEF Bottom
  <2>2. CASE h.try = 2
    <3>1. Return
      BY <1>2, <2>2 DEF Again
    <3>2. Excused(2)'
      <4>1. PICK n : n = 2
        OBVIOUS
      <4>2. Excused(n)'
        BY <1>8, <2>2, <4>1
      <4> QED BY <4>1, <4>2
    <3>3. Delivered(h)'
      BY <1>2, <3>2 DEF Delivered, Opening, Functions, Searching, SearchEx1, Trying
    <3> QED BY <1>1, <1>2, <1>3, <1>9, <3>1, <3>3, PopsDelivered DEF Bottom
  <2> QED BY <1>8, <2>1, <2>2
<1>11. RightPage'
  BY <1>2 DEF Answers, RightPage, TotalIsTold
<1>12. answer'.is = "error" => Excused(2)'
  BY <1>2, <1>7 DEF Answers
<1> QED BY <1>5, <1>6, <1>10, <1>11, <1>12 DEF Answers

LEMMA JudgeKeeps ==
  ASSUME ClientInv, Judge
  PROVE  ClientInv'
<1> USE DEF ClientInv, toolVars, caches
<1>1. PICK h : h = Head(todo)
  OBVIOUS
<1>2. CASE ok
  <2>1. /\ todo # <<>> /\ h.at = "judge" /\ Return
        /\ UNCHANGED <<daemon, deaths, conn, v2, v3, legacy, ok, result, call, answer>>
    BY <1>1, <1>2 DEF Judge, In
  <2>2. SameCall
    BY <2>1 DEF SameCall
  <2>3. Onward
    BY <2>1, <2>2, GoesOnward DEF Goes
  <2>4. Caches' /\ (NoV3 => NoV3')
    BY <2>1, <2>3, CachesOnward, NoV3Onward
  <2>5. h \in Frames /\ Returned(h)
    BY <1>1, <2>1, OnTop
  <2>6. \A b \in Below : FrameOK(b)'
    BY <2>1, <2>3, <2>4, BelowOnward
  <2>7. Types'
    BY <2>1, TypesStay
  <2>8. ASSUME NEW f \in Printed, NEW u \in BOOLEAN, Serves(h, f, u)
        PROVE  Good(f, u)'
    <3>1. Wants(h, f, u, call.under)
      BY <2>1, <2>8, ServesTrying DEF Wants, Trying
    <3>2. Good(f, u)
      BY <1>2, <2>5, <3>1 DEF Returned
    <3> QED BY <2>1, <3>2 DEF Good
  <2>9. Delivered(h)'
    BY <1>2, <2>1, <2>8 DEF Delivered, Opening, Functions, Searching, SearchEx1, Trying
  <2>10. Shape' /\ Stacked'
    BY <1>1, <2>1, <2>2, <2>6, <2>9, PopsDelivered DEF Bottom
  <2> QED BY <2>1, <2>3, <2>4, <2>7, <2>10, Steps
<1>3. CASE ~ ok
  BY <1>3, JudgeCloses
<1> QED BY <1>2, <1>3

-----------------------------------------------------------------------------
(* The programs' own frames, with nothing below them.                       *)

LEMMA FreshTry ==
  ASSUME Onward, Learned >= 0, NEW f \in Tried, NEW u \in BOOLEAN,
         u => call.under, f = "search" => ~ u
  PROVE  LET t == Try(f, u, 1) IN
         /\ t \in Frames /\ t.at = "try" /\ t.f = f /\ t.under = u
         /\ FrameOK(t)' /\ Returned(t)'
<1> DEFINE t == Try(f, u, 1)
<1>1. t \in Frames /\ t.at = "try" /\ t.f = f /\ t.under = u /\ t.try = 1
  BY TryMade DEF Tried, Printed
<1> HIDE DEF t
<1>2. PICK n : n = t.try - 1 /\ n = 0
  BY <1>1
<1>3. Excused(n)'
  BY <1>2 DEF Excused, Onward
<1>4. Excused(t.try - 1)'
  BY <1>2, <1>3
<1>5. call'.under = call.under
  BY DEF Onward, SameCall
<1>6. FrameOK(t)'
  BY <1>1, <1>4, <1>5 DEF FrameOK, Opening, Functions, Searching, SearchEx1, Trying
<1>7. Returned(t)'
  BY <1>1, QuietReturned DEF Quiet
<1> QED BY <1>1, <1>6, <1>7 DEF t

LEMMA NothingCalls ==
  ASSUME NEW h, h.at \in Program
  PROVE  \A b, w : ~ Fits(h, b, w)
BY DEF Fits, Program, Replying, Opening, Functions, Searching, SearchEx1, Trying

LEMMA ProgramPushes ==
  ASSUME Shape, Stacked, SameCall, NEW h, todo # <<>>, h = Head(todo), h.at \in Program \ Bottom,
         NEW a \in Frames, Calls(<<a>>), FrameOK(a)' /\ Returned(a)'
  PROVE  Shape' /\ Stacked'
<1>1. Below = {}
  BY OnTop
<1>2. \A b, w : ~ Fits(h, b, w)
  BY NothingCalls
<1> QED BY <1>1, <1>2, Pushes

LEMMA ProgramPushesTwo ==
  ASSUME Shape, Stacked, SameCall, NEW h, todo # <<>>, h = Head(todo), h.at \in Program \ Bottom,
         NEW a \in Frames, NEW c \in Frames, Calls(<<a, c>>), Fits(a, c, call.under), a.at # c.at,
         c.at # "fallback", FrameOK(a)' /\ Returned(a)' /\ FrameOK(c)'
  PROVE  Shape' /\ Stacked'
<1>1. Below = {}
  BY OnTop
<1>2. \A b, w : ~ Fits(h, b, w)
  BY NothingCalls
<1>3. a # c
  OBVIOUS
<1> QED BY <1>1, <1>2, <1>3, PushesTwo

LEMMA ProgramPops ==
  ASSUME Shape, Stacked, SameCall, NEW h, todo # <<>>, h = Head(todo), h.at \in Program,
         Return, h.at \in Bottom => ~ Connected'
  PROVE  Shape' /\ Stacked'
<1>1. Below = {}
  BY OnTop
<1> QED BY <1>1, Pops

\* An attempt at f, and the frame that goes on with it.
LEMMA TryFits ==
  ASSUME NEW a, NEW c, NEW f \in Tried, NEW u \in BOOLEAN, NEW w,
         a.at = "try", a.f = f, a.under = u, c.at \in Replying, Wants(c, f, u, w)
  PROVE  Fits(a, c, w)
<1>1. Serves(a, f, u)
  BY ServesTrying DEF Trying
<1>2. f \in Printed
  BY DEF Tried, Printed
<1>3. Match(a, c, w)
  BY <1>1, <1>2 DEF Match
<1> QED BY <1>3 DEF Fits, Trying

LEMMA NegotiateKeeps ==
  ASSUME ClientInv, Negotiate
  PROVE  ClientInv'
<1> USE DEF ClientInv, toolVars, caches
<1>1. PICK h : h = Head(todo)
  OBVIOUS
<1>2. /\ todo # <<>> /\ h.at \in {"negotiate", "choose"}
      /\ UNCHANGED <<daemon, deaths, conn, v2, v3, legacy, ok, result, call, answer>>
  BY <1>1 DEF Negotiate, In, Stays
<1>3. SameCall
  BY <1>2 DEF SameCall
<1>4. Onward
  BY <1>2, <1>3, GoesOnward DEF Goes
<1>5. Caches' /\ Types'
  BY <1>2, <1>4, CachesOnward, TypesStay
<1>6. h \in Frames /\ FrameOK(h) /\ Returned(h) /\ Below = {}
  BY <1>1, <1>2, OnTop DEF Program, Replying
<1>7. h.at \in Program \ Bottom
  BY <1>2 DEF Program, Bottom
<1>a. CASE ~ ok
  <2> DEFINE a == At("legacyPage")
  <2>1. a \in Frames /\ a.at = "legacyPage" /\ a.under = FALSE
    BY FramesMade DEF Program
  <2> HIDE DEF a
  <2>2. Calls(<<a>>)
    BY <1>a DEF Negotiate, a
  <2>3. FrameOK(a)' /\ Returned(a)'
    BY <2>1, QuietReturned DEF Quiet, FrameOK, Opening, Functions, Searching, SearchEx1, Trying
  <2>4. Shape' /\ Stacked'
    BY <1>1, <1>2, <1>3, <1>7, <2>1, <2>2, <2>3, ProgramPushes
  <2> QED BY <1>2, <1>4, <1>5, <2>4, Steps
<1>b. CASE ok /\ In("negotiate")
  <2> DEFINE a == At("supportsV2")
             c == At("choose")
  <2>1. /\ a \in Frames /\ a.at = "supportsV2" /\ a.under = FALSE
        /\ c \in Frames /\ c.at = "choose" /\ c.under = FALSE
    BY FramesMade DEF Program
  <2> HIDE DEF a, c
  <2>2. Calls(<<a, c>>)
    BY <1>b DEF Negotiate, a, c
  <2>3. FrameOK(a)' /\ FrameOK(c)'
    BY <2>1 DEF FrameOK, Opening, Functions, Searching, SearchEx1, Trying
  <2>4. Returned(a)'
    BY <2>1, QuietReturned DEF Quiet
  <2>5. Fits(a, c, call.under)
    BY <2>1 DEF Fits
  <2>6. Shape' /\ Stacked'
    BY <1>1, <1>2, <1>3, <1>7, <2>1, <2>2, <2>3, <2>4, <2>5, ProgramPushesTwo
  <2> QED BY <1>2, <1>4, <1>5, <2>6, Steps
<1>c. CASE ok /\ ~ In("negotiate")
  <2>0. PICK u \in BOOLEAN : u = call.under
    BY DEF Types
  <2> DEFINE a == Try("searchEx", u, 1)
             c == At("exPage")
  <2>1. /\ a \in Frames /\ a.at = "try" /\ a.f = "searchEx" /\ a.under = u
        /\ FrameOK(a)' /\ Returned(a)'
    BY <1>4, <2>0, FreshTry DEF Tried
  <2>2. c \in Frames /\ c.at = "exPage" /\ c.under = FALSE
    BY FramesMade DEF Program, Replying
  <2> HIDE DEF a, c
  <2>3. Calls(<<a, c>>)
    BY <1>c, <2>0 DEF Negotiate, a, c
  <2>4. FrameOK(c)'
    BY <2>2 DEF FrameOK, Opening, Functions, Searching, SearchEx1, Trying
  <2>5. Fits(a, c, call.under)
    <3>1. Wants(c, "searchEx", u, call.under)
      BY <2>0, <2>2 DEF Wants
    <3> QED BY <2>1, <2>2, <3>1, TryFits DEF Tried, Replying
  <2>6. Shape' /\ Stacked'
    BY <1>1, <1>2, <1>3, <1>7, <2>1, <2>2, <2>3, <2>4, <2>5, ProgramPushesTwo
  <2> QED BY <1>2, <1>4, <1>5, <2>6, Steps
<1> QED BY <1>a, <1>b, <1>c

\* A page of one row, with what is said of its total.
LEMMA PageRight ==
  ASSUME NEW f \in WithRows, NEW is \in WithRows, NEW low, Good(f, call.under),
         Says(is, low), SameCall, f # "countEx" \/ is = "countEx",
         is = "page" => low \/ call.by # "mcp" \/ result.total = "exact"
  PROVE  RightPage'
<1>1. PICK r \in ToSet(result.rows) :
         /\ result.rows = <<r>>
         /\ r.line.t = "row" \/ (r.line.cmd = "count2" /\ f = "countEx")
         /\ r.line.under = call.under
         /\ r.unescaped <=> r.line.cmd = "search3"
  BY DEF Good
<1>2. answer'.is = is /\ answer'.page = result /\ (answer'.lowerBound <=> low)
  BY DEF Says
<1> DEFINE lines == <<r>>
<1>3. answer'.page.rows = lines /\ lines # <<>> /\ lines[1] = r
  BY <1>1, <1>2, OneLine
<1>4. \A q \in ToSet(lines) : q = r
  BY OneLine DEF ToSet
<1> HIDE DEF lines
<1>5. \A q \in ToSet(answer'.page.rows) :
        /\ q.line.t = "row" \/ (q.line.cmd = "count2" /\ answer'.is = "countEx")
        /\ q.line.under = call'.under
        /\ q.line.gen = answer'.page.rows[1].line.gen
        /\ q.unescaped <=> q.line.cmd = "search3"
  BY <1>1, <1>2, <1>3, <1>4 DEF SameCall
<1>6. answer'.is = "page" /\ call'.by = "mcp" => TotalIsTold'
  BY <1>2 DEF TotalIsTold, SameCall
<1> QED BY <1>3, <1>5, <1>6 DEF RightPage

LEMMA SaysNoRows ==
  ASSUME NEW is, is \notin WithRows, NEW low, Says(is, low)
  PROVE  RightPage' /\ answer'.is = is
BY DEF Says, RightPage, WithRows

LEMMA ExPageKeeps ==
  ASSUME ClientInv, ExPage
  PROVE  ClientInv'
<1> USE DEF ClientInv, toolVars, caches
<1>1. PICK h : h = Head(todo)
  OBVIOUS
<1>2. /\ todo # <<>> /\ h.at = "exPage"
      /\ UNCHANGED <<daemon, deaths, conn, v2, v3, legacy, ok, result, call>>
  BY <1>1 DEF ExPage, In, Stays
<1>3. SameCall
  BY <1>2 DEF SameCall
<1>4. Onward
  BY <1>2, <1>3, GoesOnward DEF Goes
<1>5. Caches' /\ Types'
  BY <1>2, <1>4, CachesOnward, TypesStay
<1>6. h \in Frames /\ FrameOK(h) /\ Returned(h) /\ Below = {}
  BY <1>1, <1>2, OnTop DEF Program, Replying
<1>7. h.at \in Program \ Bottom
  BY <1>2 DEF Program, Replying, Bottom
<1>a. ASSUME ~ ok, Says("error", FALSE), Return
      PROVE  ClientInv'
  <2>1. Shape' /\ Stacked'
    BY <1>1, <1>2, <1>3, <1>7, <1>a, ProgramPops
  <2>2. Excused(2)
    BY <1>2, <1>6, <1>a DEF Returned, Replying
  <2>3. Excused(2)'
    BY <1>4, <2>2, ExcusesStay
  <2>4. RightPage'
    BY <1>a, SaysNoRows DEF WithRows
  <2> QED BY <1>4, <1>5, <2>1, <2>3, <2>4, Says2
<1>b. ASSUME ok, ~ legacy, Says("page", FALSE), Calls(<<Try("stats", FALSE, 1)>>)
      PROVE  ClientInv'
  <2> DEFINE a == Try("stats", FALSE, 1)
  <2>1. a \in Frames /\ FrameOK(a)' /\ Returned(a)'
    BY <1>4, FreshTry DEF Tried
  <2> HIDE DEF a
  <2>2. Calls(<<a>>)
    BY <1>b DEF a
  <2>3. Shape' /\ Stacked'
    BY <1>1, <1>2, <1>3, <1>7, <2>1, <2>2, ProgramPushes
  <2>4. Good("searchEx", call.under)
    <3>1. Wants(h, "searchEx", call.under, call.under) /\ call.under \in BOOLEAN
      BY <1>2 DEF Wants, Types
    <3> QED BY <1>6, <1>b, <3>1 DEF Returned, Printed
  <2>5. RightPage'
    <3>1. result.total = "exact"
      BY <1>b, <2>4 DEF Good
    <3> QED BY <1>3, <1>b, <2>4, <3>1, PageRight DEF WithRows
  <2>6. answer'.is = "page"
    BY <1>b DEF Says
  <2> QED BY <1>4, <1>5, <2>3, <2>5, <2>6, Says2
<1>c. ASSUME Calls(<<At("legacyPage")>>), UNCHANGED answer
      PROVE  ClientInv'
  <2> DEFINE a == At("legacyPage")
  <2>1. a \in Frames /\ a.at = "legacyPage" /\ a.under = FALSE
    BY FramesMade DEF Program
  <2> HIDE DEF a
  <2>2. Calls(<<a>>)
    BY <1>c DEF a
  <2>3. FrameOK(a)' /\ Returned(a)'
    BY <2>1, QuietReturned DEF Quiet, FrameOK, Opening, Functions, Searching, SearchEx1, Trying
  <2>4. Shape' /\ Stacked'
    BY <1>1, <1>2, <1>3, <1>7, <2>1, <2>2, <2>3, ProgramPushes
  <2> QED BY <1>4, <1>5, <1>c, <2>4, Steps
<1> QED BY <1>a, <1>b, <1>c DEF ExPage

LEMMA LegacyPageKeeps ==
  ASSUME ClientInv, LegacyPage
  PROVE  ClientInv'
<1> USE DEF ClientInv, toolVars, caches
<1>1. PICK h : h = Head(todo)
  OBVIOUS
<1>2. /\ todo # <<>> /\ h.at = "legacyPage"
      /\ UNCHANGED <<daemon, deaths, conn, v2, v3, legacy, ok, result, call>>
  BY <1>1 DEF LegacyPage, In, Stays
<1>3. SameCall
  BY <1>2 DEF SameCall
<1>4. Onward
  BY <1>2, <1>3, GoesOnward DEF Goes
<1>5. Caches' /\ Types'
  BY <1>2, <1>4, CachesOnward, TypesStay
<1>6. h \in Frames /\ FrameOK(h) /\ Returned(h) /\ Below = {}
  BY <1>1, <1>2, OnTop DEF Program, Replying
<1>7. h.at \in Program \ Bottom
  BY <1>2 DEF Program, Bottom
<1>a. CASE call.under
  <2>1. Says("under unsupported", FALSE) /\ Return
    BY <1>a DEF LegacyPage
  <2>2. Shape' /\ Stacked'
    BY <1>1, <1>2, <1>3, <1>7, <2>1, ProgramPops
  <2>3. RightPage' /\ answer'.is = "under unsupported"
    BY <2>1, SaysNoRows DEF WithRows
  <2> QED BY <1>4, <1>5, <2>2, <2>3, Says2
<1>b. CASE ~ call.under
  <2> DEFINE a == Try("search", FALSE, 1)
             c == At("refetch")
  <2>1. /\ a \in Frames /\ a.at = "try" /\ a.f = "search" /\ a.under = FALSE
        /\ FrameOK(a)' /\ Returned(a)'
    BY <1>4, FreshTry DEF Tried
  <2>2. c \in Frames /\ c.at = "refetch" /\ c.under = FALSE
    BY FramesMade DEF Program, Replying
  <2> HIDE DEF a, c
  <2>3. Calls(<<a, c>>) /\ UNCHANGED answer
    BY <1>b DEF LegacyPage, a, c
  <2>4. FrameOK(c)'
    BY <1>2, <1>b, <2>2 DEF FrameOK, Opening, Functions, Searching, SearchEx1, Trying
  <2>5. Fits(a, c, call.under)
    <3>1. Wants(c, "search", FALSE, call.under)
      BY <2>2 DEF Wants
    <3> QED BY <2>1, <2>2, <3>1, TryFits DEF Tried, Replying
  <2>6. Shape' /\ Stacked'
    BY <1>1, <1>2, <1>3, <1>7, <2>1, <2>2, <2>3, <2>4, <2>5, ProgramPushesTwo
  <2> QED BY <1>4, <1>5, <2>3, <2>6, Steps
<1> QED BY <1>a, <1>b

LEMMA RefetchKeeps ==
  ASSUME ClientInv, Refetch
  PROVE  ClientInv'
<1> USE DEF ClientInv, toolVars, caches
<1>1. PICK h : h = Head(todo)
  OBVIOUS
<1>2. /\ todo # <<>> /\ h.at \in {"refetch", "refetched"}
      /\ UNCHANGED <<daemon, deaths, conn, v2, v3, legacy, ok, result, call>>
  BY <1>1 DEF Refetch, In, Stays
<1>3. SameCall
  BY <1>2 DEF SameCall
<1>4. Onward
  BY <1>2, <1>3, GoesOnward DEF Goes
<1>5. Caches' /\ Types'
  BY <1>2, <1>4, CachesOnward, TypesStay
<1>6. h \in Frames /\ FrameOK(h) /\ Returned(h) /\ Below = {}
  BY <1>1, <1>2, OnTop DEF Program, Replying
<1>7. h.at \in Program \ Bottom
  BY <1>2 DEF Program, Replying, Bottom
<1>8. ~ call.under
  BY <1>2, <1>6 DEF FrameOK
<1>a. ASSUME ~ ok, Says("error", FALSE), Return
      PROVE  ClientInv'
  <2>1. Shape' /\ Stacked'
    BY <1>1, <1>2, <1>3, <1>7, <1>a, ProgramPops
  <2>2. Excused(2)
    BY <1>2, <1>6, <1>a DEF Returned, Replying
  <2>3. Excused(2)'
    BY <1>4, <2>2, ExcusesStay
  <2>4. RightPage'
    BY <1>a, SaysNoRows DEF WithRows
  <2> QED BY <1>4, <1>5, <2>1, <2>3, <2>4, Says2
<1>b. ASSUME Calls(<<Try("search", FALSE, 1), At("refetched")>>), UNCHANGED answer
      PROVE  ClientInv'
  <2> DEFINE a == Try("search", FALSE, 1)
             c == At("refetched")
  <2>1. /\ a \in Frames /\ a.at = "try" /\ a.f = "search" /\ a.under = FALSE
        /\ FrameOK(a)' /\ Returned(a)'
    BY <1>4, FreshTry DEF Tried
  <2>2. c \in Frames /\ c.at = "refetched" /\ c.under = FALSE
    BY FramesMade DEF Program, Replying
  <2> HIDE DEF a, c
  <2>3. Calls(<<a, c>>)
    BY <1>b DEF a, c
  <2>4. FrameOK(c)'
    BY <1>2, <1>8, <2>2 DEF FrameOK, Opening, Functions, Searching, SearchEx1, Trying
  <2>5. Fits(a, c, call.under)
    <3>1. Wants(c, "search", FALSE, call.under)
      BY <2>2 DEF Wants
    <3> QED BY <2>1, <2>2, <3>1, TryFits DEF Tried, Replying
  <2>6. Shape' /\ Stacked'
    BY <1>1, <1>2, <1>3, <1>7, <2>1, <2>2, <2>3, <2>4, <2>5, ProgramPushesTwo
  <2> QED BY <1>4, <1>5, <1>b, <2>6, Steps
<1>c. ASSUME ok, Says("page", call.by = "mcp"), Calls(<<Try("stats", FALSE, 1)>>)
      PROVE  ClientInv'
  <2> DEFINE a == Try("stats", FALSE, 1)
  <2>1. a \in Frames /\ FrameOK(a)' /\ Returned(a)'
    BY <1>4, FreshTry DEF Tried
  <2> HIDE DEF a
  <2>2. Calls(<<a>>)
    BY <1>c DEF a
  <2>3. Shape' /\ Stacked'
    BY <1>1, <1>2, <1>3, <1>7, <2>1, <2>2, ProgramPushes
  <2>4. Good("search", FALSE)
    <3>1. Wants(h, "search", FALSE, call.under)
      BY <1>2 DEF Wants
    <3> QED BY <1>6, <1>c, <3>1 DEF Returned, Printed
  <2>5. call.under = FALSE
    BY <1>8 DEF Types
  <2>6. PICK low : low = (call.by = "mcp")
    OBVIOUS
  <2>7. Says("page", low) /\ (low \/ call.by # "mcp")
    BY <1>c, <2>6
  <2>8. RightPage'
    BY <1>3, <2>4, <2>5, <2>7, PageRight DEF WithRows
  <2>9. answer'.is = "page"
    BY <1>c DEF Says
  <2> QED BY <1>4, <1>5, <2>3, <2>8, <2>9, Says2
<1> QED BY <1>a, <1>b, <1>c DEF Refetch

LEMMA StatsDoneKeeps ==
  ASSUME ClientInv, StatsDone
  PROVE  ClientInv'
<1> USE DEF ClientInv, toolVars, caches
<1>1. PICK h : h = Head(todo)
  OBVIOUS
<1>2. /\ todo # <<>> /\ h.at = "statsDone"
      /\ UNCHANGED <<daemon, deaths, conn, v2, v3, legacy, ok, result, call>>
  BY <1>1 DEF StatsDone, In, Stays
<1>3. SameCall
  BY <1>2 DEF SameCall
<1>4. Onward
  BY <1>2, <1>3, GoesOnward DEF Goes
<1>5. Caches' /\ Types'
  BY <1>2, <1>4, CachesOnward, TypesStay
<1>6. h \in Frames /\ FrameOK(h) /\ Returned(h) /\ Below = {}
  BY <1>1, <1>2, OnTop DEF Program, Replying
<1>7. h.at \in Program \ Bottom
  BY <1>2 DEF Program, Replying, Bottom
<1>8. PICK is : is = (IF ok THEN "stats" ELSE "error")
  OBVIOUS
<1>9. Says(is, FALSE) /\ Return
  BY <1>8 DEF StatsDone
<1>10. Shape' /\ Stacked'
  BY <1>1, <1>2, <1>3, <1>7, <1>9, ProgramPops
<1>11. RightPage' /\ answer'.is = is
  <2>1. is \notin WithRows
    BY <1>8 DEF WithRows
  <2> QED BY <1>9, <2>1, SaysNoRows
<1>12. answer'.is = "error" => Excused(2)
  BY <1>2, <1>6, <1>8, <1>11 DEF Returned, Replying
<1>13. answer'.is = "error" => Excused(2)'
  BY <1>4, <1>12, ExcusesStay
<1> QED BY <1>4, <1>5, <1>10, <1>11, <1>13, Says2

LEMMA RebuildDoneKeeps ==
  ASSUME ClientInv, RebuildDone
  PROVE  ClientInv'
<1> USE DEF ClientInv, toolVars, caches
<1>1. PICK h : h = Head(todo)
  OBVIOUS
<1>2. /\ todo # <<>> /\ h.at = "rebuildDone" /\ Return
      /\ call' = [call EXCEPT !.rebuilt = call.rebuilt \/ ok]
      /\ UNCHANGED <<daemon, deaths, conn, v2, v3, legacy, ok, result>>
  BY <1>1 DEF RebuildDone, In, Stays
<1>3. SameCall
  BY <1>2 DEF SameCall, Types
<1>4. Onward
  BY <1>2, <1>3, GoesOnward DEF Goes
<1>5. Caches' /\ Types'
  BY <1>2, <1>4, CachesOnward DEF Types
<1>6. h \in Frames /\ Returned(h)
  BY <1>1, <1>2, OnTop
<1>7. h.at \in Program \ Bottom
  BY <1>2 DEF Program, Replying, Bottom
<1>8. PICK is : is = (IF ok THEN "rebuilt" ELSE "error")
  OBVIOUS
<1>9. Says(is, FALSE)
  BY <1>8 DEF RebuildDone
<1>10. Shape' /\ Stacked'
  BY <1>1, <1>2, <1>3, <1>7, ProgramPops
<1>11. RightPage' /\ answer'.is = is
  <2>1. is \notin WithRows
    BY <1>8 DEF WithRows
  <2> QED BY <1>9, <2>1, SaysNoRows
<1>12. answer'.is = "error" => Excused(2)
  BY <1>2, <1>6, <1>8, <1>11 DEF Returned, Replying
<1>13. answer'.is = "error" => Excused(2)'
  BY <1>4, <1>12, ExcusesStay
<1> QED BY <1>4, <1>5, <1>10, <1>11, <1>13, Says2

LEMMA RequestKeeps ==
  ASSUME ClientInv, Request
  PROVE  ClientInv'
<1> USE DEF ClientInv, toolVars, caches
<1>1. PICK h : h = Head(todo)
  OBVIOUS
<1>2. /\ todo # <<>> /\ h.at = "request"
      /\ UNCHANGED <<daemon, deaths, conn, v2, v3, legacy, ok, result, call, answer>>
  BY <1>1 DEF Request, In, Stays
<1>3. SameCall
  BY <1>2 DEF SameCall
<1>4. Onward
  BY <1>2, <1>3, GoesOnward DEF Goes
<1>5. Caches' /\ Types' /\ (NoV3 => NoV3')
  BY <1>2, <1>4, CachesOnward, TypesStay, NoV3Onward
<1>6. h \in Frames /\ FrameOK(h) /\ Returned(h) /\ Below = {}
  BY <1>1, <1>2, OnTop DEF Program
<1>7. /\ h.f \in Printed /\ h.under \in BOOLEAN /\ (h.f = "search" => ~ h.under)
      /\ h.under => call'.under
      /\ IF ok THEN Connected ELSE call.noStart
  BY <1>2, <1>6 DEF FrameOK, Returned, Frames
<1>8. FrameOK(h)'
  BY <1>2, <1>4, <1>5, <1>6, FrameOnward
<1>9. \A b, w : ~ Fits(h, b, w)
  BY <1>2, NothingCalls DEF Program
<1> DEFINE c == [h EXCEPT !.at = "exit"]
<1>10. c \in Frames /\ c.at = "exit" /\ c.f = h.f /\ c.under = h.under /\ c.try = h.try
  BY <1>6, FrameMoved DEF Bottom
<1> HIDE DEF c
<1>11. FrameOK(c)'
  BY <1>2, <1>8, <1>10 DEF FrameOK, Opening, Functions, Searching, SearchEx1, Trying
<1>a. CASE ok
  <2> DEFINE a == Under(h.f, h.under)
  <2>1. Connected'
    BY <1>4, <1>7, <1>a DEF Onward
  <2>2. /\ a \in Frames /\ a.at = h.f /\ a.at \in Functions \ {"fallback"}
        /\ FrameOK(a)' /\ Returned(a)' /\ Serves(a, h.f, h.under)
    BY <1>7, <2>1, CalledFunction
  <2> HIDE DEF a
  <2>3. Calls(<<a, c>>)
    BY <1>1, <1>a DEF Request, This, a, c
  <2>4. Fits(a, c, call.under)
    <3>1. Wants(c, h.f, h.under, call.under)
      BY <1>10 DEF Wants
    <3>2. Match(a, c, call.under)
      BY <1>7, <2>2, <3>1 DEF Match
    <3> QED BY <1>10, <2>2, <3>2 DEF Fits
  <2>5. a # c
    BY <1>10, <2>2 DEF Functions, Searching, SearchEx1
  <2>6. Shape' /\ Stacked'
    BY <1>1, <1>2, <1>3, <1>6, <1>9, <1>10, <1>11, <2>2, <2>3, <2>4, <2>5, PushesTwo DEF Bottom
  <2> QED BY <1>2, <1>4, <1>5, <2>6, Steps
<1>b. CASE ~ ok
  <2>1. Calls(<<c>>)
    BY <1>1, <1>b DEF Request, This, c
  <2>2. FunctionFails'
    BY <1>2, <1>7, <1>b DEF FunctionFails
  <2>3. Returned(c)'
    BY <1>2, <1>10, <1>b, <2>2 DEF Returned, Replying
  <2>4. Shape' /\ Stacked'
    BY <1>1, <1>2, <1>3, <1>6, <1>9, <1>10, <1>11, <2>1, <2>3, Pushes DEF Bottom
  <2> QED BY <1>2, <1>4, <1>5, <2>4, Steps
<1> QED BY <1>a, <1>b

LEMMA ExitKeeps ==
  ASSUME ClientInv, Exit
  PROVE  ClientInv'
<1> USE DEF ClientInv, toolVars, caches
<1>1. PICK h : h = Head(todo)
  OBVIOUS
<1>2. /\ todo # <<>> /\ h.at = "exit" /\ Return
      /\ conn' = closed /\ v2' = -1 /\ v3' = -1 /\ legacy' = FALSE
      /\ UNCHANGED <<daemon, deaths, ok, result, call>>
  BY <1>1 DEF Exit, In, Close
<1>3. SameCall
  BY <1>2 DEF SameCall
<1>4. h \in Frames /\ FrameOK(h) /\ Returned(h) /\ h.f \in Printed /\ h.under = call.under
  BY <1>1, <1>2, OnTop DEF FrameOK
<1>5. /\ Links' /\ InStep' /\ ~ Connected'
      /\ Learned \in Int /\ Learned' \in Int
      /\ Learned' = IF Stale THEN Learned + 1 ELSE Learned
  BY <1>2, <1>3, CloseLearns
<1>6. Types'
  BY <1>2 DEF Types
<1>7. Caches'
  BY <1>2, <1>5 DEF Caches
<1>8. Shape' /\ Stacked'
  BY <1>1, <1>2, <1>3, <1>5, ProgramPops DEF Program
<1>9. PICK is : is = IF ok THEN h.f ELSE "failed"
  OBVIOUS
<1>10. Says(is, FALSE) /\ is # "error" /\ is # "page"
  <2>1. Says(IF ok THEN This.f ELSE "failed", FALSE) /\ This = h
    BY <1>1 DEF Exit, This
  <2>2. Says(is, FALSE)
    BY <1>9, <2>1
  <2> QED BY <1>4, <1>9, <2>2 DEF Printed
<1>11. answer'.is # "error"
  BY <1>10 DEF Says
<1>12. RightPage'
  <2>1. CASE is \in WithRows
    <3>1. ok /\ h.f = is
      BY <1>9, <2>1 DEF WithRows
    <3>2. Wants(h, is, call.under, call.under) /\ call.under \in BOOLEAN
      BY <1>2, <1>4, <3>1 DEF Wants, Types
    <3>3. Good(is, call.under)
      BY <1>4, <3>1, <3>2 DEF Returned
    <3> QED BY <1>3, <1>10, <2>1, <3>3, PageRight
  <2>2. CASE is \notin WithRows
    BY <1>10, <2>2, SaysNoRows
  <2> QED BY <2>1, <2>2
<1>13. Learned' >= 0
  BY <1>5
<1> QED BY <1>5, <1>6, <1>7, <1>8, <1>11, <1>12, <1>13 DEF Answers

-----------------------------------------------------------------------------
(* A call begins.                                                           *)

LEMMA StartsFresh ==
  ASSUME Types, Links, InStep, Caches, Shape, NEW p, NEW w \in BOOLEAN, Starts(p, w), Stays,
         UNCHANGED <<v2, v3, legacy, ok, result>>
  PROVE  /\ Types' /\ Links' /\ InStep' /\ Caches' /\ Learned' = 0
         /\ call'.under = w /\ call'.by = p /\ call.by = p /\ todo = <<>>
         /\ Connected' <=> Connected
<1>1. /\ UNCHANGED <<daemon, deaths, conn>> /\ call.by = p /\ todo = <<>>
      /\ call' = [call EXCEPT !.under = w, !.noStart = FALSE,
                             !.since = IF Connected /\ ~ Alive THEN deaths - 1 ELSE deaths]
  BY DEF Starts, Stays
<1>2. /\ call'.under = w /\ call'.noStart = FALSE /\ call'.by = call.by
      /\ call'.since = IF Stale THEN deaths - 1 ELSE deaths
      /\ call' = [by |-> call'.by, rebuilt |-> call'.rebuilt, under |-> call'.under,
                  since |-> call'.since, noStart |-> call'.noStart]
  BY <1>1 DEF Types, Stale
<1>3. deaths \in Nat
  BY DEF Links
<1>4. Types'
  BY <1>1, <1>2, <1>3 DEF Types
<1>5. (Connected' <=> Connected) /\ (Stale' <=> Stale)
  BY <1>1 DEF Connected, Stale, Alive
<1>6. Links' /\ InStep' /\ Caches'
  BY <1>1, <1>5 DEF Links, InStep, Caches, Alive
<1>7. Learned' = 0
  BY <1>1, <1>2, <1>3, <1>5 DEF Learned
<1> QED BY <1>1, <1>2, <1>4, <1>5, <1>6, <1>7

\* The stack of a call that has begun.
LEMMA StackOfTwo ==
  ASSUME NEW a \in Frames, NEW c \in Frames, todo' = <<a, c>>, NEW w, w = call'.under,
         Fits(a, c, w), a # c, c.at # "fallback",
         call'.by = "cli" => c.at \in Bottom,
         FrameOK(a)' /\ Returned(a)' /\ FrameOK(c)'
  PROVE  Shape' /\ Stacked'
<1> DEFINE z == <<a, c>>
<1>1. z \in Seq(Frames) /\ Len(z) = 2 /\ z[1] = a /\ z[2] = c /\ z # <<>> /\ Head(z) = a
  OBVIOUS
<1>2. todo' = z
  OBVIOUS
<1> HIDE DEF z
<1>3. \A i \in 1..2 : i = 1 \/ i = 2
  OBVIOUS
<1>4. Shape'
  <2>1. \A i \in 1..Len(z) : i < Len(z) => Fits(z[i], z[i + 1], w)
    BY <1>1, <1>3
  <2>2. \A i, j \in 1..Len(z) : i < j => z[j].at # "fallback"
    BY <1>1, <1>3
  <2>3. z[Len(z)] = c
    BY <1>1
  <2> QED BY <1>1, <1>2, <2>1, <2>2, <2>3 DEF Shape, Bottom
<1>5. OnStack' = {a, c}
  BY <1>1, <1>2, <1>3 DEF OnStack
<1>6. Stacked'
  BY <1>1, <1>2, <1>5 DEF Stacked
<1> QED BY <1>4, <1>6

LEMMA StartedKeeps ==
  ASSUME ClientInv, NEW p, NEW w \in BOOLEAN, Starts(p, w), Stays,
         UNCHANGED <<v2, v3, legacy, ok, result>>, Shape', Stacked',
         answer'.is \notin WithRows \cup {"error"}
  PROVE  ClientInv'
<1>1. Types' /\ Links' /\ InStep' /\ Caches' /\ Learned' = 0
  BY StartsFresh DEF ClientInv
<1>2. RightPage' /\ answer'.is # "error"
  BY DEF RightPage
<1> QED BY <1>1, <1>2 DEF ClientInv, Answers

\* An attempt at f, for a program that keeps its connection.
LEMMA StartsTrying ==
  ASSUME ClientInv, NEW p \in {"mcp", "dbus"}, NEW w \in BOOLEAN, Starts(p, w), Stays,
         UNCHANGED <<v2, v3, legacy, ok, result>>,
         NEW f \in Tried, NEW d \in {"refetch", "statsDone", "rebuildDone"},
         todo' = <<Try(f, FALSE, 1), At(d)>>,
         \A x : Wants(At(d), f, FALSE, x), d = "refetch" => ~ w
  PROVE  Shape' /\ Stacked'
<1> DEFINE a == Try(f, FALSE, 1)
           c == At(d)
<1>1. Learned' = 0 /\ call'.under = w /\ call'.by = p
  BY StartsFresh DEF ClientInv
<1>0. f \in Printed /\ FALSE \in BOOLEAN /\ 1 \in {1, 2}
  BY DEF Tried, Printed
<1>2. a \in Frames /\ a.at = "try" /\ a.f = f /\ a.under = FALSE /\ a.try = 1
  BY <1>0, TryMade
<1>3. c \in Frames /\ c.at = d /\ c.under = FALSE
  BY FramesMade DEF Program, Replying
<1> HIDE DEF a, c
<1>4. PICK n : n = a.try - 1 /\ n = 0
  BY <1>2
<1>5. Excused(n)'
  BY <1>1, <1>4 DEF Excused
<1>6. Excused(a.try - 1)'
  BY <1>4, <1>5
<1>7. FrameOK(a)' /\ FrameOK(c)'
  BY <1>1, <1>2, <1>3, <1>6 DEF FrameOK, Opening, Functions, Searching, SearchEx1, Trying
<1>8. Returned(a)'
  BY <1>2, QuietReturned DEF Quiet
<1>9. Fits(a, c, w)
  <2>1. Wants(c, f, FALSE, w)
    BY DEF c
  <2>2. c.at \in Replying
    BY <1>3 DEF Replying
  <2> QED BY <1>2, <2>1, <2>2, TryFits
<1>10. todo' = <<a, c>>
  BY DEF a, c
<1>11. a # c
  BY <1>2, <1>3
<1> QED BY <1>1, <1>2, <1>3, <1>7, <1>8, <1>9, <1>10, <1>11, StackOfTwo

LEMMA WantsOf ==
  \A x : /\ Wants(At("statsDone"), "stats", FALSE, x)
        /\ Wants(At("refetch"), "search", FALSE, x)
        /\ Wants(At("rebuildDone"), "rebuild", FALSE, x)
BY DEF Wants, At

LEMMA ToolCallKeeps ==
  ASSUME ClientInv, ToolCall
  PROVE  ClientInv'
<1>1. PICK w \in BOOLEAN : Starts("mcp", w)
  BY DEF ToolCall
<1>2. /\ answer' = noAnswer /\ Stays /\ UNCHANGED <<v2, v3, legacy, ok, result>>
      /\ \/ todo' = <<At("ensure"), At("negotiate")>>
         \/ todo' = <<Try("stats", FALSE, 1), At("statsDone")>>
  BY DEF ToolCall, caches
<1>3. answer'.is \notin WithRows \cup {"error"}
  BY <1>2 DEF noAnswer, WithRows
<1>4. Learned' = 0 /\ call'.under = w /\ call'.by = "mcp"
  BY <1>1, <1>2, StartsFresh DEF ClientInv
<1>5. CASE todo' = <<At("ensure"), At("negotiate")>>
  <2> DEFINE a == At("ensure")
             c == At("negotiate")
  <2>1. /\ a \in Frames /\ a.at = "ensure" /\ a.under = FALSE
        /\ c \in Frames /\ c.at = "negotiate" /\ c.under = FALSE
    BY FramesMade DEF Program
  <2> HIDE DEF a, c
  <2>2. FrameOK(a)' /\ FrameOK(c)'
    BY <2>1 DEF FrameOK, Opening, Functions, Searching, SearchEx1, Trying
  <2>3. Returned(a)'
    BY <2>1, QuietReturned DEF Quiet
  <2>4. Fits(a, c, w)
    BY <2>1 DEF Fits
  <2>5. todo' = <<a, c>>
    BY <1>5 DEF a, c
  <2>6. Shape' /\ Stacked'
    BY <1>4, <2>1, <2>2, <2>3, <2>4, <2>5, StackOfTwo
  <2> QED BY <1>1, <1>2, <1>3, <2>6, StartedKeeps
<1>6. CASE todo' = <<Try("stats", FALSE, 1), At("statsDone")>>
  <2>1. Shape' /\ Stacked'
    BY <1>1, <1>2, <1>6, WantsOf, StartsTrying DEF Tried
  <2> QED BY <1>1, <1>2, <1>3, <2>1, StartedKeeps
<1> QED BY <1>2, <1>5, <1>6

LEMMA BusCallKeeps ==
  ASSUME ClientInv, BusCall
  PROVE  ClientInv'
<1>1. Starts("dbus", FALSE) /\ Stays /\ UNCHANGED <<v2, v3, legacy, ok, result>>
  BY DEF BusCall, caches
<1>2. FALSE \in BOOLEAN /\ ~ FALSE
  OBVIOUS
<1>3. noAnswer.is \notin WithRows \cup {"error"}
  BY DEF noAnswer, WithRows
<1>4. CASE todo' = <<Try("search", FALSE, 1), At("refetch")>> /\ answer' = noAnswer
  <2>1. Shape' /\ Stacked'
    BY <1>1, <1>2, <1>4, WantsOf, StartsTrying DEF Tried
  <2> QED BY <1>1, <1>2, <1>3, <1>4, <2>1, StartedKeeps
<1>5. CASE todo' = <<Try("stats", FALSE, 1), At("statsDone")>> /\ answer' = noAnswer
  <2>1. Shape' /\ Stacked'
    BY <1>1, <1>2, <1>5, WantsOf, StartsTrying DEF Tried
  <2> QED BY <1>1, <1>2, <1>3, <1>5, <2>1, StartedKeeps
<1>6. CASE todo' = <<Try("rebuild", FALSE, 1), At("rebuildDone")>> /\ answer' = noAnswer
  <2>1. Shape' /\ Stacked'
    BY <1>1, <1>2, <1>6, WantsOf, StartsTrying DEF Tried
  <2> QED BY <1>1, <1>2, <1>3, <1>6, <2>1, StartedKeeps
<1>7. CASE todo' = <<>> /\ Says("busy", FALSE)
  <2>1. call'.by = "dbus"
    BY <1>1, <1>2, StartsFresh DEF ClientInv
  <2>2. <<>> \in Seq(Frames) /\ Len(<<>>) = 0 /\ 1..0 = {}
    OBVIOUS
  <2>3. Shape'
    BY <1>7, <2>1, <2>2 DEF Shape
  <2>4. Stacked'
    <3>1. OnStack' = {}
      BY <1>7, <2>2 DEF OnStack
    <3> QED BY <3>1 DEF Stacked
  <2>5. answer'.is \notin WithRows \cup {"error"}
    BY <1>7 DEF Says, WithRows
  <2> QED BY <1>1, <1>2, <2>3, <2>4, <2>5, StartedKeeps
<1> QED BY <1>4, <1>5, <1>6, <1>7 DEF BusCall

LEMMA RunKeeps ==
  ASSUME ClientInv, Run
  PROVE  ClientInv'
<1>1. PICK w \in BOOLEAN : Starts("cli", w)
  BY DEF Run
<1>2. /\ answer' = noAnswer /\ Stays /\ UNCHANGED <<v2, v3, legacy, ok, result>>
  BY DEF Run, caches
<1>3. answer'.is \notin WithRows \cup {"error"}
  BY <1>2 DEF noAnswer, WithRows
<1>4. /\ Learned' = 0 /\ call'.under = w /\ call'.by = "cli" /\ call.by = "cli" /\ todo = <<>>
      /\ Connected' <=> Connected
  BY <1>1, <1>2, StartsFresh DEF ClientInv
<1>5. ~ Connected'
  BY <1>4 DEF ClientInv, Shape
<1>6. PICK first \in {"connect", "retry"},
           f \in {"stats", "rebuild", "countEx", IF call'.under THEN "searchEx" ELSE "search"} :
        todo' = <<At(first), [Under("request", call'.under) EXCEPT !.f = f]>>
  BY DEF Run
<1>7. f \in Printed /\ (f = "search" => ~ w)
  BY <1>4, <1>6 DEF Printed
<1> DEFINE a == At(first)
           q == Under("request", w)
           c == [q EXCEPT !.f = f]
<1>8. a \in Frames /\ a.at = first /\ a.under = FALSE
  BY FramesMade DEF Opening
<1>9. q \in Frames /\ q.at = "request" /\ q.under = w
  BY FramesMade DEF Program
<1>10. todo' = <<a, c>>
  BY <1>4, <1>6
<1> HIDE DEF q
<1>11. c \in Frames /\ c.at = "request" /\ c.under = w /\ c.f = f
  BY <1>7, <1>9 DEF Frames
<1> HIDE DEF a, c
<1>12. FrameOK(a)' /\ FrameOK(c)'
  BY <1>4, <1>5, <1>7, <1>8, <1>11 DEF FrameOK, Opening, Functions, Searching, SearchEx1, Trying
<1>13. Returned(a)'
  BY <1>8, QuietReturned DEF Quiet, Opening
<1>14. Fits(a, c, w)
  BY <1>8, <1>11 DEF Fits, Opening
<1>15. Shape' /\ Stacked'
  BY <1>4, <1>8, <1>10, <1>11, <1>12, <1>13, <1>14, StackOfTwo DEF Bottom
<1> QED BY <1>1, <1>2, <1>3, <1>15, StartedKeeps

-----------------------------------------------------------------------------
(* The daemon by itself, the first state and every step.                    *)

LEMMA AroundKeeps ==
  ASSUME ClientInv, Goes,
         UNCHANGED <<conn, v2, v3, legacy, todo, ok, result, call, answer>>
  PROVE  ClientInv'
<1>1. Types' /\ SameCall
  BY DEF ClientInv, Types, SameCall
<1>2. Onward
  BY <1>1, GoesOnward DEF ClientInv
<1>3. Links' /\ InStep' /\ Learned' >= 0
  BY <1>2 DEF Onward, ClientInv
<1>4. Caches'
  BY <1>2, CachesOnward DEF ClientInv
<1>5. Connected' <=> Connected
  BY <1>2 DEF Onward
<1>6. Shape'
  BY <1>5 DEF ClientInv, Shape
<1>7. OnStack' = OnStack /\ (NoV3 => NoV3')
  BY <1>2, NoV3Onward DEF OnStack
<1>8. ASSUME NEW fr \in OnStack
      PROVE  FrameOK(fr)' /\ (Returned(fr) => Returned(fr)')
  <2>1. fr \in Frames /\ FrameOK(fr)
    BY ElementOfSeq DEF ClientInv, Shape, Stacked, OnStack
  <2>2. FrameOK(fr)'
    BY <1>2, <1>7, <2>1, FrameOnward
  <2>3. \A f, u : Good(f, u) => Good(f, u)'
    BY DEF Good
  <2>4. (FunctionFails => FunctionFails') /\ (Excused(2) => Excused(2)')
    BY <1>2, ExcusesStay
  <2>5. Returned(fr) => Returned(fr)'
    BY <1>5, <1>7, <2>3, <2>4 DEF Returned
  <2> QED BY <2>2, <2>5
<1>9. Stacked'
  BY <1>7, <1>8 DEF ClientInv, Stacked
<1>10. Answers'
  <2>1. Excused(2) => Excused(2)'
    BY <1>2, ExcusesStay
  <2>2. RightPage'
    BY DEF ClientInv, Answers, RightPage, TotalIsTold
  <2> QED BY <2>1, <2>2 DEF ClientInv, Answers
<1> QED BY <1>1, <1>3, <1>4, <1>6, <1>9, <1>10 DEF ClientInv

LEMMA InitClient ==
  ASSUME Init
  PROVE  ClientInv
<1>1. PICK program \in {"mcp", "dbus", "cli"} :
        call = [by |-> program, rebuilt |-> FALSE, under |-> FALSE, since |-> 0,
                noStart |-> FALSE]
  BY DEF Init
<1>2. /\ daemon = noDaemon /\ deaths = 0 /\ conn = closed
      /\ v2 = -1 /\ v3 = -1 /\ legacy = FALSE
      /\ todo = <<>> /\ ok = FALSE /\ result = noResult /\ answer = noAnswer
  BY DEF Init
<1>3. ~ Connected /\ ~ Alive /\ ~ Stale
  BY <1>2 DEF Connected, Alive, Stale
<1>4. Types
  <2>1. /\ call = [by |-> call.by, rebuilt |-> call.rebuilt, under |-> call.under,
                   since |-> call.since, noStart |-> call.noStart]
        /\ call.under \in BOOLEAN /\ call.noStart \in BOOLEAN
    BY <1>1
  <2>3. call.since \in Int
    BY <1>1
  <2>4. ok \in BOOLEAN /\ legacy \in BOOLEAN
    BY <1>2
  <2>2. result = [rows |-> result.rows, total |-> result.total]
    BY <1>2 DEF noResult
  <2> QED BY <2>1, <2>2, <2>3, <2>4 DEF Types
<1>5. Links /\ InStep /\ Caches
  BY <1>2, <1>3 DEF Links, InStep, Caches
<1>6. Learned >= 0
  BY <1>1, <1>2, <1>3 DEF Learned
<1>7. Shape
  <2>1. <<>> \in Seq(Frames) /\ Len(<<>>) = 0 /\ 1..0 = {}
    OBVIOUS
  <2> QED BY <1>2, <1>3, <2>1 DEF Shape
<1>8. Stacked
  <2>1. OnStack = {}
    BY <1>2 DEF OnStack
  <2> QED BY <2>1 DEF Stacked
<1>9. Answers
  BY <1>2 DEF Answers, RightPage, noAnswer, WithRows
<1> QED BY <1>4, <1>5, <1>6, <1>7, <1>8, <1>9 DEF ClientInv

LEMMA NextClient ==
  ASSUME ClientInv, [Next]_vars
  PROVE  ClientInv'
<1>1. CASE Step
  BY <1>1, EnsureKeeps, ConnectKeeps, SpawnKeeps, SupportsV2Keeps, SupportsV3Keeps,
     SearchExKeeps, SearchEx3Keeps, SearchEx2Keeps, CountedKeeps, SearchKeeps,
     SearchLegacyKeeps, CountExKeeps, StatsKeeps, AttemptKeeps, AttemptCallKeeps,
     JudgeKeeps, NegotiateKeeps, ExPageKeeps, LegacyPageKeeps, RefetchKeeps,
     StatsDoneKeeps, RebuildDoneKeeps, RequestKeeps, ExitKeeps
     DEF Step
<1>2. CASE ToolCall \/ BusCall \/ Run
  BY <1>2, ToolCallKeeps, BusCallKeeps, RunKeeps
<1>3. CASE DaemonEnds \/ DaemonStarts
  BY <1>3, AroundKeeps DEF DaemonEnds, DaemonStarts, Goes, caches, toolVars
<1>4. CASE UNCHANGED vars
  BY <1>4, AroundKeeps DEF Goes, vars, caches, toolVars
<1> QED BY <1>1, <1>2, <1>3, <1>4 DEF Next

LEMMA ClientInvAlways == Spec => []ClientInv
BY InitClient, NextClient, PTL DEF Spec

-----------------------------------------------------------------------------

\* What the client has concluded of the daemon at the other end, from its reply to
\* capabilities or to an unknown command, is true of that daemon, however many have
\* ended, of whatever versions, and whatever was concluded of them (v2_ and v3_).
THEOREM CachesAlways == Spec => []CachesAreOfThisDaemon
<1>1. ClientInv => CachesAreOfThisDaemon
  BY DEF ClientInv, Caches, Can, CachesAreOfThisDaemon
<1> QED BY <1>1, ClientInvAlways, PTL

\* No line of a reply is left for the next request, at whichever line the daemons
\* have ended (readLine, recvBuf_).
THEOREM InStepAlways == Spec => []InStep
<1>1. ClientInv => InStep
  BY DEF ClientInv
<1> QED BY <1>1, ClientInvAlways, PTL

\* The rows of every page, search and count are one daemon's, for the directory
\* that was asked for, and decoded as they were encoded, whatever daemons the call
\* has gone through (searchEx, searchLegacyFallback, search, countEx, doLegacyPage).
THEOREM RightPageAlways == Spec => []RightPage
<1>1. ClientInv => RightPage
  BY DEF ClientInv, Answers
<1> QED BY <1>1, ClientInvAlways, PTL

LEMMA ClientSurvives ==
  ASSUME ClientInv
  PROVE  OneEndSurvived
<1>1. Learned = deaths - call.since - (IF Stale THEN 1 ELSE 0)
  BY DEF Learned
<1>2. deaths \in Nat /\ call.since \in Int /\ Learned >= 0
  BY DEF ClientInv, Links, Types
<1>3. Stale \/ Learned >= 1 => deaths > call.since
  BY <1>1, <1>2
<1>4. Connected /\ "search2" \notin conn.kind.knows => Lacking \/ Stale
  BY ConnGen DEF ClientInv, Stale, Lacking, Alive
<1>5. answer.is = "error" =>
        \/ deaths >= call.since + 2 \/ call.noStart
        \/ call.under /\ (Lacking \/ deaths > call.since)
  <2>1. answer.is = "error" => Excused(2)
    BY DEF ClientInv, Answers
  <2>2. Learned >= 2 => deaths >= call.since + 2
    BY <1>1, <1>2
  <2>3. LackSeen => Lacking \/ deaths > call.since
    BY <1>3, <1>4 DEF LackSeen
  <2> QED BY <2>1, <2>2, <2>3 DEF Excused
<1>6. FailsForCause
  <2>1. SUFFICES ASSUME In("exit"), ~ ok
                 PROVE  deaths > call.since \/ call.noStart \/ (call.under /\ Lacking)
    BY DEF FailsForCause
  <2>2. PICK h : h = Head(todo) /\ todo # <<>> /\ h.at = "exit"
    BY <2>1 DEF In
  <2>3. Returned(h)
    BY <2>2, OnTop DEF ClientInv
  <2>4. FunctionFails
    BY <2>1, <2>2, <2>3 DEF Returned
  <2> QED BY <1>3, <1>4, <2>4 DEF FunctionFails
<1> QED BY <1>5, <1>6 DEF OneEndSurvived

\* An error has a cause that the program could not do anything about: for the MCP
\* server and the D-Bus bridge the end of one daemon is not enough, at whatever
\* line of whatever request of the call, and however often one has ended before it
\* (the attempts of doSearchEx, doSearch and doStats).
THEOREM OneEndSurvivedAlways == Spec => []OneEndSurvived
BY ClientSurvives, ClientInvAlways, PTL
===============================================================================
