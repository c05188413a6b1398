-------------------------------- MODULE Client --------------------------------
(***************************************************************************)
(* The client of lsearchd, class Client of ipc/client.cpp, as three programs *)
(* use it: the MCP server (ensureClient, doSearchEx, doSearch, doStats and    *)
(* handleToolCall of mcp/main.cpp), the D-Bus bridge, which has loops of the  *)
(* same form (dbus/main.cpp), and the command line (cli/main.cpp).            *)
(*                                                                         *)
(* A call is a series of requests over one connection, which the first two   *)
(* keep from call to call.  The daemon may end at any moment, also in the    *)
(* middle of a reply, and the one that is started next may be of another     *)
(* version.  What it understands is negotiated once per connection and kept. *)
(*                                                                         *)
(* The functions call each other; todo is the call stack, innermost first.   *)
(* Lines are records.  A row says which request and which daemon it is from. *)
(***************************************************************************)
EXTENDS Integers, Sequences, FiniteSets, SequencesExt

CONSTANTS
  Kinds,      \* daemons: [lists |-> S, knows |-> S], the commands that capabilities
              \* names and those that are understood
  MaxDeaths,  \* a bound on the daemon's ends
  MaxCalls    \* a bound on the calls

ASSUME ClientAssumption ==
  /\ \A k \in Kinds : {"ping", "stats", "search", "rebuild"} \subseteq k.knows
  \* search2, count2 and capabilities, which lists them, came at once.
  /\ \A k \in Kinds : /\ "search2" \in k.knows =>
                            {"capabilities", "count2"} \subseteq k.knows /\ "search2" \in k.lists
                      /\ "capabilities" \notin k.knows => k.lists = {}
  /\ MaxDeaths \in Nat /\ MaxCalls \in Nat

VARIABLES
  daemon,   \* the daemon that runs: its kind and its number, or noDaemon
  deaths,   \* how many have ended, which numbers them
  conn,     \* fd_ and recvBuf_: whose connection, and the lines not yet read; or closed
  v2, v3,   \* v2_, v3_: -1 unknown, 0 no, 1 yes
  legacy,   \* lastSearchLegacy_
  todo,     \* the call stack
  ok,       \* what the last call returned
  result,   \* the SearchOutcome it filled in
  call,     \* the program, whether it has had a rebuild done (RebuildThrottle), and
            \* its call: the under, and what the daemon has suffered since
  calls,    \* how many calls there have been
  answer    \* the answer to the last call, or noAnswer

caches    == <<v2, v3>>
toolVars  == <<call, calls, answer>>
vars == <<daemon, deaths, conn, caches, legacy, todo, ok, result, toolVars>>

noKind   == [lists |-> {}, knows |-> {}]
noDaemon == [kind |-> noKind, gen |-> -1]
closed   == [gen |-> -1, kind |-> noKind, in |-> <<>>]
noResult == [rows |-> <<>>, total |-> "none"]
noAnswer == [is |-> "none", page |-> noResult, lowerBound |-> FALSE]

-----------------------------------------------------------------------------
(* The daemon's side: what it answers to a line.                             *)

Line(t, cmd, under, gen) == [t |-> t, cmd |-> cmd, under |-> under, gen |-> gen]
Just(t)                  == Line(t, "none", FALSE, -1)

\* search3 escapes the paths of its rows; search has no under.  The program has
\* looked at the arguments, so the errors about bad ones are left out.
Reply(d, cmd, under) ==
  IF cmd \notin d.kind.knows THEN <<Just("ERR unknown command")>>
  ELSE CASE cmd = "ping" -> <<Just("OK pong")>>
         [] cmd = "rebuild" -> <<Just("OK")>>
         [] cmd = "count2"  -> <<Line("OK", cmd, under, d.gen)>>
         [] cmd \in {"stats", "capabilities"} ->
              <<Just("OK"), Line("kv", cmd, FALSE, d.gen), Just("END")>>
         [] cmd = "search" ->
              <<Just("OK"), Line("row", cmd, FALSE, d.gen), Just("END")>>
         [] OTHER ->
              <<Just("OK"), Line("row", cmd, under, d.gen), Just("END")>>

-----------------------------------------------------------------------------
(* readLine and the loops around it, for a reply of one line or of lines up  *)
(* to END.                                                                  *)

Lost == [is |-> "lost", body |-> <<>>, rest |-> <<>>]

\* Faulty: the line END is left for the next reply.
LeavesEnd(in, i) == SubSeq(in, i, Len(in))

AfterEnd(in, i) == SubSeq(in, i + 1, Len(in))

Received(in, many) ==
  LET ends == {i \in DOMAIN in : in[i].t = "END"}
      end  == CHOOSE i \in ends : \A j \in ends : i <= j
  IN  IF in = <<>> THEN Lost
      ELSE IF Head(in).t = "ERR unknown command"
      THEN [is |-> "unknown", body |-> <<>>, rest |-> Tail(in)]
      ELSE IF Head(in).t \notin {"OK", "OK pong"}
      THEN [is |-> "bad", body |-> <<>>, rest |-> Tail(in)]
      ELSE IF ~ many THEN [is |-> "ok", body |-> <<Head(in)>>, rest |-> Tail(in)]
      ELSE IF ends = {} THEN Lost
      ELSE [is |-> "ok", body |-> SubSeq(in, 2, end - 1), rest |-> AfterEnd(in, end)]

Connected == conn # closed
Alive     == daemon # noDaemon /\ conn.gen = daemon.gen

\* writeLine, the reply, and what the caller does with it.  The daemon may end
\* after any part of its reply; a write to one that has ended fails.
Ask(cmd, under, many, Then(_)) ==
  IF ~ Alive THEN Then(Lost) /\ UNCHANGED <<daemon, deaths, conn>>
  ELSE LET reply == Reply(daemon, cmd, under) IN
       \E k \in 0..Len(reply) :
         LET g == Received(conn.in \o SubSeq(reply, 1, k), many) IN
           /\ k < Len(reply) => deaths < MaxDeaths
           /\ deaths' = IF k < Len(reply) THEN deaths + 1 ELSE deaths
           /\ daemon' = IF k < Len(reply) THEN noDaemon ELSE daemon
           /\ conn' = [conn EXCEPT !.in = g.rest]
           /\ Then(g)

-----------------------------------------------------------------------------
(* The stack.                                                               *)

\* A function, with its argument under; or a turn of a loop of two attempts at f.
At(f)           == [at |-> f, under |-> FALSE, f |-> "none", try |-> 0]
Under(f, u)     == [At(f) EXCEPT !.under = u]
Try(f, u, n)    == [at |-> "try", under |-> u, f |-> f, try |-> n]

In(f)    == todo # <<>> /\ Head(todo).at = f
This     == Head(todo)
Calls(s) == todo' = s \o Tail(todo)
Return   == todo' = Tail(todo)
Stays    == UNCHANGED <<daemon, deaths, conn>>

\* Faulty: the conclusions about the last daemon are kept.
CloseKeepsCaches == conn' = closed /\ legacy' = FALSE /\ UNCHANGED caches

\* Client::close
Close == conn' = closed /\ v2' = -1 /\ v3' = -1 /\ legacy' = FALSE

-----------------------------------------------------------------------------
(* connect and connectOrSpawn, and the ensureClient that calls them.         *)

Ensure ==
  /\ In("ensure")
  /\ IF Connected THEN ok' = TRUE /\ Return ELSE Calls(<<At("connect")>>) /\ UNCHANGED ok
  /\ Stays /\ UNCHANGED <<caches, legacy, result, toolVars>>

\* connect, with its ping, at "connect" and, after the fork, at "retry".
Connect ==
  /\ In("connect") \/ In("retry")
  /\ \/ /\ daemon # noDaemon
        /\ conn' = [gen |-> daemon.gen, kind |-> daemon.kind, in |-> <<>>]
        /\ ok' = TRUE /\ Return /\ UNCHANGED <<daemon, deaths, call>>
     \/ /\ IF daemon = noDaemon THEN UNCHANGED <<daemon, deaths>>
           ELSE deaths < MaxDeaths /\ deaths' = deaths + 1 /\ daemon' = noDaemon
        /\ IF In("connect") THEN Calls(<<At("spawn")>>) /\ UNCHANGED <<ok, call>>
                            ELSE ok' = FALSE /\ call' = [call EXCEPT !.noStart = TRUE] /\ Return
        /\ UNCHANGED conn
  /\ UNCHANGED <<caches, legacy, result, calls, answer>>

\* lsearchd: any version may be installed; one that finds another running, and
\* one that cannot start, ends.
Spawn ==
  /\ In("spawn") /\ Calls(<<At("retry")>>)
  /\ \/ UNCHANGED daemon
     \/ daemon = noDaemon /\ \E k \in Kinds : daemon' = [kind |-> k, gen |-> deaths]
  /\ UNCHANGED <<deaths, conn, caches, legacy, ok, result, toolVars>>

-----------------------------------------------------------------------------
(* supportsV2 and supportsV3, by capabilities.                              *)

Negotiated(cache, cmd, g) ==
  CASE g.is = "ok"      -> IF cmd \in conn.kind.lists THEN 1 ELSE 0
    [] g.is = "unknown" -> 0
    [] OTHER            -> cache

SupportsV2 ==
  /\ In("supportsV2") /\ Return
  /\ IF v2 >= 0 THEN ok' = (v2 = 1) /\ Stays /\ UNCHANGED v2
     ELSE Ask("capabilities", FALSE, TRUE, LAMBDA g :
            v2' = Negotiated(v2, "search2", g) /\ ok' = (v2' = 1))
  /\ UNCHANGED <<v3, legacy, result, toolVars>>

SupportsV3 ==
  /\ In("supportsV3") /\ Return
  /\ IF v3 >= 0 THEN ok' = (v3 = 1) /\ Stays /\ UNCHANGED v3
     ELSE Ask("capabilities", FALSE, TRUE, LAMBDA g :
            v3' = Negotiated(v3, "search3", g) /\ ok' = (v3' = 1))
  /\ UNCHANGED <<v2, legacy, result, toolVars>>

-----------------------------------------------------------------------------
(* searchEx, searchLegacyFallback, search, countEx, stats, command.          *)

\* Faulty: the rows of search2 are unescaped too.
UnescapesAll(cmd) == cmd # "search"

\* readResultRows(true, ...) is for search3 only.
Unescapes(cmd) == cmd = "search3"

Outcome(cmd, g, total) ==
  [rows  |-> [i \in DOMAIN g.body |-> [line |-> g.body[i], unescaped |-> Unescapes(cmd)]],
   total |-> total]

SearchEx ==
  /\ In("searchEx")
  /\ result' = noResult /\ legacy' = FALSE
  /\ Calls(<<At("supportsV3"), Under("searchEx3", This.under)>>)
  /\ Stays /\ UNCHANGED <<caches, ok, toolVars>>

V3After(g) == IF g.is = "unknown" THEN 0 ELSE v3

SearchEx3 ==
  /\ In("searchEx3")
  /\ IF ~ ok
     THEN Calls(<<Under("searchEx2", This.under)>>) /\ Stays /\ UNCHANGED <<v3, ok, result>>
     ELSE Ask("search3", This.under, TRUE, LAMBDA g :
            /\ v3' = V3After(g)
            /\ IF g.is = "unknown"
               THEN Calls(<<Under("searchEx2", This.under)>>) /\ UNCHANGED <<ok, result>>
               ELSE /\ ok' = (g.is = "ok") /\ Return
                    /\ result' = IF ok' THEN Outcome("search3", g, "exact") ELSE result)
  /\ UNCHANGED <<v2, legacy, toolVars>>

\* What the daemon cannot do is an error with an under, search without.
WithoutV2(u) ==
  IF u THEN ok' = FALSE /\ Return /\ UNCHANGED legacy
       ELSE legacy' = TRUE /\ Calls(<<At("search"), At("fallback")>>) /\ UNCHANGED ok

SearchEx2 ==
  /\ In("searchEx2")
  /\ IF v2 = 0 THEN WithoutV2(This.under) /\ Stays /\ UNCHANGED <<v2, result>>
     ELSE Ask("search2", This.under, TRUE, LAMBDA g :
            /\ v2' = IF g.is = "unknown" THEN 0 ELSE v2
            /\ IF g.is = "unknown" THEN WithoutV2(This.under) /\ UNCHANGED result
               ELSE /\ ok' = (g.is = "ok") /\ Return /\ UNCHANGED legacy
                    /\ result' = IF ok' THEN Outcome("search2", g, "exact") ELSE result)
  /\ UNCHANGED <<v3, toolVars>>

\* The end of searchLegacyFallback and, after searchEx, of search: total is
\* the number of rows.
Counted ==
  /\ In("fallback") \/ In("counted")
  /\ result' = IF ok THEN [result EXCEPT !.total = "count"] ELSE result
  /\ Return /\ Stays /\ UNCHANGED <<caches, legacy, ok, toolVars>>

Search ==
  /\ In("search") /\ Calls(<<At("supportsV3"), At("searchLegacy")>>)
  /\ result' = noResult
  /\ Stays /\ UNCHANGED <<caches, legacy, ok, toolVars>>

SearchLegacy ==
  /\ In("searchLegacy")
  /\ IF ok
     THEN Calls(<<Under("searchEx", FALSE), At("counted")>>) /\ Stays /\ UNCHANGED <<ok, result>>
     ELSE Ask("search", FALSE, TRUE, LAMBDA g :
            /\ ok' = (g.is = "ok") /\ Return
            /\ result' = IF ok' THEN Outcome("search", g, "count") ELSE result)
  /\ UNCHANGED <<caches, legacy, toolVars>>

Stats ==
  /\ In("stats") /\ Return
  /\ Ask("stats", FALSE, TRUE, LAMBDA g : ok' = (g.is = "ok"))
  /\ UNCHANGED <<caches, legacy, result, toolVars>>

\* countLegacyFallback: the rows of a search without a limit are counted.
CountRows(u) == IF u THEN ok' = FALSE /\ Return ELSE Calls(<<At("search")>>) /\ UNCHANGED ok

CountEx ==
  /\ In("countEx")
  /\ IF v2 = 0 THEN CountRows(This.under) /\ Stays /\ UNCHANGED <<v2, result>>
     ELSE Ask("count2", This.under, FALSE, LAMBDA g :
            /\ v2' = IF g.is = "unknown" THEN 0 ELSE v2
            /\ IF g.is = "unknown" THEN CountRows(This.under) /\ UNCHANGED result
               ELSE /\ ok' = (g.is = "ok") /\ Return
                    /\ result' = IF ok' THEN Outcome("count2", g, "exact") ELSE noResult)
  /\ UNCHANGED <<v3, legacy, toolVars>>

Command ==
  /\ In("rebuild") /\ Return
  /\ Ask("rebuild", FALSE, FALSE, LAMBDA g : ok' = (g.is = "ok"))
  /\ UNCHANGED <<caches, legacy, result, toolVars>>

-----------------------------------------------------------------------------
(* doSearchEx, doSearch and doStats: two attempts, each with a connection.    *)

Attempt ==
  /\ In("try") /\ Calls(<<At("ensure"), [This EXCEPT !.at = "call"]>>)
  /\ Stays /\ UNCHANGED <<caches, legacy, ok, result, toolVars>>

AttemptCall ==
  /\ In("call")
  /\ IF ok THEN Calls(<<Under(This.f, This.under), [This EXCEPT !.at = "judge"]>>) ELSE Return
  /\ Stays /\ UNCHANGED <<caches, legacy, ok, result, toolVars>>

\* Faulty: there is always another attempt.
Forever(t) == Calls(<<Try(t.f, t.under, 1)>>)

Again(t) == IF t.try = 1 THEN Calls(<<Try(t.f, t.under, 2)>>) ELSE Return

\* Faulty: the connection is used again.
NotClosed ==
  /\ In("judge")
  /\ IF ok THEN Return ELSE Again(This)
  /\ UNCHANGED <<daemon, deaths, conn, caches, legacy, ok, result, toolVars>>

Judge ==
  /\ In("judge")
  /\ IF ok THEN Return /\ UNCHANGED <<conn, caches, legacy>>
           ELSE Again(This) /\ Close
  /\ UNCHANGED <<daemon, deaths, ok, result, toolVars>>

-----------------------------------------------------------------------------
(* handleToolCall.                                                          *)

\* The daemon that the connection is with may have ended since the last call:
\* that counts as one end in this one.
Starts(program, under) ==
  /\ call.by = program /\ todo = <<>>
  /\ calls < MaxCalls /\ calls' = calls + 1
  /\ call' = [call EXCEPT !.under = under, !.noStart = FALSE,
                          !.since = IF Connected /\ ~ Alive THEN deaths - 1 ELSE deaths]

ToolCall ==
  /\ \E u \in BOOLEAN : Starts("mcp", u)
  /\ answer' = noAnswer
  /\ \/ todo' = <<At("ensure"), At("negotiate")>>
     \/ todo' = <<Try("stats", FALSE, 1), At("statsDone")>>
  /\ Stays /\ UNCHANGED <<caches, legacy, ok, result>>

\* if (ensureClient(s, serr) && s.client.supportsV2())
Negotiate ==
  /\ In("negotiate") \/ In("choose")
  /\ Calls(IF ~ ok THEN <<At("legacyPage")>>
           ELSE IF In("negotiate") THEN <<At("supportsV2"), At("choose")>>
           ELSE <<Try("searchEx", call.under, 1), At("exPage")>>)
  /\ Stays /\ UNCHANGED <<caches, legacy, ok, result, toolVars>>

\* The answers that are made of an outcome.
WithRows == {"page", "search", "searchEx", "countEx"}

Says(is, lowerBound) ==
  answer' = [is |-> is,
             page |-> IF is \in WithRows THEN result ELSE noResult,
             lowerBound |-> lowerBound]

\* A page is sent with what stats says of a rebuild, if anything.
ExPage ==
  /\ In("exPage")
  /\ \/ ~ ok /\ Says("error", FALSE) /\ Return
     \/ ok /\ ~ legacy /\ Says("page", FALSE) /\ Calls(<<Try("stats", FALSE, 1)>>)
     \/ ok /\ legacy /\ Calls(<<At("legacyPage")>>) /\ UNCHANGED answer
  /\ Stays /\ UNCHANGED <<caches, legacy, ok, result, call, calls>>

LegacyPage ==
  /\ In("legacyPage")
  /\ IF call.under THEN Says("under unsupported", FALSE) /\ Return
     ELSE Calls(<<Try("search", FALSE, 1), At("refetch")>>) /\ UNCHANGED answer
  /\ Stays /\ UNCHANGED <<caches, legacy, ok, result, call, calls>>

\* The rest of doLegacyPage: a page that is full is taken from a second search.
\* handleSearch of the D-Bus bridge goes on like this too, but that it does not
\* say the total is a lower bound.
Refetch ==
  /\ In("refetch") \/ In("refetched")
  /\ \/ ~ ok /\ Says("error", FALSE) /\ Return
     \/ ok /\ In("refetch") /\ Calls(<<Try("search", FALSE, 1), At("refetched")>>) /\ UNCHANGED answer
     \/ ok /\ Says("page", call.by = "mcp") /\ Calls(<<Try("stats", FALSE, 1)>>)
  /\ Stays /\ UNCHANGED <<caches, legacy, ok, result, call, calls>>

StatsDone ==
  /\ In("statsDone") /\ Says(IF ok THEN "stats" ELSE "error", FALSE) /\ Return
  /\ Stays /\ UNCHANGED <<caches, legacy, ok, result, call, calls>>

-----------------------------------------------------------------------------
(* bridgeMessage of the D-Bus bridge.                                       *)

BusCall ==
  /\ Starts("dbus", FALSE)
  /\ \/ todo' = <<Try("search", FALSE, 1), At("refetch")>> /\ answer' = noAnswer
     \/ todo' = <<Try("stats", FALSE, 1), At("statsDone")>> /\ answer' = noAnswer
     \/ todo' = <<Try("rebuild", FALSE, 1), At("rebuildDone")>> /\ answer' = noAnswer
     \/ call.rebuilt /\ todo' = <<>> /\ Says("busy", FALSE)
  /\ Stays /\ UNCHANGED <<caches, legacy, ok, result>>

RebuildDone ==
  /\ In("rebuildDone") /\ Says(IF ok THEN "rebuilt" ELSE "error", FALSE) /\ Return
  /\ call' = [call EXCEPT !.rebuilt = @ \/ ok]
  /\ Stays /\ UNCHANGED <<caches, legacy, ok, result, calls>>

-----------------------------------------------------------------------------
(* main of the command line: a process for each request, with a client of its *)
(* own.  "retry" is a connect that starts no daemon (--no-daemon-spawn).      *)

Run ==
  /\ \E u \in BOOLEAN : Starts("cli", u)
  /\ \E first \in {"connect", "retry"},
        f \in {"stats", "rebuild", "countEx", IF call'.under THEN "searchEx" ELSE "search"} :
       todo' = <<At(first), [Under("request", call'.under) EXCEPT !.f = f]>>
  /\ answer' = noAnswer
  /\ Stays /\ UNCHANGED <<caches, legacy, ok, result>>

Request ==
  /\ In("request")
  /\ IF ok THEN Calls(<<Under(This.f, This.under), [This EXCEPT !.at = "exit"]>>)
           ELSE Calls(<<[This EXCEPT !.at = "exit"]>>)
  /\ Stays /\ UNCHANGED <<caches, legacy, ok, result, toolVars>>

Exit ==
  /\ In("exit") /\ Says(IF ok THEN This.f ELSE "failed", FALSE) /\ Return /\ Close
  /\ UNCHANGED <<daemon, deaths, ok, result, call, calls>>

-----------------------------------------------------------------------------

\* The daemon ends, and another is started by someone else.
DaemonEnds ==
  /\ daemon # noDaemon /\ deaths < MaxDeaths
  /\ daemon' = noDaemon /\ deaths' = deaths + 1
  /\ UNCHANGED <<conn, caches, legacy, todo, ok, result, toolVars>>

DaemonStarts ==
  /\ daemon = noDaemon /\ \E k \in Kinds : daemon' = [kind |-> k, gen |-> deaths]
  /\ UNCHANGED <<deaths, conn, caches, legacy, todo, ok, result, toolVars>>

Init ==
  /\ daemon = noDaemon /\ deaths = 0 /\ conn = closed
  /\ v2 = -1 /\ v3 = -1 /\ legacy = FALSE
  /\ todo = <<>> /\ ok = FALSE /\ result = noResult
  /\ \E program \in {"mcp", "dbus", "cli"} :
       call = [by |-> program, rebuilt |-> FALSE, under |-> FALSE, since |-> 0, noStart |-> FALSE]
  /\ calls = 0
  /\ answer = noAnswer

\* One step of the process that the client is in.
Step ==
  \/ Ensure \/ Connect \/ Spawn \/ SupportsV2 \/ SupportsV3
  \/ SearchEx \/ SearchEx3 \/ SearchEx2 \/ Counted \/ Search \/ SearchLegacy
  \/ CountEx \/ Stats \/ Command
  \/ Attempt \/ AttemptCall \/ Judge
  \/ Negotiate \/ ExPage \/ LegacyPage \/ Refetch \/ StatsDone
  \/ RebuildDone \/ Request \/ Exit

Next == Step \/ ToolCall \/ BusCall \/ Run \/ DaemonEnds \/ DaemonStarts

Spec == Init /\ [][Next]_vars /\ WF_vars(Step)

-----------------------------------------------------------------------------

Deepest == 6

\* What the command line prints.
Printed == {"stats", "rebuild", "search", "searchEx", "countEx"}

TypeOK ==
  /\ daemon = noDaemon \/ (daemon.kind \in Kinds /\ daemon.gen \in 0..MaxDeaths)
  /\ deaths \in 0..MaxDeaths
  /\ conn = closed \/ (conn.kind \in Kinds /\ conn.gen \in 0..MaxDeaths)
  /\ v2 \in -1..1 /\ v3 \in -1..1 /\ legacy \in BOOLEAN /\ ok \in BOOLEAN
  /\ Len(todo) <= Deepest
  /\ result.total \in {"none", "exact", "count"}
  /\ calls \in 0..MaxCalls
  /\ answer.is \in {"none", "page", "stats", "error", "under unsupported", "busy", "rebuilt"}
       \cup Printed \cup {"failed"}

\* What the client has concluded is about the daemon at the other end of its
\* connection, not about one before it (v2_ and v3_, reset by close).
CachesAreOfThisDaemon ==
  Connected =>
    LET can(cmd) == cmd \in conn.kind.lists /\ cmd \in conn.kind.knows IN
    /\ (v2 = 1 => "search2" \in conn.kind.lists) /\ (v2 = 0 => ~ can("search2"))
    /\ (v3 = 1 => "search3" \in conn.kind.lists) /\ (v3 = 0 => ~ can("search3"))

\* Between requests nothing is left to read, so no reply is taken for the reply
\* to the next request, whatever went wrong before (readLine, recvBuf_).
InStep == Alive => conn.in = <<>>

\* A page whose total is not known says that it is a lower bound
\* (docs/specs/010-search-protocol.md:79, "legacy" pages).
TotalIsTold ==
  answer.is = "page" /\ ~ answer.lowerBound => answer.page.total = "exact"

\* A page, what the command line prints of a search, and a count, are of one
\* daemon and for the under that was asked for, and rows are decoded as that daemon
\* encoded them, whatever it can do; and a page of the MCP server says of a total
\* that is only the number of rows that it is a lower bound.
RightPage ==
  answer.is \in WithRows =>
    /\ answer.page.rows # <<>>
    /\ \A r \in ToSet(answer.page.rows) :
         /\ r.line.t = "row" \/ (r.line.cmd = "count2" /\ answer.is = "countEx")
         /\ r.line.under = call.under
         /\ r.line.gen = answer.page.rows[1].line.gen
         /\ r.unescaped <=> r.line.cmd = "search3"
    /\ answer.is = "page" /\ call.by = "mcp" => TotalIsTold

\* The daemon that runs has no search below a directory.
Lacking == daemon # noDaemon /\ "search2" \notin daemon.kind.knows

\* Nothing but the end of the daemon, a daemon that cannot be reached, or one that
\* has no search below a directory, makes a request of the command line fail.
FailsForCause ==
  In("exit") /\ ~ ok => deaths > call.since \/ call.noStart \/ (call.under /\ Lacking)

\* The end of one daemon does not make a call of the MCP server or the D-Bus bridge
\* fail, at whatever point of the call, if another can be started: it takes a
\* second one, or a daemon that cannot do what is asked, which runs yet or has
\* been the one to end (the loops of two attempts).  The command line, which has
\* one attempt, needs one end.
OneEndSurvived ==
  /\ answer.is = "error" =>
       \/ deaths >= call.since + 2 \/ call.noStart
       \/ call.under /\ (Lacking \/ deaths > call.since)
  /\ FailsForCause

\* Every call is answered: neither the retries nor search and searchEx, which
\* call each other, go on for ever.
Answered == todo # <<>> ~> todo = <<>>

\* Only a daemon without search2 makes the answer that under is not supported
\* (ipc/client.h, kUnderUnsupportedMessage).
RefusedByOldOnly ==
  answer.is = "under unsupported" => Connected /\ "search2" \notin conn.kind.knows
=============================================================================
