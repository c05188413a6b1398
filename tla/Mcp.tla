-------------------------------- MODULE Mcp --------------------------------
(* The MCP server's end of its pipe, main() and handleLine of mcp/main.cpp:  *)
(* what the client writes comes in pieces, lines are cut from the buffer, a  *)
(* line that is too long is dropped up to its end, and every line is         *)
(* answered, or not.  What a tool call does is in Client.  The warning about *)
(* a missing handshake goes to stderr and is left out.                       *)
EXTENDS Naturals, Sequences, FiniteSets, SequencesExt

CONSTANTS Scripts,      \* what the client may write: sequences of lines
          Unfinished,   \* bytes it may write after the last line's end
          MaxLineBytes, \* kMaxLineBytes, 2^20
          MaxRead       \* the most bytes one read brings, 8192

\* A line: its length without its end, whether it is JSON and an object, whether
\* it has an id other than null, its method, and its params._meta.
Line == [bytes : Nat, parses : BOOLEAN, object : BOOLEAN, id : BOOLEAN, method : STRING,
         meta : {"none", "bad", "good"}]

ASSUME McpAssumption ==
  /\ MaxLineBytes \in Nat \ {0} /\ MaxRead \in Nat \ {0} /\ Unfinished \subseteq Nat
  /\ Scripts \subseteq Seq(Line)

VARIABLES
  script,      \* the lines the client writes
  stdin,       \* bytes not yet read: k for a byte of line k, 0 for the end of a line
  buf,
  discarding,
  g_stop,
  server,      \* where the program is: "while", "lines", "read" or "ended"
  taken,       \* how many ends of lines have been taken from buf (history)
  out          \* answers: <<the line, how>>

mcpVars == <<script, stdin, buf, discarding, g_stop, server, taken, out>>

Written(s, rest) ==
  FlattenSeq([k \in DOMAIN s |-> [i \in 1 .. s[k].bytes |-> k] \o <<0>>])
    \o [i \in 1 .. rest |-> Len(s) + 1]

McpInit ==
  /\ script \in Scripts
  /\ \E rest \in Unfinished : stdin = Written(script, rest)
  /\ buf = << >> /\ discarding = FALSE /\ g_stop = FALSE
  /\ server = "while" /\ taken = 0 /\ out = << >>

Ends == {i \in DOMAIN buf : buf[i] = 0}

\* A signal sets g_stop; it ends a read that waits.
Signal ==
  /\ ~g_stop /\ g_stop' = TRUE /\ server # "ended"
  /\ server' = IF server = "read" THEN "ended" ELSE server
  /\ UNCHANGED <<script, stdin, buf, discarding, taken, out>>

WhileNotStopped ==
  /\ server = "while" /\ server' = IF g_stop THEN "ended" ELSE "lines"
  /\ UNCHANGED <<script, stdin, buf, discarding, g_stop, taken, out>>

\* handleLine: how a line is answered, and whether it is.
Answer(l) ==
  IF ~l.parses \/ ~l.object THEN <<"null">>
  ELSE IF l.method = "" THEN <<IF l.id THEN "error" ELSE "null">>
  ELSE IF l.meta = "bad" THEN IF l.id THEN <<"error">> ELSE << >>
  ELSE IF ~l.id \/ l.method = "notifications/" THEN << >>
  ELSE IF l.method \in {"initialize", "ping", "server/discover", "tools/list", "tools/call"}
       THEN <<"result">> ELSE <<"error">>

\* The part of line k that was in buf up to its end, n bytes; a part that is not
\* the whole would not be JSON.
HandleLine(k, n) ==
  LET answers == IF n = script[k].bytes THEN Answer(script[k]) ELSE <<"null">>
  IN  [i \in DOMAIN answers |-> <<k, answers[i]>>]

TakeLine ==
  /\ server = "lines" /\ Ends # {}
  /\ LET end == CHOOSE i \in Ends : \A j \in Ends : i <= j
         n == end - 1
         k == taken + 1
     IN  /\ buf' = SubSeq(buf, end + 1, Len(buf))
         /\ discarding' = FALSE /\ taken' = k
         /\ out' = out \o IF discarding THEN << >>
                          ELSE IF n > MaxLineBytes THEN <<<<k, "null">>>>
                          ELSE IF n = 0 THEN << >> ELSE HandleLine(k, n)
  /\ UNCHANGED <<script, stdin, g_stop, server>>

\* Faulty: what is left of the line is not marked to be dropped.
ClearOnly ==
  /\ server = "lines" /\ Ends = {} /\ Len(buf) > MaxLineBytes
  /\ server' = "while" /\ buf' = << >>
  /\ out' = Append(out, <<taken + 1, "null">>)
  /\ UNCHANGED <<script, stdin, discarding, g_stop, taken>>

\* Too much without an end: dropped until the next one.
Drop ==
  /\ server = "lines" /\ Ends = {} /\ Len(buf) > MaxLineBytes
  /\ server' = "while" /\ buf' = << >> /\ discarding' = TRUE
  /\ out' = Append(out, <<taken + 1, "null">>)
  /\ UNCHANGED <<script, stdin, g_stop, taken>>

ToRead ==
  /\ server = "lines" /\ Ends = {} /\ Len(buf) <= MaxLineBytes
  /\ server' = "read"
  /\ UNCHANGED <<script, stdin, buf, discarding, g_stop, taken, out>>

\* The client has written, and the read returns some of it.
Read ==
  /\ server = "read" /\ server' = "while"
  /\ \E n \in 1 .. (IF MaxRead < Len(stdin) THEN MaxRead ELSE Len(stdin)) :
       buf' = buf \o SubSeq(stdin, 1, n) /\ stdin' = SubSeq(stdin, n + 1, Len(stdin))
  /\ UNCHANGED <<script, discarding, g_stop, taken, out>>

\* The client has closed the pipe: what is in buf has no end and is dropped.
Eof ==
  /\ server = "read" /\ stdin = << >> /\ server' = "ended"
  /\ UNCHANGED <<script, stdin, buf, discarding, g_stop, taken, out>>

Server == WhileNotStopped \/ TakeLine \/ Drop \/ ToRead
McpNext == Signal \/ Server \/ Read \/ Eof

\* The program runs; the client need not write, nor close the pipe.
McpSpec == McpInit /\ [][McpNext]_mcpVars /\ WF_mcpVars(Server)

----------------------------------------------------------------------------
(* Properties.                                                               *)

\* Every variable has a value of its kind.
McpTypeOK ==
  /\ script \in Scripts /\ discarding \in BOOLEAN /\ g_stop \in BOOLEAN
  /\ stdin \in Seq(0 .. Len(script) + 1) /\ buf \in Seq(0 .. Len(script) + 1)
  /\ Len(buf) <= MaxLineBytes + MaxRead
  /\ server \in {"while", "lines", "read", "ended"} /\ taken \in 0 .. Len(script)
  /\ out \in Seq((1 .. Len(script) + 1) \X {"null", "error", "result"})

\* How many answers a line is due: one for a request, which has an id, and for
\* what is no message; none for a notification and for an empty line.  A
\* notification with an id is neither.
Due(l) ==
  IF l.bytes = 0 THEN {0}
  ELSE IF l.bytes > MaxLineBytes \/ ~l.parses \/ ~l.object \/ l.method = "" THEN {1}
  ELSE IF ~l.id THEN {0}
  ELSE IF l.method = "notifications/" THEN {0, 1} ELSE {1}

To(k) == {i \in DOMAIN out : out[i][1] = k}

\* Every line that has been read to its end has the answers it is due, in the
\* order of the lines and with its own id, in whatever pieces it came; a line
\* that is too long has one error, and no part of it is taken for a message.
OneAnswerEach ==
  /\ \A k \in 1 .. taken :
       /\ Cardinality(To(k)) \in Due(script[k])
       /\ script[k].bytes > MaxLineBytes => \A i \in To(k) : out[i][2] = "null"
       /\ script[k].id /\ script[k].bytes <= MaxLineBytes /\ script[k].parses
            /\ script[k].object
            => \A i \in To(k) : out[i][2] # "null"
  /\ \A i, j \in DOMAIN out : i < j => out[i][1] <= out[j][1]

\* A signal ends the program (comment at main.cpp:2).  Fails: one that comes
\* between the test of g_stop and the read is only seen when the client writes.
StopEnds == g_stop ~> (server = "ended")
============================================================================
