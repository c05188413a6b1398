------------------------------- MODULE Texts -------------------------------
(* What the program does with texts: names and paths written to a line of   *)
(* the protocol or the configuration file and read back, and the tests of a  *)
(* name against a query and of a path against a subtree, of which there are  *)
(* several (core/util.cpp, core/search.cpp, core/db.cpp, core/config.cpp,    *)
(* ipc/proto.cpp, and the requests of ipc/client.cpp and daemon/daemon.cpp;  *)
(* the messages of MCP are in Json).                                         *)
(*                                                                          *)
(* A text is a sequence of bytes.  A command, a sort key, or a number whose  *)
(* digits do not matter is a text of one letter.  The behaviours only build  *)
(* two texts up, byte by byte; what is shown is shown of every two.          *)
EXTENDS Json

CONSTANTS Topics,     \* what the two texts are taken for
          Bytes,      \* Bytes[t]: the bytes <<of the left, of the right>> text
          Longest,    \* BOUND: Longest[t]: the longest <<left, right>> text
          LimitMax,   \* kLimitMax
          PathMax,    \* kConfigPathMax
          EncodedMax, \* kBase64MaxEncoded
          UnderMax,   \* the longest under a tool call may have, 4096
          PageMax     \* kMaxLimit of mcp/protocol.h

ASSUME TextsAssumption ==
  /\ Bytes \in [Topics -> (SUBSET (0 .. 255)) \X (SUBSET (0 .. 255))]
  /\ Longest \in [Topics -> Nat \X Nat]
  /\ LimitMax \in Nat /\ PathMax \in Nat /\ UnderMax \in Nat
  /\ PageMax \in 1 .. LimitMax
  /\ EncodedMax >= 4 * ((UnderMax + 2) \div 3)

VARIABLES topic, left, right

textVars == <<topic, left, right>>

TextsInit == topic \in Topics /\ left = << >> /\ right = << >>

GrowLeft ==
  /\ Len(left) < Longest[topic][1]
  /\ \E b \in Bytes[topic][1] : left' = Append(left, b)
  /\ UNCHANGED <<topic, right>>

GrowRight ==
  /\ Len(right) < Longest[topic][2]
  /\ \E b \in Bytes[topic][2] : right' = Append(right, b)
  /\ UNCHANGED <<topic, left>>

TextsNext == GrowLeft \/ GrowRight
TextsSpec == TextsInit /\ [][TextsNext]_textVars

----------------------------------------------------------------------------
(* core/util.cpp                                                             *)

\* The text from its first byte that is not in S to its last.
Bare(s, S) ==
  LET kept == {i \in DOMAIN s : s[i] \notin S}
  IN  IF kept = {} THEN << >> ELSE SubSeq(s, Min(kept), Max(kept))

Trim(s) == Bare(s, Blanks)

\* Positions in ascending order.
Ascending(S) ==
  [k \in 1 .. Cardinality(S) |-> CHOOSE i \in S : Cardinality({j \in S : j < i}) = k - 1]

\* What is between the separators.
Pieces(s, sep) ==
  LET cuts == Ascending({i \in DOMAIN s : s[i] = sep} \cup {0, Len(s) + 1})
  IN  [k \in 1 .. Len(cuts) - 1 |-> SubSeq(s, cuts[k] + 1, cuts[k + 1] - 1)]

Split(s, sep, skip_empty) ==
  LET pieces == Pieces(s, sep)
      tokens == [k \in DOMAIN pieces |-> Trim(pieces[k])]
  IN  IF skip_empty THEN SelectSeq(tokens, LAMBDA t : t # << >>) ELSE tokens

StartsWith(s, prefix) == IsPrefix(prefix, s)

Joined(items, sep) ==
  LET put(out, s) == IF s = << >> THEN out ELSE IF out = << >> THEN s ELSE out \o sep \o s
  IN  FoldLeft(put, << >>, items)

JoinPath(a, b) ==
  IF a = << >> THEN b ELSE IF b = << >> THEN a
  ELSE IF Last(a) = Slash THEN a \o (IF Head(b) = Slash THEN Tail(b) ELSE b)
  ELSE a \o (IF Head(b) = Slash THEN b ELSE <<Slash>> \o b)

b64Value(c) ==
  CASE c \in 65 .. 90  -> c - 65
    [] c \in 97 .. 122 -> c - 71
    [] c \in 48 .. 57  -> c + 4
    [] c = 43          -> 62
    [] c = 47          -> 63
    [] OTHER           -> -1

kTable == [v \in 0 .. 63 |-> CHOOSE c \in 0 .. 127 : b64Value(c) = v]

\* Groups of n bytes, the last of which may be shorter.
Groups(s, n) ==
  [k \in 1 .. (Len(s) + n - 1) \div n |->
     SubSeq(s, n * (k - 1) + 1, IF n * k < Len(s) THEN n * k ELSE Len(s))]

EncodeGroup(g) ==
  LET byte(i) == IF i <= Len(g) THEN g[i] ELSE 0
      n == byte(1) * 2^16 + byte(2) * 2^8 + byte(3)
  IN  [k \in 1 .. 4 |-> IF k <= Len(g) + 1 THEN kTable[(n \div 64^(4 - k)) % 64] ELSE Equals]

Base64Encode(s) ==
  LET gs == Groups(s, 3) IN FlattenSeq([k \in DOMAIN gs |-> EncodeGroup(gs[k])])

\* The groups of an encoded text: padding at the end of the last only, and no
\* bits set that are not part of a byte.
Pads(g) == Len(SelectSeq(g, LAMBDA c : c = Equals))

\* Faulty: bits that are part of no byte are let pass.
AnyGroup(g, last) ==
  /\ \A k \in 1 .. 4 - Pads(g) : b64Value(g[k]) >= 0
  /\ Pads(g) <= IF last THEN 2 ELSE 0

GoodGroup(g, last) ==
  /\ \A k \in 1 .. 4 - Pads(g) : b64Value(g[k]) >= 0
  /\ Pads(g) <= IF last THEN 2 ELSE 0
  /\ Pads(g) = 1 => b64Value(g[3]) % 4 = 0
  /\ Pads(g) = 2 => b64Value(g[2]) % 16 = 0

DecodeGroup(g) ==
  LET v(k) == IF g[k] = Equals THEN 0 ELSE b64Value(g[k])
      n == v(1) * 2^18 + v(2) * 2^12 + v(3) * 2^6 + v(4)
  IN  SubSeq(<<n \div 2^16, (n \div 2^8) % 256, n % 256>>, 1, 3 - Pads(g))

\* {the decoded text}, or {} when it is refused.
Base64Decode(s) ==
  LET gs == Groups(s, 4)
      out == FlattenSeq([k \in DOMAIN gs |-> DecodeGroup(gs[k])])
  IN  IF /\ Len(s) <= EncodedMax /\ Len(s) % 4 = 0
         /\ \A k \in DOMAIN gs : GoodGroup(gs[k], k = Len(gs))
         /\ \A i \in DOMAIN out : out[i] # 0
      THEN {out} ELSE {}

\* Faulty: a comma is let pass.
AnyConfigPath(p) ==
  /\ p # << >> /\ Len(p) <= PathMax
  /\ Head(p) # Space /\ Last(p) # Space
  /\ \A i \in DOMAIN p : p[i] >= 32 /\ p[i] # 127

ValidConfigPath(p) ==
  /\ p # << >> /\ Len(p) <= PathMax
  /\ Head(p) # Space /\ Last(p) # Space
  /\ \A i \in DOMAIN p : p[i] # Comma /\ p[i] >= 32 /\ p[i] # 127

\* {the number}, or {}; it is compared with the bound after every digit.
ParseLimit(s) ==
  LET digit(v, c) == IF v = {} \/ c \notin Zero .. Zero + 9 THEN {}
                     ELSE {n \in {10 * Min(v) + c - Zero} : n <= LimitMax}
  IN  IF s = << >> THEN {} ELSE FoldLeft(digit, {0}, s)

\* The loop of globMatch: p and t are where it is in the pattern and the text,
\* star is the last * it has met (0: none), and mark is where that began.
Same(a, b) == Lower(a) = Lower(b)

\* Faulty: after a mismatch the text is not taken up again next to the mark.
GlobStepStuck(pattern, text, s) ==
  IF s.p <= Len(pattern) /\ (Same(pattern[s.p], text[s.t]) \/ pattern[s.p] = Query)
    THEN [s EXCEPT !.p = @ + 1, !.t = @ + 1]
  ELSE IF s.p <= Len(pattern) /\ pattern[s.p] = Star
    THEN [s EXCEPT !.p = @ + 1, !.star = s.p, !.mark = s.t]
  ELSE IF s.star # 0
    THEN [s EXCEPT !.p = s.star + 1, !.t = @ + 1]
  ELSE [s EXCEPT !.t = 0]

GlobStep(pattern, text, s) ==
  IF s.p <= Len(pattern) /\ (Same(pattern[s.p], text[s.t]) \/ pattern[s.p] = Query)
    THEN [s EXCEPT !.p = @ + 1, !.t = @ + 1]
  ELSE IF s.p <= Len(pattern) /\ pattern[s.p] = Star
    THEN [s EXCEPT !.p = @ + 1, !.star = s.p, !.mark = s.t]
  ELSE IF s.star # 0
    THEN [s EXCEPT !.p = s.star + 1, !.t = s.mark + 1, !.mark = @ + 1]
  ELSE [s EXCEPT !.t = 0]

GlobMatch(pattern, text) ==
  LET run[s \in [p : Nat, t : Nat, star : Nat, mark : Nat]] ==
        IF s.t \in DOMAIN text THEN run[GlobStep(pattern, text, s)] ELSE s
      end == run[[p |-> 1, t |-> 1, star |-> 0, mark |-> 0]]
  IN  end.t # 0 /\ \A i \in end.p .. Len(pattern) : pattern[i] = Star

----------------------------------------------------------------------------
(* ipc/proto.cpp                                                             *)

Letter == (Backslash :> Backslash) @@ (Tab :> 116) @@ (Newline :> 110) @@ (Return :> 114)

\* Faulty: a backslash in a name is sent as it is.
EscapeSome(s) ==
  FlattenSeq([i \in DOMAIN s |-> IF s[i] \in DOMAIN Letter \ {Backslash}
                                 THEN <<Backslash, Letter[s[i]]>> ELSE <<s[i]>>])

EscapeField(s) ==
  FlattenSeq([i \in DOMAIN s |-> IF s[i] \in DOMAIN Letter
                                 THEN <<Backslash, Letter[s[i]]>> ELSE <<s[i]>>])

UnescapeField(s) ==
  LET from[i \in Nat] ==
        IF i > Len(s) THEN << >>
        ELSE IF s[i] = Backslash /\ i < Len(s) /\ \E b \in DOMAIN Letter : Letter[b] = s[i + 1]
        THEN <<CHOOSE b \in DOMAIN Letter : Letter[b] = s[i + 1]>> \o from[i + 2]
        ELSE <<s[i]>> \o from[i + 1]
  IN  from[1]

\* The first n words, and what follows the blanks after them; {} if there are
\* fewer words.
Gap == {Space, Tab}
SplitHead(line, n) ==
  LET starts == Ascending({i \in DOMAIN line : line[i] \notin Gap
                             /\ (i = 1 \/ line[i - 1] \in Gap)})
      from(k) == IF k > Len(starts) THEN Len(line) + 1 ELSE starts[k]
      word(k) == Bare(SubSeq(line, from(k), from(k + 1) - 1), Gap)
  IN  IF Len(starts) < n THEN {}
      ELSE {[head |-> [k \in 1 .. n |-> word(k)], rest |-> SubSeq(line, from(n + 1), Len(line))]}

\* {the row}, or {} for a line with too few fields.
ParseResultLine(line) ==
  LET parts == Split(line, Tab, FALSE)
  IN  IF Len(parts) < 5 THEN {}
      ELSE {[path |-> parts[1], is_dir |-> parts[2] = <<One>>, size |-> parts[3],
             mtime |-> parts[4], path_matched |-> parts[5] = <<One>>]}

----------------------------------------------------------------------------
(* A search3 request and its reply, ipc/client.cpp and daemon/daemon.cpp.    *)

Flag(b) == IF b THEN <<One>> ELSE <<Zero>>
EndLine == <<69, 78, 68>>   \* END

Request(q) ==
  Joined(<< <<115>>, Decimal(q.limit), Flag(q.dirs_only), Flag(q.files_only), q.sort,
            IF q.under = << >> THEN <<Dash>> ELSE Base64Encode(q.under) >>, <<Space>>)
    \o <<Space>> \o q.query

\* {the text}, or {}; no control characters.
DecodeUnderToken(tok) ==
  IF tok = <<Dash>> THEN {<< >>}
  ELSE {u \in Base64Decode(tok) : \A i \in DOMAIN u : u[i] >= 32}

\* What buildSearch3Response makes of a request: {the query}, or {} for an error.
Understood(line) ==
  {[limit |-> l, dirs_only |-> h.head[3] = <<One>>, files_only |-> h.head[4] = <<One>>,
    sort |-> h.head[5], under |-> u, query |-> h.rest] :
     <<h, l, u>> \in UNION {{h} \X ParseLimit(h.head[2]) \X DecodeUnderToken(h.head[6]) :
                            h \in SplitHead(line, 6)}}

AppendRowsEscaped(rows) ==
  FlattenSeq([k \in DOMAIN rows |->
     Joined(<<EscapeField(rows[k].path), Flag(rows[k].is_dir), rows[k].size, rows[k].mtime,
              Flag(rows[k].path_matched)>>, <<Tab>>) \o <<Newline>>])

\* readResultRows: the lines up to END, those that are no rows left out.
ReadRows(reply) ==
  LET lines == Pieces(reply, Newline)
      end == Min({k \in DOMAIN lines : lines[k] = EndLine})
      rows(k) == {[r EXCEPT !.path = UnescapeField(@)] : r \in ParseResultLine(lines[k])}
  IN  FlattenSeq([k \in 1 .. end - 1 |-> SetToSeq(rows(k))])

----------------------------------------------------------------------------
(* The arguments of a tool call, parseSearchArgs of mcp/protocol.cpp.        *)

ClampLimit(v) == IF v < 1 THEN 1 ELSE IF v > PageMax THEN PageMax ELSE v

NoControl(s) == \A i \in DOMAIN s : s[i] >= 32
Regex == <<114, 101, 58>>   \* re:

GoodQuery(q) ==
  /\ Trim(q) # << >> /\ NoControl(q)
  /\ StartsWith(q, Regex) => Trim(SubSeq(q, 4, Len(q))) # << >>

GoodUnder(u) == Len(u) <= UnderMax /\ Head(u) = Slash /\ NoControl(u)

\* What doSearchEx asks the daemon for a page; {} if an argument is refused.
\* Without the argument under it is the empty text.
PageRequest(query, under, limit, offset) ==
  IF GoodQuery(query) /\ (under = << >> \/ GoodUnder(under))
  THEN {[limit |-> (IF offset < 0 THEN 0 ELSE offset) + ClampLimit(limit), dirs_only |-> FALSE,
         files_only |-> FALSE, sort |-> <<110>>, under |-> under, query |-> query]}
  ELSE {}

----------------------------------------------------------------------------
(* Subtrees, four times over.                                                *)

NormalizeUnder(in) ==
  LET u == IF in = <<Dash>> THEN << >> ELSE in
      kept == {i \in DOMAIN u : u[i] # Slash}
  IN  IF kept = {} THEN << >> ELSE SubSeq(u, 1, Max(kept))

UnderMatches(path, u) ==
  \/ u = << >> \/ path = u
  \/ Len(path) > Len(u) /\ StartsWith(path, u) /\ path[Len(u) + 1] = Slash

\* Index::removePathAndSubtree
InSubtree(path, root) == path = root \/ StartsWith(path, root \o <<Slash>>)

\* Config::isExcluded, for one exclude
IsExcluded(path, e) == e # << >> /\ (path = e \/ StartsWith(path, e \o <<Slash>>))

\* Faulty: _ is not escaped.
LikeEscapeSome(s) ==
  FlattenSeq([i \in DOMAIN s |-> IF s[i] \in {Backslash, Percent}
                                 THEN <<Backslash, s[i]>> ELSE <<s[i]>>])

LikeEscape(s) ==
  FlattenSeq([i \in DOMAIN s |-> IF s[i] \in {Backslash, Percent, Underscore}
                                 THEN <<Backslash, s[i]>> ELSE <<s[i]>>])

\* text LIKE pattern ESCAPE '\', which ignores the case of ASCII letters.
Like(text, pattern) ==
  LET m[i, j \in Nat] ==  \* from pattern[i] and text[j] on
        IF i > Len(pattern) THEN j > Len(text)
        ELSE IF pattern[i] = Percent THEN \E k \in j .. Len(text) + 1 : m[i + 1, k]
        ELSE /\ j <= Len(text)
             /\ IF pattern[i] = Backslash
                THEN i < Len(pattern) /\ Same(pattern[i + 1], text[j]) /\ m[i + 2, j + 1]
                ELSE (pattern[i] = Underscore \/ Same(pattern[i], text[j])) /\ m[i + 1, j + 1]
  IN  m[1, 1]

\* Db::removeSubtree
RemovedRow(path, root) == path = root \/ Like(path, LikeEscape(root) \o <<Slash, Percent>>)

----------------------------------------------------------------------------
(* core/config.cpp: the line of a list in the file.                          *)

PathsLine(paths) == <<112, Space, Equals, Space>> \o Joined(paths, <<Comma>>)

\* {the list}, or {} for a line that sets nothing.
LoadLine(line) ==
  LET t == Trim(line)
      eqs == {i \in DOMAIN t : t[i] = Equals}
  IN  IF eqs = {} \/ t[1] = 35 THEN {}
      ELSE {Split(Trim(SubSeq(t, Min(eqs) + 1, Len(t))), Comma, TRUE)}

----------------------------------------------------------------------------
(* Properties.                                                               *)

\* Every variable has a value of its kind.
TextsTypeOK ==
  /\ topic \in Topics
  /\ left \in Seq(0 .. 255) /\ Len(left) <= Longest[topic][1]
  /\ right \in Seq(0 .. 255) /\ Len(right) <= Longest[topic][2]

Row(path, d) == [path |-> <<Slash>> \o path, is_dir |-> d, size |-> <<One>>,
                 mtime |-> <<Zero>>, path_matched |-> FALSE]

Reply(rows) == AppendRowsEscaped(rows) \o EndLine \o <<Newline>>

\* Whatever bytes are in the names, two rows of a search3 reply are read back as
\* the two rows, neither more nor others, if no name ends with a space
\* (escapeField, parseResultLine, unescapeField).
RowsArrive ==
  topic = "rows" =>
    LET rows == <<Row(left, TRUE), Row(right, FALSE)>>
    IN  Last(rows[1].path) # Space /\ Last(rows[2].path) # Space => ReadRows(Reply(rows)) = rows

FromWord(s) ==
  LET words == {i \in DOMAIN s : s[i] \notin Gap}
  IN  IF words = {} THEN << >> ELSE SubSeq(s, Min(words), Len(s))

\* A request is understood as it was meant: under and query of any bytes but
\* control characters, any limit that is allowed and no other.  What is before
\* the query's first word is lost; an under of "-" or with control characters
\* is never taken for another.
RequestsArrive ==
  topic = "request" =>
    \A l \in {0, LimitMax, LimitMax + 1}, d \in BOOLEAN :
      LET q == [limit |-> l, dirs_only |-> d, files_only |-> ~d, sort |-> <<110>>,
                under |-> left, query |-> right]
      IN  Understood(Request(q)) =
            IF l <= LimitMax /\ \A i \in DOMAIN left : left[i] >= 32
            THEN {[q EXCEPT !.query = FromWord(right)]} ELSE {}

\* A token that is accepted is the one base64Encode writes for its text: no
\* text has two, and no token is accepted that is cut short or padded wrongly.
TokensStrict == topic = "token" => \A u \in Base64Decode(left) : Base64Encode(u) = left

\* What parseSearchArgs lets pass, the daemon takes for the same question; if
\* offset + limit is above kLimitMax it refuses it, and takes it for no other.
Asks(limit, offset) == PageRequest(right, left, limit, offset)
ArgumentsArrive ==
  topic = "request" =>
    \A limit \in {-1, 1, PageMax + 1}, offset \in {-1, 0, LimitMax - PageMax, LimitMax} :
      \A q \in Asks(limit, offset) :
        Understood(Request(q)) =
          IF q.limit <= LimitMax THEN {[q EXCEPT !.query = FromWord(@)]} ELSE {}

\* What a pattern means: * stands for any text, ? for any one character.
Means(pattern, text) ==
  LET m[i, j \in Nat] ==
        IF i > Len(pattern) THEN j > Len(text)
        ELSE IF pattern[i] = Star THEN \E k \in j .. Len(text) + 1 : m[i + 1, k]
        ELSE /\ j <= Len(text) /\ (pattern[i] = Query \/ Same(pattern[i], text[j]))
             /\ m[i + 1, j + 1]
  IN  m[1, 1]

\* The loop with one mark finds a match whenever there is one, in names without
\* a star: it is enough to go back to the last star.
GlobRight ==
  topic = "glob" /\ (\A i \in DOMAIN right : right[i] # Star)
    => (GlobMatch(left, right) <=> Means(left, right))

\* What remove-path takes out of the index and out of the table, what an exclude
\* keeps out, and what a search with under finds, is the same subtree, whatever
\* characters of LIKE are in the path; and it has all the scan finds in it.  The
\* letters are of one case and the root does not end with a slash.
SubtreesAgree ==
  topic = "tree" /\ left # << >> /\ Last(left) # Slash =>
    LET root == <<Slash>> \o left
        path == <<Slash>> \o right
        within == InSubtree(path, root)
    IN  /\ RemovedRow(path, root) <=> within
        /\ IsExcluded(path, root) <=> within
        /\ UnderMatches(path, NormalizeUnder(root)) <=> within
        /\ right # << >> => InSubtree(JoinPath(root, right), root)

Survives(paths) ==
  LoadLine(PathsLine(paths)) = {paths} /\ Split(Joined(paths, <<Comma>>), Comma, TRUE) = paths

AllValid(paths) == \A k \in DOMAIN paths : ValidConfigPath(paths[k])

\* A list of roots that add-path or set-paths has accepted is what the next
\* start loads, and what a front end reads with get-config and sends back.
ListsSurvive ==
  topic = "list" =>
    /\ AllValid(<<left, right>>) => Survives(<<left, right>>)
    /\ LET v == Split(left, Comma, TRUE) IN v # << >> /\ AllValid(v) => Survives(v)

\* Well-formed UTF-8 (Unicode, table 3-7).
IsUtf8(s) ==
  LET tail == 128 .. 191
      from[i \in Nat] ==
        LET is(n, second) == /\ i + n - 1 <= Len(s) /\ s[i + 1] \in second
                             /\ \A k \in i + 2 .. i + n - 1 : s[k] \in tail
                             /\ from[i + n]
        IN  IF i > Len(s) THEN TRUE
            ELSE CASE s[i] < 128         -> from[i + 1]
                   [] s[i] \in 194 .. 223 -> is(2, tail)
                   [] s[i] = 224         -> is(3, 160 .. 191)
                   [] s[i] = 237         -> is(3, 128 .. 159)
                   [] s[i] \in 225 .. 239 \ {237} -> is(3, tail)
                   [] s[i] = 240         -> is(4, 144 .. 191)
                   [] s[i] \in 241 .. 243 -> is(4, tail)
                   [] s[i] = 244         -> is(4, 128 .. 143)
                   [] OTHER              -> FALSE
  IN  from[1]

InAscii(s) == SelectSeq(s, LAMBDA b : b < 128)

\* Whatever bytes are in a name, its JSON string is one line of UTF-8 and is read
\* back as the name, but for bytes that are no UTF-8 (comment at json.h:3).
StringsArrive ==
  topic = "string" =>
    LET line == Quoted(left)
    IN  /\ IsUtf8(line) /\ \A i \in DOMAIN line : line[i] >= 32
        /\ Cardinality(Parse(line)) = 1
        /\ \A v \in Parse(line) : /\ v[1] = "str" /\ IsUtf8(v[2]) /\ InAscii(v[2]) = InAscii(left)
                                  /\ IsUtf8(left) => v[2] = left

\* Two escapes with four digits each are one character if they are the halves of
\* a pair, and two otherwise; a half on its own becomes U+FFFD, and what is
\* short of digits is refused.
EscapesArrive ==
  topic = "escape" =>
    LET unit(k) == Min(ReadHex4(left, k))
        alone(u) == AppendUtf8(IF IsHigh(u) \/ IsLow(u) THEN kReplacement ELSE u)
        escapes == Groups(left, 4)
        text == <<DoubleQuote>>
                  \o FlattenSeq([k \in DOMAIN escapes |-> <<Backslash, 117>> \o escapes[k]])
                  \o <<DoubleQuote>>
    IN  IF Len(left) % 4 # 0 THEN Parse(text) = {}
        ELSE Len(left) = 8 =>
             /\ Parse(text) = {<<"str", IF IsHigh(unit(1)) /\ IsLow(unit(5))
                                       THEN AppendUtf8(65536 + (unit(1) % 1024) * 1024 + (unit(5) % 1024))
                                       ELSE alone(unit(1)) \o alone(unit(5))>>}
             /\ \A v \in Parse(text) : IsUtf8(v[2])

\* k stands for a name and its colon.
Spelled(s) == FlattenSeq([i \in DOMAIN s |-> IF s[i] = 107 THEN <<DoubleQuote, DoubleQuote, Colon>>
                                                         ELSE <<s[i]>>])

\* The number a value is; there is no -0 among them.
Value(v) ==
  LET d == IF v[1] = "int" THEN Strtod(v[2]) ELSE v[2]
  IN  [d EXCEPT !.neg = @ /\ d.digits # << >>]

\* What was read is written so that it is read as the same, as the id of a
\* request is: a number keeps its value, but a double that is integral and below
\* 10^17 comes back as an integer; and no message that is cut short is taken for
\* a message.
MessagesArrive ==
  topic \in {"message", "number"} =>
    LET text == Spelled(left)
        integral(d) == d.digits = << >> \/ d.exp \in Len(d.digits) - 1 .. 16
    IN  \A v \in Parse(text) :
          /\ Cardinality(Parse(Dump(v))) = 1
          /\ \A w \in Parse(Dump(v)) :
               IF v[1] = "num" THEN Value(w) = Value(v) /\ (w[1] = "int" <=> integral(v[2]))
                               ELSE w = v
          /\ v[1] \in {"arr", "obj"} => \A n \in 0 .. Len(text) - 1 : Parse(SubSeq(text, 1, n)) = {}

\* What is sent or saved in a line arrives.
LinesFaithful ==
  /\ RowsArrive /\ RequestsArrive /\ ArgumentsArrive /\ TokensStrict /\ ListsSurvive
  /\ StringsArrive /\ EscapesArrive /\ MessagesArrive

\* The rows without the exception for a space at the end.  Fails: split trims
\* every field.
RowsAreByteExact ==
  topic = "rows" =>
    LET rows == <<Row(left, TRUE), Row(right, FALSE)>> IN ReadRows(Reply(rows)) = rows

\* The same of any offset, of which none is refused.  Fails: offset + limit is
\* above kLimitMax, and the answer to ERR bad limit is that the daemon is
\* unavailable.
AnyOffsetIsUnderstood ==
  topic = "request" => \A q \in Asks(1, LimitMax) : Understood(Request(q)) # {}

\* * stands for any text (comment at util.cpp:285).  Fails for a name with a
\* star in it, to which a star of the pattern is compared as a letter first.
StarIsAnyText == topic = "glob" => (GlobMatch(left, right) <=> Means(left, right))

\* A root that was accepted can be removed from the index again.  Fails for one
\* that ends with a slash.
RootsCanBeRemoved ==
  topic = "tree" =>
    LET root == <<Slash>> \o left
    IN  ValidConfigPath(root) /\ right # << >> => InSubtree(JoinPath(root, right), root)
============================================================================
