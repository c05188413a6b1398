------------------------------ MODULE MCQuery ------------------------------
(* What answers a query: its texts (module Texts), the scan (SearchScan) and *)
(* the pages cut from it (Paging), one of the three in each behaviour.       *)
EXTENDS SearchScan, Paging, Texts

VARIABLE part

allVars == <<vars, pagingVars, textVars, part>>

MCInit ==
  /\ Init /\ PagingInit /\ TextsInit
  /\ part \in {"scan", "pages", "texts"}
  /\ part # "scan" => query = <<"search", 0, {}>>
  /\ part # "pages" => m = 0 /\ ~exact
  /\ part # "texts" => topic = "rows"

ScanStep  == part = "scan" /\ Next /\ UNCHANGED <<pagingVars, textVars, part>>
PageStep  == part = "pages" /\ Turn /\ UNCHANGED <<vars, textVars, part>>
TextStep  == part = "texts" /\ TextsNext /\ UNCHANGED <<vars, pagingVars, part>>

\* Readers and texts may stop; the workers may not.
Stop == part # "scan" /\ UNCHANGED allVars

MCNext == ScanStep \/ PageStep \/ TextStep \/ Stop
MCSpec == MCInit /\ [][MCNext]_allVars

\* The order asked for: neither that of the positions nor its reverse.
MCRank == [i \in Positions |-> CASE i = 0 -> 3 [] i = 1 -> 0 [] i = 2 -> 2 [] i = 3 -> 1 [] OTHER -> i]

\* The bytes and lengths of each topic's two texts.
a == 97
b == 98
n == 110
A == 65
MCBytes ==
  [t \in Topics |->
     CASE t = "rows"    -> << {Backslash, Tab, Newline, n, Space}, {Backslash, Newline, n} >>
       [] t = "request" -> << {Slash, Dash, Tab, 255}, {Space, Dash, a} >>
       [] t = "token"   -> << {A, A + 1, Equals}, {} >>
       [] t = "glob"    -> << {Star, Query, a, b}, {a, b} >>
       [] t = "tree"    -> << {Slash, a, Percent, Underscore, Backslash}, {Slash, a, Underscore} >>
       [] t = "list"    -> << {Slash, Comma, Space, Equals, Tab, a}, {Slash, Comma, a} >>
       [] t = "string"  -> << {DoubleQuote, Backslash, Newline, 1, a, 193, 194, 224, 237, 240, 244,
                               128, 144, 160}, {} >>
       [] t = "escape"  -> << {68, 56, 99, Zero}, {} >>
       [] t = "message" -> << {91, 93, 123, 125, Comma, 107, One}, {} >>
       [] t = "number"  -> << {Dash, Zero, One, 55, Dot, 101, Plus}, {} >>]
MCLongest ==
  [t \in Topics |->
     CASE t = "rows" -> <<4, 3>> [] t = "request" -> <<4, 2>> [] t = "token" -> <<8, 0>>
       [] t = "glob" -> <<5, 5>> [] t = "tree" -> <<4, 4>> [] t = "list" -> <<4, 2>>
       [] t = "string" -> <<4, 0>> [] t = "escape" -> <<8, 0>> [] t = "message" -> <<6, 0>>
       [] t = "number" -> <<6, 0>>]

\* Names with a star, and paths that differ in case.
MCMoreBytes ==
  [MCBytes EXCEPT !["glob"][2] = @ \cup {Star}, !["tree"] = << {Slash, a}, {Slash, a, A} >>]
=============================================================================
