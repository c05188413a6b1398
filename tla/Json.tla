-------------------------------- MODULE Json --------------------------------
(* mcp/json.cpp: the messages of the MCP server and the answers of the D-Bus *)
(* service.  A text is a sequence of bytes, a value is <<"null">>, <<"bool", *)
(* b>>, <<"int", its digits>>, <<"num", double>>, <<"str", text>>, <<"arr",  *)
(* values>> or <<"obj", <<name, value>>s>>.  What is refused is {}, why is   *)
(* left out.                                                                 *)
(*                                                                           *)
(* A double is a decimal: [neg |-> its sign, digits |-> d1 d2 ..., exp |->   *)
(* the power of ten of d1], neither first nor last digit 0, no digits for    *)
(* zero.  The decimals that are read have few digits, and no two of them are *)
(* one double.  %.17g has more digits where a double is not the decimal it   *)
(* was read from (0.1 is 0.10000000000000001): another text of that double.  *)
(* Integers beyond 64 bits are left out.                                     *)
EXTENDS Integers, Sequences, SequencesExt, FiniteSetsExt

CONSTANT MaxDepth  \* kMaxDepth, 128

----------------------------------------------------------------------------
(* The bytes texts are made of, here and in module Texts.                    *)

Backspace   == 8
Tab         == 9
Newline     == 10
FormFeed    == 12
Return      == 13
Space       == 32
DoubleQuote == 34
Percent     == 37
Star        == 42
Plus        == 43
Comma       == 44
Dash        == 45
Dot         == 46
Slash       == 47
Zero        == 48
One         == 49
Colon       == 58
Equals      == 61
Query       == 63
Backslash   == 92
Underscore  == 95

IsDigit(c) == c \in Zero .. Zero + 9

\* What trim and skipWs skip.
Blanks == {Space, Tab, Return, Newline}

Lower(b) == IF b \in 65 .. 90 THEN b + 32 ELSE b

----------------------------------------------------------------------------
(* UTF-8                                                                     *)

utf8SeqLen(b) ==
  CASE b < 128 -> 1 [] b \in 192 .. 223 -> 2 [] b \in 224 .. 239 -> 3
    [] b \in 240 .. 247 -> 4 [] OTHER -> 0

\* Not too long for its number, no half of a pair, not beyond Unicode.
utf8Valid(s, i, len) ==
  /\ i + len - 1 <= Len(s)
  /\ \A k \in 1 .. len - 1 : s[i + k] \in 128 .. 191
  /\ LET put(n, b) == 64 * n + b - 128
         cp == FoldLeft(put, s[i] % 2^(7 - len), SubSeq(s, i + 1, i + len - 1))
     IN  CASE len = 2 -> cp >= 128
           [] len = 3 -> cp >= 2048 /\ cp \notin 55296 .. 57343
           [] len = 4 -> cp \in 65536 .. 1114111

AppendUtf8(cp) ==
  LET low(n) == [k \in 1 .. n |-> 128 + ((cp \div 64^(n - k)) % 64)]
  IN  CASE cp <= 127   -> <<cp>>
        [] cp \in 128 .. 2047    -> <<192 + cp \div 64>> \o low(1)
        [] cp \in 2048 .. 65535  -> <<224 + cp \div 64^2>> \o low(2)
        [] cp > 65535  -> <<240 + cp \div 64^3>> \o low(3)

kReplacement == 65533

----------------------------------------------------------------------------
(* Strings                                                                   *)

Short ==
  (DoubleQuote :> DoubleQuote) @@ (Backslash :> Backslash) @@ (Backspace :> 98)
    @@ (FormFeed :> 102) @@ (Newline :> 110) @@ (Return :> 114) @@ (Tab :> 116)

\* Faulty: only what has a short form is escaped.
EscapedShort(c) == IF c \in DOMAIN Short THEN <<Backslash, Short[c]>> ELSE <<c>>

HexDigit(n) == IF n < 10 THEN Zero + n ELSE 87 + n

Escaped(c) ==
  IF c \in DOMAIN Short THEN <<Backslash, Short[c]>>
  ELSE IF c < 32 THEN <<Backslash, 117, Zero, Zero, HexDigit(c \div 16), HexDigit(c % 16)>>
  ELSE <<c>>

\* A byte that is part of no valid sequence becomes U+FFFD.
jsonEscape(raw) ==
  LET from[i \in Nat] ==
        LET len == utf8SeqLen(raw[i])
        IN  IF i > Len(raw) THEN << >>
            ELSE IF len = 1 THEN Escaped(raw[i]) \o from[i + 1]
            ELSE IF len > 1 /\ utf8Valid(raw, i, len)
            THEN SubSeq(raw, i, i + len - 1) \o from[i + len]
            ELSE AppendUtf8(kReplacement) \o from[i + 1]
  IN  from[1]

hexVal(c) ==
  CASE c \in 48 .. 57 -> c - 48 [] c \in 97 .. 102 -> c - 87 [] c \in 65 .. 70 -> c - 55
    [] OTHER -> -1

ReadHex4(s, i) ==
  IF i + 3 <= Len(s) /\ \A k \in i .. i + 3 : hexVal(s[k]) >= 0
  THEN LET put(n, c) == 16 * n + hexVal(c) IN {FoldLeft(put, 0, SubSeq(s, i, i + 3))}
  ELSE {}

\* What is read at i: where it ends, and what it is.
Read1(at, val) == {[at |-> at, val |-> val]}

IsHigh(cp) == cp \in 55296 .. 56319
IsLow(cp)  == cp \in 56320 .. 57343

\* lit is at i.
Has(s, i, lit) == i + Len(lit) - 1 <= Len(s) /\ SubSeq(s, i, i + Len(lit) - 1) = lit

\* Faulty: whether it is a second half is not looked at.
AnyPair(s, i, hi) ==
  IF IsHigh(hi) /\ Has(s, i, <<Backslash, 117>>) THEN ReadHex4(s, i + 2) ELSE {}

\* The second half of a pair, if it follows.
PairedWith(s, i, hi) ==
  IF IsHigh(hi) /\ Has(s, i, <<Backslash, 117>>)
  THEN {lo \in ReadHex4(s, i + 2) : IsLow(lo)} ELSE {}

\* \u and four digits at i, or two of them for a pair; a half becomes U+FFFD.
Unicode(s, i) ==
  UNION { LET pair == PairedWith(s, i + 6, cp)
          IN  IF pair # {}
              THEN Read1(i + 12, AppendUtf8(65536 + (cp - 55296) * 1024 + Min(pair) - 56320))
              ELSE Read1(i + 6, AppendUtf8(IF IsHigh(cp) \/ IsLow(cp) THEN kReplacement ELSE cp))
          : cp \in ReadHex4(s, i + 2) }

Unescape(s, i) ==
  LET e == IF i < Len(s) THEN s[i + 1] ELSE 0
  IN  IF e = Slash THEN Read1(i + 2, <<Slash>>)
      ELSE IF e = 117 THEN Unicode(s, i)
      ELSE UNION {Read1(i + 2, <<c>>) : c \in {c \in DOMAIN Short : Short[c] = e}}

\* The string whose first quote is at i.
ParseString(s, i) ==
  LET from[k \in Nat] ==
        LET rest(at, text) == {[r EXCEPT !.val = text \o @] : r \in from[at]}
        IN  IF k > Len(s) THEN {}
            ELSE IF s[k] = DoubleQuote THEN Read1(k + 1, << >>)
            ELSE IF s[k] = Backslash THEN UNION {rest(e.at, e.val) : e \in Unescape(s, k)}
            ELSE IF s[k] < 32 THEN {}
            ELSE rest(k + 1, <<s[k]>>)
  IN  IF i <= Len(s) /\ s[i] = DoubleQuote THEN from[i + 1] ELSE {}

----------------------------------------------------------------------------
(* Numbers                                                                   *)

\* The byte at i, -1 behind the end.
ByteAt(s, i) == IF i \in DOMAIN s THEN s[i] ELSE -1

\* Where the digits that must be at i end.
SomeDigits(s, i) ==
  IF IsDigit(ByteAt(s, i))
  THEN {Min({k \in i + 1 .. Len(s) + 1 : ~IsDigit(ByteAt(s, k))})} ELSE {}

Fraction(s, i) == IF ByteAt(s, i) = Dot THEN SomeDigits(s, i + 1) ELSE {i}
Exponent(s, i) ==
  IF ByteAt(s, i) \in {69, 101}
  THEN SomeDigits(s, IF ByteAt(s, i + 1) \in {Plus, Dash} THEN i + 2 ELSE i + 1) ELSE {i}

Digits(s) == SelectSeq(s, IsDigit)

\* The digits without the zeros before them, one of which is left if there is
\* nothing else.
NoZeros(digits) ==
  LET kept == {k \in DOMAIN digits : digits[k] # Zero} \cup {Len(digits)}
  IN  SubSeq(digits, Min(kept), Len(digits))

\* std::to_string of what strtoll reads: there is no -0.
Strtoll(tok) ==
  LET n == NoZeros(Digits(tok))
  IN  IF tok[1] = Dash /\ n # <<Zero>> THEN <<Dash>> \o n ELSE n

\* What is too small for a double is zero.
Strtod(tok) ==
  LET put(n, c) == 10 * n + c - Zero
      e == Min({k \in DOMAIN tok : tok[k] \in {69, 101}} \cup {Len(tok) + 1})
      power == FoldLeft(put, 0, Digits(SubSeq(tok, e, Len(tok))))
      digits == Digits(SubSeq(tok, 1, e - 1))
      point == Min({k \in DOMAIN tok : tok[k] = Dot} \cup {e})
      kept == {k \in DOMAIN digits : digits[k] # Zero}
      exp == Len(Digits(SubSeq(tok, 1, point - 1))) - Min(kept)
               + IF ByteAt(tok, e + 1) = Dash THEN -power ELSE power
  IN  IF kept = {} \/ exp < -323 THEN [neg |-> tok[1] = Dash, digits |-> << >>, exp |-> 0]
      ELSE [neg |-> tok[1] = Dash, digits |-> SubSeq(digits, Min(kept), Max(kept)), exp |-> exp]

\* {the value}, or {} for one that is too large for a double.
Number(tok) ==
  IF \A k \in DOMAIN tok : tok[k] = Dash \/ IsDigit(tok[k]) THEN {<<"int", Strtoll(tok)>>}
  ELSE {<<"num", d>> : d \in {d \in {Strtod(tok)} : d.exp <= 308}}

ParseNumber(s, i) ==
  LET ends == UNION {UNION {Exponent(s, f) : f \in Fraction(s, w)} :
                     w \in SomeDigits(s, IF s[i] = Dash THEN i + 1 ELSE i)}
  IN  UNION {UNION {Read1(e, v) : v \in Number(SubSeq(s, i, e - 1))} : e \in ends}

Decimal(n) ==
  LET digits[k \in Nat] == IF k < 10 THEN <<Zero + k>> ELSE Append(digits[k \div 10], Zero + (k % 10))
  IN  digits[n]

Zeros(n) == [k \in 1 .. n |-> Zero]

\* The digits with a point behind the first n, filled up with zeros before it.
WithPoint(digits, n) ==
  IF Len(digits) <= n THEN digits \o Zeros(n - Len(digits))
  ELSE SubSeq(digits, 1, n) \o <<Dot>> \o SubSeq(digits, n + 1, Len(digits))

\* %.17g: an integral double has no point, unless it is 10^17 or above.
Printed(d) ==
  LET size == IF d.exp < 0 THEN -d.exp ELSE d.exp
  IN  (IF d.neg THEN <<Dash>> ELSE << >>) \o
      CASE d.digits = << >>   -> <<Zero>>
        [] d.exp \in 0 .. 16  -> WithPoint(d.digits, d.exp + 1)
        [] d.exp \in -4 .. -1 -> WithPoint(Zeros(size) \o d.digits, 1)
        [] OTHER -> WithPoint(d.digits, 1) \o <<101, IF d.exp < 0 THEN Dash ELSE Plus>>
                      \o (IF size < 10 THEN <<Zero>> ELSE << >>) \o Decimal(size)

----------------------------------------------------------------------------
(* Values                                                                    *)

Null  == <<110, 117, 108, 108>>
True  == <<116, 114, 117, 101>>
False == <<102, 97, 108, 115, 101>>

Literal(s, i, lit, v) == IF Has(s, i, lit) THEN Read1(i + Len(lit), v) ELSE {}

SkipWs(s, i) == Min({k \in i .. Len(s) + 1 : ByteAt(s, k) \notin Blanks})

\* The last value of a name counts, at the place of the first.
Set(obj, kv) ==
  IF \E k \in DOMAIN obj : obj[k][1] = kv[1]
  THEN [k \in DOMAIN obj |-> IF obj[k][1] = kv[1] THEN kv ELSE obj[k]]
  ELSE Append(obj, kv)

\* What is read of a kind at i, by p: p["value", ...] is parseValue, p["arr", ...]
\* and p["obj", ...] are what is left of the members, the first or not.

\* The member at i: a value, in an object after its name.
Member(p, s, what, i, depth) ==
  IF what = "arr" THEN p["value", i, depth + 1, TRUE]
  ELSE UNION { LET colon == SkipWs(s, n.at)
               IN  IF ByteAt(s, colon) # Colon THEN {}
                   ELSE {[v EXCEPT !.val = <<n.val, @>>] : v \in p["value", colon + 1, depth + 1, TRUE]}
               : n \in ParseString(s, i) }

\* The loops of parseArray and parseObject.
ParseMembers(p, s, what, i, depth, first) ==
  LET k == SkipWs(s, i)
      close == IF what = "arr" THEN 93 ELSE 125
      more(m) ==  \* what follows the member m
        LET e == SkipWs(s, m.at)
        IN  IF ByteAt(s, e) = close THEN Read1(e + 1, <<m.val>>)
            ELSE IF ByteAt(s, e) = Comma
            THEN {[r EXCEPT !.val = <<m.val>> \o @] : r \in p[what, e + 1, depth, FALSE]}
            ELSE {}
  IN  IF first /\ ByteAt(s, k) = close THEN Read1(k + 1, << >>)
      ELSE UNION {more(m) : m \in Member(p, s, what, k, depth)}

ParseValue(p, s, i, depth) ==
  LET k == SkipWs(s, i)
      c == ByteAt(s, k)
      all(what, v(_)) == {[r EXCEPT !.val = <<what, v(@)>>] : r \in p[what, k + 1, depth, TRUE]}
  IN  IF depth > MaxDepth THEN {}
      ELSE CASE c = 123 -> all("obj", LAMBDA members : FoldLeft(Set, << >>, members))
             [] c = 91  -> all("arr", LAMBDA values : values)
             [] c = DoubleQuote -> {[r EXCEPT !.val = <<"str", @>>] : r \in ParseString(s, k)}
             [] c = 116 -> Literal(s, k, True, <<"bool", TRUE>>)
             [] c = 102 -> Literal(s, k, False, <<"bool", FALSE>>)
             [] c = 110 -> Literal(s, k, Null, <<"null">>)
             [] c = Dash \/ IsDigit(c) -> ParseNumber(s, k)
             [] OTHER -> {}

ParseAt(s) ==
  LET p[what \in {"value", "arr", "obj"}, i \in Nat, depth \in Nat, first \in BOOLEAN] ==
        IF what = "value" THEN ParseValue(p, s, i, depth)
        ELSE ParseMembers(p, s, what, i, depth, first)
  IN  p["value", 1, 0, TRUE]

\* {the value}, or {}.
Parse(s) == {r.val : r \in {r \in ParseAt(s) : SkipWs(s, r.at) = Len(s) + 1}}

Quoted(s) == <<DoubleQuote>> \o jsonEscape(s) \o <<DoubleQuote>>

\* With commas between.
Listed(texts) ==
  FlattenSeq([k \in DOMAIN texts |-> IF k = 1 THEN texts[k] ELSE <<Comma>> \o texts[k]])

RECURSIVE Dump(_)
Dump(v) ==
  CASE v[1] = "null" -> Null
    [] v[1] = "bool" -> IF v[2] THEN True ELSE False
    [] v[1] = "int"  -> v[2]
    [] v[1] = "num"  -> Printed(v[2])
    [] v[1] = "str"  -> Quoted(v[2])
    [] v[1] = "arr"  -> <<91>> \o Listed([k \in DOMAIN v[2] |-> Dump(v[2][k])]) \o <<93>>
    [] v[1] = "obj"  ->
         LET member(kv) == Quoted(kv[1]) \o <<Colon>> \o Dump(kv[2])
         IN  <<123>> \o Listed([k \in DOMAIN v[2] |-> member(v[2][k])]) \o <<125>>
============================================================================
