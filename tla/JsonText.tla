------------------------------- MODULE JsonText -------------------------------
(***************************************************************************)
(* JSON text as jansson reads and writes it (load.c, dump.c): what          *)
(* json_loads and json_load_file make of a sequence of octets, and which    *)
(* octets json_dumps and json_dump_file write for a value, write by write.  *)
(* The caches, the city files and every answer of the server pass through   *)
(* both.  The program dumps with JSON_INDENT and loads with no flags.       *)
(*                                                                          *)
(* A value is <<type, content>>: of a string its octets, of an              *)
(* array the sequence of its items, of an object the sequence of its        *)
(* entries in the order of their insertion, of an integer a number, of a    *)
(* real the decimal fraction <<m, e>> that stands for the double nearest to *)
(* m * 10^e, without trailing zeros in m; no m has more than Precision      *)
(* digits, and those tell all doubles apart.  Zero has no sign.  Text holds *)
(* no NUL, which would end a string that is loaded; JsonStream has what one *)
(* does in a file.                                                          *)
(*                                                                          *)
(* Documents are trees here: JsonValue has the loops, which a dump refuses. *)
(* The parser is recursive, so are its operators.                           *)
(***************************************************************************)
EXTENDS Pointers, Utf8

CONSTANTS
  Documents,     \* the values that are dumped
  Pieces,        \* the octets that an upstream server sends at a time, for
                 \* each kind of server a set
  MaxPieces,     \* bound on the pieces of an answer, for each kind
  MaxDepth,      \* JSON_PARSER_MAX_DEPTH
  MaxInteger,    \* the largest integer; the smallest is -MaxInteger - 1
  MaxExponent,   \* a real with a larger exponent is infinite, one with an
                 \* exponent below -MaxExponent zero
  Precision,     \* of the %g that writes a real: 17
  Indent         \* JSON_INDENT

ASSUME TextAssumption ==
  /\ DOMAIN Pieces = DOMAIN MaxPieces /\ "none" \notin DOMAIN Pieces
  /\ Range(MaxPieces) \cup {MaxDepth, MaxInteger} \subseteq Nat
  /\ MaxExponent \in Nat
  /\ {Precision, Indent} \subseteq Nat \ {0}

VARIABLES
  upstream,   \* the kind of server that sends; "none": a document is dumped
  text,       \* the octets that are in the file or have arrived
  document,   \* what is dumped into it
  unwritten,  \* the octets that the dump has still to write
  failure,    \* the write of the dump that fails, 0: none
  pieces      \* how many pieces have arrived

vars == <<upstream, text, document, unwritten, failure, pieces>>

-----------------------------------------------------------------------------
Tab == 9
Space == 32
Quote == 34
Plus == 43
Comma == 44
Minus == 45
Point == 46
Zero == 48
Colon == 58
Backslash == 92
LowerE == 101
LowerU == 117

EndOfFile == -1

Blank == {Space, Tab, Newline, 13}

Digit == 48..57

Alpha == 65..90 \cup 97..122

HexDigit == Digit \cup 65..70 \cup 97..102

Control == 0..31

Punctuation ==
  {<<123, "{">>, <<125, "}">>, <<91, "[">>, <<93, "]">>,
   <<Colon, ":">>, <<Comma, ",">>}

Words ==
  [true  |-> <<116, 114, 117, 101>>,
   false |-> <<102, 97, 108, 115, 101>>,
   null  |-> <<110, 117, 108, 108>>]

(* The octet after a backslash, and the one that both stand for.            *)
Escapes ==
  {<<Quote, Quote>>, <<Backslash, Backslash>>, <<47, 47>>, <<98, 8>>,
   <<102, 12>>, <<110, Newline>>, <<114, 13>>, <<116, Tab>>}

At(t, i) == IF i <= Len(t) THEN t[i] ELSE EndOfFile

(* The first place from i on where there is none of the octets of S.        *)
Past(t, i, S) ==
  LET j == SelectInSubSeq(t, i, Len(t), LAMBDA c : c \notin S)
  IN IF j = 0 THEN Len(t) + 1 ELSE j

Value(type, value) == <<type, value>>

Type(v) == v[1]

Content(v) == v[2]

-----------------------------------------------------------------------------
(* The lexer: a token begins at a place of the text, and next is the place  *)
(* after it.                                                                *)
Token(token, value, next) == [token |-> token, value |-> value, next |-> next]

Invalid(i) == Token("invalid", NULL, i)

HexValue(c) ==
  CASE c \in Digit -> c - 48 [] c \in 65..70 -> c - 55 [] OTHER -> c - 87

(* A \uXXXX at i: its number, or -1 when it is none.                        *)
decode_unicode_escape(t, i) ==
  IF /\ At(t, i) = Backslash
     /\ At(t, i + 1) = LowerU
     /\ \A k \in 2..5 : At(t, i + k) \in HexDigit
  THEN FoldLeft(LAMBDA n, c : n * 16 + HexValue(c), 0, SubSeq(t, i + 2, i + 5))
  ELSE -1

(* Mutant: half of a surrogate pair is a character.                         *)
Escape_LoneSurrogate(t, i) ==
  LET simple == {e \in Escapes : e[1] = At(t, i + 1)}
      first  == decode_unicode_escape(t, i)
      second == decode_unicode_escape(t, i + 6)
  IN CASE simple # {} ->
            [octets |-> <<(CHOOSE e \in simple : TRUE)[2]>>, next |-> i + 2]
       [] first >= 0 /\ first \notin HighSurrogate ->
            [octets |-> utf8_encode(first), next |-> i + 6]
       [] first \in HighSurrogate /\ second \in LowSurrogate ->
            [octets |-> utf8_encode(65536 + (first - 55296) * 1024
                                    + (second - 56320)),
             next |-> i + 12]
       [] OTHER -> [octets |-> <<>>, next |-> 0]

(* What the escape at i stands for and the place after it; next = 0 when it *)
(* is wrong.  Two \uXXXX that are a surrogate pair are one character.       *)
Escape(t, i) ==
  LET simple == {e \in Escapes : e[1] = At(t, i + 1)}
      first  == decode_unicode_escape(t, i)
      second == decode_unicode_escape(t, i + 6)
  IN CASE simple # {} ->
            [octets |-> <<(CHOOSE e \in simple : TRUE)[2]>>, next |-> i + 2]
       [] first >= 0 /\ first \notin Surrogate ->
            [octets |-> utf8_encode(first), next |-> i + 6]
       [] first \in HighSurrogate /\ second \in LowSurrogate ->
            [octets |-> utf8_encode(65536 + (first - 55296) * 1024
                                    + (second - 56320)),
             next |-> i + 12]
       [] OTHER -> [octets |-> <<>>, next |-> 0]

(* lex_scan_string from i on, after sofar: the two passes of the code, which*)
(* finds the end first and unescapes then, are one here.                    *)
RECURSIVE ScanChars(_, _, _)
ScanChars(t, i, sofar) ==
  LET c == At(t, i)
  IN CASE c = Quote -> Token("string", sofar, i + 1)
       [] c = Backslash ->
            IF Escape(t, i).next = 0 THEN Invalid(i)
            ELSE ScanChars(t, Escape(t, i).next, sofar \o Escape(t, i).octets)
       [] c = EndOfFile \/ c \in Control -> Invalid(i)
       [] OTHER ->
            LET n == utf8_iterate(t, i)
            IN IF n = 0 THEN Invalid(i)
               ELSE ScanChars(t, i + n, sofar \o SubSeq(t, i, i + n - 1))

lex_scan_string(t, i) == ScanChars(t, i + 1, <<>>)

(* The number that the digits of the octets s spell.                        *)
Spelled(s) ==
  FoldLeft(LAMBDA n, c : IF c \in Digit THEN n * 10 + (c - 48) ELSE n, 0, s)

(* m * 10^e as the decimal fraction of a real.                              *)
RECURSIVE Decimal(_, _)
Decimal(m, e) ==
  CASE m = 0 -> <<0, 0>>
    [] m % 10 = 0 -> Decimal(m \div 10, e + 1)
    [] OTHER -> <<m, e>>

(* The place after the e of an exponent and its sign; fraction without one. *)
PowerAt(t, fraction) ==
  CASE At(t, fraction) \notin {LowerE, 69} -> fraction
    [] At(t, fraction) \in {LowerE, 69} /\ At(t, fraction + 1) \in {Plus, Minus} ->
         fraction + 2
    [] OTHER -> fraction + 1

Number(t, first, integer, fraction, power) ==
  [first |-> first, integer |-> integer, fraction |-> fraction,
   power |-> power,
   end   |-> IF power = fraction THEN fraction ELSE Past(t, power, Digit),
   valid |-> /\ At(t, first) \in Digit
             /\ ~(At(t, first) = Zero /\ At(t, integer) \in Digit)
             /\ fraction # integer + 1
             /\ power # fraction => At(t, power) \in Digit]

(* lex_scan_number: the places where the integer part begins and where it,  *)
(* the fraction and the exponent end.                                       *)
NumberAt(t, i) ==
  LET first    == IF At(t, i) = Minus THEN i + 1 ELSE i
      integer  == IF At(t, first) = Zero THEN first + 1
                  ELSE Past(t, first, Digit)
      fraction == IF At(t, integer) = Point THEN Past(t, integer + 1, Digit)
                  ELSE integer
  IN Number(t, first, integer, fraction, PowerAt(t, fraction))

IntegerAt(t, i, n) ==
  LET digits == Spelled(SubSeq(t, n.first, n.end - 1))
      value  == IF At(t, i) = Minus THEN -digits ELSE digits
  IN IF value \in -MaxInteger - 1 .. MaxInteger
     THEN Token("integer", value, n.end)
     ELSE Invalid(n.end)

(* jsonp_strtod: too large a real is an error, too small a one is zero.     *)
RealAt(t, i, n) ==
  LET digits == Spelled(SubSeq(t, n.first, n.fraction - 1))
      places == IF n.fraction = n.integer THEN 0
                ELSE n.fraction - n.integer - 1
      power  == Spelled(SubSeq(t, n.power, n.end - 1))
      real   == Decimal(IF At(t, i) = Minus THEN -digits ELSE digits,
                        (IF At(t, n.power - 1) = Minus THEN -power ELSE power)
                        - places)
  IN CASE real[2] > MaxExponent -> Invalid(n.end)
       [] real[2] < -MaxExponent -> Token("real", <<0, 0>>, n.end)
       [] OTHER -> Token("real", real, n.end)

NumberToken(t, i, n) ==
  CASE ~n.valid -> Invalid(i)
    [] n.valid /\ n.end = n.integer -> IntegerAt(t, i, n)
    [] OTHER -> RealAt(t, i, n)

lex_scan_number(t, i) == NumberToken(t, i, NumberAt(t, i))

(* A run of letters is one of the three words or nothing.                   *)
WordAt(t, i) ==
  LET end  == Past(t, i, Alpha)
      word == {w \in DOMAIN Words : Words[w] = SubSeq(t, i, end - 1)}
  IN IF word = {} THEN Invalid(end)
     ELSE Token(CHOOSE w \in word : TRUE, NULL, end)

TokenAt(t, i) ==
  LET mark == {p[2] : p \in {q \in Punctuation : q[1] = At(t, i)}}
  IN CASE At(t, i) = EndOfFile -> Token("end of file", NULL, i)
       [] mark # {} -> Token(CHOOSE m \in mark : TRUE, NULL, i + 1)
       [] At(t, i) = Quote -> lex_scan_string(t, i)
       [] At(t, i) \in Digit \cup {Minus} -> lex_scan_number(t, i)
       [] At(t, i) \in Alpha -> WordAt(t, i)
       [] OTHER -> Invalid(i)

lex_scan(t, from) == TokenAt(t, Past(t, from, Blank))

-----------------------------------------------------------------------------
RECURSIVE Tokens(_, _)
(* The tokens from i on, up to the first that is wrong, or the end.         *)
Tokens(t, i) ==
  LET token == lex_scan(t, i)
  IN IF token.token \in {"invalid", "end of file"} THEN <<token>>
     ELSE <<token>> \o Tokens(t, token.next)

(* The parser takes one token after the other; ts are all it may take and k *)
(* is where it is.  What it has parsed is the value and the place after it; *)
(* next = 0 when there is an error, which ends it.  d is lex->depth: how    *)
(* many values the one being parsed is in, itself included.                 *)
Parsed(value, next) == [value |-> value, next |-> next]

Failed == Parsed(NULL, 0)

(* json_object_set_new_nocheck: a key that is there keeps its place.        *)
SetEntry(entries, key, value) ==
  LET i == SelectInSeq(entries, LAMBDA e : e.key = key)
      e == [key |-> key, value |-> value]
  IN IF i = 0 THEN Append(entries, e) ELSE [entries EXCEPT ![i] = e]

RECURSIVE parse_value(_, _, _)
RECURSIVE parse_array(_, _, _, _)
RECURSIVE parse_object(_, _, _, _)

(* Mutant: the end of the text closes an array.                             *)
AfterItem_Unclosed(ts, k, d, items) ==
  CASE ts[k].token = "," -> parse_array(ts, k + 1, d, items)
    [] ts[k].token \in {"]", "end of file"} ->
         Parsed(Value("array", items),
                IF ts[k].token = "]" THEN k + 1 ELSE k)
    [] OTHER -> Failed

(* What comes after an item of an array.                                    *)
AfterItem(ts, k, d, items) ==
  CASE ts[k].token = "," -> parse_array(ts, k + 1, d, items)
    [] ts[k].token = "]" -> Parsed(Value("array", items), k + 1)
    [] OTHER -> Failed

(* parse_array from the first token of an item, after the items sofar.      *)
parse_array(ts, k, d, sofar) ==
  LET item == parse_value(ts, k, d + 1)
  IN IF item.next = 0 THEN Failed
     ELSE AfterItem(ts, item.next, d, Append(sofar, item.value))

(* What comes after an entry of an object.                                  *)
AfterEntry(ts, k, d, entries) ==
  CASE ts[k].token = "," -> parse_object(ts, k + 1, d, entries)
    [] ts[k].token = "}" -> Parsed(Value("object", entries), k + 1)
    [] OTHER -> Failed

(* parse_object from the token of a key, after the entries sofar.           *)
parse_object(ts, k, d, sofar) ==
  LET value == parse_value(ts, k + 2, d + 1)
  IN IF \/ ts[k].token # "string" \/ 0 \in ToSet(ts[k].value)
        \/ ts[k + 1].token # ":"
        \/ value.next = 0
     THEN Failed
     ELSE AfterEntry(ts, value.next, d,
                     SetEntry(sofar, ts[k].value, value.value))

parse_value(ts, k, d) ==
  CASE d > MaxDepth -> Failed
    [] d <= MaxDepth /\ ts[k].token = "string" ->
         IF 0 \in ToSet(ts[k].value) THEN Failed
         ELSE Parsed(Value("string", ts[k].value), k + 1)
    [] d <= MaxDepth
       /\ ts[k].token \in {"integer", "real"} \cup DOMAIN Words ->
         Parsed(Value(ts[k].token, ts[k].value), k + 1)
    [] d <= MaxDepth /\ ts[k].token = "{" ->
         IF ts[k + 1].token = "}" THEN Parsed(Value("object", <<>>), k + 2)
         ELSE parse_object(ts, k + 1, d, <<>>)
    [] d <= MaxDepth /\ ts[k].token = "[" ->
         IF ts[k + 1].token = "]" THEN Parsed(Value("array", <<>>), k + 2)
         ELSE parse_array(ts, k + 1, d, <<>>)
    [] OTHER -> Failed

(* parse_json, which json_loads and json_load_file end in: one array or     *)
(* object and nothing after it.                                             *)
parse_json(ts) ==
  LET parsed == parse_value(ts, 1, 1)
  IN IF /\ ts[1].token \in {"[", "{"}
        /\ parsed.next # 0
        /\ ts[parsed.next].token = "end of file"
     THEN parsed.value
     ELSE NULL

json_loads(t) == parse_json(Tokens(t, 1))

-----------------------------------------------------------------------------
(* The dump, as the sequence of its writes: each call of the dump callback  *)
(* with its octets and whether the caller looks at the result.              *)
Write(octets) == [octets |-> octets, checked |-> TRUE]

Hex4(n) ==
  LET digit(k) == IF k < 10 THEN 48 + k ELSE 55 + k
  IN <<digit(n \div 4096), digit((n \div 256) % 16),
       digit((n \div 16) % 16), digit(n % 16)>>

(* The escape of an octet that cannot stand in a string, a slash can.       *)
Escaped(c) ==
  LET short == {e \in Escapes : e[2] = c}
  IN IF short # {} THEN <<Backslash, (CHOOSE e \in short : TRUE)[1]>>
     ELSE <<Backslash, LowerU>> \o Hex4(c)

RECURSIVE DumpChars(_)
(* The inside of a string: runs of what stands for itself, and escapes.     *)
DumpChars(s) ==
  LET i == SelectInSeq(s, LAMBDA c : c \in Control \cup {Quote, Backslash})
  IN CASE s = <<>> -> <<>>
       [] s # <<>> /\ i = 0 -> <<s>>
       [] OTHER -> (IF i > 1 THEN <<SubSeq(s, 1, i - 1)>> ELSE <<>>)
                   \o <<Escaped(s[i])>> \o DumpChars(SubSeq(s, i + 1, Len(s)))

dump_string(s) ==
  LET octets == <<<<Quote>>>> \o DumpChars(s) \o <<<<Quote>>>>
  IN [i \in DOMAIN octets |-> Write(octets[i])]

RECURSIVE Decimals(_)
Decimals(n) ==
  IF n < 10 THEN <<48 + n>> ELSE Append(Decimals(n \div 10), 48 + (n % 10))

Signed(n, octets) == IF n < 0 THEN <<Minus>> \o octets ELSE octets

Absolute(n) == IF n < 0 THEN -n ELSE n

IntegerText(n) == Signed(n, Decimals(Absolute(n)))

(* A real without an exponent has a point, a zero behind it if need be.     *)
PlainText(digits, places) ==
  LET padded == IF Len(digits) > places THEN digits
                ELSE [i \in 1 .. places + 1 - Len(digits) |-> Zero] \o digits
      point  == Len(padded) - places
  IN IF places <= 0
     THEN digits \o [i \in 1 .. -places |-> Zero] \o <<Point, Zero>>
     ELSE SubSeq(padded, 1, point) \o <<Point>>
          \o SubSeq(padded, point + 1, Len(padded))

(* A point behind the first digit if there are more.                        *)
Mantissa(digits) ==
  IF Len(digits) = 1 THEN digits ELSE <<Head(digits), Point>> \o Tail(digits)

(* Mutant: the minus of the exponent goes with the plus.                    *)
ExponentText_NoMinus(digits, power) ==
  Mantissa(digits) \o <<LowerE>> \o Decimals(Absolute(power))

(* One with an exponent needs no point; printf's plus before the exponent   *)
(* and its zeros in front are taken out again.                              *)
ExponentText(digits, power) == Mantissa(digits) \o <<LowerE>> \o IntegerText(power)

(* jsonp_dtostr: %g takes an exponent that is below -4 or not below the     *)
(* precision.                                                               *)
RealText(real) ==
  LET digits == Decimals(Absolute(real[1]))
      power  == Len(digits) - 1 + real[2]
  IN Signed(real[1],
            IF power \in -4 .. Precision - 1 THEN PlainText(digits, -real[2])
            ELSE ExponentText(digits, power))

dump_indent(depth) ==
  <<Write(<<Newline>>)>>
  \o (IF depth = 0 THEN <<>>
      ELSE <<Write([i \in 1 .. depth * Indent |-> Space])>>)

(* The parts of a container between its brackets, one to a line.            *)
DumpParts(open, close, parts, depth) ==
  IF parts = <<>> THEN <<Write(open), Write(close)>>
  ELSE <<Write(open)>> \o dump_indent(depth + 1)
       \o FlattenSeq([i \in DOMAIN parts |->
            parts[i] \o (IF i < Len(parts)
                         THEN <<Write(<<Comma>>)>> \o dump_indent(depth + 1)
                         ELSE dump_indent(depth))])
       \o <<Write(close)>>

(* The result of the dump_string of a key is not looked at.                 *)
Unchecked(writes) ==
  [i \in DOMAIN writes |-> [writes[i] EXCEPT !.checked = FALSE]]

RECURSIVE do_dump(_, _)
do_dump(v, depth) ==
  CASE Type(v) \in DOMAIN Words -> <<Write(Words[Type(v)])>>
    [] Type(v) = "integer" -> <<Write(IntegerText(Content(v)))>>
    [] Type(v) = "real" -> <<Write(RealText(Content(v)))>>
    [] Type(v) = "string" -> dump_string(Content(v))
    [] Type(v) = "array" ->
         DumpParts(<<91>>, <<93>>,
                   [i \in DOMAIN Content(v) |->
                      do_dump(Content(v)[i], depth + 1)], depth)
    [] Type(v) = "object" ->
         DumpParts(<<123>>, <<125>>,
                   [i \in DOMAIN Content(v) |->
                      Unchecked(dump_string(Content(v)[i].key))
                      \o <<Write(<<Colon, Space>>)>>
                      \o do_dump(Content(v)[i].value, depth + 1)], depth)

Octets(writes) == FlattenSeq([i \in DOMAIN writes |-> writes[i].octets])

(* json_dumps when every write succeeds.                                    *)
json_dumps(v) == Octets(do_dump(v, 0))

(* What is written when write n fails, once: a failure in a key leaves out  *)
(* the rest of the key and nothing else, any other ends the dump.           *)
WithFailure(writes, n) ==
  LET next == SelectInSubSeq(writes, n, Len(writes), LAMBDA w : w.checked)
  IN CASE n = 0 -> writes
       [] n > 0 /\ writes[n].checked -> SubSeq(writes, 1, n - 1)
       [] OTHER -> SubSeq(writes, 1, n - 1)
                   \o SubSeq(writes, next, Len(writes))

-----------------------------------------------------------------------------
Init ==
  /\ upstream \in DOMAIN Pieces \cup {"none"}
  /\ text = <<>> /\ unwritten = <<>> /\ document = NULL
  /\ failure = 0 /\ pieces = 0

(* json_dump_file opens the file, which empties it, and begins.             *)
Dump ==
  /\ upstream = "none"
  /\ document = NULL
  /\ \E v \in Documents :
       LET writes == do_dump(v, 0)
       IN \E n \in 0 .. Len(writes) :
            /\ document' = v
            /\ failure' = n
            /\ unwritten' = Octets(WithFailure(writes, n))
  /\ UNCHANGED <<upstream, text, pieces>>

(* An octet reaches the file.  The process may die before any of them.      *)
Flush ==
  /\ unwritten # <<>>
  /\ text' = Append(text, Head(unwritten))
  /\ unwritten' = Tail(unwritten)
  /\ UNCHANGED <<upstream, document, failure, pieces>>

(* A piece of an upstream answer arrives.                                   *)
Arrive ==
  /\ upstream # "none"
  /\ pieces < MaxPieces[upstream]
  /\ \E piece \in Pieces[upstream] : text' = text \o piece
  /\ pieces' = pieces + 1
  /\ UNCHANGED <<upstream, document, unwritten, failure>>

Next == Dump \/ Flush \/ Arrive

Spec == Init /\ [][Next]_vars

=============================================================================
