----------------------------- MODULE JsonGrammar -----------------------------
(***************************************************************************)
(* What JSON text is (RFC 8259), said about the text as a whole, and what   *)
(* the loader and the dump of JsonText owe to it.  Nothing here goes from   *)
(* left to right: a text is an array when it can be cut into the texts of   *)
(* its items.  The limits are those of the loader: the nesting, the range   *)
(* of numbers, and no NUL in a string.                                      *)
(***************************************************************************)
EXTENDS JsonText

Cut(t, i) == SubSeq(t, 1, i - 1)

Rest(t, i) == SubSeq(t, i + 1, Len(t))

Inside(t) == SubSeq(t, 2, Len(t) - 1)

Enclosed(t, open, close) ==
  Len(t) >= 2 /\ t[1] = open /\ t[Len(t)] = close

Trimmed(t) ==
  LET dark == {i \in DOMAIN t : t[i] \notin Blank}
  IN IF dark = {} THEN <<>>
     ELSE SubSeq(t, CHOOSE i \in dark : \A j \in dark : i <= j,
                    CHOOSE i \in dark : \A j \in dark : i >= j)

(* A character of a string: itself, or one escape.                          *)
IsHex(u) ==
  Len(u) = 6 /\ u[1] = Backslash /\ u[2] = LowerU
  /\ \A i \in 3..6 : u[i] \in HexDigit

Hex(u) ==
  LET n(i) == HexValue(u[i])
  IN 4096 * n(3) + 256 * n(4) + 16 * n(5) + n(6)

IsChar(u) ==
  \/ IsCharacter(u) /\ u[1] \notin Control \cup {Quote, Backslash}
  \/ Len(u) = 2 /\ u[1] = Backslash /\ \E e \in Escapes : e[1] = u[2]
  \/ IsHex(u) /\ Hex(u) # 0 /\ Hex(u) \notin Surrogate
  \/ /\ Len(u) = 12 /\ IsHex(SubSeq(u, 1, 6)) /\ IsHex(SubSeq(u, 7, 12))
     /\ Hex(SubSeq(u, 1, 6)) \in HighSurrogate
     /\ Hex(SubSeq(u, 7, 12)) \in LowSurrogate

RECURSIVE AreChars(_)
AreChars(t) ==
  t = <<>> \/ \E n \in 1 .. Len(t) :
                IsChar(SubSeq(t, 1, n)) /\ AreChars(SubSeq(t, n + 1, Len(t)))

IsString(t) == Enclosed(t, Quote, Quote) /\ AreChars(Inside(t))

IsDigits(t) == t # <<>> /\ \A i \in DOMAIN t : t[i] \in Digit

IsNatural(t) == IsDigits(t) /\ (t[1] = Zero => Len(t) = 1)

Unsigned(t) == IF t # <<>> /\ t[1] = Minus THEN Tail(t) ELSE t

IsInteger(t) ==
  /\ IsNatural(Unsigned(t))
  /\ (IF t[1] = Minus THEN -Spelled(t) ELSE Spelled(t))
       \in -MaxInteger - 1 .. MaxInteger

IsFixed(t) ==
  \E i \in DOMAIN t :
     t[i] = Point /\ IsNatural(Unsigned(Cut(t, i))) /\ IsDigits(Rest(t, i))

(* The power of ten of a real whose digits have no trailing zero.           *)
InRange(t, power) ==
  LET points == {i \in DOMAIN t : t[i] = Point}
      places == IF points = {} THEN 0
                ELSE Len(Rest(t, CHOOSE i \in points : TRUE))
  IN Decimal(Spelled(t), power - places)[2] <= MaxExponent

IsReal(t) ==
  \/ IsFixed(t) /\ InRange(t, 0)
  \/ \E i \in DOMAIN t :
       LET sign  == Rest(t, i) # <<>> /\ t[i + 1] \in {Plus, Minus}
           power == IF sign THEN Rest(t, i + 1) ELSE Rest(t, i)
       IN /\ t[i] \in {LowerE, 69}
          /\ IsFixed(Cut(t, i)) \/ IsNatural(Unsigned(Cut(t, i)))
          /\ IsDigits(power)
          /\ InRange(Cut(t, i), IF sign /\ t[i + 1] = Minus
                                THEN -Spelled(power) ELSE Spelled(power))

RECURSIVE IsContainer(_, _), AreItems(_, _), AreEntries(_, _)

(* A value with at most d values one in the other.                          *)
IsValue(text0, d) ==
  LET t == Trimmed(text0)
  IN /\ d > 0
     /\ \/ \E w \in DOMAIN Words : t = Words[w]
        \/ IsInteger(t) \/ IsReal(t) \/ IsString(t)
        \/ IsContainer(t, d)

IsEntry(t, d) ==
  \E i \in DOMAIN t :
    t[i] = Colon /\ IsString(Trimmed(Cut(t, i))) /\ IsValue(Rest(t, i), d)

AreItems(t, d) ==
  IsValue(t, d) \/ \E i \in DOMAIN t :
    t[i] = Comma /\ IsValue(Cut(t, i), d) /\ AreItems(Rest(t, i), d)

AreEntries(t, d) ==
  IsEntry(t, d) \/ \E i \in DOMAIN t :
    t[i] = Comma /\ IsEntry(Cut(t, i), d) /\ AreEntries(Rest(t, i), d)

IsContainer(t, d) ==
  \/ /\ Enclosed(t, 91, 93)
     /\ Trimmed(Inside(t)) = <<>> \/ AreItems(Inside(t), d - 1)
  \/ /\ Enclosed(t, 123, 125)
     /\ Trimmed(Inside(t)) = <<>> \/ AreEntries(Inside(t), d - 1)

IsJSON(t) == MaxDepth > 0 /\ IsContainer(Trimmed(t), MaxDepth)

RECURSIVE Depth(_)
Depth(v) ==
  LET c == Content(v)
      below == CASE Type(v) = "array" -> {Depth(c[i]) : i \in DOMAIN c}
                 [] Type(v) = "object" -> {Depth(c[i].value) : i \in DOMAIN c}
                 [] OTHER -> {}
  IN 1 + (CHOOSE n \in below \cup {0} : \A m \in below : m <= n)

RECURSIVE StringsOf(_)
StringsOf(v) ==
  LET c == Content(v)
  IN CASE Type(v) = "string" -> {c}
       [] Type(v) = "array" -> UNION {StringsOf(c[i]) : i \in DOMAIN c}
       [] Type(v) = "object" ->
            UNION {StringsOf(c[i].value) \cup {c[i].key} : i \in DOMAIN c}
       [] OTHER -> {}

-----------------------------------------------------------------------------
TextTypeOK ==
  /\ text \in Seq(Octet) /\ unwritten \in Seq(Octet)
  /\ document # NULL => document \in Documents
  /\ failure \in Nat
  /\ upstream = "none" => pieces = 0
  /\ upstream # "none" => /\ pieces \in 0..MaxPieces[upstream]
                          /\ document = NULL

(* An answer loads exactly when it is JSON.                                 *)
LoadsExactlyJSON ==
  upstream # "none" => ((json_loads(text) # NULL) <=> IsJSON(text))

WholeLoadsBack ==
  document # NULL /\ failure = 0 /\ unwritten = <<>> =>
    json_loads(text) = IF Depth(document) <= MaxDepth THEN document ELSE NULL

TornIsRefused == unwritten # <<>> => json_loads(text) = NULL

LostWriteIsRefused == failure > 0 => json_loads(text) = NULL

(***************************************************************************)
(* A document that is written whole loads as it was, its entries in their   *)
(* order, unless it is nested deeper than the loader follows.  A file whose *)
(* writer died on the way does not load, wherever it stopped: the caches    *)
(* see that they must fetch again.  Nor does one in which a write failed,   *)
(* although a dump that lost a key goes on and reports success.             *)
(***************************************************************************)
OnlyTheWholeLoads ==
  /\ TextTypeOK
  /\ WholeLoadsBack
  /\ TornIsRefused
  /\ LostWriteIsRefused

(***************************************************************************)
(* What has been loaded can be dumped and loaded again, and is the same, as *)
(* an upstream answer goes through the cache file and back, its reals with  *)
(* and without an exponent; and its strings are such as json_string accepts.*)
(***************************************************************************)
LoadedIsKept ==
  LET v == json_loads(text)
  IN upstream # "none" /\ v # NULL =>
       /\ json_loads(json_dumps(v)) = v
       /\ \A s \in StringsOf(v) : IsUTF8(s) /\ 0 \notin ToSet(s)

=============================================================================
