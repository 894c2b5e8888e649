--------------------------------- MODULE Utf8 ---------------------------------
(***************************************************************************)
(* UTF-8 as jansson reads and writes it (utf.c): octets are numbers from 0  *)
(* to 255, the text of a string is a sequence of octets, and a code point   *)
(* is a number.  The loader (JsonStream, JsonText) and json_string decide   *)
(* with these operators which octets are text at all.                       *)
(*                                                                          *)
(* The last part is the reference: which sequences of octets the Unicode    *)
(* standard calls well formed (its table 3-7), said without arithmetic.     *)
(***************************************************************************)
EXTENDS Integers, Sequences, SequencesExt

Octet == 0..255

Newline == 10

Continuation == 128..191

Surrogate == 55296..57343       \* 0xD800..0xDFFF

HighSurrogate == 55296..56319   \* 0xD800..0xDBFF

LowSurrogate == 56320..57343    \* 0xDC00..0xDFFF

LastCodePoint == 1114111        \* 0x10FFFF

(* The octets of a code point, none when there is no such code point.       *)
utf8_encode(c) ==
  IF c < 0 \/ c > LastCodePoint THEN <<>>
  ELSE IF c < 128 THEN <<c>>
  ELSE IF c < 2048 THEN <<192 + c \div 64, 128 + (c % 64)>>
  ELSE IF c < 65536 THEN
    <<224 + c \div 4096, 128 + ((c \div 64) % 64), 128 + (c % 64)>>
  ELSE
    <<240 + c \div 262144, 128 + ((c \div 4096) % 64),
      128 + ((c \div 64) % 64), 128 + (c % 64)>>

(* How many octets a character has that begins with u; 0: none begins so.   *)
utf8_check_first(u) ==
  IF u < 128 THEN 1
  ELSE IF u \in 194..223 THEN 2
  ELSE IF u \in 224..239 THEN 3
  ELSE IF u \in 240..244 THEN 4
  ELSE 0

(* The code point that utf8_check_full computes: what the first octet of so *)
(* many leaves, and six bits of each that follows.                          *)
CodePoint(s) ==
  LET value[i \in 1 .. Len(s)] ==
        IF i = 1 THEN s[1] % <<128, 32, 16, 8>>[Len(s)]
                 ELSE value[i - 1] * 64 + (s[i] % 64)
  IN value[Len(s)]

(* Mutant: the octets after the first are not looked at.                    *)
utf8_check_full_AnyTail(s) ==
  /\ Len(s) \in 2..4
  /\ CodePoint(s) <= LastCodePoint
  /\ CodePoint(s) \notin Surrogate
  /\ CodePoint(s) >= <<0, 128, 2048, 65536>>[Len(s)]

(* Whether the octets s, two to four, are one character: continuation       *)
(* octets, in the range of Unicode, no surrogate, and not overlong.         *)
utf8_check_full(s) ==
  /\ Len(s) \in 2..4
  /\ \A i \in 2..Len(s) : s[i] \in Continuation
  /\ CodePoint(s) <= LastCodePoint
  /\ CodePoint(s) \notin Surrogate
  /\ CodePoint(s) >= <<0, 128, 2048, 65536>>[Len(s)]

(* The number of octets of the character at i; 0: what is there is none.    *)
utf8_iterate(s, i) ==
  LET count == utf8_check_first(s[i])
  IN IF \/ count = 1
        \/ /\ count > 1
           /\ count <= Len(s) - i + 1
           /\ utf8_check_full(SubSeq(s, i, i + count - 1))
     THEN count
     ELSE 0

(* Whether s is text: json_string and the keys of objects must be.          *)
utf8_check_string(s) ==
  LET valid[i \in 1 .. Len(s) + 1] ==
        \/ i = Len(s) + 1
        \/ /\ utf8_iterate(s, i) > 0
           /\ valid[i + utf8_iterate(s, i)]
  IN valid[1]

-----------------------------------------------------------------------------
(* The reference: one row for each way the octets of a character may begin. *)
WellFormed ==
  { <<0..127>>,
    <<194..223, Continuation>>,
    <<{224}, 160..191, Continuation>>,
    <<225..236 \cup 238..239, Continuation, Continuation>>,
    <<{237}, 128..159, Continuation>>,
    <<{240}, 144..191, Continuation, Continuation>>,
    <<241..243, Continuation, Continuation, Continuation>>,
    <<{244}, 128..143, Continuation, Continuation>> }

IsCharacter(s) ==
  \E row \in WellFormed :
     /\ Len(row) = Len(s)
     /\ \A i \in 1..Len(s) : s[i] \in row[i]

(* A text is well formed when it is characters one after the other.         *)
IsUTF8(s) ==
  LET wellFormed[i \in 1 .. Len(s) + 1] ==
        \/ i = Len(s) + 1
        \/ \E n \in 1..4 :
              /\ i + n - 1 <= Len(s)
              /\ IsCharacter(SubSeq(s, i, i + n - 1))
              /\ wellFormed[i + n]
  IN wellFormed[1]

=============================================================================
