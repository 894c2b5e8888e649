----------------------------- MODULE URLDecoder -----------------------------
(***************************************************************************)
(* url_decode_inplace (libs/API/URLDecoder.c), which overwrites the text it *)
(* is reading, and the name under which GEO_CheckCache caches a city: the   *)
(* decoded text, but only when there is a '%' in it.  The upstream service  *)
(* is asked with the text as it came.                                       *)
(*                                                                          *)
(* A text is a sequence of characters; a byte that two digits stand for and *)
(* that is none of the interesting ones is the pair of the digits.          *)
(***************************************************************************)
EXTENDS Integers, Sequences, FiniteSets, SequencesExt

CONSTANTS
  Digits,   \* the hexadecimal digits, with "0", "2", "5" and "B" among them
  Letters,  \* other characters
  MaxLen    \* bound on the length of a name

DecoderAssumption ==
  /\ {"0", "2", "5", "B"} \subseteq Digits
  /\ Digits \cap Letters = {}
  /\ {"%", "+", "NUL"} \cap (Digits \cup Letters) = {}
  /\ MaxLen \in Nat

NameCharacters == Digits \cup Letters \cup {"%", "+"}

VARIABLES
  raw,       \* the text as it came
  buf,       \* the buffer; it ends with "NUL"
  s, out,    \* the two pointers
  decoding   \* where GEO_CheckCache is with it

nameVars == <<raw, buf, s, out, decoding>>

(* The byte with these two digits.                                          *)
Byte(high, low) ==
  CASE high = "2" /\ low = "5" -> "%"
    [] high = "2" /\ low = "B" -> "+"
    [] high = "2" /\ low = "0" -> " "
    [] high = "0" /\ low = "0" -> "NUL"
    [] OTHER                   -> <<high, low>>

(* What a text in the buffer is for C: up to its first NUL.                 *)
CString(text) ==
  SubSeq(text, 1, SelectInSeq(text, LAMBDA c : c = "NUL") - 1)

-----------------------------------------------------------------------------
(* GEO_CheckCache decodes only when strchr finds a '%'.                     *)
CheckName ==
  /\ decoding = "name"
  /\ decoding' = IF Contains(raw, "%") THEN "decode" ELSE "done"
  /\ UNCHANGED <<raw, buf, s, out>>

(* Mutant: only the first of the two digits is looked at.                   *)
EscapeHere_OneDigit == buf[s] = "%" /\ buf[s + 1] \in Digits

EscapeHere == buf[s] = "%" /\ buf[s + 1] \in Digits /\ buf[s + 2] \in Digits

Put(c) == buf' = [buf EXCEPT ![out] = c] /\ out' = out + 1

DecodeEscape ==
  /\ decoding = "decode" /\ buf[s] # "NUL"
  /\ EscapeHere
  /\ Put(Byte(buf[s + 1], buf[s + 2]))
  /\ s' = s + 3
  /\ UNCHANGED <<raw, decoding>>

Plain(c) == IF c = "+" THEN " " ELSE c

CopyOne ==
  /\ decoding = "decode" /\ buf[s] # "NUL"
  /\ ~EscapeHere
  /\ Put(Plain(buf[s]))
  /\ s' = s + 1
  /\ UNCHANGED <<raw, decoding>>

EndDecode ==
  /\ decoding = "decode" /\ buf[s] = "NUL"
  /\ Put("NUL")
  /\ decoding' = "done"
  /\ UNCHANGED <<raw, s>>

NameInit ==
  /\ raw \in SeqOf(NameCharacters, MaxLen)
  /\ buf = Append(raw, "NUL")
  /\ s = 1
  /\ out = 1
  /\ decoding = "name"

NameNext ==
  \/ CheckName
  \/ DecodeEscape
  \/ CopyOne
  \/ EndDecode
  \/ decoding = "done" /\ UNCHANGED nameVars

NameSpec == NameInit /\ [][NameNext]_nameVars

-----------------------------------------------------------------------------
(* The text that a form means.  No escape begins inside another, since a    *)
(* digit is no '%', so a character stands for itself, or is the first of an *)
(* escape, unless it is one of the two digits of one.                       *)
EscapeAt(text, i) ==
  /\ i \in 1 .. Len(text) - 2
  /\ text[i] = "%" /\ text[i + 1] \in Digits /\ text[i + 2] \in Digits

Starts(text) ==
  {i \in DOMAIN text : ~EscapeAt(text, i - 1) /\ ~EscapeAt(text, i - 2)}

Meaning(text, i) ==
  IF EscapeAt(text, i) THEN Byte(text[i + 1], text[i + 2]) ELSE Plain(text[i])

Rank(text, i) == Cardinality({j \in Starts(text) : j <= i})

FormText(text) ==
  [n \in 1 .. Cardinality(Starts(text)) |->
     Meaning(text, CHOOSE i \in Starts(text) : Rank(text, i) = n)]

(***************************************************************************)
(* Decoding in place is safe: the writer never overtakes the reader, so     *)
(* what is still to be read is what came, up to the NUL that ends it, and   *)
(* neither pointer leaves the text.                                         *)
(***************************************************************************)
ReadsWhatCame ==
  /\ out <= s \/ decoding = "done"
  /\ s <= Len(raw) + 1
  /\ decoding = "decode" =>
       SubSeq(buf, s, Len(buf)) = SubSeq(Append(raw, "NUL"), s, Len(buf))

(* The text that is the key of a city: without an escape strchr finds       *)
(* nothing to decode, and a plus stays one.                                 *)
KeyText(text) ==
  IF Contains(text, "+") /\ ~Contains(text, "%") THEN text ELSE FormText(text)

(***************************************************************************)
(* The key under which GEO_CheckCache looks for a city is the text that its *)
(* name means to the service, up to an escaped NUL, except for a name with  *)
(* a plus and no escape, whose key is the name as it came.  So the          *)
(* spellings of a city with escapes share a key, and "a+b", which means     *)
(* what "a%20b" does, has the key of "a%2Bb", which is another name.        *)
(***************************************************************************)
KeyIsKnown ==
  decoding = "done" => CString(buf) = CString(Append(KeyText(raw), "NUL"))

(* A name that is decoded over itself is read before it is overwritten, and *)
(* what is left of it is its meaning, or the name itself where it has a     *)
(* plus and no escape.                                                      *)
NamesAreDecoded == ReadsWhatCame /\ KeyIsKnown

=============================================================================
