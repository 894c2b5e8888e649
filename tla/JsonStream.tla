------------------------------ MODULE JsonStream ------------------------------
(***************************************************************************)
(* The stream below the lexer of jansson (load.c, stream_get and            *)
(* stream_unget): octets come from a file, a string or an upstream answer,  *)
(* one by one; a character of several octets is taken in whole, checked and *)
(* given out octet by octet; the lexer may give the last octet back once    *)
(* and sees the line, the column and the position of what it has read.      *)
(*                                                                          *)
(* An octet is given out as a signed char, so it must never be one of the   *)
(* two that read as a status: 255 is STREAM_STATE_EOF, 254 is               *)
(* STREAM_STATE_ERROR.  What the source yields is chosen octet by octet;    *)
(* the end of the source inside a character is stored as octet 255.         *)
(***************************************************************************)
EXTENDS Utf8, FiniteSets

CONSTANTS
  Source,     \* the octets that the source yields
  MaxTaken    \* bound: nothing more is taken when so many octets are

StreamAssumption == Source \subseteq Octet /\ MaxTaken \in Nat

VARIABLES
  taken,         \* history: every octet that the source has yielded
  read,          \* history: the octets given out and not given back
  buffer,        \* the character being given out
  buffer_pos,    \* how much of it is given out
  state,
  line, column, last_column, position,
  back,          \* the octet given back, None when another call came since
  lost           \* history: the places in taken of octets that got lost

streamVars == <<taken, read, buffer, buffer_pos, state, line, column,
                last_column, position, back, lost>>

None == -1

EofOctet == 255

StreamInit ==
  /\ taken = <<>> /\ read = <<>>
  /\ buffer = <<>> /\ buffer_pos = 0
  /\ state = "OK"
  /\ line = 1 /\ column = 0 /\ last_column = 0 /\ position = 0
  /\ back = None
  /\ lost = {}

-----------------------------------------------------------------------------
(* The buffer ends with a NUL, so a NUL in it reads as its end as well: one *)
(* that was given back is overwritten by the next character.                *)
Exhausted == buffer_pos < Len(buffer) => buffer[buffer_pos + 1] = 0

(* The tail of stream_get: the octet at pos of b is given out.              *)
GiveOut(b, pos) ==
  LET c == b[pos]
  IN /\ buffer' = b /\ buffer_pos' = pos
     /\ read' = Append(read, c)
     /\ position' = position + 1
     /\ IF c = Newline
        THEN line' = line + 1 /\ last_column' = column /\ column' = 0
        ELSE /\ column' = IF utf8_check_first(c) > 0 THEN column + 1
                          ELSE column
             /\ UNCHANGED <<line, last_column>>
     /\ back' = None
     /\ UNCHANGED state

Stop(status) ==
  /\ state' = status
  /\ back' = None
  /\ UNCHANGED <<read, buffer, buffer_pos, line, column, last_column,
                 position>>

(* stream_get with something left in the buffer.                            *)
GetNext ==
  /\ state = "OK" /\ ~Exhausted
  /\ GiveOut(buffer, buffer_pos + 1)
  /\ UNCHANGED <<taken, lost>>

(* stream_get at the end of the source.                                     *)
GetEnd ==
  /\ state = "OK" /\ Exhausted
  /\ Stop("EOF")
  /\ UNCHANGED <<taken, lost>>

(* A new character is put into the buffer and given out.                    *)
Refill(b) ==
  /\ GiveOut(b, 1)
  /\ lost' = IF buffer_pos < Len(buffer) THEN lost \cup {Len(taken)} ELSE lost

IllFormed == Stop("ERROR") /\ UNCHANGED lost

(* stream_get takes one more character: a single octet, or as many as the   *)
(* first one announces.                                                     *)
GetCharacter ==
  /\ state = "OK" /\ Exhausted
  /\ Len(taken) < MaxTaken
  /\ \E c \in Source :
       LET count == IF c < 128 THEN 1 ELSE utf8_check_first(c)
       IN IF count < 2
          THEN /\ taken' = Append(taken, c)
               /\ IF count = 1 THEN Refill(<<c>>) ELSE IllFormed
          ELSE \E rest \in [1 .. count - 1 -> Source \cup {EofOctet}] :
                 /\ taken' = Append(taken, c) \o rest
                 /\ IF utf8_check_full(<<c>> \o rest)
                    THEN Refill(<<c>> \o rest)
                    ELSE IllFormed

(* stream_unget: the lexer gives back the octet that it has just read.  A   *)
(* status is not given back, nor is a second octet.                         *)
Unget ==
  /\ state = "OK"
  /\ read # <<>> /\ back = None
  /\ LET c == Last(read)
     IN /\ position' = position - 1
        /\ IF c = Newline
           THEN line' = line - 1 /\ column' = last_column
           ELSE /\ column' = IF utf8_check_first(c) > 0 THEN column - 1
                             ELSE column
                /\ UNCHANGED line
        /\ buffer_pos' = buffer_pos - 1
        /\ read' = Front(read)
        /\ back' = c
  /\ UNCHANGED <<taken, buffer, state, last_column, lost>>

StreamNext == GetNext \/ GetEnd \/ GetCharacter \/ Unget

StreamSpec == StreamInit /\ [][StreamNext]_streamVars

-----------------------------------------------------------------------------
(* Types.  No count runs below where it starts.                             *)
StreamTypeOK ==
  /\ taken \in Seq(Octet) /\ read \in Seq(Octet) /\ buffer \in Seq(Octet)
  /\ buffer_pos \in 0 .. Len(buffer)
  /\ state \in {"OK", "EOF", "ERROR"}
  /\ line \in Nat \ {0}
  /\ {column, last_column, position} \subseteq Nat
  /\ back \in Octet \cup {None}
  /\ lost \subseteq DOMAIN taken

(* The stream fails exactly on octets that are not UTF-8, at the first      *)
(* character that is not, the end of the source inside one included.        *)
ErrorsAreIllFormed == (state = "ERROR") <=> ~IsUTF8(taken)

(* json_string and the keys of objects accept exactly the UTF-8 strings.    *)
StringsAreUTF8 ==
  \A n \in 0 .. Len(taken) :
     utf8_check_string(SubSeq(taken, 1, n)) = IsUTF8(SubSeq(taken, 1, n))

(* No octet that is given out reads as a status when it is sign-extended.   *)
NoOctetIsAStatus == \A i \in DOMAIN read : read[i] \notin {254, 255}

(* Encoding gives a character the octets that it was decoded from.          *)
EncodeUndoesDecode ==
  Len(buffer) > 1 => utf8_encode(CodePoint(buffer)) = buffer

(* What was given out, and what is left of the character in the buffer.     *)
Passed == read \o SubSeq(buffer, buffer_pos + 1, Len(buffer))

LostBefore(i) == Cardinality({j \in lost : j < i})

(***************************************************************************)
(* As long as it has not failed, the stream passes on every octet that the  *)
(* source yields, in order and once, however the lexer goes back and forth, *)
(* but for a NUL that the lexer gave back before it asked for more: the     *)
(* code finds its buffer at the end there and overwrites it (lost), or      *)
(* leaves it in the buffer when the source is at its end.                   *)
(***************************************************************************)
PassesWhatCame ==
  /\ \A i \in lost : taken[i] = 0
  /\ state # "ERROR" =>
       /\ Len(Passed) = Len(taken) - Cardinality(lost)
       /\ \A i \in DOMAIN taken \ lost : Passed[i - LostBefore(i)] = taken[i]

(* The place that error messages and callers see is that of what the lexer  *)
(* has read: lines by newlines, columns by characters and not octets.  It   *)
(* is the place in the text as long as no NUL got lost; each one that did   *)
(* is missing in the position and, on its line, in the column.              *)
PlaceIsExact ==
  LET newlines == {i \in DOMAIN read : read[i] = Newline}
      start    == CHOOSE i \in newlines \cup {0} :
                    \A j \in newlines : j <= i
  IN /\ position = Len(read)
     /\ line = 1 + Cardinality(newlines)
     /\ column = Cardinality({i \in start + 1 .. Len(read) :
                                read[i] \notin Continuation})

(* All of it: the stream refuses exactly what is not UTF-8, passes on all   *)
(* that came but for a NUL that was given back, and tells the place of what *)
(* it passed on.                                                            *)
OctetsAreSound ==
  /\ StreamTypeOK
  /\ ErrorsAreIllFormed
  /\ StringsAreUTF8
  /\ NoOctetIsAStatus
  /\ EncodeUndoesDecode
  /\ PassesWhatCame
  /\ PlaceIsExact

=============================================================================
