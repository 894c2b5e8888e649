------------------------------- MODULE MCInputs -------------------------------
(***************************************************************************)
(* What comes from outside, each kind on its own: the URL of a request, the *)
(* name of a city in it, the octets that the loader reads, JSON as the      *)
(* caches and the services have it, and what a handler takes out of that.   *)
(* The five share no state, so a behaviour has one of them, and the others  *)
(* stay as they begin.                                                      *)
(***************************************************************************)
EXTENDS JsonGrammar, JsonStream, URLHandler, URLDecoder, Responses

VARIABLE input    \* the kind that comes

-----------------------------------------------------------------------------
(* URLs: every text of up to four tokens, and every query of up to six.     *)
MCRegistered ==
  <<[path |-> <<"geo">>, handler |-> "Handle_GEO"],
    [path |-> <<"gwd">>, handler |-> "Handle_Weather"]>>

UrlTokens == {"v1/", "?", "&", "=", "geo", "x"}

AllUrls ==
  SeqOf(UrlTokens, 4)
    \cup {<<"v1/", "geo", "?">> \o q : q \in SeqOf({"&", "=", "x"}, 6)}
    \cup {<<"v1/", "geo", "?">> \o q \o <<"&">> \o r :
            q, r \in {<<"x", "=">>,
                      <<"x", "=", "geo", "&", "=", "&", "=", "=">>}}

(* Names of up to five characters, with the digits of %25, %2B, %20 and %00. *)
MCDigits == {"0", "2", "5", "B"}

(* Answers with up to three members or two places, and requests of up to    *)
(* four parameters.                                                         *)
Kinds == {"integer", "string", "real", "null"}

Objects(names, max) ==
  {[i \in DOMAIN ks |-> [key |-> ks[i], kind |-> kinds[i]]] :
     ks \in {k \in BoundedSeq(names, max) : IsInjective(k)},
     kinds \in [1 .. max -> Kinds]}

MCRequests ==
  {q \in BoundedSeq({"lat", "lon", "rain", "wind", "units"}, 4) :
     {"lat", "lon"} \subseteq ToSet(q)}

MCCurrents == Objects({"time", "rain", "wind"}, 3)

MCResults == BoundedSeq(Objects({"name", "latitude", "id"}, 2), 2)

(* Octets at the edges of every row of the table of well-formed characters, *)
(* a NUL and a newline.                                                     *)
MCSource ==
  {0, 10, 127, 128, 143, 144, 159, 160, 191, 193, 194, 223, 224, 225, 237,
   238, 240, 241, 244, 245}

ASSUME InputsAssumption ==
  /\ URLAssumption
  /\ DecoderAssumption
  /\ ResponsesAssumption
  /\ StreamAssumption

-----------------------------------------------------------------------------
(* JSON: documents to dump, and answers that arrive octet by octet or, to   *)
(* reach the long forms, in pieces.                                         *)
List(v) == Value("array", <<v>>)

Scalars ==
  {Value("true", NULL), Value("null", NULL), Value("integer", -98),
   Value("real", <<5, 1>>), Value("real", <<-25, -3>>),
   Value("real", <<-7, -5>>), Value("real", <<25, 9>>),
   Value("string", <<>>), Value("string", <<97, Quote, Newline>>),
   Value("string", <<Colon, 49, Comma, 47, 1, 195, 169>>)}

Strings == {<<>>, <<98>>, <<Quote>>}

ObjectsOf(S) ==
  {Value("object", <<[key |-> k, value |-> x]>>) : k \in Strings, x \in S}
  \cup {Value("object", <<[key |-> kk[1], value |-> x],
                          [key |-> kk[2], value |-> y]>>) :
          kk \in {kk \in Strings \X Strings : kk[1] # kk[2]}, x, y \in S}

ArraysOf(S) ==
  {List(x) : x \in S} \cup {Value("array", <<x, y>>) : x, y \in S}

Empty == {Value("array", <<>>), Value("object", <<>>)}

Nested ==
  {List(x) : x \in ArraysOf(Empty) \cup ObjectsOf(Empty)}

TooDeep == List(List(List(Value("array", <<>>))))

MCDocuments == Empty \cup {TooDeep} \cup ArraysOf(Scalars) \cup Nested
  \cup ObjectsOf({Value("true", NULL), Value("string", <<Colon, 49, Comma>>),
                  Value("array", <<Value("integer", 7)>>)})

(* { } [ ] " : , 1 and a blank, and the key of an entry, "":                *)
Marks ==
  {<<123>>, <<125>>, <<91>>, <<93>>, <<Quote>>, <<Colon>>, <<Comma>>, <<49>>,
   <<Space>>, <<Quote, Quote, Colon>>}

(* What numbers are made of, in an array that is open and closed, so that   *)
(* exponents at either end of their range come.                             *)
Figures ==
  {<<91>>, <<91, Minus>>, <<91, 49>>, <<93>>, <<49, 93>>, <<Zero>>, <<49>>,
   <<Point>>, <<LowerE>>, <<LowerE, Plus>>, <<LowerE, Minus>>}

(* An open string and its end, escapes, halves of escapes, characters.      *)
Escape4(n) == <<Backslash, LowerU>> \o Hex4(n)

Characters ==
  {<<91, Quote>>, <<Quote, 93>>, <<Quote>>, <<Backslash>>, <<LowerU>>, <<110>>,
   <<Newline>>, <<195>>, <<169>>, <<240, 159, 152, 128>>, <<237, 160, 128>>,
   Escape4(0), Escape4(233), Escape4(55357), Escape4(56832),
   <<Backslash, LowerU, 48, 48>>}

MCPieces == [marks |-> Marks, figures |-> Figures, characters |-> Characters]

MCMaxPieces == [marks |-> 5, figures |-> 5, characters |-> 4]

-----------------------------------------------------------------------------
NoUrl ==
  /\ url = <<>> /\ routes = <<>> /\ end_point = NULL /\ rest = <<>>
  /\ parameters = <<>> /\ room = 2 /\ handler = NULL /\ handling = "none"

NoName == raw = <<>> /\ buf = <<>> /\ s = 1 /\ out = 1 /\ decoding = "none"

NoText ==
  /\ upstream = "none" /\ text = <<>> /\ document = NULL /\ unwritten = <<>>
  /\ failure = 0 /\ pieces = 0

InputsInit ==
  /\ input \in {"url", "name", "octets", "answer", "text"}
  /\ IF input = "url" THEN UrlInit ELSE NoUrl
  /\ IF input = "name" THEN NameInit ELSE NoName
  /\ IF input = "text" THEN Init ELSE NoText
  /\ StreamInit
  /\ AnswerInit

HandleUrl ==
  /\ input = "url" /\ UrlNext
  /\ UNCHANGED <<input, nameVars, streamVars, answerVars, vars>>

DecodeName ==
  /\ input = "name" /\ NameNext
  /\ UNCHANGED <<input, urlVars, streamVars, answerVars, vars>>

ReadOctets ==
  /\ input = "octets" /\ StreamNext
  /\ UNCHANGED <<input, urlVars, nameVars, answerVars, vars>>

ParseAnswer ==
  /\ input = "answer" /\ AnswerNext
  /\ UNCHANGED <<input, urlVars, nameVars, streamVars, vars>>

HandleText ==
  /\ input = "text" /\ Next
  /\ UNCHANGED <<input, urlVars, nameVars, streamVars, answerVars>>

InputsNext ==
  HandleUrl \/ DecodeName \/ ReadOctets \/ ParseAnswer \/ HandleText

inputsVars == <<input, urlVars, nameVars, streamVars, answerVars, vars>>

InputsSpec == InputsInit /\ [][InputsNext]_inputsVars

=============================================================================
