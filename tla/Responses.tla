------------------------------ MODULE Responses ------------------------------
(***************************************************************************)
(* What a handler makes of the JSON that upstream sent:                     *)
(* GEO_ParseResponse and Meteo_ParseResponse of libs/API.                   *)
(*                                                                          *)
(* A JSON object is the sequence of its members in the order jansson keeps  *)
(* and JSON_PRESERVE_ORDER prints, one member per key.                      *)
(***************************************************************************)
EXTENDS Integers, Sequences, FiniteSets, SequencesExt

CONSTANTS
  Currents,  \* what upstream may send as "current"
  Results,   \* what upstream may send as "results"
  Requests   \* the keys of the parameters of a request to Handle_Weather

(* The members of an object of jansson have different keys.                 *)
Object(members) ==
  /\ members \in Seq(ToSet(members))
  /\ \A i, j \in DOMAIN members : members[i].key = members[j].key => i = j

ResponsesAssumption ==
  /\ \A current \in Currents : Object(current)
  /\ \A results \in Results :
       /\ results \in Seq(ToSet(results))
       /\ \A object \in ToSet(results) : Object(object)
  /\ \A request \in Requests : request \in Seq(ToSet(request))

VARIABLES
  parsing,
  body,      \* the member of upstream's answer that the handler looks at
  keys,      \* the keys of handler->parameters
  answer     \* parsed_response

answerVars == <<parsing, body, keys, answer>>

KeysOf(object) == {object[i].key : i \in DOMAIN object}

(* json_is_integer, json_is_string and json_is_real: null, true, false,     *)
(* arrays and objects are none of the three.                                *)
Scalar(m) == m.kind \in {"integer", "string", "real"}

(* json_object_set_new: the key keeps its place when it has one.            *)
json_object_set_new(object, m) ==
  IF m.key \in KeysOf(object)
    THEN [i \in DOMAIN object |-> IF object[i].key = m.key THEN m ELSE object[i]]
    ELSE Append(object, m)

(* json_object_foreach with a body that copies the members of some keys.    *)
CopyMembers(to, from, wanted) ==
  FoldLeft(LAMBDA o, m : IF m.key \in wanted /\ Scalar(m)
                           THEN json_object_set_new(o, m) ELSE o, to, from)

-----------------------------------------------------------------------------
GeoKeys == {"latitude", "longitude", "name", "country_code"}

(* No "results" is like none of them.                                       *)
GEO_ParseResponse(results) ==
  [i \in DOMAIN results |->
     CopyMembers(<<>>, results[i], GeoKeys)]

(* Mutant: latitude and longitude are not counted.                          *)
Meteo_ParseResponse_CountsAll(current, params) ==
  FoldLeft(LAMBDA o, k : CopyMembers(o, current, {k}),
           IF Len(params) <= 3 THEN CopyMembers(<<>>, current, KeysOf(current))
                               ELSE <<>>,
           params)

(* Everything when the request has two parameters; then, for each parameter *)
(* in turn, the members with its key.                                       *)
Meteo_ParseResponse(current, params) ==
  FoldLeft(LAMBDA o, k : CopyMembers(o, current, {k}),
           IF Len(params) = 2 THEN CopyMembers(<<>>, current, KeysOf(current))
                              ELSE <<>>,
           params)

-----------------------------------------------------------------------------
Handle_GEO ==
  /\ parsing = "ask"
  /\ keys' = <<"city">>
  /\ body' \in Results
  /\ answer' = GEO_ParseResponse(body')
  /\ parsing' = "geo"

(* Handle_Weather answers a request without lat and lon by itself.          *)
Handle_Weather ==
  /\ parsing = "ask"
  /\ keys' \in Requests
  /\ {"lat", "lon"} \subseteq ToSet(keys')
  /\ body' \in Currents
  /\ answer' = Meteo_ParseResponse(body', keys')
  /\ parsing' = "weather"

Dispose ==
  /\ parsing \in {"geo", "weather"}
  /\ parsing' = "ask"
  /\ body' = <<>>
  /\ keys' = <<>>
  /\ answer' = <<>>

AnswerInit ==
  /\ parsing = "ask"
  /\ body = <<>>
  /\ keys = <<>>
  /\ answer = <<>>

AnswerNext == Handle_GEO \/ Handle_Weather \/ Dispose

AnswerSpec == AnswerInit /\ [][AnswerNext]_answerVars

-----------------------------------------------------------------------------
Place(object, key) == CHOOSE i \in DOMAIN object : object[i].key = key

Wanted == ToSet(keys) \ {"lat", "lon"}

(***************************************************************************)
(* "If no specifed parameters, return all data" (Meteo_API.c:149), and      *)
(* otherwise the ones that were specified: of a request that names no       *)
(* parameter twice, the answer has every variable asked for that upstream   *)
(* gave a value, with that value, nothing else, and in the order of the     *)
(* request, or of upstream when everything is asked for.                    *)
(***************************************************************************)
WeatherIsWhatWasAsked ==
  parsing = "weather" /\ IsInjective(keys) =>
    /\ IsInjective(answer)
    /\ ToSet(answer) = {m \in ToSet(body) :
                          Scalar(m) /\ (Wanted = {} \/ m.key \in ToSet(keys))}
    /\ \A i, j \in DOMAIN answer :
         i < j => IF Wanted = {}
                    THEN Place(body, answer[i].key) < Place(body, answer[j].key)
                    ELSE \E p, q \in DOMAIN keys :
                           p < q /\ keys[p] = answer[i].key /\ keys[q] = answer[j].key

(* The n-th place of an answer is the n-th place upstream found, whatever   *)
(* members it lacks: the client takes the first one, and the coordinates    *)
(* that GEO_CacheResponse stores are also those of the first.               *)
PlacesStayInPlace ==
  parsing = "geo" =>
    /\ Len(answer) = Len(body)
    /\ \A i \in DOMAIN body :
         ToSet(answer[i]) = {m \in ToSet(body[i]) : m.key \in GeoKeys /\ Scalar(m)}

(* Of what upstream sends, the client gets the variables it asked for, and  *)
(* every place where it was.                                                *)
AnswerIsWhatWasAsked == WeatherIsWhatWasAsked /\ PlacesStayInPlace

=============================================================================
