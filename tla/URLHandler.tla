----------------------------- MODULE URLHandler -----------------------------
(***************************************************************************)
(* How the server finds a handler and its parameters in the URL of a        *)
(* request: server/src/Handlers/URLHandler.c and RouteHandler.c, and the    *)
(* start of the server, which fills the table of routes.                    *)
(*                                                                          *)
(* A text is a sequence of tokens: "v1/", "?", "&", "=" and words.  The     *)
(* array of parameters grows by realloc while strtok walks over the query.  *)
(***************************************************************************)
EXTENDS Pointers, Integers, Sequences, FiniteSets, SequencesExt

CONSTANTS
  Urls,        \* the URLs that a request may have
  Registered,  \* what WeatherServer_Initialize passes to RouteHandler_Init
  MAX_ROUTES

(* There is room for every route.                                           *)
URLAssumption ==
  /\ \A u \in Urls : u \in Seq(ToSet(u))
  /\ Registered \in Seq(ToSet(Registered))
  /\ \A r \in ToSet(Registered) : DOMAIN r = {"path", "handler"}
  /\ MAX_ROUTES \in Nat
  /\ Len(Registered) <= MAX_ROUTES

VARIABLES
  url,
  routes,      \* the table of RouteHandler.c
  handling,
  end_point,
  rest,        \* what strtok has not looked at yet
  parameters,  \* the pairs that were found, as many as pairsLength says
  room,        \* the pairs that the array has room for
  handler      \* what RouteHandler_FindRoute returned

urlVars == <<url, routes, handling, end_point, rest, parameters, room, handler>>

(* strstr and strchr: the first place at which a token stands, or 0.        *)
First(t, text) == SelectInSeq(text, LAMBDA u : u = t)

After(t, text) == SubSeq(text, First(t, text) + 1, Len(text))

Before(t, text) ==
  IF First(t, text) = 0 THEN text ELSE SubSeq(text, 1, First(t, text) - 1)

-----------------------------------------------------------------------------
RouteHandler_Init(table, r) ==
  IF Len(table) >= MAX_ROUTES THEN table ELSE Append(table, r)

RouteHandler_FindRoute(table, path) ==
  LET i == SelectInSeq(table, LAMBDA r : r.path = path)
  IN IF i = 0 THEN NULL ELSE table[i].handler

(* The end point: what is between the first "v1/" and the next '?'.         *)
URLHandler_ParseEndPoint(text) ==
  LET start == After("v1/", text)
  IN IF First("v1/", text) = 0 \/ First("?", start) = 0 THEN NULL
     ELSE Before("?", start)

(* Mutant: a pair is split at its last '='.                                 *)
Pair_Last(token) ==
  LET i == SelectLastInSeq(token, LAMBDA u : u = "=")
  IN [key |-> SubSeq(token, 1, i - 1), value |-> SubSeq(token, i + 1, Len(token))]

Pair(token) == [key |-> Before("=", token), value |-> After("=", token)]

URLHandler_GetParameterValue(pairs, key) ==
  LET i == SelectInSeq(pairs, LAMBDA p : p.key = key)
  IN IF i = 0 THEN NULL ELSE pairs[i].value

-----------------------------------------------------------------------------

Full == Len(parameters) = room

(* WeatherServer_Initialize: the routes, in order, before any request.      *)
RegisterRoutes ==
  /\ handling = "boot"
  /\ routes' = FoldLeft(RouteHandler_Init, <<>>, Registered)
  /\ handling' = "endPoint"
  /\ UNCHANGED <<url, end_point, rest, parameters, room, handler>>

(* URLHandler_Initialize and the first half of URLHandler_Parse; then       *)
(* strtok gets what follows the first '?' of the whole URL.                 *)
ParseEndPoint ==
  /\ handling = "endPoint"
  /\ end_point' = URLHandler_ParseEndPoint(url)
  /\ handling' = IF end_point' = NULL THEN "failed" ELSE "parameters"
  /\ rest' = After("?", url)
  /\ UNCHANGED <<url, routes, parameters, room, handler>>

(* strtok passes over '&' that follow each other.                           *)
SkipAmpersand ==
  /\ handling = "parameters"
  /\ rest # <<>> /\ Head(rest) = "&"
  /\ rest' = Tail(rest)
  /\ UNCHANGED <<url, routes, handling, end_point, parameters, room, handler>>

QueryToken == Before("&", rest)

NextToken ==
  /\ handling = "parameters"
  /\ rest # <<>> /\ Head(rest) # "&"
  /\ rest' = After("&", IF First("&", rest) = 0 THEN Append(rest, "&") ELSE rest)

SkipToken ==
  /\ NextToken
  /\ First("=", QueryToken) = 0
  /\ UNCHANGED <<url, routes, handling, end_point, parameters, room, handler>>

TakePair ==
  /\ NextToken
  /\ First("=", QueryToken) # 0
  /\ room' = IF Full THEN 2 * room ELSE room
  /\ parameters' = Append(parameters, Pair(QueryToken))
  /\ UNCHANGED <<url, routes, handling, end_point, handler>>

(* realloc fails: what was found is kept for URLHandler_Dispose.            *)
NoMemory ==
  /\ NextToken
  /\ First("=", QueryToken) # 0
  /\ Full
  /\ handling' = "failed"
  /\ UNCHANGED <<url, routes, end_point, parameters, room, handler>>

FindRoute ==
  /\ handling = "parameters"
  /\ rest = <<>>
  /\ handler' = RouteHandler_FindRoute(routes, end_point)
  /\ handling' = "handler"
  /\ UNCHANGED <<url, routes, end_point, rest, parameters, room>>

(* URLHandler_Dispose, after the handler or a failure.  The next request has*)
(* a URLHandler of its own, and shares nothing with this but the routes.    *)
URLHandler_Dispose ==
  /\ handling \in {"handler", "failed"}
  /\ handling' = "disposed"
  /\ end_point' = NULL
  /\ rest' = <<>>
  /\ parameters' = <<>>
  /\ room' = 2
  /\ handler' = NULL
  /\ UNCHANGED <<url, routes>>

UrlInit ==
  /\ url \in Urls
  /\ routes = <<>>
  /\ handling = "boot"
  /\ end_point = NULL
  /\ rest = <<>>
  /\ parameters = <<>>
  /\ room = 2
  /\ handler = NULL

UrlNext ==
  \/ RegisterRoutes
  \/ ParseEndPoint
  \/ SkipAmpersand
  \/ SkipToken
  \/ TakePair
  \/ NoMemory
  \/ FindRoute
  \/ URLHandler_Dispose

UrlSpec == UrlInit /\ [][UrlNext]_urlVars

-----------------------------------------------------------------------------
(* What a URL means, said without a parser.  The cuts of a text are the     *)
(* ends of its longest parts without '&' that are not empty.                *)
Cuts(text) ==
  {p \in (1 .. Len(text)) \X (1 .. Len(text)) :
     /\ p[1] <= p[2]
     /\ \A i \in p[1] .. p[2] : text[i] # "&"
     /\ p[1] = 1 \/ text[p[1] - 1] = "&"
     /\ p[2] = Len(text) \/ text[p[2] + 1] = "&"}

(* Those that are pairs.                                                    *)
PairCuts(text) ==
  {p \in Cuts(text) : "=" \in ToSet(SubSeq(text, p[1], p[2]))}

(* How many of them end by the place e.                                     *)
PairsBy(text, e) == Cardinality({p \in PairCuts(text) : p[2] <= e})

(***************************************************************************)
(* When the handler runs, the URL was prefix v1/ end point ? query; the     *)
(* handler is the first that was registered for this end point; and if no   *)
(* '?' is in front of "v1/", the parameters are the pieces of the query     *)
(* that have a '=', in their order, each cut in two at its first '='.       *)
(***************************************************************************)
HandlerGetsWhatTheURLSays ==
  handling = "handler" =>
    \E i, j \in 1 .. Len(url) :
      /\ i < j /\ url[i] = "v1/" /\ url[j] = "?"
      /\ \A k \in 1 .. i - 1 : url[k] # "v1/"
      /\ \A k \in i + 1 .. j - 1 : url[k] # "?"
      /\ end_point = SubSeq(url, i + 1, j - 1)
      /\ LET found == {r \in DOMAIN Registered : Registered[r].path = end_point}
         IN IF found = {} THEN handler = NULL
            ELSE \E r \in found : /\ \A s \in found : r <= s
                                  /\ handler = Registered[r].handler
      /\ (\A k \in 1 .. i : url[k] # "?") =>
           LET query == SubSeq(url, j + 1, Len(url))
           IN /\ Len(parameters) = Cardinality(PairCuts(query))
              /\ \A p \in PairCuts(query) :
                   LET pair == parameters[PairsBy(query, p[2])]
                   IN /\ pair.key \o <<"=">> \o pair.value = SubSeq(query, p[1], p[2])
                      /\ "=" \notin ToSet(pair.key)

(* The pairs never outgrow the array, wherever it stops growing.            *)
PairsHaveRoom == Len(parameters) <= room

(* A handler runs with the end point and the parameters that its URL says,  *)
(* and the array that they grow in has room for them wherever the growing   *)
(* stops.                                                                   *)
UrlIsUnderstood == HandlerGetsWhatTheURLSays /\ PairsHaveRoom

=============================================================================
