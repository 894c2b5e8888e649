---------------------------- MODULE WeatherClient ----------------------------
(***************************************************************************)
(* The C++ client (client-cpp/src) in front of the handlers of the server:  *)
(* the menu of main, WeatherClient, Cache and HTTPClient, and one user.     *)
(* The client has a cache directory of its own, above the caches of the     *)
(* server, so what a user sees may have aged in both.                       *)
(*                                                                          *)
(* One request of the client is one Ask of module WeatherAPI; other clients *)
(* ask the server in between.                                               *)
(***************************************************************************)
EXTENDS WeatherAPI, Sequences

CONSTANTS
  ClientTTL,      \* the 900 seconds of Cache::cache_load
  MaxClientFaults \* bound on the writes of the client that fail

ASSUME ClientAssumption ==
  /\ Queries # {}
  /\ ClientTTL \in Nat \ {0}
  /\ MaxClientFaults \in Nat

VARIABLES
  store,     \* the files of the client: their text, their age, and the age of
             \* the text
  user,      \* where the client is, the query it works on, the text it got
  response,  \* the variable of main: what it printed last
  clientFaults

clientVars == <<store, user, response, clientFaults>>

allVars == <<apiVars, clientVars>>

(***************************************************************************)
(* The name of a file: the city, or latitude and longitude next to each     *)
(* other; a coordinate is the sequence of its characters.                   *)
(***************************************************************************)
CacheName(q) == IF q \in Weather THEN q[1] \o q[2] ELSE q

Names == {CacheName(q) : q \in Queries}

Oldest == TTL + ClientTTL

Aging(age) == IF age = Oldest THEN Oldest ELSE age + 1

(* "none" is the JSON text with which a handler reports that it failed,     *)
(* "part" the beginning of any other text.                                  *)
ClientTexts == Texts \cup {"none", "part"}

ClientFiles ==
  [text : ClientTexts \cup {"absent", "empty"}, saved : 0 .. Oldest,
   age : 0 .. Oldest]

(* Nothing was printed yet; "failed" is "Failed to get data".               *)
Responses ==
  [text : ClientTexts \cup {"nothing", "failed"}, age : 0 .. Oldest]

NoQuery == CHOOSE q \in Queries : TRUE

NothingYet == [text |-> "nothing", age |-> 0]

UserAt(pc) == user.pc = pc

(* get_cords or get_weather returns, and main prints what it returned.      *)
Prints(text, age) ==
  /\ response' = [text |-> text, age |-> age]
  /\ user' = [user EXCEPT !.pc = "show"]

Fails == Prints("failed", 0)

-----------------------------------------------------------------------------
ChooseOption(q) ==
  /\ UserAt("menu")
  /\ user' = [pc |-> "load", query |-> q, text |-> "none", age |-> 0]
  /\ UNCHANGED <<apiVars, store, response, clientFaults>>

(* Any other line: main prints the last response once more.                 *)
InvalidOption ==
  /\ UserAt("menu")
  /\ UNCHANGED <<apiVars, clientVars>>

(* Mutant: nobody looks whether the file is there.                          *)
Usable_Unchecked(q, file) == q \in Weather => file.saved < ClientTTL

(* Mutant: the age of a weather file is not looked at.                      *)
Usable_Weather(q, file) == file.text \notin {"absent", "empty"}

(* Cache::cache_load, with check_age for the weather only; an empty file    *)
(* reads like one that is not there.                                        *)
Usable(q, file) ==
  /\ file.text \notin {"absent", "empty"}
  /\ q \in Weather => file.saved < ClientTTL

cache_load ==
  /\ UserAt("load")
  /\ LET file == store[CacheName(user.query)]
     IN IF Usable(user.query, file)
          THEN Prints(file.text, file.age)
          ELSE user' = [user EXCEPT !.pc = "get"] /\ UNCHANGED response
  /\ UNCHANGED <<apiVars, store, clientFaults>>

(* HTTPClient_GET, while nobody listens or the server takes the request.    *)
ServerIsDown ==
  /\ UserAt("get")
  /\ ~up
  /\ Fails
  /\ UNCHANGED <<apiVars, store, clientFaults>>

HTTPClient_GET ==
  /\ UserAt("get")
  /\ Ask(user.query)
  /\ user' = [user EXCEPT !.pc = "wait"]
  /\ UNCHANGED <<store, response, clientFaults>>

(* The body arrives, or the connection ends without one.                    *)
Receives ==
  /\ UserAt("wait")
  /\ Reply
  /\ user' = [user EXCEPT !.pc = "save", !.text = op.text, !.age = op.age]
  /\ UNCHANGED <<store, response, clientFaults>>

ServerDies ==
  /\ UserAt("wait")
  /\ StrdupOfNull \/ Killed
  /\ Fails
  /\ UNCHANGED <<store, clientFaults>>

(***************************************************************************)
(* Cache::cache_save: whatever was received, an error too, is written, and  *)
(* nobody looks whether it worked: a file that cannot be opened stays as it *)
(* is, a full disk leaves a part of the text, and a client that is killed   *)
(* an empty file.                                                           *)
(***************************************************************************)
Saves(text) ==
  store' = [store EXCEPT ![CacheName(user.query)] =
              [text |-> text, saved |-> 0, age |-> user.age]]

cache_save ==
  /\ UserAt("save")
  /\ \/ Saves(user.text) /\ UNCHANGED clientFaults
     \/ /\ clientFaults < MaxClientFaults
        /\ clientFaults' = clientFaults + 1
        /\ Saves("part") \/ UNCHANGED store
  /\ Prints(user.text, user.age)
  /\ UNCHANGED apiVars

ClientKilled ==
  /\ UserAt("save")
  /\ clientFaults < MaxClientFaults
  /\ clientFaults' = clientFaults + 1
  /\ Saves("empty")
  /\ user' = [user EXCEPT !.pc = "exited"]
  /\ UNCHANGED <<apiVars, response>>

(* main prints the response and shows its menu again.                       *)
Shown ==
  /\ UserAt("show")
  /\ user' = [user EXCEPT !.pc = "menu"]
  /\ UNCHANGED <<apiVars, store, response, clientFaults>>

Exit ==
  /\ UserAt("menu")
  /\ user' = [user EXCEPT !.pc = "exited"]
  /\ UNCHANGED <<apiVars, store, response, clientFaults>>

Start ==
  /\ UserAt("exited")
  /\ user' = [user EXCEPT !.pc = "menu"]
  /\ response' = NothingYet
  /\ UNCHANGED <<apiVars, store, clientFaults>>

-----------------------------------------------------------------------------
(* The server and its other clients.                                        *)
ServerAlone ==
  /\ \/ CheckCache
     \/ \E answer \in Answers : Curl_HTTPGet(answer)
     \/ CacheResponse
     \/ OpenCacheFile
     \/ WriteCacheFile
     \/ OpenCityFile
     \/ WriteCityFile
     \/ Restart
     \/ ~UserAt("wait") /\ (Reply \/ StrdupOfNull \/ Killed)
  /\ UNCHANGED clientVars

OthersAsk == (\E q \in Queries : Ask(q)) /\ UNCHANGED clientVars

TimePasses ==
  /\ user.pc \in {"menu", "wait", "exited"}
  /\ Tick
  /\ store' = [n \in Names |-> [store[n] EXCEPT !.saved = Aging(@),
                                                !.age   = Aging(@)]]
  /\ response' = [response EXCEPT !.age = Aging(@)]
  /\ UNCHANGED <<user, clientFaults>>

ClientInit ==
  /\ Init
  /\ store = [n \in Names |-> [text |-> "absent", saved |-> 0, age |-> 0]]
  /\ user = [pc |-> "exited", query |-> NoQuery, text |-> "none", age |-> 0]
  /\ response = NothingYet
  /\ clientFaults = 0

ClientStep ==
  \/ cache_load
  \/ ServerIsDown
  \/ HTTPClient_GET
  \/ Receives
  \/ ServerDies
  \/ cache_save
  \/ Shown

ClientNext ==
  \/ \E q \in Queries : ChooseOption(q)
  \/ InvalidOption
  \/ ClientStep
  \/ ClientKilled
  \/ Exit
  \/ Start
  \/ ServerAlone
  \/ OthersAsk
  \/ TimePasses

ClientSafety == ClientInit /\ [][ClientNext]_allVars

(* As in WeatherAPI, for a user who starts the client whenever it is not    *)
(* running and asks for everything again and again.  That the clock does    *)
(* not stand still is said where it is needed, by TimeGoesOn.               *)
ClientFairness ==
  /\ WF_allVars(ServerAlone)
  /\ SF_allVars(ClientStep)
  /\ WF_allVars(Start)
  /\ \A q \in Queries : SF_allVars(ChooseOption(q))

ClientSpec == ClientSafety /\ ClientFairness

-----------------------------------------------------------------------------
(* Types.                                                                   *)
ClientTypeOK ==
  /\ TypeOK
  /\ store \in [Names -> ClientFiles]
  /\ user \in [pc : {"menu", "load", "get", "wait", "save", "show", "exited"},
               query : Queries, text : Texts \cup {"none"}, age : 0 .. Oldest]
  /\ response \in Responses
  /\ clientFaults \in 0 .. MaxClientFaults

(* From end to end: weather that is printed was true less than the two      *)
(* lifetimes together ago, however the two caches were filled, hurt and     *)
(* refilled, by whichever client.                                           *)
ShownWeatherIsRecent ==
  UserAt("show") /\ user.query \in Weather => response.age <= Oldest - 2

(* A user never sees a part of a weather text for longer than the lifetime  *)
(* of its file: after everything has recovered, all weather is data again.  *)
TimeGoesOn == []<><<TimePasses>>_allVars

Broken == \E a \in Answers \ {"data"} : Curl_HTTPGet(a)

WeatherComesBack ==
  TimeGoesOn /\ <>[][~Broken]_allVars =>
    \A q \in Weather :
      []<>(UserAt("show") /\ user.query = q /\ response.text = "data")

=============================================================================
