------------------------------ MODULE WeatherAPI ------------------------------
(***************************************************************************)
(* The two handlers of the server and the API clients under them:           *)
(* Handle_GEO and Handle_Weather, libs/API/GEO_API.c, libs/API/Meteo_API.c  *)
(* and libs/curl.c, with their files under cache/ and cities/.              *)
(*                                                                          *)
(* A handler runs inside one callback of the scheduler, so there is one     *)
(* request at a time; what may come between its steps is the death of the   *)
(* process, an upstream service that answers anything, and a disk that      *)
(* takes no more.  json_dump_file truncates its file before it writes it,   *)
(* which makes opening, writing and closing a file steps of their own.      *)
(***************************************************************************)
EXTENDS Integers

CONSTANTS
  Geo,        \* the cities asked of Handle_GEO, as decoded
  Weather,    \* the <<latitude, longitude>> asked of Handle_Weather
  TTL,        \* the 900 seconds of Meteo_CheckCache, in units of the clock
  Answers,    \* what an upstream service may answer
  MaxKills,   \* bound on how often the process is killed
  MaxFaults   \* bound on the writes that fail

Queries == Geo \cup Weather

(***************************************************************************)
(*   "data"  the JSON asked for, with coordinates other than 0 for a city;  *)
(*   "zero"  a city on the equator or the prime meridian;                   *)
(*   "error" any other JSON object: an error, no results;                   *)
(*   "junk"  no JSON;                                                       *)
(*   "none"  curl reports an error.                                         *)
(***************************************************************************)
Texts == {"data", "zero", "error", "junk"}

ASSUME APIAssumption ==
  /\ Geo \cap Weather = {}
  /\ TTL \in Nat \ {0}
  /\ Answers \subseteq Texts \cup {"none"}
  /\ MaxKills \in Nat
  /\ MaxFaults \in Nat

VARIABLES
  cache,    \* the file of each query in cache/
  city,     \* the file of each city in cities/: "absent", "torn" or "whole"
  op,       \* the handler that is running
  served,   \* what each query was answered last
  up,       \* the process is alive
  since,    \* time since each query was last answered with JSON by upstream
  hurt,     \* the queries whose last answer was not saved as it should
  kills, faults

apiVars == <<cache, city, op, served, up, since, hurt, kills, faults>>

Ages == 0 .. TTL      \* TTL stands for that age and every higher one

Older(age) == IF age = TTL THEN TTL ELSE age + 1

Files == [text : {"absent", "torn"} \cup Texts, age : Ages]

Absent == [text |-> "absent", age |-> 0]

Idle == [pc |-> "idle"]

(* The points of a handler, in the order of the code.                       *)
Points == {"check", "curl", "store", "openCache", "writeCache", "openCity",
           "writeCity", "parse"}

Running == [pc : Points, query : Queries, text : Texts \cup {"none"},
            age : Ages, cached : BOOLEAN]

At(pc) == up /\ op.pc = pc

Goto(pc) == op' = [op EXCEPT !.pc = pc]

(***************************************************************************)
(* Handle_GEO or Handle_Weather is called.  The query is the decoded name,  *)
(* or latitude and longitude with a separator, and stands for the digest    *)
(* that names the file; a request without its parameters is answered        *)
(* without a look at anything.                                              *)
(***************************************************************************)
Ask(q) ==
  /\ up
  /\ op = Idle
  /\ op' = [pc |-> "check", query |-> q, text |-> "none", age |-> 0,
            cached |-> FALSE]
  /\ UNCHANGED <<cache, city, served, up, since, hurt, kills, faults>>

(* Mutant: the comparison with 900 is the wrong way round.                  *)
TooOld_Never(q, file) == FALSE

(* Mutant: the weather is fetched every time.                               *)
TooOld_Always(q, file) == q \in Weather

TooOld(q, file) == q \in Weather /\ file.age >= TTL

(***************************************************************************)
(* GEO_CheckCache and Meteo_CheckCache: only the second looks at the age.   *)
(* A file that does not parse is removed.                                   *)
(***************************************************************************)
CheckCache ==
  /\ At("check")
  /\ LET file   == cache[op.query]
         usable == file.text # "absent" /\ ~TooOld(op.query, file)
         whole  == file.text # "torn"
     IN /\ cache' = IF usable /\ ~whole THEN [cache EXCEPT ![op.query] = Absent]
                                        ELSE cache
        /\ op' = IF usable /\ whole
                   THEN [op EXCEPT !.pc = "parse", !.text = file.text,
                                   !.age = file.age, !.cached = TRUE]
                   ELSE [op EXCEPT !.pc = "curl"]
  /\ UNCHANGED <<city, served, up, since, hurt, kills, faults>>

(* Curl_HTTPGet: the answer is young when it comes, however long it took.   *)
IsJSON(text) == text \in {"data", "zero", "error"}

Curl_HTTPGet(answer) ==
  /\ At("curl")
  /\ op' = [op EXCEPT !.pc = IF answer = "none" THEN "parse" ELSE "store",
                      !.text = answer]
  /\ since' = IF IsJSON(answer) THEN [since EXCEPT ![op.query] = 0] ELSE since
  /\ UNCHANGED <<cache, city, served, up, hurt, kills, faults>>

(***************************************************************************)
(* GEO_CacheResponse and Meteo_CacheResponse, whose result nobody looks at. *)
(* An error of Meteo is cached like data; of GEO only coordinates of which  *)
(* neither is 0.                                                            *)
(***************************************************************************)
(* Mutant: the answer is dumped without being parsed first.                 *)
Cacheable_Anything(q, text) == TRUE

Cacheable(q, text) == IF q \in Geo THEN text = "data" ELSE IsJSON(text)

CacheResponse ==
  /\ At("store")
  /\ Goto(IF Cacheable(op.query, op.text) THEN "openCache" ELSE "parse")
  /\ UNCHANGED <<cache, city, served, up, since, hurt, kills, faults>>

WriteFails ==
  /\ faults < MaxFaults
  /\ faults' = faults + 1
  /\ hurt' = hurt \cup {op.query}

(* fopen of json_dump_file: it truncates the file, or fails.                *)
OpenCacheFile ==
  /\ At("openCache")
  /\ \/ /\ cache' = [cache EXCEPT ![op.query] = [text |-> "torn", age |-> 0]]
        /\ Goto("writeCache")
        /\ UNCHANGED <<faults, hurt>>
     \/ /\ WriteFails
        /\ Goto("parse")
        /\ UNCHANGED cache
  /\ UNCHANGED <<city, served, up, since, kills>>

(* Mutant: a city is only written when its cache file was.                  *)
AfterCacheFile_SkipsCity(q) == "parse"

AfterCacheFile(q) == IF q \in Geo THEN "openCity" ELSE "parse"

WriteCacheFile ==
  /\ At("writeCache")
  /\ \/ /\ cache' = [cache EXCEPT ![op.query].text = op.text]
        /\ Goto(AfterCacheFile(op.query))
        /\ hurt' = hurt \ (Weather \cap {op.query})
        /\ UNCHANGED faults
     \/ /\ WriteFails
        /\ Goto("parse")
        /\ UNCHANGED cache
  /\ UNCHANGED <<city, served, up, since, kills>>

OpenCityFile ==
  /\ At("openCity")
  /\ \/ /\ city' = [city EXCEPT ![op.query] = "torn"]
        /\ Goto("writeCity")
        /\ UNCHANGED <<faults, hurt>>
     \/ /\ WriteFails
        /\ Goto("parse")
        /\ UNCHANGED city
  /\ UNCHANGED <<cache, served, up, since, kills>>

WriteCityFile ==
  /\ At("writeCity")
  /\ Goto("parse")
  /\ \/ /\ city' = [city EXCEPT ![op.query] = "whole"]
        /\ hurt' = hurt \ {op.query}
        /\ UNCHANGED faults
     \/ /\ WriteFails
        /\ UNCHANGED city
  /\ UNCHANGED <<cache, served, up, since, kills>>

(***************************************************************************)
(* GEO_ParseResponse or Meteo_ParseResponse and the end of the handler:     *)
(* curl's failure becomes a JSON text with an "error" member; an answer     *)
(* that is no JSON leaves parsed_response NULL, and strdup of it ends the   *)
(* process.                                                                 *)
(***************************************************************************)
Reply ==
  /\ At("parse")
  /\ op.text # "junk"
  /\ served' = [served EXCEPT ![op.query] = op.text]
  /\ op' = Idle
  /\ UNCHANGED <<cache, city, up, since, hurt, kills, faults>>

(* The process dies: by itself on such an answer, or killed at any point.   *)
Dies ==
  /\ up' = FALSE
  /\ op' = Idle
  /\ UNCHANGED <<cache, city, served, since, faults>>

StrdupOfNull ==
  /\ At("parse")
  /\ op.text = "junk"
  /\ Dies
  /\ UNCHANGED <<hurt, kills>>

Saving == op.pc \in Points \ {"check", "curl", "parse"}

Killed ==
  /\ up
  /\ kills < MaxKills
  /\ kills' = kills + 1
  /\ hurt' = IF Saving THEN hurt \cup {op.query} ELSE hurt
  /\ Dies

Restart ==
  /\ ~up
  /\ up' = TRUE
  /\ UNCHANGED <<cache, city, op, served, since, hurt, kills, faults>>

(* A handler takes no time worth counting, except when it waits for curl.   *)
Tick ==
  /\ op.pc \in {"idle", "curl"}
  /\ cache' = [q \in Queries |-> [cache[q] EXCEPT !.age = Older(@)]]
  /\ since' = [q \in Queries |-> Older(since[q])]
  /\ UNCHANGED <<city, op, served, up, hurt, kills, faults>>

-----------------------------------------------------------------------------
Init ==
  /\ cache = [q \in Queries |-> Absent]
  /\ city = [g \in Geo |-> "absent"]
  /\ op = Idle
  /\ served = [q \in Queries |-> "none"]
  /\ up = TRUE
  /\ since = [q \in Queries |-> TTL]
  /\ hurt = {}
  /\ kills = 0
  /\ faults = 0

Handler ==
  \/ CheckCache
  \/ \E answer \in Answers : Curl_HTTPGet(answer)
  \/ CacheResponse
  \/ OpenCacheFile
  \/ WriteCacheFile
  \/ OpenCityFile
  \/ WriteCityFile
  \/ Reply
  \/ StrdupOfNull

Next ==
  \/ \E q \in Queries : Ask(q)
  \/ Handler
  \/ Killed
  \/ Restart
  \/ Tick

Safety == Init /\ [][Next]_apiVars

(* The process runs its handlers and is started again, clients keep asking  *)
(* everything, and the clock does not stand still.                          *)
Fairness ==
  /\ WF_apiVars(Handler)
  /\ WF_apiVars(Restart)
  /\ \A q \in Queries : SF_apiVars(Ask(q))
  /\ SF_apiVars(Tick)

Spec == Safety /\ Fairness

-----------------------------------------------------------------------------
(* Types.                                                                   *)
TypeOK ==
  /\ cache \in [Queries -> Files]
  /\ city \in [Geo -> {"absent", "torn", "whole"}]
  /\ op \in {Idle} \cup Running
  /\ served \in [Queries -> Texts \cup {"none"}]
  /\ up \in BOOLEAN
  /\ since \in [Queries -> Ages]
  /\ hurt \subseteq Queries
  /\ kills \in 0 .. MaxKills
  /\ faults \in 0 .. MaxFaults

(* The two stores of a city are written one after the other and only on a   *)
(* fetch: between two requests they hold the same cities, except for those  *)
(* that a failed write or the death of the process hit in between, which    *)
(* nothing repairs as long as the cache file is there.                      *)
StoresAgree ==
  \A g \in Geo \ hurt :
    op = Idle \/ op.query # g => (cache[g].text = "data" <=> city[g] = "whole")

(* What is cached parses: whatever upstream answered and wherever a write   *)
(* was cut, an answer that came from the cache never ends the process.      *)
CacheNeverKills == op # Idle /\ op.cached => op.text # "junk"

(* One upstream call per place and lifetime: JSON that arrived is not asked *)
(* for again before it is TTL old, unless its file was hurt, or it is one   *)
(* of the answers of GEO that are not cached.                               *)
OneCallPerTTL ==
  [][\A q \in Queries :
       /\ op.pc = "check" /\ op.query = q
       /\ op'.pc = "curl"
       => \/ since[q] = TTL
          \/ q \in hurt
          \/ q \in Geo /\ served[q] # "data"]_apiVars

(***************************************************************************)
(* After upstream, disk and process have recovered, every query is answered *)
(* with its data again and again: neither a cached error nor a torn file    *)
(* sticks.                                                                  *)
(***************************************************************************)
Curls(good) == \E a \in Answers \ {good} : Curl_HTTPGet(a)

EveryQueryRecovers ==
  <>[][~Curls("data")]_apiVars =>
    \A q \in Queries : []<>(served[q] = "data")

=============================================================================
