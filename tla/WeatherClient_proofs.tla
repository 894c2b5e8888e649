------------------------ MODULE WeatherClient_proofs ------------------------
(***************************************************************************)
(* Proofs about the handlers with their files, and about the C++ client in  *)
(* front of them, for any places, cities and lifetimes of both caches, any  *)
(* set of upstream answers, and any number of faults of either side.        *)
(***************************************************************************)
EXTENDS WeatherClient, TLAPS

-----------------------------------------------------------------------------
(***************************************************************************)
(* The handlers.  None of the properties is inductive: each needs to know   *)
(* what a handler that is under way has found, fetched and written so far.  *)
(* The steps are those of WeatherAPI alone; that every step of the client   *)
(* is one of them, or none, is ServerStep below.                            *)
(***************************************************************************)
(* A handler for q is at one of the points in pcs.                          *)
Busy(q, pcs) == op # Idle /\ op.query = q /\ op.pc \in pcs

(* Nothing that ends the process is in a file.                              *)
NoJunk == \A q \in Queries : cache[q].text # "junk"

(* What the handler that runs knows: where its text came from, that what it *)
(* writes may be cached, and what its files hold by then.                   *)
Knows ==
  op # Idle =>
    /\ op.cached => op.pc = "parse" /\ op.text # "junk"
    /\ op.pc \in {"openCache", "writeCache", "openCity", "writeCity"} =>
         Cacheable(op.query, op.text)
    /\ op.pc = "writeCache" => cache[op.query].age = 0
    /\ op.pc \in {"openCity", "writeCity"} =>
         op.query \in Geo /\ cache[op.query].text = "data"

(* The two stores of a city, between the writes of a handler.               *)
Agree ==
  \A g \in Geo \ hurt :
    \/ Busy(g, {"writeCache", "openCity", "writeCity"})
    \/ cache[g].text = "data" <=> city[g] = "whole"

(* A place that was fetched within its lifetime has a file that is no older *)
(* than the fetch.                                                          *)
Fresh ==
  \A q \in Weather \ hurt :
    \/ since[q] = TTL
    \/ Busy(q, {"store", "openCache", "writeCache"}) /\ IsJSON(op.text)
    \/ IsJSON(cache[q].text) /\ cache[q].age <= since[q]

(* A city that was answered with data is cached, since a handler fetches a  *)
(* city only if it is not.                                                  *)
Cached ==
  /\ \A g \in Geo :
       Busy(g, {"curl", "store", "openCache", "writeCache"}) =>
         cache[g].text # "data"
  /\ \A g \in Geo \ hurt :
       served[g] = "data" \/ (Busy(g, {"parse"}) /\ op.text = "data") =>
         cache[g].text = "data"

Inv == TypeOK /\ NoJunk /\ Knows /\ Agree /\ Fresh /\ Cached

-----------------------------------------------------------------------------
(* A handler at one of its points is not idle, and asks for something.      *)
LEMMA Handling ==
  ASSUME TypeOK, NEW pc \in Points, At(pc)
  PROVE  op \in Running /\ op # Idle /\ op.query \in Queries
  BY DEF TypeOK, At, Points, Running, Idle

(* Init: nothing is cached and nothing was asked.                           *)
LEMMA InvInit ==
  ASSUME Init
  PROVE  Inv
<1>1. TypeOK
  BY APIAssumption
  DEF Init, TypeOK, Files, Absent, Texts, Ages, Idle
<1>2. NoJunk
  BY DEF Init, NoJunk, Absent
<1>3. Knows /\ Agree /\ Fresh /\ Cached
  BY DEF Init, Knows, Agree, Fresh, Cached, Busy, Absent, Queries, Idle
<1> QED
  BY <1>1, <1>2, <1>3 DEF Inv

(* A handler begins.                                                        *)
LEMMA AskKeeps ==
  ASSUME Inv, NEW q \in Queries, Ask(q)
  PROVE  Inv'
<1>1. TypeOK'
  BY APIAssumption
  DEF Inv, TypeOK, Ask, Files, Texts, Ages, Running, Points, Idle, Absent
<1>2. NoJunk'
  BY APIAssumption DEF Inv, TypeOK, NoJunk, Knows, Ask, Queries
<1>3. Knows'
  BY APIAssumption
  DEF Inv, TypeOK, NoJunk, Knows, Ask, Queries, Running, Idle
<1>4. Agree'
  BY APIAssumption
  DEF Inv, TypeOK, Knows, Agree, Busy, Ask, Queries, Running, Idle
<1>5. Fresh'
  BY APIAssumption
  DEF Inv, TypeOK, Knows, Fresh, Busy, IsJSON, Ask, Queries, Running, Idle
<1>6. Cached'
  BY APIAssumption
  DEF Inv, TypeOK, Knows, Cached, Busy, Ask, Queries, Running, Idle
<1> QED
  BY <1>1, <1>2, <1>3, <1>4, <1>5, <1>6 DEF Inv

(* CheckCache: a text that is taken is in a file, so it does not end the    *)
(* process; a city that is fetched is in none.                              *)
LEMMA CheckKeeps ==
  ASSUME Inv, CheckCache
  PROVE  Inv'
<1>0. op \in Running /\ op # Idle /\ op.query \in Queries
  BY Handling DEF Inv, CheckCache, Points
<1>1. TypeOK'
  <2>1. cache[op.query] \in Files /\ Absent \in Files
    BY <1>0, APIAssumption DEF Inv, TypeOK, Files, Absent, Ages
  <2>2. cache' \in [Queries -> Files]
    BY <1>0, <2>1 DEF Inv, TypeOK, CheckCache
  <2>3. cache[op.query].text \notin {"absent", "torn"} =>
          cache[op.query].text \in Texts
    BY <2>1 DEF Files
  <2>4. op' \in Running
    <3>1. CASE op' = [op EXCEPT !.pc = "curl"]
      BY <1>0, <3>1 DEF Running, Points
    <3>2. CASE /\ cache[op.query].text \notin {"absent", "torn"}
               /\ op' = [op EXCEPT !.pc = "parse", !.text = cache[op.query].text,
                                   !.age = cache[op.query].age,
                                   !.cached = TRUE]
      <4>1. cache[op.query].age \in Ages
        BY <2>1 DEF Files
      <4> QED
        BY <1>0, <2>3, <3>2, <4>1 DEF Running, Points
    <3> QED
      BY <1>0, <3>1, <3>2 DEF CheckCache
  <2> QED
    BY <2>2, <2>4 DEF Inv, TypeOK, CheckCache
<1>2. NoJunk'
  BY <1>0, APIAssumption
  DEF Inv, TypeOK, NoJunk, Knows, CheckCache, At, TooOld, Goto, Queries,
      Absent, Files, Ages, Texts
<1>3. Knows'
  BY <1>0, APIAssumption
  DEF Inv, TypeOK, NoJunk, Knows, CheckCache, At, TooOld, Goto, Queries,
      Absent, Files, Ages, Texts, Running, Idle
<1>4. Agree'
  BY <1>0, APIAssumption
  DEF Inv, TypeOK, Knows, Agree, Busy, CheckCache, At, TooOld, Goto, Queries,
      Absent, Files, Ages, Texts, Running, Idle
<1>5. Fresh'
  BY <1>0, APIAssumption
  DEF Inv, TypeOK, Knows, Fresh, Busy, IsJSON, CheckCache, At, TooOld, Goto,
      Queries, Absent, Files, Ages, Texts, Running, Idle
<1>6. Cached'
  BY <1>0, APIAssumption
  DEF Inv, TypeOK, Knows, Cached, Busy, CheckCache, At, TooOld, Goto, Queries,
      Absent, Files, Ages, Texts, Running, Idle
<1> QED
  BY <1>1, <1>2, <1>3, <1>4, <1>5, <1>6 DEF Inv

(* Curl_HTTPGet: what was fetched is younger than any file.                 *)
LEMMA CurlKeeps ==
  ASSUME Inv, NEW answer \in Answers, Curl_HTTPGet(answer)
  PROVE  Inv'
<1>0. op \in Running /\ op # Idle /\ op.query \in Queries
  BY Handling DEF Inv, Curl_HTTPGet, Points
<1>1. TypeOK'
  <2>1. answer \in Texts \cup {"none"}
    BY APIAssumption
  <2>2. op' \in Running
    <3>1. CASE op' = [op EXCEPT !.pc = "parse", !.text = answer]
      BY <1>0, <2>1, <3>1 DEF Running, Points
    <3>2. CASE op' = [op EXCEPT !.pc = "store", !.text = answer]
      BY <1>0, <2>1, <3>2 DEF Running, Points
    <3> QED
      BY <3>1, <3>2 DEF Curl_HTTPGet
  <2>3. since' \in [Queries -> Ages]
    BY <1>0, APIAssumption DEF Inv, TypeOK, Curl_HTTPGet, Ages
  <2> QED
    BY <2>2, <2>3 DEF Inv, TypeOK, Curl_HTTPGet
<1>2. NoJunk'
  BY <1>0, APIAssumption
  DEF Inv, TypeOK, NoJunk, Knows, Curl_HTTPGet, At, Queries, Cacheable
<1>3. Knows'
  BY <1>0, APIAssumption
  DEF Inv, TypeOK, NoJunk, Knows, Curl_HTTPGet, At, Queries, Cacheable,
      Running, Idle
<1>4. Agree'
  BY <1>0, APIAssumption
  DEF Inv, TypeOK, Knows, Agree, Busy, Curl_HTTPGet, At, Queries, Cacheable,
      Running, Idle
<1>5. Fresh'
  BY <1>0, APIAssumption
  DEF Inv, TypeOK, Knows, Fresh, Busy, IsJSON, Curl_HTTPGet, At, Queries,
      Cacheable, Running, Idle
<1>6. Cached'
  BY <1>0, APIAssumption
  DEF Inv, TypeOK, Knows, Cached, Busy, Curl_HTTPGet, At, Queries, Cacheable,
      Running, Idle
<1> QED
  BY <1>1, <1>2, <1>3, <1>4, <1>5, <1>6 DEF Inv

(* CacheResponse: what must not be cached is not written.                   *)
LEMMA StoreKeeps ==
  ASSUME Inv, CacheResponse
  PROVE  Inv'
<1>0. op \in Running /\ op # Idle /\ op.query \in Queries
  BY Handling DEF Inv, CacheResponse, Points
<1>1. TypeOK'
  BY <1>0, APIAssumption
  DEF Inv, TypeOK, CacheResponse, At, Goto, Files, Texts, Ages, Running,
      Points, Idle, Absent
<1>2. NoJunk'
  BY <1>0, APIAssumption
  DEF Inv, TypeOK, NoJunk, Knows, CacheResponse, At, Goto, Cacheable, Queries
<1>3. Knows'
  BY <1>0, APIAssumption
  DEF Inv, TypeOK, NoJunk, Knows, CacheResponse, At, Goto, Cacheable, Queries,
      Running, Idle
<1>4. Agree'
  BY <1>0, APIAssumption
  DEF Inv, TypeOK, Knows, Agree, Busy, CacheResponse, At, Goto, Cacheable,
      Queries, Running, Idle
<1>5. Fresh'
  BY <1>0, APIAssumption
  DEF Inv, TypeOK, Knows, Fresh, Busy, IsJSON, CacheResponse, At, Goto,
      Cacheable, Queries, Running, Idle
<1>6. Cached'
  BY <1>0, APIAssumption
  DEF Inv, TypeOK, Knows, Cached, Busy, CacheResponse, At, Goto, Cacheable,
      Queries, Running, Idle
<1> QED
  BY <1>1, <1>2, <1>3, <1>4, <1>5, <1>6 DEF Inv

(* OpenCacheFile: the file is torn now, or its query is hurt.               *)
LEMMA OpenCacheKeeps ==
  ASSUME Inv, OpenCacheFile
  PROVE  Inv'
<1>0. op \in Running /\ op # Idle /\ op.query \in Queries
  BY Handling DEF Inv, OpenCacheFile, Points
<1>1. TypeOK'
  BY <1>0, APIAssumption
  DEF Inv, TypeOK, OpenCacheFile, WriteFails, At, Goto, Files, Texts, Ages,
      Running, Points, Idle, Absent
<1>2. NoJunk'
  BY <1>0, APIAssumption
  DEF Inv, TypeOK, NoJunk, Knows, OpenCacheFile, WriteFails, At, Goto,
      Cacheable, Queries, Files, Ages
<1>3. Knows'
  BY <1>0, APIAssumption
  DEF Inv, TypeOK, NoJunk, Knows, OpenCacheFile, WriteFails, At, Goto,
      Cacheable, Queries, Files, Ages, Running, Idle
<1>4. Agree'
  BY <1>0, APIAssumption
  DEF Inv, TypeOK, Knows, Agree, Busy, OpenCacheFile, WriteFails, At, Goto,
      Cacheable, Queries, Files, Ages, Running, Idle
<1>5. Fresh'
  BY <1>0, APIAssumption
  DEF Inv, TypeOK, Knows, Fresh, Busy, IsJSON, OpenCacheFile, WriteFails, At,
      Goto, Cacheable, Queries, Files, Ages, Running, Idle
<1>6. Cached'
  BY <1>0, APIAssumption
  DEF Inv, TypeOK, Knows, Cached, Busy, OpenCacheFile, WriteFails, At, Goto,
      Cacheable, Queries, Files, Ages, Running, Idle
<1> QED
  BY <1>1, <1>2, <1>3, <1>4, <1>5, <1>6 DEF Inv

(* WriteCacheFile: the file holds what may be cached.                       *)
LEMMA WriteCacheKeeps ==
  ASSUME Inv, WriteCacheFile
  PROVE  Inv'
<1>0. op \in Running /\ op # Idle /\ op.query \in Queries
  BY Handling DEF Inv, WriteCacheFile, Points
<1>1. TypeOK'
  BY <1>0, APIAssumption
  DEF Inv, TypeOK, WriteCacheFile, AfterCacheFile, WriteFails, At, Goto, Knows,
      Cacheable, IsJSON, Files, Texts, Ages, Running, Points, Idle, Absent
<1>2. NoJunk'
  BY <1>0, APIAssumption
  DEF Inv, TypeOK, NoJunk, Knows, WriteCacheFile, AfterCacheFile, WriteFails,
      At, Goto, Cacheable, Queries, IsJSON, Files, Ages
<1>3. Knows'
  BY <1>0, APIAssumption
  DEF Inv, TypeOK, NoJunk, Knows, WriteCacheFile, AfterCacheFile, WriteFails,
      At, Goto, Cacheable, Queries, IsJSON, Files, Ages, Running, Idle
<1>4. Agree'
  BY <1>0, APIAssumption
  DEF Inv, TypeOK, Knows, Agree, Busy, WriteCacheFile, AfterCacheFile,
      WriteFails, At, Goto, Cacheable, Queries, IsJSON, Files, Ages, Running,
      Idle
<1>5. Fresh'
  BY <1>0, APIAssumption
  DEF Inv, TypeOK, Knows, Fresh, Busy, IsJSON, WriteCacheFile, AfterCacheFile,
      WriteFails, At, Goto, Cacheable, Queries, IsJSON, Files, Ages, Running,
      Idle
<1>6. Cached'
  BY <1>0, APIAssumption
  DEF Inv, TypeOK, Knows, Cached, Busy, WriteCacheFile, AfterCacheFile,
      WriteFails, At, Goto, Cacheable, Queries, IsJSON, Files, Ages, Running,
      Idle
<1> QED
  BY <1>1, <1>2, <1>3, <1>4, <1>5, <1>6 DEF Inv

(* OpenCityFile: the two stores differ until the handler goes on.           *)
LEMMA OpenCityKeeps ==
  ASSUME Inv, OpenCityFile
  PROVE  Inv'
<1>0. op \in Running /\ op # Idle /\ op.query \in Queries
  BY Handling DEF Inv, OpenCityFile, Points
<1>1. TypeOK'
  BY <1>0, APIAssumption
  DEF Inv, TypeOK, OpenCityFile, WriteFails, At, Goto, Knows, Files, Texts,
      Ages, Running, Points, Idle, Absent
<1>2. NoJunk'
  BY <1>0, APIAssumption
  DEF Inv, TypeOK, NoJunk, Knows, OpenCityFile, WriteFails, At, Goto,
      Cacheable, Queries
<1>3. Knows'
  BY <1>0, APIAssumption
  DEF Inv, TypeOK, NoJunk, Knows, OpenCityFile, WriteFails, At, Goto,
      Cacheable, Queries, Running, Idle
<1>4. Agree'
  BY <1>0, APIAssumption
  DEF Inv, TypeOK, Knows, Agree, Busy, OpenCityFile, WriteFails, At, Goto,
      Cacheable, Queries, Running, Idle
<1>5. Fresh'
  BY <1>0, APIAssumption
  DEF Inv, TypeOK, Knows, Fresh, Busy, IsJSON, OpenCityFile, WriteFails, At,
      Goto, Cacheable, Queries, Running, Idle
<1>6. Cached'
  BY <1>0, APIAssumption
  DEF Inv, TypeOK, Knows, Cached, Busy, OpenCityFile, WriteFails, At, Goto,
      Cacheable, Queries, Running, Idle
<1> QED
  BY <1>1, <1>2, <1>3, <1>4, <1>5, <1>6 DEF Inv

(* WriteCityFile: the two stores agree, or the city is hurt.                *)
LEMMA WriteCityKeeps ==
  ASSUME Inv, WriteCityFile
  PROVE  Inv'
<1>0. op \in Running /\ op # Idle /\ op.query \in Queries
  BY Handling DEF Inv, WriteCityFile, Points
<1>1. TypeOK'
  BY <1>0, APIAssumption
  DEF Inv, TypeOK, WriteCityFile, WriteFails, At, Goto, Knows, Files, Texts,
      Ages, Running, Points, Idle, Absent
<1>2. NoJunk'
  BY <1>0, APIAssumption
  DEF Inv, TypeOK, NoJunk, Knows, WriteCityFile, WriteFails, At, Goto,
      Cacheable, Queries
<1>3. Knows'
  BY <1>0, APIAssumption
  DEF Inv, TypeOK, NoJunk, Knows, WriteCityFile, WriteFails, At, Goto,
      Cacheable, Queries, Running, Idle
<1>4. Agree'
  BY <1>0, APIAssumption
  DEF Inv, TypeOK, Knows, Agree, Busy, WriteCityFile, WriteFails, At, Goto,
      Cacheable, Queries, Running, Idle
<1>5. Fresh'
  BY <1>0, APIAssumption
  DEF Inv, TypeOK, Knows, Fresh, Busy, IsJSON, WriteCityFile, WriteFails, At,
      Goto, Cacheable, Queries, Running, Idle
<1>6. Cached'
  BY <1>0, APIAssumption
  DEF Inv, TypeOK, Knows, Cached, Busy, WriteCityFile, WriteFails, At, Goto,
      Cacheable, Queries, Running, Idle
<1> QED
  BY <1>1, <1>2, <1>3, <1>4, <1>5, <1>6 DEF Inv

(* Reply: a city that is answered with data has it in its file.             *)
LEMMA ReplyKeeps ==
  ASSUME Inv, Reply
  PROVE  Inv'
<1>0. op \in Running /\ op # Idle /\ op.query \in Queries
  BY Handling DEF Inv, Reply, Points
<1>1. TypeOK'
  BY <1>0, APIAssumption
  DEF Inv, TypeOK, Reply, At, Files, Texts, Ages, Running, Points, Idle, Absent
<1>2. NoJunk'
  BY <1>0, APIAssumption DEF Inv, TypeOK, NoJunk, Knows, Reply, At, Queries
<1>3. Knows'
  BY <1>0, APIAssumption
  DEF Inv, TypeOK, NoJunk, Knows, Reply, At, Queries, Running, Idle
<1>4. Agree'
  BY <1>0, APIAssumption
  DEF Inv, TypeOK, Knows, Agree, Busy, Reply, At, Queries, Running, Idle
<1>5. Fresh'
  BY <1>0, APIAssumption
  DEF Inv, TypeOK, Knows, Fresh, Busy, IsJSON, Reply, At, Queries, Running,
      Idle
<1>6. Cached'
  BY <1>0, APIAssumption
  DEF Inv, TypeOK, Knows, Cached, Busy, Reply, At, Queries, Running, Idle
<1> QED
  BY <1>1, <1>2, <1>3, <1>4, <1>5, <1>6 DEF Inv

(* StrdupOfNull: the process dies with nothing half written.                *)
LEMMA StrdupKeeps ==
  ASSUME Inv, StrdupOfNull
  PROVE  Inv'
<1>0. op \in Running /\ op # Idle /\ op.query \in Queries
  BY Handling DEF Inv, StrdupOfNull, Points
<1>1. TypeOK'
  BY <1>0, APIAssumption
  DEF Inv, TypeOK, StrdupOfNull, Dies, At, Files, Texts, Ages, Running, Points,
      Idle, Absent
<1>2. NoJunk'
  BY <1>0, APIAssumption
  DEF Inv, TypeOK, NoJunk, Knows, StrdupOfNull, Dies, At, Queries
<1>3. Knows'
  BY <1>0, APIAssumption
  DEF Inv, TypeOK, NoJunk, Knows, StrdupOfNull, Dies, At, Queries, Running,
      Idle
<1>4. Agree'
  BY <1>0, APIAssumption
  DEF Inv, TypeOK, Knows, Agree, Busy, StrdupOfNull, Dies, At, Queries,
      Running, Idle
<1>5. Fresh'
  BY <1>0, APIAssumption
  DEF Inv, TypeOK, Knows, Fresh, Busy, IsJSON, StrdupOfNull, Dies, At, Queries,
      Running, Idle
<1>6. Cached'
  BY <1>0, APIAssumption
  DEF Inv, TypeOK, Knows, Cached, Busy, StrdupOfNull, Dies, At, Queries,
      Running, Idle
<1> QED
  BY <1>1, <1>2, <1>3, <1>4, <1>5, <1>6 DEF Inv

(* Killed: what was being written is hurt.                                  *)
LEMMA KilledKeeps ==
  ASSUME Inv, Killed
  PROVE  Inv'
<1>1. TypeOK'
  <2>1. kills' \in 0 .. MaxKills
    BY APIAssumption DEF Inv, TypeOK, Killed
  <2>2. hurt' \subseteq Queries
    <3>1. CASE Saving
      <4>1. op # Idle
        BY <3>1 DEF Saving, Points, Idle
      <4>2. op.query \in Queries
        BY <4>1 DEF Inv, TypeOK, Running
      <4> QED
        BY <3>1, <4>2 DEF Inv, TypeOK, Killed
    <3>2. CASE ~Saving
      BY <3>2 DEF Inv, TypeOK, Killed
    <3> QED
      BY <3>1, <3>2
  <2> QED
    BY <2>1, <2>2 DEF Inv, TypeOK, Killed, Dies
<1>2. NoJunk'
  BY APIAssumption
  DEF Inv, TypeOK, NoJunk, Knows, Killed, Dies, Saving, Points, Queries
<1>3. Knows'
  BY APIAssumption
  DEF Inv, TypeOK, NoJunk, Knows, Killed, Dies, Saving, Points, Queries,
      Running, Idle
<1>4. Agree'
  BY APIAssumption
  DEF Inv, TypeOK, Knows, Agree, Busy, Killed, Dies, Saving, Points, Queries,
      Running, Idle
<1>5. Fresh'
  BY APIAssumption
  DEF Inv, TypeOK, Knows, Fresh, Busy, IsJSON, Killed, Dies, Saving, Points,
      Queries, Running, Idle
<1>6. Cached'
  BY APIAssumption
  DEF Inv, TypeOK, Knows, Cached, Busy, Killed, Dies, Saving, Points, Queries,
      Running, Idle
<1> QED
  BY <1>1, <1>2, <1>3, <1>4, <1>5, <1>6 DEF Inv

(* Restart: the files are as they were.                                     *)
LEMMA RestartKeeps ==
  ASSUME Inv, Restart
  PROVE  Inv'
<1>1. TypeOK'
  BY APIAssumption
  DEF Inv, TypeOK, Restart, Files, Texts, Ages, Running, Points, Idle, Absent
<1>2. NoJunk'
  BY APIAssumption DEF Inv, TypeOK, NoJunk, Knows, Restart, Queries
<1>3. Knows'
  BY APIAssumption
  DEF Inv, TypeOK, NoJunk, Knows, Restart, Queries, Running, Idle
<1>4. Agree'
  BY APIAssumption
  DEF Inv, TypeOK, Knows, Agree, Busy, Restart, Queries, Running, Idle
<1>5. Fresh'
  BY APIAssumption
  DEF Inv, TypeOK, Knows, Fresh, Busy, IsJSON, Restart, Queries, Running, Idle
<1>6. Cached'
  BY APIAssumption
  DEF Inv, TypeOK, Knows, Cached, Busy, Restart, Queries, Running, Idle
<1> QED
  BY <1>1, <1>2, <1>3, <1>4, <1>5, <1>6 DEF Inv

(* Tick: a file and the time since its fetch age together.                  *)
LEMMA TickKeeps ==
  ASSUME Inv, Tick
  PROVE  Inv'
<1>1. TypeOK'
  <2>1. ASSUME NEW age \in Ages
        PROVE  Older(age) \in Ages
    BY APIAssumption DEF Older, Ages
  <2>2. ASSUME NEW q \in Queries
        PROVE  [cache[q] EXCEPT !.age = Older(@)] \in Files
    BY <2>1 DEF Inv, TypeOK, Files
  <2>3. cache' \in [Queries -> Files]
    BY <2>2 DEF Tick
  <2>4. since' \in [Queries -> Ages]
    BY <2>1 DEF Inv, TypeOK, Tick
  <2> QED
    BY <2>3, <2>4 DEF Inv, TypeOK, Tick
<1>2. NoJunk'
  BY APIAssumption
  DEF Inv, TypeOK, NoJunk, Knows, Tick, Older, Queries, Files, Ages
<1>3. Knows'
  BY APIAssumption
  DEF Inv, TypeOK, NoJunk, Knows, Tick, Older, Queries, Files, Ages, Running,
      Idle
<1>4. Agree'
  BY APIAssumption
  DEF Inv, TypeOK, Knows, Agree, Busy, Tick, Older, Queries, Files, Ages,
      Running, Idle
<1>5. Fresh'
  BY APIAssumption
  DEF Inv, TypeOK, Knows, Fresh, Busy, IsJSON, Tick, Older, Queries, Files,
      Ages, Running, Idle
<1>6. Cached'
  BY APIAssumption
  DEF Inv, TypeOK, Knows, Cached, Busy, Tick, Older, Queries, Files, Ages,
      Running, Idle
<1> QED
  BY <1>1, <1>2, <1>3, <1>4, <1>5, <1>6 DEF Inv

-----------------------------------------------------------------------------
(* Every step keeps the invariant.                                          *)
LEMMA InvNext ==
  ASSUME Inv, [Next]_apiVars
  PROVE  Inv'
<1>1. CASE \E q \in Queries : Ask(q)
  BY <1>1, AskKeeps
<1>2. CASE Handler
  <2>1. CASE \E answer \in Answers : Curl_HTTPGet(answer)
    BY <2>1, CurlKeeps
  <2> QED
    BY <1>2, <2>1, CheckKeeps, StoreKeeps, OpenCacheKeeps, WriteCacheKeeps,
       OpenCityKeeps, WriteCityKeeps, ReplyKeeps, StrdupKeeps DEF Handler
<1>3. CASE UNCHANGED apiVars
  BY <1>3 DEF apiVars, Inv, TypeOK, NoJunk, Knows, Agree, Fresh, Cached, Busy
<1> QED
  BY <1>1, <1>2, <1>3, KilledKeeps, RestartKeeps, TickKeeps DEF Next

(* The invariant holds.                                                     *)
THEOREM FilesInvariant == Safety => []Inv
<1>1. Init => Inv
  BY InvInit
<1>2. Inv /\ [Next]_apiVars => Inv'
  BY InvNext
<1> QED
  BY <1>1, <1>2, PTL DEF Safety

(* No answer that came from the cache ends the process: what is written is  *)
(* parsed before, and what is torn is not taken (CacheNeverKills).          *)
THEOREM CacheIsHarmless == Safety => []CacheNeverKills
<1>1. Inv => CacheNeverKills
  BY DEF Inv, Knows, CacheNeverKills
<1> QED
  BY <1>1, FilesInvariant, PTL

(* The two stores of a city hold the same between two requests, for every   *)
(* city that no fault has hit (StoresAgree).                                *)
THEOREM StoresOfACityAgree == Safety => []StoresAgree
<1>1. Inv => StoresAgree
  BY DEF Inv, Agree, Busy, StoresAgree
<1> QED
  BY <1>1, FilesInvariant, PTL

(* What upstream has answered with JSON, and what was saved of it, is not   *)
(* asked for again within its lifetime (OneCallPerTTL).                     *)
THEOREM OneCallInItsLifetime == Safety => OneCallPerTTL
<1> DEFINE A == \A q \in Queries :
                  /\ op.pc = "check" /\ op.query = q
                  /\ op'.pc = "curl"
                  => \/ since[q] = TTL
                     \/ q \in hurt
                     \/ q \in Geo /\ served[q] # "data"
<1>1. Inv /\ [Next]_apiVars => [A]_apiVars
  <2> SUFFICES ASSUME Inv, [Next]_apiVars, NEW q \in Queries,
                      op.pc = "check", op.query = q, op'.pc = "curl",
                      q \notin hurt
               PROVE  \/ since[q] = TTL
                      \/ q \in Geo /\ served[q] # "data"
    OBVIOUS
  <2>1. op \in Running /\ op # Idle
    BY DEF Inv, TypeOK, Idle
  <2>2. CheckCache
    BY <2>1 DEF Next, apiVars, Ask, Idle, Handler, Curl_HTTPGet, CacheResponse,
       OpenCacheFile, WriteCacheFile, OpenCityFile, WriteCityFile, Reply,
       StrdupOfNull, Killed, Dies, Restart, Tick, At
  <2>3. \/ cache[q].text \in {"absent", "torn"}
        \/ TooOld(q, cache[q])
    BY <2>1, <2>2 DEF CheckCache, At, Running
  <2>4. CASE q \in Geo
    BY <2>3, <2>4, APIAssumption DEF TooOld, Inv, Cached
  <2>5. CASE q \in Weather
    <3>1. ~Busy(q, {"store", "openCache", "writeCache"})
      BY DEF Busy
    <3>2. cache[q] \in Files /\ since[q] \in Ages
      BY DEF Inv, TypeOK
    <3>3. \/ since[q] = TTL
          \/ IsJSON(cache[q].text) /\ cache[q].age <= since[q]
      BY <2>5, <3>1 DEF Inv, Fresh
    <3>4. CASE cache[q].age >= TTL /\ cache[q].age <= since[q]
      <4>1. cache[q].age \in Nat /\ since[q] \in 0 .. TTL
        BY <3>2, APIAssumption DEF Files, Ages
      <4> QED
        BY <3>4, <4>1, APIAssumption
    <3>5. CASE cache[q].text \in {"absent", "torn"}
      BY <3>3, <3>5 DEF IsJSON
    <3> QED
      BY <2>3, <3>3, <3>4, <3>5 DEF TooOld
  <2> QED
    BY <2>4, <2>5 DEF Queries
<1> QED
  BY <1>1, FilesInvariant, PTL DEF Safety, OneCallPerTTL

-----------------------------------------------------------------------------
(***************************************************************************)
(* The client.  What a user is shown has passed two caches.  The invariant  *)
(* follows the age of a text on its way: less than TTL where the server     *)
(* hands it out, hence less than TTL more than the age of the file in which *)
(* the client keeps it, hence less than both lifetimes together where it is *)
(* printed.                                                                 *)
(***************************************************************************)
(***************************************************************************)
(* A city has the name of its file to itself.  A city that is called like   *)
(* the two coordinates of a place next to each other would share its file,  *)
(* whose text never becomes too old for a city.                             *)
(***************************************************************************)
NamesAreDistinct == \A g \in Geo, w \in Weather : CacheName(w) # g

(* The weather that a handler has found in a file is younger than TTL.      *)
HandedOutRecent == op # Idle /\ op.query \in Weather => op.age <= TTL - 1

(* The handler that runs while the client waits is the one it has asked.    *)
OwnRequest == UserAt("wait") => op # Idle /\ op.query = user.query

(* So is the weather that was received.                                     *)
ReceivedRecent ==
  UserAt("save") /\ user.query \in Weather => user.age <= TTL - 1

(* A file of the client is younger than the weather in it by less than TTL. *)
StoredRecent ==
  \A q \in Weather :
    store[CacheName(q)].age <= store[CacheName(q)].saved + TTL - 1

ClientInv ==
  /\ Inv
  /\ ClientTypeOK
  /\ HandedOutRecent
  /\ OwnRequest
  /\ ReceivedRecent
  /\ StoredRecent
  /\ ShownWeatherIsRecent

-----------------------------------------------------------------------------
(* Every step of the client with the server is one of the server, or none.  *)
LEMMA ServerStep ==
  ASSUME ClientTypeOK, ClientNext
  PROVE  [Next]_apiVars
<1>1. CASE \E q \in Queries : ChooseOption(q)
  BY <1>1 DEF ChooseOption
<1>2. CASE InvalidOption
  BY <1>2 DEF InvalidOption
<1>3. CASE ClientStep
  <2>1. user.query \in Queries
    BY DEF ClientTypeOK
  <2>2. CASE HTTPClient_GET
    BY <2>1, <2>2 DEF HTTPClient_GET, Next
  <2>3. CASE Receives
    BY <2>3 DEF Receives, Next, Handler
  <2>4. CASE ServerDies
    BY <2>4 DEF ServerDies, Next, Handler
  <2>5. CASE cache_load \/ ServerIsDown \/ cache_save \/ Shown
    BY <2>5 DEF cache_load, ServerIsDown, cache_save, Shown
  <2> QED
    BY <1>3, <2>2, <2>3, <2>4, <2>5 DEF ClientStep
<1>4. CASE ClientKilled \/ Exit \/ Start
  BY <1>4 DEF ClientKilled, Exit, Start
<1>5. CASE ServerAlone
  BY <1>5 DEF ServerAlone, Next, Handler
<1>6. CASE OthersAsk
  BY <1>6 DEF OthersAsk, Next
<1>7. CASE TimePasses
  BY <1>7 DEF TimePasses, Next
<1> QED
  BY <1>1, <1>2, <1>3, <1>4, <1>5, <1>6, <1>7 DEF ClientNext

(* What the steps of the server do to the handler that is under way.        *)
LEMMA HandlerAges ==
  ASSUME Inv, HandedOutRecent, [Next]_apiVars
  PROVE  HandedOutRecent'
<1>1. CASE \E q \in Queries : Ask(q)
  BY <1>1, APIAssumption DEF Ask, HandedOutRecent
<1>2. CASE CheckCache
  <2>0. op \in Running /\ op # Idle /\ op.query \in Queries
    BY <1>2, Handling DEF Inv, CheckCache, Points
  <2>1. cache[op.query] \in Files
    BY <2>0 DEF Inv, TypeOK
  <2>2. CASE op' = [op EXCEPT !.pc = "curl"]
    BY <2>0, <2>2 DEF HandedOutRecent, Running
  <2>3. CASE /\ ~TooOld(op.query, cache[op.query])
             /\ op' = [op EXCEPT !.pc = "parse",
                                 !.text = cache[op.query].text,
                                 !.age = cache[op.query].age, !.cached = TRUE]
    <3>1. cache[op.query].age \in 0 .. TTL
      BY <2>1 DEF Files, Ages
    <3>2. op'.query = op.query /\ op'.age = cache[op.query].age
      BY <2>0, <2>3 DEF Running
    <3>3. op.query \in Weather => cache[op.query].age <= TTL - 1
      BY <2>3, <3>1, APIAssumption DEF TooOld
    <3> QED
      BY <3>2, <3>3 DEF HandedOutRecent
  <2> QED
    BY <1>2, <2>2, <2>3 DEF CheckCache
<1>3. CASE Handler /\ ~CheckCache
  <2>1. \/ op' = Idle
        \/ op \in Running /\ op # Idle /\ op'.query = op.query /\ op'.age = op.age
    <3>1. CASE \E answer \in Answers : Curl_HTTPGet(answer)
      BY <3>1, Handling DEF Curl_HTTPGet, Inv, Running, Points
    <3>2. CASE CacheResponse
      BY <3>2, Handling DEF CacheResponse, Goto, Inv, Running, Points
    <3>3. CASE OpenCacheFile
      BY <3>3, Handling DEF OpenCacheFile, Goto, Inv, Running, Points
    <3>4. CASE WriteCacheFile
      BY <3>4, Handling DEF WriteCacheFile, Goto, Inv, Running, Points
    <3>5. CASE OpenCityFile
      BY <3>5, Handling DEF OpenCityFile, Goto, Inv, Running, Points
    <3>6. CASE WriteCityFile
      BY <3>6, Handling DEF WriteCityFile, Goto, Inv, Running, Points
    <3>7. CASE Reply \/ StrdupOfNull
      BY <3>7 DEF Reply, StrdupOfNull, Dies
    <3> QED
      BY <1>3, <3>1, <3>2, <3>3, <3>4, <3>5, <3>6, <3>7 DEF Handler
  <2> QED
    BY <2>1 DEF HandedOutRecent
<1>4. CASE Killed \/ Restart \/ Tick \/ UNCHANGED apiVars
  BY <1>4 DEF Killed, Dies, Restart, Tick, apiVars, HandedOutRecent
<1> QED
  BY <1>1, <1>2, <1>3, <1>4 DEF Next, Handler

(* While the client waits, nobody but the client ends its handler.          *)
LEMMA HandlerStays ==
  ASSUME Inv, op # Idle, [Next]_apiVars, ~Reply, ~StrdupOfNull, ~Killed
  PROVE  op' # Idle /\ op'.query = op.query
<1>0. op \in Running
  BY DEF Inv, TypeOK
<1>1. op' = op \/ (op'.pc # "idle" /\ op'.query = op.query)
  <2>1. CASE \E q \in Queries : Ask(q)
    BY <2>1 DEF Ask
  <2>2. CASE CheckCache
    BY <1>0, <2>2 DEF CheckCache, Running
  <2>3. CASE \E answer \in Answers : Curl_HTTPGet(answer)
    BY <1>0, <2>3 DEF Curl_HTTPGet, Running
  <2>4. CASE CacheResponse
    BY <1>0, <2>4 DEF CacheResponse, Goto, Running
  <2>5. CASE OpenCacheFile
    BY <1>0, <2>5 DEF OpenCacheFile, Goto, Running
  <2>6. CASE WriteCacheFile
    BY <1>0, <2>6 DEF WriteCacheFile, AfterCacheFile, Goto, Running
  <2>7. CASE OpenCityFile
    BY <1>0, <2>7 DEF OpenCityFile, Goto, Running
  <2>8. CASE WriteCityFile
    BY <1>0, <2>8 DEF WriteCityFile, Goto, Running
  <2>9. CASE Restart \/ Tick \/ UNCHANGED apiVars
    BY <2>9 DEF Restart, Tick, apiVars
  <2> QED
    BY <2>1, <2>2, <2>3, <2>4, <2>5, <2>6, <2>7, <2>8, <2>9 DEF Next, Handler
<1> QED
  BY <1>1 DEF Idle

-----------------------------------------------------------------------------
(* Nothing was asked and nothing is stored.                                 *)
LEMMA ClientInvInit ==
  ASSUME ClientInit
  PROVE  ClientInv
<1>1. Inv
  BY InvInit DEF ClientInit
<1>2. NoQuery \in Queries
  BY ClientAssumption DEF NoQuery
<1>3. Oldest \in Nat
  BY APIAssumption, ClientAssumption DEF Oldest
<1>4. [text |-> "absent", saved |-> 0, age |-> 0] \in ClientFiles
  BY <1>3 DEF ClientFiles
<1>5. ClientTypeOK
  BY <1>1, <1>2, <1>3, <1>4, ClientAssumption
  DEF ClientInit, ClientTypeOK, Inv, Responses, NothingYet
<1>6. \A q \in Weather : CacheName(q) \in Names
  BY DEF Names, Queries
<1>7. StoredRecent
  BY <1>6, APIAssumption DEF ClientInit, StoredRecent
<1> QED
  BY <1>1, <1>5, <1>7
  DEF ClientInv, ClientInit, Init, HandedOutRecent, OwnRequest,
      ReceivedRecent, ShownWeatherIsRecent, UserAt

(* What the proofs of the steps use again and again.                        *)
LEMMA ClientFacts ==
  ASSUME ClientInv
  PROVE  /\ TTL \in Nat \ {0} /\ ClientTTL \in Nat \ {0}
         /\ Oldest \in Nat /\ Oldest = TTL + ClientTTL
         /\ user.query \in Queries
         /\ CacheName(user.query) \in Names
         /\ store[CacheName(user.query)] \in ClientFiles
         /\ user.age \in 0 .. Oldest
         /\ user.text \in Texts \cup {"none"}
BY APIAssumption, ClientAssumption
DEF ClientInv, ClientTypeOK, Oldest, Names

(* The user chooses, the client is left or started: nothing has an age yet. *)
LEMMA MenuKeeps ==
  ASSUME ClientInv, Inv', HandedOutRecent',
         (\E q \in Queries : ChooseOption(q)) \/ InvalidOption \/ Shown \/ Exit
           \/ Start
  PROVE  ClientInv'
<1>1. op' = op /\ store' = store /\ clientFaults' = clientFaults
  BY DEF ChooseOption, InvalidOption, Shown, Exit, Start, apiVars, clientVars
<1>2. /\ user' \in [pc : {"menu", "load", "get", "wait", "save", "show",
                          "exited"},
                    query : Queries, text : Texts \cup {"none"},
                    age : 0 .. Oldest]
      /\ user' = user \/ user'.pc \in {"menu", "load", "exited"}
  <2>1. user \in [pc : {"menu", "load", "get", "wait", "save", "show", "exited"},
                  query : Queries, text : Texts \cup {"none"}, age : 0 .. Oldest]
    BY DEF ClientInv, ClientTypeOK
  <2>2. CASE \E q \in Queries : ChooseOption(q)
    BY <2>2, ClientFacts DEF ChooseOption
  <2>3. CASE InvalidOption
    BY <2>1, <2>3 DEF InvalidOption, clientVars
  <2>4. CASE Shown \/ Start
    BY <2>1, <2>4 DEF Shown, Start
  <2>5. CASE Exit
    BY <2>1, <2>5 DEF Exit
  <2> QED
    BY <2>2, <2>3, <2>4, <2>5
<1>3. response' \in Responses /\ (user' = user => response' = response)
  <2>1. NothingYet \in Responses
    BY ClientFacts DEF NothingYet, Responses
  <2>2. CASE Start
    <3>1. user' # user
      BY <2>2 DEF Start, UserAt, ClientInv, ClientTypeOK
    <3> QED
      BY <2>1, <2>2, <3>1 DEF Start
  <2> QED
    BY <2>2
    DEF ChooseOption, InvalidOption, Shown, Exit, clientVars, ClientInv,
        ClientTypeOK
<1>4. ClientTypeOK'
  BY <1>1, <1>2, <1>3 DEF ClientInv, ClientTypeOK, Inv
<1> QED
  BY <1>1, <1>2, <1>3, <1>4
  DEF ClientInv, HandedOutRecent, OwnRequest, ReceivedRecent, StoredRecent,
      ShownWeatherIsRecent, UserAt

(* What is printed is recent enough for the query that was asked.           *)
LEMMA PrintKeeps ==
  ASSUME ClientInv, Inv', HandedOutRecent',
         NEW text \in ClientTexts \cup {"failed"}, NEW age \in 0 .. Oldest,
         user.query \in Weather => age <= Oldest - 2,
         Prints(text, age),
         store' \in [Names -> ClientFiles], StoredRecent',
         clientFaults' \in 0 .. MaxClientFaults
  PROVE  ClientInv'
<1>1. user \in [pc : {"menu", "load", "get", "wait", "save", "show", "exited"},
                query : Queries, text : Texts \cup {"none"}, age : 0 .. Oldest]
  BY DEF ClientInv, ClientTypeOK
<1>2. /\ user' \in [pc : {"menu", "load", "get", "wait", "save", "show",
                          "exited"},
                    query : Queries, text : Texts \cup {"none"},
                    age : 0 .. Oldest]
      /\ user'.pc = "show" /\ user'.query = user.query
  BY <1>1 DEF Prints
<1>3. response' \in Responses /\ response'.age = age
  BY DEF Prints, Responses
<1>4. ClientTypeOK'
  BY <1>2, <1>3 DEF ClientTypeOK, Inv
<1>5. OwnRequest' /\ ReceivedRecent'
  BY <1>2 DEF OwnRequest, ReceivedRecent, UserAt
<1>6. ShownWeatherIsRecent'
  BY <1>2, <1>3 DEF ShownWeatherIsRecent
<1> QED
  BY <1>4, <1>5, <1>6 DEF ClientInv

(* Cache::cache_load: a file that is young enough holds weather that is.    *)
LEMMA LoadKeeps ==
  ASSUME ClientInv, Inv', HandedOutRecent', cache_load
  PROVE  ClientInv'
<1> DEFINE file == store[CacheName(user.query)]
<1>0. op' = op /\ store' = store /\ clientFaults' = clientFaults
  BY DEF cache_load, apiVars
<1>1. /\ store' \in [Names -> ClientFiles] /\ StoredRecent'
      /\ clientFaults' \in 0 .. MaxClientFaults
  BY <1>0 DEF ClientInv, ClientTypeOK, StoredRecent
<1>2. CASE Usable(user.query, file) /\ Prints(file.text, file.age)
  <2>1. /\ file.text \in ClientTexts
        /\ file.age \in 0 .. Oldest /\ file.saved \in 0 .. Oldest
    BY <1>2, ClientFacts DEF Usable, ClientFiles
  <2>2. ASSUME user.query \in Weather
        PROVE  file.age <= Oldest - 2
    <3>1. file.age <= file.saved + TTL - 1
      BY <2>2 DEF ClientInv, StoredRecent
    <3>2. file.saved < ClientTTL
      BY <1>2, <2>2 DEF Usable
    <3> QED
      BY <2>1, <3>1, <3>2, ClientFacts
  <2> QED
    BY <1>0, <1>1, <1>2, <2>1, <2>2, PrintKeeps
<1>3. CASE user' = [user EXCEPT !.pc = "get"] /\ UNCHANGED response
  <2>1. user' \in [pc : {"menu", "load", "get", "wait", "save", "show",
                         "exited"},
                   query : Queries, text : Texts \cup {"none"},
                   age : 0 .. Oldest]
        /\ user'.pc = "get"
    BY <1>3 DEF ClientInv, ClientTypeOK
  <2>2. ClientTypeOK'
    BY <1>1, <1>3, <2>1 DEF ClientInv, ClientTypeOK, Inv
  <2> QED
    BY <1>0, <1>1, <1>3, <2>1, <2>2
    DEF ClientInv, HandedOutRecent, OwnRequest, ReceivedRecent,
        ShownWeatherIsRecent, UserAt
<1> QED
  BY <1>2, <1>3 DEF cache_load

(* ServerIsDown and ServerDies: the message that is printed has no age.     *)
LEMMA FailureKeeps ==
  ASSUME ClientInv, Inv', HandedOutRecent', ServerIsDown \/ ServerDies
  PROVE  ClientInv'
<1>1. /\ Prints("failed", 0)
      /\ store' = store /\ clientFaults' = clientFaults
  BY DEF ServerIsDown, ServerDies, Fails
<1>2. /\ store' \in [Names -> ClientFiles] /\ StoredRecent'
      /\ clientFaults' \in 0 .. MaxClientFaults
  BY <1>1 DEF ClientInv, ClientTypeOK, StoredRecent
<1>3. 0 \in 0 .. Oldest /\ 0 <= Oldest - 2
  BY ClientFacts
<1> QED
  BY <1>1, <1>2, <1>3, PrintKeeps

(* HTTPClient_GET: the handler that starts is the one of this request.      *)
LEMMA GetKeeps ==
  ASSUME ClientInv, Inv', HandedOutRecent', HTTPClient_GET
  PROVE  ClientInv'
<1>1. op'.pc = "check" /\ op'.query = user.query
  BY DEF HTTPClient_GET, Ask
<1>2. user' = [user EXCEPT !.pc = "wait"]
      /\ store' = store /\ response' = response /\ clientFaults' = clientFaults
  BY DEF HTTPClient_GET
<1>3. user' \in [pc : {"menu", "load", "get", "wait", "save", "show", "exited"},
                 query : Queries, text : Texts \cup {"none"}, age : 0 .. Oldest]
      /\ user'.pc = "wait" /\ user'.query = user.query
  BY <1>2 DEF ClientInv, ClientTypeOK
<1>4. ClientTypeOK'
  BY <1>2, <1>3 DEF ClientInv, ClientTypeOK, Inv
<1> QED
  BY <1>1, <1>2, <1>3, <1>4
  DEF ClientInv, OwnRequest, ReceivedRecent, StoredRecent,
      ShownWeatherIsRecent, UserAt, Idle

(* Receives: the text is as old as the handler found it.                    *)
LEMMA ReceiveKeeps ==
  ASSUME ClientInv, Inv', HandedOutRecent', Receives
  PROVE  ClientInv'
<1>1. op \in Running /\ op # Idle /\ op.query = user.query
  BY DEF Receives, ClientInv, Inv, TypeOK, OwnRequest
<1>2. op.age \in 0 .. TTL /\ op.text \in Texts \cup {"none"}
  BY <1>1 DEF Running, Ages
<1>3. op.age \in 0 .. Oldest
  BY <1>2, ClientFacts
<1>4. user' = [user EXCEPT !.pc = "save", !.text = op.text, !.age = op.age]
      /\ store' = store /\ response' = response /\ clientFaults' = clientFaults
  BY DEF Receives
<1>5. user' \in [pc : {"menu", "load", "get", "wait", "save", "show", "exited"},
                 query : Queries, text : Texts \cup {"none"}, age : 0 .. Oldest]
      /\ user'.pc = "save" /\ user'.query = user.query /\ user'.age = op.age
  BY <1>2, <1>3, <1>4 DEF ClientInv, ClientTypeOK
<1>6. ClientTypeOK'
  BY <1>4, <1>5 DEF ClientInv, ClientTypeOK, Inv
<1>7. ReceivedRecent'
  BY <1>1, <1>5 DEF ReceivedRecent, ClientInv, HandedOutRecent
<1> QED
  BY <1>4, <1>5, <1>6, <1>7
  DEF ClientInv, OwnRequest, StoredRecent, ShownWeatherIsRecent, UserAt

(* Whatever is saved, the file is as old as what was received, and only a   *)
(* place has a file of that name.                                           *)
LEMMA SavesKeeps ==
  ASSUME ClientInv, NamesAreDistinct, UserAt("save"),
         NEW text \in ClientTexts \cup {"empty"}, Saves(text)
  PROVE  store' \in [Names -> ClientFiles] /\ StoredRecent'
<1>1. [text |-> text, saved |-> 0, age |-> user.age] \in ClientFiles
  BY ClientFacts DEF ClientFiles
<1>2. store \in [Names -> ClientFiles]
  BY DEF ClientInv, ClientTypeOK
<1>3. store' \in [Names -> ClientFiles]
  BY <1>1, <1>2 DEF Saves
<1>4. ASSUME NEW q \in Weather
      PROVE  store'[CacheName(q)].age <= store'[CacheName(q)].saved + TTL - 1
  <2>1. CacheName(q) \in Names
    BY DEF Names, Queries
  <2>2. CASE CacheName(q) = CacheName(user.query)
    <3>1. user.query \in Weather
      <4>1. user.query \in Geo \cup Weather
        BY ClientFacts DEF Queries
      <4>2. ASSUME user.query \in Geo
            PROVE  FALSE
        <5>1. user.query \notin Weather
          BY <4>2, APIAssumption
        <5>2. CacheName(user.query) = user.query
          BY <5>1 DEF CacheName
        <5> QED
          BY <2>2, <4>2, <5>2 DEF NamesAreDistinct
      <4> QED
        BY <4>1, <4>2
    <3>2. user.age <= TTL - 1
      BY <3>1 DEF ClientInv, ReceivedRecent
    <3>3. store'[CacheName(q)] = [text |-> text, saved |-> 0, age |-> user.age]
      BY <1>2, <2>1, <2>2 DEF Saves
    <3> QED
      BY <3>2, <3>3, ClientFacts
  <2>3. CASE CacheName(q) # CacheName(user.query)
    <3>1. store'[CacheName(q)] = store[CacheName(q)]
      BY <1>2, <2>1, <2>3 DEF Saves
    <3> QED
      BY <3>1 DEF ClientInv, StoredRecent
  <2> QED
    BY <2>2, <2>3
<1> QED
  BY <1>3, <1>4 DEF StoredRecent

(* Cache::cache_save, all of it, a part or nothing, and what is printed.    *)
LEMMA SaveKeeps ==
  ASSUME ClientInv, Inv', HandedOutRecent', NamesAreDistinct, cache_save
  PROVE  ClientInv'
<1>1. user.text \in ClientTexts /\ "part" \in ClientTexts
  BY ClientFacts DEF ClientTexts
<1>2. store' \in [Names -> ClientFiles] /\ StoredRecent'
  <2>1. CASE Saves(user.text) \/ Saves("part")
    BY <1>1, <2>1, SavesKeeps DEF cache_save
  <2>2. CASE UNCHANGED store
    BY <2>2 DEF ClientInv, ClientTypeOK, StoredRecent
  <2> QED
    BY <2>1, <2>2 DEF cache_save
<1>3. clientFaults' \in 0 .. MaxClientFaults
  BY ClientAssumption DEF cache_save, ClientInv, ClientTypeOK
<1>4. ASSUME user.query \in Weather
      PROVE  user.age <= Oldest - 2
  <2>1. user.age <= TTL - 1
    BY <1>4 DEF cache_save, ClientInv, ReceivedRecent
  <2> QED
    BY <2>1, ClientFacts
<1>5. user.age \in 0 .. Oldest /\ Prints(user.text, user.age)
  BY ClientFacts DEF cache_save
<1> QED
  BY <1>1, <1>2, <1>3, <1>4, <1>5, PrintKeeps

(* ClientKilled: an empty file is left.                                     *)
LEMMA ClientKilledKeeps ==
  ASSUME ClientInv, Inv', HandedOutRecent', NamesAreDistinct, ClientKilled
  PROVE  ClientInv'
<1>1. store' \in [Names -> ClientFiles] /\ StoredRecent'
  BY SavesKeeps DEF ClientKilled
<1>2. clientFaults' \in 0 .. MaxClientFaults
  BY ClientAssumption DEF ClientKilled, ClientInv, ClientTypeOK
<1>3. user' \in [pc : {"menu", "load", "get", "wait", "save", "show", "exited"},
                 query : Queries, text : Texts \cup {"none"}, age : 0 .. Oldest]
      /\ user'.pc = "exited"
  BY DEF ClientKilled, ClientInv, ClientTypeOK
<1>4. ClientTypeOK'
  BY <1>1, <1>2, <1>3 DEF ClientKilled, ClientInv, ClientTypeOK, Inv
<1> QED
  BY <1>1, <1>3, <1>4
  DEF ClientInv, OwnRequest, ReceivedRecent, ShownWeatherIsRecent, UserAt

(* The steps of the server alone and the requests of others.                *)
LEMMA OthersKeep ==
  ASSUME ClientInv, Inv', HandedOutRecent', [Next]_apiVars,
         ServerAlone \/ OthersAsk
  PROVE  ClientInv'
<1>1. /\ store' = store /\ user' = user /\ response' = response
      /\ clientFaults' = clientFaults
  BY DEF ServerAlone, OthersAsk, clientVars
<1>2. OwnRequest'
  <2> SUFFICES ASSUME UserAt("wait")
               PROVE  op' # Idle /\ op'.query = user.query
    BY <1>1 DEF OwnRequest, UserAt
  <2>1. op # Idle /\ op.query = user.query
    BY DEF ClientInv, OwnRequest
  <2>2. op \in Running
    BY <2>1 DEF ClientInv, Inv, TypeOK
  <2>3. CASE OthersAsk
    BY <2>1, <2>3 DEF OthersAsk, Ask
  <2>4. CASE ServerAlone
    <3>1. \/ CheckCache
          \/ \E answer \in Answers : Curl_HTTPGet(answer)
          \/ CacheResponse \/ OpenCacheFile \/ WriteCacheFile
          \/ OpenCityFile \/ WriteCityFile \/ Restart
      BY <2>4 DEF ServerAlone
    <3>2. ~Reply /\ ~StrdupOfNull
      <4>1. CASE Restart
        BY <2>1, <4>1 DEF Restart, Reply, StrdupOfNull, At
      <4>2. CASE ~Restart
        BY <3>1, <4>2
        DEF CheckCache, Curl_HTTPGet, CacheResponse, OpenCacheFile,
            WriteCacheFile, OpenCityFile, WriteCityFile, Reply, StrdupOfNull,
            At
      <4> QED
        BY <4>1, <4>2
    <3>3. ~Killed
      <4>1. up' = TRUE
        BY <3>1
        DEF CheckCache, Curl_HTTPGet, CacheResponse, OpenCacheFile,
            WriteCacheFile, OpenCityFile, WriteCityFile, Restart, At,
            ClientInv, Inv, TypeOK
      <4> QED
        BY <4>1 DEF Killed, Dies
    <3> QED
      BY <2>1, <3>2, <3>3, HandlerStays DEF ClientInv
  <2> QED
    BY <2>3, <2>4
<1>3. ClientTypeOK'
  BY <1>1 DEF ClientInv, ClientTypeOK, Inv
<1> QED
  BY <1>1, <1>2, <1>3
  DEF ClientInv, ReceivedRecent, StoredRecent, ShownWeatherIsRecent, UserAt

(* TimePasses: a file and the weather in it age together.                   *)
LEMMA TimeKeeps ==
  ASSUME ClientInv, Inv', HandedOutRecent', TimePasses
  PROVE  ClientInv'
<1>1. ASSUME NEW age \in 0 .. Oldest
      PROVE  /\ Aging(age) \in 0 .. Oldest
             /\ Aging(age) = Oldest \/ Aging(age) = age + 1
  BY <1>1, ClientFacts DEF Aging
<1>2. op' = op /\ user' = user /\ clientFaults' = clientFaults
  BY DEF TimePasses, Tick
<1>3. ASSUME NEW n \in Names
      PROVE  /\ store[n] \in ClientFiles
             /\ store'[n] = [store[n] EXCEPT !.saved = Aging(@), !.age = Aging(@)]
  BY DEF TimePasses, ClientInv, ClientTypeOK
<1>4. store' \in [Names -> ClientFiles]
  <2>1. ASSUME NEW n \in Names
        PROVE  [store[n] EXCEPT !.saved = Aging(@), !.age = Aging(@)]
                 \in ClientFiles
    BY <1>1, <1>3 DEF ClientFiles
  <2> QED
    BY <2>1 DEF TimePasses
<1>5. response' \in Responses
  BY <1>1 DEF TimePasses, ClientInv, ClientTypeOK, Responses
<1>6. StoredRecent'
  <2> SUFFICES ASSUME NEW q \in Weather
               PROVE  store'[CacheName(q)].age
                        <= store'[CacheName(q)].saved + TTL - 1
    BY DEF StoredRecent
  <2> DEFINE n == CacheName(q)
  <2>1. n \in Names
    BY DEF Names, Queries
  <2>2. store[n].age \in 0 .. Oldest /\ store[n].saved \in 0 .. Oldest
    BY <1>3, <2>1 DEF ClientFiles
  <2>3. /\ store'[n].age = Aging(store[n].age)
        /\ store'[n].saved = Aging(store[n].saved)
    BY <1>3, <2>1 DEF ClientFiles
  <2>4. store[n].age <= store[n].saved + TTL - 1
    BY DEF ClientInv, StoredRecent
  <2> QED
    BY <2>2, <2>3, <2>4, ClientFacts DEF Aging
<1>7. ClientTypeOK'
  BY <1>2, <1>4, <1>5 DEF ClientInv, ClientTypeOK, Inv
<1>8. OwnRequest' /\ ReceivedRecent' /\ ShownWeatherIsRecent'
  BY <1>2
  DEF TimePasses, ClientInv, OwnRequest, ReceivedRecent, ShownWeatherIsRecent,
      UserAt
<1> QED
  BY <1>6, <1>7, <1>8 DEF ClientInv

-----------------------------------------------------------------------------
(* Every step keeps the invariant.                                          *)
LEMMA ClientInvNext ==
  ASSUME NamesAreDistinct, ClientInv, [ClientNext]_allVars
  PROVE  ClientInv'
<1>1. [Next]_apiVars
  BY ServerStep DEF ClientInv, allVars
<1>2. Inv' /\ HandedOutRecent'
  BY <1>1, InvNext, HandlerAges DEF ClientInv
<1>3. CASE UNCHANGED allVars
  BY <1>2, <1>3
  DEF allVars, apiVars, clientVars, ClientInv, ClientTypeOK, Inv, OwnRequest,
      ReceivedRecent, StoredRecent, ShownWeatherIsRecent, UserAt
<1>4. CASE ClientStep
  BY <1>2, <1>4, LoadKeeps, FailureKeeps, GetKeeps, ReceiveKeeps, SaveKeeps,
     MenuKeeps DEF ClientStep
<1> QED
  BY <1>1, <1>2, <1>3, <1>4, MenuKeeps, ClientKilledKeeps, OthersKeep, TimeKeeps
  DEF ClientNext

(* The invariant holds.                                                     *)
THEOREM ClientInvariant ==
  ASSUME NamesAreDistinct
  PROVE  ClientSafety => []ClientInv
<1>1. ClientInit => ClientInv
  BY ClientInvInit
<1>2. ClientInv /\ [ClientNext]_allVars => ClientInv'
  BY ClientInvNext
<1> QED
  BY <1>1, <1>2, PTL DEF ClientSafety

(* The files, the user and what was printed keep their types.               *)
THEOREM ClientTypes ==
  ASSUME NamesAreDistinct
  PROVE  ClientSafety => []ClientTypeOK
<1>1. ClientInv => ClientTypeOK
  BY DEF ClientInv
<1> QED
  BY <1>1, ClientInvariant, PTL

(* Weather that a user is shown was true less than the two lifetimes        *)
(* together ago, wherever on its way it was kept (ShownWeatherIsRecent).    *)
THEOREM WeatherIsRecent ==
  ASSUME NamesAreDistinct
  PROVE  ClientSafety => []ShownWeatherIsRecent
<1>1. ClientInv => ShownWeatherIsRecent
  BY DEF ClientInv
<1> QED
  BY <1>1, ClientInvariant, PTL

(* Every behaviour of the server under this client is one of module         *)
(* WeatherAPI, so that what is proved there holds with the client in front. *)
THEOREM ClientUsesServer ==
  ASSUME NamesAreDistinct
  PROVE  ClientSafety => Safety
<1>1. ClientInit => Init
  BY DEF ClientInit
<1>2. ClientInv /\ [ClientNext]_allVars => [Next]_apiVars
  BY ServerStep DEF ClientInv, allVars, apiVars
<1> QED
  BY <1>1, <1>2, ClientInvariant, PTL DEF ClientSafety, Safety

=============================================================================
