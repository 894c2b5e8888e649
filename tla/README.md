# A verification of the weather server

The repository is a client–server system for weather data: a C server that
answers `GET /api/v1/geo?city=…` and `GET /api/v1/gwd?lat=…&lon=…` from two
remote APIs and a cache of files, and command line clients in C++ and C. This
directory holds TLA+ modules translated from its source, TLC configurations
that check them on small instances, and proofs that hold for every instance.

Paths below are relative to the root of the repository.

## 1. Inventory

| Component | State it keeps | Operations | Hard behaviour | Modelled in |
|---|---|---|---|---|
| **smw scheduler** `libs/smw.c` | `g_smw.tasks`, 10 slots of context and callback | create, destroy, count, `smw_work`, dispose | slots are filled and freed while the loop walks them; the table may be full | `Smw` |
| **HTTP connection** `server/src/HTTPServerConnection.c` | one heap object per socket: `state`, `timeout`, `bytesReadOut`, request, response, `task` | Initialize, `_work` (nine states), Dispose | frees itself inside its own callback; the timer races the read; results are overwritten by later lines | `HTTPServerConnection` |
| **Request reader** `utils/HTTPRequest.c` | `recv_buffer` of 2048 bytes, its length, `url` | ReadHeaders, ParseHeader | non-blocking, segments cut anywhere, a full buffer, a stale out-parameter | `HTTPServerConnection` |
| **Response writer** `utils/HTTPResponse.c` | status, body, formatted text, pointer, length | Format, Send | partial sends, truncation at 2047, failure without a body | `HTTPServerConnection` |
| **HTTP server, listening socket** `HTTPServer.c`, `TCPServer.c` | two tasks, the listening socket | Initialize, listen, accept, dispose | the result of listen is ignored; one accept per sweep | `WeatherServer` |
| **Process** `main.c`, `WeatherServer.c` | `shutdown`, the loop | start, loop, SIGINT, dispose | a signal between any two steps | `WeatherServer` |
| **URL parser, routes** `Handlers/URLHandler.c`, `RouteHandler.c` | parameters, route table | Parse, FindRoute | an array that grows in the middle of a tokenizer | `URLHandler` |
| **Handlers** `Handlers/WeatherHandler.c` | none | Handle_GEO, Handle_Weather | run the API clients inside a callback; `strdup(NULL)` | `WeatherAPI`, `Responses` |
| **API clients and caches** `libs/API/*.c`, `libs/curl.c` | `cache/*_GEO.json`, `cache/*_Meteo.json` | CheckCache, CacheResponse, ParseResponse, SendRequest, decoding | ages, cached errors, torn files, two stores written one after the other, decoding in place | `WeatherAPI`, `Responses`, `URLDecoder` |
| **Cities** `glenns_metro/src` | `cities/*.json`, a list | load, create, look up, save, destroy | a directory that is read and written at once | `Cities` |
| **LinkedList** `glenns_metro/libs/utils/LinkedList.c` | nodes, head, tail, length | insert, remove, move, clear | special cases at both ends | `LinkedList` |
| **C++ client** `client-cpp/src` | `cache/*.json` of the client | get_cords, get_weather, the menu | a second cache above the server's | `WeatherClient`, `URLHandler` |
| **TCPClient, HTTPClient** `libs/TCPClient.c`, `libs/HTTP` | a client state machine with one buffer for request and answer | connect, transmit, receive, dispose | a descriptor that is closed again and again; both ends of the buffer; nothing in the server calls it yet | `HTTPClient` |
| **jansson: values** `value.c`, `hashtable.c` | reference counts, entries, two rings per table | every operation on objects and arrays the program uses, and their copies | who owns what when a malloc fails; a rehash in an iteration | `Hashtable`, `JsonValue` |
| **jansson: texts** `load.c`, `dump.c`, `strbuffer.c`, `strconv.c`, `utf.c` | a stream and its place, the lexer's token | load from a string and a file, dump to both | octets of a broken peer, torn files, bounds of numbers and nesting | `Utf8`, `JsonStream`, `JsonText` |
| jansson's `pack_unpack.c`, `lookup3.h`, md5, most of tinydir | | | not used, or functions of the data only | — |
| **C client** `client-c/src` | | | does not build: its headers are missing | — |
| fuzz harness | | | a test driver | — |

How they interact. `main` calls `smw_work(monTime)` for ever. Each sweep calls,
in slot order, `HTTPServer_work` (does nothing), `tcpserver_work` (accepts at most
one client and, through the `onConnect` callback, creates a connection object with
a task of its own) and `HTTPServerConnection_work` of every connection, which
runs *one* case of its switch. A connection ends by destroying its task and
freeing itself in the last of these calls. The handlers, and with them the caches
and the requests to the remote APIs, run inside such a call, so everything waits
for them. There is one thread; concurrency is with the clients and the signal.

What makes each part correct:

* scheduler: no context in two slots, no registered task starved, with callbacks that come and go in the middle of a sweep (`ImplementsSmwSafety`, `ImplementsSmw`);
* ownership: only live objects are called, a disposal clears no foreign slot, sockets and objects live equally long (`TasksOwnLiveConnections`, `SocketLivesWithObject`), the server keeps its own two tasks (`ListenerSurvives`);
* reader: bounds of the buffer under any segmentation (`BufferInBounds`), a timeout hits only who deserves it (`TimeoutHitsOnlyTheSilent`, `TimeoutSparesCompleteRequest`);
* writer: all of the response, once, to the one who asked (`RepliesFollowRequests`, `AnsweredInFull`);
* connection: it ends (`ConnectionDisposesItself`), and answers if it can (`RequestIsAnswered`);
* process: it is a scheduler, SIGINT ends it (`ImplementsSmw`, `SigintStops`); and seen from a client it is nothing but an exchange, in which whoever waits is accepted (`ImplementsExchange`);
* caches: no stored text ends the process, the two stores of a city agree, nothing is fetched twice in its lifetime, nothing bad sticks (`CacheNeverKills`, `StoresAgree`, `OneCallPerTTL`, `EveryQueryRecovers`);
* what is passed on: the right handler with the right parameters, the right fields of the answer, the right key of the cache (`UrlIsUnderstood`, `AnswerIsWhatWasAsked`, `NamesAreDecoded`);
* client: what is shown is of bounded age, and no failure sticks (`ShownWeatherIsRecent`, `WeatherComesBack`);
* cities: who is listed stands in a file of its own, through any load that is cut short (`ListIsSound`, `LoadingKeepsWhole`, `LoadsEveryFileOnce`);
* data structures: they are the sequence, the map, the counted values that their users take them for (`ImplementsSequence`, `ImplementsMap`, `NodesAreLinked`, `ValuesAreKept`);
* texts: what loads is JSON and all JSON loads, what was dumped loads back as it was, and a part of it never does (`LoadsExactlyJSON`, `LoadedIsKept`, `OnlyTheWholeLoads`), and octets that are no text are refused at their place, the others all passed on (`OctetsAreSound`).

`PROJECT.json` lists, under `hazards`, the lines where this could go wrong.

## 2. The modules

The server:

| Module | Models | Role |
|---|---|---|
| `Smw` | `libs/smw.c` and the condition of the main loop | operations used by the others, and the *abstract specification* `SmwSpec` |
| `HTTPServerConnection` | `HTTPServerConnection.c`, `HTTPRequest.c`, `HTTPResponse.c` | extends `Smw`; one action per case of the switch, `Initialize`, `Dispose` |
| `WeatherServer` | `main.c`, `WeatherServer.c`, `HTTPServer.c`, `TCPServer.c`, clients | composes the two; the specification of the process and all its properties |
| `HTTPExchange` | what a client may see of all this | *abstract specification* of one exchange; `WeatherServer` implements it |
| `URLHandler` | `URLHandler.c`, `RouteHandler.c` | a URL as tokens; which handler runs with which parameters |

What the handlers do, and what stands on it:

| Module | Models | Role |
|---|---|---|
| `WeatherAPI` | `WeatherHandler.c`, `GEO_API.c`, `Meteo_API.c`, `curl.c` | a handler as steps, the cache and city files, upstream, death and restart |
| `Responses` | the two `ParseResponse` functions | which fields of upstream's answer a client gets |
| `URLDecoder` | `URLDecoder.c` and its use in `GEO_CheckCache` | decoding in place; the key of the cache |
| `WeatherClient` | `client-cpp/src` | extends `WeatherAPI`: two caches above each other, and a user |
| `Cities` | `Cities.c`, `City.c`, the `tinydir` calls of the load | the list, the directory, the load step by step |
| `HTTPClient` | `HTTPClient.c`, `TCPClient.c` | extends `Smw`: client tasks that share descriptors |

The data structures below:

| Module | Models | Role |
|---|---|---|
| `ItemList`, `LinkedList` | `LinkedList.h`, `LinkedList.c` | a sequence, and the nodes that implement it |
| `OrderedMap`, `Hashtable` | a JSON object as its users see it, `hashtable.c` | an ordered map, and the rings and buckets that implement it |
| `JsonValue` | `value.c` | reference counts and ownership, failing mallocs, copies |
| `Utf8`, `JsonStream` | `utf.c`, the stream of `load.c` | octets, characters, places |
| `JsonText`, `JsonGrammar` | lexer, parser, dump, file writes; RFC 8259 as the reference | what loads and what is written |

`Pointers` declares the null pointer that the modules share. `MC…` modules give the constants their values. Three runs put components side by
side that share no state, so that one run checks them all: `MCInputs` (`URLHandler`,
`URLDecoder`, `JsonStream`, `JsonText`, `Responses`), `MCLibraries` (by way of the module
`Libraries`: `LinkedList`, `Hashtable`, `HTTPClient`) and `MCJsonValue` (`JsonValue` twice). A
behaviour begins in one of them and stays there, so its states are theirs; the properties of
the run are those of the modules, joined under one name. The first two EXTEND their parts, whose
variables and specifications have names of their own (`UrlSpec`, `NameSpec`, `AnswerSpec`,
`TableSpec`, `ClientSpec`), so that the theorems speak of the very definitions that the runs check.

The theorems stand in modules of their own: `WeatherServer_proofs` (scheduler, types, task
table, sockets) and `Exchange_proofs`, which extends it (requests, responses, the refinement of
`HTTPExchange`), about the server; `WeatherClient_proofs` (both caches, and the client above
them) and `Cities_proofs` about the caches and files; `LinkedList_proofs`, `Libraries_proofs`,
which extends it (the hash table and the HTTP client), and `JsonStream_proofs` about the
libraries; `Inputs_proofs` about URLs, names and the answers of upstream.

The two halves meet in the outcome of a handler: `WeatherServer` lets `HandleRequest`
take any outcome that `WeatherAPI` and `URLHandler` allow (a body, no handler, the crash
of the process), and a step of `WeatherAPI` runs inside that one callback. `Cities`
has the writes of the GEO handler as an action of its own; `WeatherAPI` has the city file as one of
two stores. `JsonText` says what a torn file is worth, which `WeatherAPI`,
`WeatherClient` and `Cities` take as "torn does not parse" (`OnlyTheWholeLoads`).

### The server: state

* `tasks`, `cursor`: the table by its contexts (context and callback are always written together) and the loop index of `smw_work`, `MaxTasks` between two sweeps.
* `heap[c]`, `task[c]`, `socket[c]`, `conn[c]`: whether the object exists, its field `task`, its socket, its other fields. The fields of a freed object are reset, as they mean nothing.
* `net[c]`: the client's end: its request, how many bytes have arrived, whether it is open, shut or reset, and how many bytes it was sent.
* `main`, `shutdown`: where `main` is, and the flag of the signal handler.

### The server: actions

One TLA+ step is one iteration of the loop of `smw_work`, i.e. one complete
callback, or one step of the outside world. Between any two callbacks clients may
connect, send a segment of any length, close, or break the connection, and SIGINT may
come. (A signal or a packet in the middle of a callback has the effect of one
just before or after it: a callback makes at most one call to the kernel that
looks at its socket, and `shutdown` is read by `main` only.)

`BeginSweep(d)` reads the clock. `timeout` is an absolute time in the code, which
only compares it with the time of the sweep; the model keeps the time that has
passed since it was armed, capped at `TimeoutMs`, which decides the same
comparison.

### The server: abstractions

* A request is a length and the first check it fails. The lengths of the buffer (2047), the header limit (1024) and the formatted response (2047) are constants in units small enough for TLC; the comparisons between them are those of the code.
* `HTTPServer.connection` and `*is_active` are written and never used for a decision; they are left out. `HTTPServerConnection_SetCallback` likewise.
* Allocation does not fail. `accept` returns a client whenever one waits (no EMFILE), in any order.
* `recv` follows Linux: queued bytes come before an error; a length of 0 with bytes waiting returns 0, without it EWOULDBLOCK. `send` of a small response does not block; it may take a part.
* A response longer than the formatted text is sent by its wrong length (bytes past the string): lengths are counted, contents are not.
* What an upstream answers is a body or, when it is no JSON, the crash of `strdup(NULL)` (`HandlerCrash`). The decrement of a borrowed reference after its owner (`Meteo_API.c:206`) touches freed memory; with glibc it changes bytes nobody reads. `JsonValue` models programs that keep the rules of ownership, so this call is not among its steps.

### The handlers and the files

* `WeatherAPI`: `op` is the local state of the handler that runs, with a program counter where something can come between; `cache[q]` and `city[g]` are files, whose text is one of five kinds or torn. `json_dump_file` truncates, writes and closes, so a kill or a full disk can leave a torn file, and does so at each of these points. The digest that names a file is the query itself. Time passes only between handlers and in `curl`.
* `since`, `served` and `hurt` are history: the age of upstream's last answer, what was answered last, and the files that a fault hit. They steer nothing.
* `Responses`: the JSON of upstream is the sequence of its members with the kind of each; kinds decide which `json_is_…` branch is taken. Printing is not modelled.
* `URLDecoder`, `URLHandler`: a text is a sequence of the characters, or tokens, that the code tells apart. `strtok` is modelled by what it does: it skips empty tokens.
* `WeatherClient`: what a user reads is the text that `main` printed last. The age of a text is carried through both caches, and is history.
* `Cities`: a file holds a city of its own name, of another name, one without coordinates, no JSON, or a torn text. `before`, what the directory held when the server started, is history. What `readdir` gives of a file that appears meanwhile is open, as in POSIX.

### The data structures

* `LinkedList`: the heap is a function from addresses to nodes; each public function is one operator and one action. `InsertBefore` on the head of a longer list is only enabled with `HeadInserts`: it makes the old head the tail, whatever follows it; nobody calls it, and no document says what it should do.
* `Hashtable`: both rings and the buckets as they lie in memory. The hash of a key is any number, chosen at the start: `lookup3.h` and the seed are behind it. `hashsize` is a shift of a `uint32_t` in the code and a power of 2 here: the model is that of a table below 2^32 entries.
* `JsonValue`: an object is an `OrderedMap`, which `Hashtable` is shown to implement, by TLC and by `TableIsOrderedMap`, and the number of its buckets: a set of a full table needs a malloc for more of them before it looks for its key, and drops the value when that fails. `mem` says how many mallocs succeed before one fails.
* `JsonStream`: `taken` is what the source has yielded, `read` what the lexer has; `lost` is history, the NULs that the lexer gave back and the code then overwrote.
* `HTTPClient`: a request and an answer are lengths. `asked` (how long the request was) and `extent` (how much of the buffer a call has touched, or the kernel for it) are history.
* `JsonText`: octets are numbers. `MaxInteger` and `MaxExponent` are the limits of `strtoll` and `strtod`; a real is the decimal fraction that stands for its double, with no more than `Precision` digits, and is written with those, as a plain fraction or with an exponent where `printf` takes one. In the code `Precision` is 17, and 17 digits tell all doubles apart; that `printf` and `strtod` round correctly is taken from libc. The code scans a token when the parser asks for it; here `Tokens` scans all up to the first wrong one, which the parser takes in the same order and cannot pass. Malloc does not fail there.

## 3. What TLC checks

| Run | Instance | Shows |
|---|---|---|
| `server` | 2 connections, 3 slots, 6 requests (a POST is treated as any refused header), upstream answers that crash a handler | reader, timer and writer for every request class, every segmentation, every close; slots freed, reused and exhausted; refinement of `SmwSafety` |
| `fair` | 2 connections, 4 slots, one request | refinement of `SmwSpec` and of `HTTPExchange` with their liveness; SIGINT ends the process |
| `answer` | 1 connection, all requests, two-step timer | answers and disposal under fairness; refinement of `HTTPExchange` for every request |
| `caches` | a city and a place, TTL 2, answers of every kind, one kill and one failing write, under fairness | the stores agree, no cached text ends the process, one upstream call per lifetime; once upstream answers data, every query gets it again and again |
| `client` | one place, both caches, errors, kills, files truncated or not opened, under fairness | weather is never older than both lifetimes together, and the user sees it again and again |
| `cities` | three city names, one of which JSON cannot hold, a copy of a file under another name | who is listed stands in a file of its own after any load, fault or death; a load ends and takes each file once |
| `inputs` | every URL of up to 4 tokens and queries of up to 17; names of up to 5 characters; octets at all edges of the ranges of UTF-8; documents of every kind with every write failing and death before every octet; texts of 5, 5 and 4 pieces; reals on both sides of where they get an exponent; every small answer of upstream | what comes from outside is read as what it says, and refused where it says nothing |
| `libraries` | 4 nodes and 2 items; 3 keys, every hash up to 3, one bucket at first; 2 clients with requests that fit their buffers or not; failing mallocs | list and table implement a sequence and an ordered map; no octet of a request is lost or doubled; where a buffer is left |
| `values` | 3 live values in trees; the same with containers below themselves, and objects that rehash; failing mallocs | exact counts, nothing dangling, whole copies, only cycles leak |
| `fulltable`, `stalled`, `errors` | 1 or 2 connections | the findings 1 to 3 of section 5: TLC must find the property violated |

The joined properties, by the modules that state their parts:

| Property | Parts |
|---|---|
| `UrlIsUnderstood` | `URLHandler`: `HandlerGetsWhatTheURLSays` (what a definition without a parser reads off the URL), `PairsHaveRoom` |
| `NamesAreDecoded` | `URLDecoder`: `ReadsWhatCame` (nothing is read that was overwritten), `KeyIsKnown` (which key every name gets) |
| `OctetsAreSound` | `JsonStream`: its type, `ErrorsAreIllFormed`, `StringsAreUTF8`, `NoOctetIsAStatus`, `EncodeUndoesDecode`, `PassesWhatCame` (all that came, once and in order), `PlaceIsExact` |
| `AnswerIsWhatWasAsked` | `Responses`: `WeatherIsWhatWasAsked`, `PlacesStayInPlace` |
| `OnlyTheWholeLoads` | `JsonGrammar`: its type, `WholeLoadsBack`, `TornIsRefused`, `LostWriteIsRefused` |
| `LoadedIsKept` | `JsonGrammar`: one formula, that what was loaded is the same after a dump and a load, and that its strings are UTF-8 without a NUL |
| `NodesAreLinked` | `LinkedList`: its type, `WellLinked`; `Hashtable`: its type, `BucketsPartition`, `FindsWhatIsStored` |
| `ValuesAreKept` | `JsonValue`, in both programs: its type, `RefcountsAreExact`, `NothingDangles`, `EntriesInTable`, `OnlyCyclesLeak`, `DeepCopyIsWhole` |
| `RequestsAreSentOnce` | `HTTPClient`: its type, what was sent and got per client and in sum, nothing left to send in Receive and Close, `StaysInBuffer` |
| `ListIsSound` | `Cities`: its type, `ListedHaveFiles` |

Why the bounds are enough to meet the interesting cases. `RecvCap = 3` and
`HeaderMax = 2` with requests of length 2, 3 and 4 give: a header that fits, one
that fits the buffer and is too large for the parser, one that never fits the
buffer. Requests of length 2 and more arrive in one or several segments, so a
read may find nothing, a part, or the end. `Bodies` of length 1 make a response of two bytes,
sent at once or in parts; a body that exceeds `FormatCap` is left out (finding 4).
`TimeoutMs = 2` with `Elapsed = {0, 1}` separates arming, waiting and expiry and
lets sweeps happen within one clock tick; `TimeoutMs = 1` keeps the run `fair` small, where
the timer is not the question. One slot beside the server's own with two connections gives
reuse of a slot by an object other than the one that freed it, and a full table.
Symmetry among connections, and among the nodes of a list, is used in safety runs only.

The handlers and files. One city and one place are enough for the two caches, since no line
relates two cities or two places. `TTL = 2` has young, older and expired; `TTL` stands for every higher
age. The one kill leaves either store torn, or one written and the other not; the one failing
write does the same while the process goes on. Answers are data, data with a coordinate of 0, an
error object, what is no JSON, and none.
The one fault of the client is a file that cannot be opened, a part of a text, or an empty file.
`Cities` has one fault: a call that fails, a torn write or a death, at each step. Five characters
hold an encoded `%25` followed by two digits, which must not be decoded twice; seventeen tokens hold
the pairs that make the array grow, some of them incomplete.

The data structures. `Hashtable` starts with one bucket instead of eight
(`INITIAL_HASHTABLE_ORDER = 0`), so three keys force two rehashes, with every way to
share a bucket, and hashes up to 3 tell the buckets of all sizes apart. Four nodes and two items have a
first, a last, two nodes between them, and equal items. `JsonValue`: three live values between two
calls, six addresses for those a call makes, `MaxMallocs = 6` for a failure of each malloc of a deep copy; of any other call the first
malloc fails, the second, or none. An array of room 1 must grow. In the program of the trees objects have two keys and never fill their buckets; in
the other one they have one key and one bucket, so that setting the key that is there rehashes first, or fails to. `JsonText`: five pieces hold an object whose entry is an array, every
pair of marks in the wrong order, `[-0.0e+`; nesting goes to `MaxDepth = 3` and one over it;
`MaxInteger = 99` is reached and exceeded by two and three digits. `Precision = 4` and `MaxExponent = 10` have reals that are
written with and without an exponent, with one digit before it and with more, negative exponents too, and some that are out of range. `JsonStream`: up to two characters,
the last of any length, a NUL among them that may be given back. `HTTPClient`: requests of 2 and of 5 octets and an answer of 4 in a
buffer of 3 are sent and read in parts; the first fits and the second does not, and the answer fills the buffer; a descriptor that a client has closed and
closes again is by then the other's.

Fairness. `WF(Process)`: the loop of `main` runs for ever and callbacks return
(sockets are read with `MSG_DONTWAIT`, the listener is non-blocking).
`SF(BeginSweep(d), d > 0)`: the monotonic clock is read once per sweep and cannot
stand still for ever. Nothing is assumed of clients or of the signal. That a request to
a remote API returns is an assumption: `curl_easy_perform` has no timeout.
`WeatherAPI` assumes that a handler goes on, that a dead process is started again, that
every query is asked for again and again, and that the clock goes on; `EveryQueryRecovers` further
that upstream answers data from some time on. `WeatherClient` adds a user who keeps starting
the client. `Cities` assumes only that a load goes on.

Liveness properties say what they are conditional on: the process has not
stopped, and the connection is not `Stalled`, the state that run `stalled` shows
to be possible. `HTTPExchange` states its liveness as leads-to formulas, since TLC cannot evaluate
the `ENABLED` of a `WF` under a refinement mapping.

Every property has a mutant in `PROJECT.json`: a plausible bug in one definition
that the run of the property finds. The mutated forms (`…_Suffix`) stand beside
the definitions they change.

## 4. What is proved

For any number of slots, connections and requests, and any sizes (assumptions
`SmwAssumption`, `ConnectionAssumption`, `ServerAssumption`, which TLC evaluates
in every run of the server; `MaxTasks >= 2` is the only one that is not just a type):

| Theorem | Statement |
|---|---|
| `TypeCorrect` | `Safety => [](TypeOK /\ BufferInBounds)` |
| `TableOwned` | `Safety => []TasksOwnLiveConnections` |
| `SocketsPaired` | `Safety => []SocketLivesWithObject` |
| `ListenerKept` | `Safety => []ListenerSurvives` |
| `SchedulerImplemented` | `Safety => ImplementsSmwSafety` |
| `RepliesAfterRequests` | `Safety => []RepliesFollowRequests` |
| `AllIsSent` | `Safety => []AnsweredInFull` |
| `TimeoutIsDeserved` | `Safety => TimeoutHitsOnlyTheSilent` |
| `LateRequestIsServed` | `Safety => TimeoutSparesCompleteRequest` |
| `ExchangeImplemented` | `Safety => ImplementsExchangeSafety` |
| `SlotsUnique` | `SmwSafety => [](SmwTypeOK /\ OneSlotPerContext)`, the promise of the abstract scheduler that the server implements |

For any cities, places, lifetime and foreign files, with any number of faults (`APIAssumption`,
`CitiesAssumption`: the sets of names are not empty where a first name is chosen, and are
disjoint from the marks for what a file holds; a directory has finitely many files):

| Theorem | Statement |
|---|---|
| `CacheIsHarmless` | `WeatherAPI!Safety => []CacheNeverKills` |
| `StoresOfACityAgree` | `WeatherAPI!Safety => []StoresAgree` |
| `OneCallInItsLifetime` | `WeatherAPI!Safety => OneCallPerTTL` |
| `NothingIsLost` | `Cities!Spec => []LoadingKeepsWhole` |
| `TheListIsSound` | `Cities!Spec => []ListIsSound` |
| `EveryFileIsLoadedOnce` | `Cities!Spec => LoadsEveryFileOnce` |

For the client above the server, provided that no city has the name that the client gives to the
file of a place (`NamesAreDistinct`, see below):

| Theorem | Statement |
|---|---|
| `ClientTypes` | `ClientSafety => []ClientTypeOK` |
| `WeatherIsRecent` | `ClientSafety => []ShownWeatherIsRecent` |
| `ClientUsesServer` | `ClientSafety => WeatherAPI!Safety`: the theorems above hold under the client too |

For the libraries, with any number of nodes, keys, octets, clients and calls (`ListAssumption`,
`HashtableAssumption`, `StreamAssumption`, `ClientAssumption`: the keys that a program uses are
finitely many, and the marks for "no entry" are none of them):

| Theorem | Statement |
|---|---|
| `ListTypes`, `ListWellLinked` | `LinkedList!Spec => []TypeOK`, `[]WellLinked` |
| `ListIsSequence` | `LinkedList!Spec => ImplementsSequence` |
| `NodesStayLinked` | `LibrariesSpec => []NodesAreLinked`: list and table, after any calls and failures |
| `TableIsOrderedMap` | `Hashtable!TableSpec => ImplementsMap` |
| `IterationVisitsAll` | `Hashtable!TableSpec => IterationIsComplete` |
| `OctetsSound` | `JsonStream!StreamSpec => []OctetsAreSound` |
| `RequestsSentOnce` | `HTTPClient!ClientSpec => []RequestsAreSentOnce`, which includes its types |

For what comes from outside, of any length (`URLAssumption`: texts are sequences, and the table of routes
has room for those that are registered, as it has in the code, 2 of 10; `DecoderAssumption`: the
characters that the code tells apart are different; `ResponsesAssumption`: an object of jansson has no key twice):

| Theorem | Statement |
|---|---|
| `URLsUnderstood` | `URLHandler!UrlSpec => []UrlIsUnderstood` |
| `NamesDecoded` | `URLDecoder!NameSpec => []NamesAreDecoded` |
| `AnswersAreWhatWasAsked` | `Responses!AnswerSpec => []AnswerIsWhatWasAsked` |

The argument. `TypeOK /\ BufferInBounds` is inductive: that a read stays in the
buffer needs that the buffer was not over-full before, and that lengths are naturals
needs the bounds, so the two are proved together, with one lemma per action.
`TasksOwnLiveConnections` is not inductive alone: that a disposal clears the right
slot needs that the object being called is the one registered at the loop index
(`Calls`), and that the listener stays in slot 1 needs to know the table while the
server boots. `TableInv` adds `BootTable` for that, and is proved by one lemma per
way a step can touch the table: an accept, a disposal, the boot, the exit.
`SchedulerImplemented` then maps each action to `Register`, `Sweep`,
`SkipFreeSlot`, `CallTask`, `DisposeAll` or a stutter; the one hard case is
`Cleanup`, where `TableInv` gives `task[c] = cursor`, so that a task destroys
nothing but itself.

`ExchangeInv` is the invariant of one exchange, for one connection at a time and in
three parts. `Phase`: what the state tells of the request (the header is incomplete in
Read and Timeout, complete after, and has passed the checks of the states behind it).
`Answer`: what it tells of the response (nothing sent before SendResponse; there, sent
and still to send add up to the text; a body exists only for a request that
can be served). `Silence`: a running timer means that the last read took nothing,
and that such a client had sent nothing before, has closed, or has filled the buffer.
It is inductive only together with `TableInv`: a callback on a freed object would
serve a request twice. The two action properties follow from it and from what a
read returns (`ReadResult`).

`ExchangeImplemented` shows that the whole of the server is an `HTTPExchange`. Its
invariant `AllInv` is `TableInv`, `ExchangeInv` and `FreshInv`, the fields that an object has while
its client is queued or gone. The mapping is per client, so the proof is too: `View(c)` is the
part of the state that the abstract variables of one client are made of, and `Keeps`
says that a step leaves the views of all others alone. Each action is then shown to be one
abstract step of the one client it is about, or a stutter. Where a connection is disposed
of, `ExchangeInv` tells which of `Finish` and `Drop` it is: behind `SendResponse` everything
was sent or the client broke off, before it no servable request was heard.

`WeatherClient_proofs`, the caches of the server. What a handler takes from the cache depends on what an earlier one wrote
there, and that on what it knew when it wrote. `Inv` therefore has `NoJunk` (what is no JSON is in no file,
except as a torn text), `Knows` (what the handler that runs has found, fetched and written at each of
its points), `Agree` (`StoresAgree`, with the points between the two writes excepted), `Fresh` (a
place that was fetched within its lifetime has a file no older than the fetch) and `Cached` (a city
that was answered with data is cached, and one that is being fetched is not). `Agree`, `Fresh` and
`Cached` are inductive only together with `Knows`.

`Cities_proofs`. `LoadingKeepsWhole` needs `WritesWhatIsMissing`: a name reaches the two halves of
`json_dump_file` only when its file did not parse when it was looked for, and no other file
is touched in between. `ListedHaveFiles` is not inductive, since it says nothing while a city is being
added; `Listed` says it of every point, with the city that is being added as the one exception (`Stands` is what it says of one city).
That a file which parses is then that city, or what was there from the start, is `WritesOnlyCities`: until the server runs, every
file is as it was, holds the city of its name, or is torn.
`LoadsEveryFileOnce` speaks of the end of a load only; `Counted` says it of every point of one: how often a
city is listed, and how many of its files are still to come, are together no more than its files
now, and no less than its files when the load began, unless something failed. It needs
`WritesWhatIsMissing`, too: a file that is created during the load counts as a new one when the city gets into it, whether
readdir returns it or not, and one that was listed already is never written again.

`WeatherClient_proofs`, the client. The bound on the age of what is shown is carried along the way of a text, one
part of `ClientInv` for each place: what a handler takes from a file or from upstream is younger than the
server's `TTL`, so is what the client receives, a file of the client holds weather that was that young
when it was saved, and is opened only within the client's own lifetime. `Inv`, the invariant of the server's caches,
goes with it, since the first part is about the server's files. `NamesAreDistinct` is needed and not
implied by the code: both kinds of files lie in one directory, those of a city without any
lifetime, so a city that is called like the two coordinates of a place (finding 8) would be shown
weather of any age. TLC finds that behaviour when the names are made to meet.

`LinkedList_proofs`. `Sound(L)` says that some sequence of nodes, the chain, is linked both
ways from head to tail, is as long as the length, and is all that is allocated. Every call either puts one
node into the chain or takes one out; the lemmas `Inserted` and `Removed` say what that does to
the cells next to it, and each special case of the code (the first, the last, the only node) is
shown to be one of the two. `WellLinked` and the refinement of `ItemList` follow, the latter
because the chain read item by item is the abstract sequence, and walks along it
(`NodeAt`, `IndexOf`) meet its nodes in order. The hypothesis `~HeadInserts` excludes the call that breaks
the chain and that nobody makes (section 2).

`JsonStream_proofs`. Of the decoder of one character: `CharacterRows` (what `utf8_check_full`
accepts is the table of well-formed characters of the standard) and `EncodeIsInverse`, both by
the closed form of the code point. Of a whole text: `TextIsValid`, that the loop of `utf8_check_string`
finds exactly the UTF-8 texts, by induction over the octets still to come. `StreamInv` then says of each state that it
is an error exactly when what was taken is no text, that the buffer is one character, that what was given out are
octets of characters, and in `Place` what line, column and position are of what was read. `Place` also
has to tell, where the last octet may be given back, what `last_column` was before it: that makes
`stream_unget` after a newline an inverse. `PassInv` adds to `PassesWhatCame` that the octet which may be given back is the one
in the buffer in front of the next, so that giving it back changes nothing of `Passed`, what was read and what
is left in the buffer; a NUL given back that is not left there is the one case in which a new character does more than append (`FrontAndLast`).

`Libraries_proofs`, the hash table. What a ring holds is an order: a number n and a function `o` that has the entry
at each place 1 to n. `Linked(ring, o, n)` ties both directions of a ring to such an order, and
the lemmas `InsertLinks` and `RemoveLinks` say that `list_insert` and `list_remove` put one entry
in, or take one out, at a place. `Filed` says that the ring of the buckets is an order cut into stretches, one
per bucket: `Stretch` for a bucket with a first and a last entry, `NoStretch` for an empty one; an entry lies in the
stretch of its hash. `InsertFiles` and `DeleteFiles` keep it, in front of a stretch or of
the whole ring, at its first, last, only or any other entry. A rehash is followed node by node: `Stage` is the
new table with the first j entries of the old ring, and the old links of those to come. `TableInv` has
`HashesOK`, the type (`Shape`), `Bucketed` (some order files the table, and holds exactly the keys that have a value, so that the search finds these and no other: `FindsHeld`),
`Fits` (the load), and an order `o` of the second ring, in which an iteration has visited exactly the lasting
entries up to the one it stands at (`Visited`). `Walk` of that ring is `o` (`WalkIsOrder`), which makes
`Entries` the pairs along `o`: a new key is an `Append`, a deletion `RemoveAt`, and growth, which touches the other ring only,
a stutter of the `OrderedMap`.

`Libraries_proofs`, the HTTP client. Two clients can come to share a descriptor, and an octet that one sends is then got
by the server of the other. `Counted` has both what holds of a client whose descriptor nobody else has or had, that its own server got
what it counts as sent, and what holds of all of them, the sum. The first needs `Connected`: an open descriptor is that of the client it was opened for,
and who has none has sent nothing. `StaysInBuffer` names the two places where the buffer is left (findings 15 and 16): nothing in the code
bounds a request, so a theorem that the buffer is kept would need what the code does not check. `TotalGrows`, that a summand grown by n makes a sum grown
by n, is proved of the fold of the community modules by induction over subsets.

`Inputs_proofs`. The references say what a text means without a loop, so each invariant says what is true in the
middle of one. `NamesAreDecoded` says which key every name gets, in the case of a name with a plus and no escape, too (finding 12).
`NameInv`: what was written so far is the meaning of each character, or escape, that begins
before the reader, at its rank among them; the writer is not in front of the reader, so the rest is as it came.
The step over an escape needs that none of its three characters begins another (a digit is no '%').
`UrlInv`: what `strtok` has not seen is the query after some place d, which stands at its beginning or
behind a '&', and the parameters are the pairs that end by d (`Taken`): `TokenAhead` shows that the next token
is exactly the cut that begins there, `PairsGrow` that the count goes up by one and leaves the others.
The routes are what the fold over the registered ones makes (`RoutesRegistered`). `AnswerInv` only says which
answer was computed from what; the work is in the two loops: `CopiesInOrder` (one copy of the wanted
members, in the order of upstream), `EverythingAsked` (with two parameters all was copied, and the second loop replaces members by themselves)
and `SomeAsked` (each parameter appends the one member with its key, since no parameter is repeated).

About induction: the induction theorems of the library take an operator, which the provers cannot
instantiate, so the proofs use the least element of a set of numbers instead (`LeastNumber`): the set of
those lengths, or sizes, for which a claim fails is shown to have none (`AllNumbers` says it of a set that holds 0 and the
successor of each of its numbers). That a recursive function exists at all is shown the same way,
by gluing its beginnings together (`Recursion`, `Iterates`), and a fold of the community modules is such a
function (`FoldExists`). RECURSIVE operators stay with TLC.

Only model-checked:

* liveness, which is outside the prover's reach (`ImplementsSmw`, `ImplementsExchange`, `SigintStops`, `RequestIsAnswered`, `ConnectionDisposesItself`, `EveryQueryRecovers`, `WeatherComesBack`, `LoadEnds`);
* what a RECURSIVE operator computes: `JsonText`, `JsonGrammar` and `JsonValue` declare some, as the code they model calls itself (`LoadsExactlyJSON`, `OnlyTheWholeLoads`, `LoadedIsKept`, `ValuesAreKept`).

## 5. Findings

1. A connection accepted with a full table has no task and is never served, closed or freed (`HTTPServerConnection.c:41`; run `fulltable`). Eight clients at a time are served, while `listen` is given a backlog of 1000.
2. A client that sends a part of its header and falls silent is never timed out, as `bytesReadOut` keeps its last value and resets the timer in every call (`HTTPServerConnection.c:83`; run `stalled`).
3. 404 and 408 are never sent, 404 because the Cleanup chosen for a failed format is overwritten, 408 because nothing is formatted (`HTTPServerConnection.c:158`; run `errors`).
Seen while modelling, without a run of their own:

4. The length of a response over 2047 bytes is the untruncated one (`HTTPResponse.c:60`): what is sent goes on behind the text.
5. A POST is dropped without a response, where `README.md:269` has "REST with HTTP GET/POST" (`HTTPRequest.c:89`).
6. Coordinates are served from the cache at any age, where `README.md:406` has a lifetime of 5 to 15 minutes (`GEO_API.c:72`).
7. A latitude or longitude of 0 is taken for a missing one: a city on the equator or the prime meridian is fetched for every request (`GEO_API.c:117`).
8. The file of the client is named by latitude and longitude without a separator: 1 and 12 share it with 11 and 2 (`WeatherClient.cpp:53`).
9. The client does not use a file older than 15 minutes when the server is away, where `README.md:407` promises 30 to 60 (`Cache.cpp:31`).
10. What was saved for a city, an error too, is shown for ever (`WeatherClient.cpp:22`).
11. What a user types is put into the URL as it is: with a `&` in it another city is looked up, and saved under the name that was typed (`GEO.cpp:9`).
12. A name is decoded for its cache key only when there is a `%` in it: `a+b` and `a%20b` are one city for the service and get two keys, while `a+b` and `a%2Bb` are two and get one (`GEO_API.c:58`; `KeyText` of `URLDecoder`).
13. A NUL behind a number or a word is given back by the lexer, taken for the end of the buffer and lost: in a file, `[1` NUL `]` loads like `[1]`, and positions from there on are one short (`load.c:157`, `load.c:215`; `lost` of `JsonStream`).
14. A city file of a user that has an error is overwritten, as one that does not load counts as missing, where the comments at `Cities.c:67` and `Cities.c:77` have "file does not exist, create it" and "file exists, do not overwrite" (`Cities.c:68`).
15. The client library writes the NUL behind an answer of 4096 bytes or more one byte behind its buffer (`HTTPClient.c:59`; `StaysInBuffer`).
16. It takes the untruncated length for that of the request, so that one over 4095 bytes is sent with what lies behind the buffer (`HTTPClient.c:104`; `StaysInBuffer`). Nothing in the server calls the library.

## 6. Not modelled

* The C client: it includes headers that the repository does not have.
* `pack_unpack.c` of jansson: no caller. `lookup3.h` and the seed: any function in `Hashtable`. md5: an injective name for what is hashed. Of tinydir what the load of the cities calls; sorting, opening by index and the Windows halves have no caller.
* `HTTP.c`, which is one comment, and `tcp_sendAll`, `tcp_recieveAll`, `tcp_dispose`, which have no caller.
* The setters of strings and numbers, `json_sprintf`, `json_object_update_recursive`, and flags of load and dump that the program does not pass.
* The texts of the URLs to upstream, and how numbers are printed in them.
* The buffer of stdio: a write of a dump that fails loses its own octets and no others.
* A NUL in the texts that the lexer reads: `JsonText` takes the octets of a C string. What a NUL does to the stream below it is in `JsonStream`.
* The digits of a double: a real has at most `Precision` of them, and the correct rounding of `printf` and `strtod` is assumed (section 2).
* A request that names a parameter twice: `AnswerIsWhatWasAsked` leaves it out, as no line says what the answer should be.
* The numbers of the server's own sockets: `SocketLivesWithObject` sees a socket that is not closed, and no second close of a number that was reused.
* The coordinates in the cache of the C++ client: they have no age, and the run has only weather in it (findings 6 and 10).
* A malloc that fails in the server: it is checked for lists, tables and JSON values, and for the array of parameters of a URL.

## 7. Plan

Done, in this order: the server with its proofs; the abstract exchange with its
refinement, checked and proved; handlers and caches; the client; lists and cities; URLs; jansson from the hash table
up to the texts; the client library; proofs about the caches and the cities, the client, the list, the
stream of octets, the client library, the hash table, and about URLs, names and answers of upstream.

Next:

1. `JsonValue` with a fold over its containers in place of its RECURSIVE copies and releases, and a proof that the counts are exact.
2. The lexer of `JsonText` as a machine with one step per octet, about which `OnlyTheWholeLoads` could be proved by induction over the text.
