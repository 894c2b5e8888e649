--------------------------- MODULE Exchange_proofs ---------------------------
(***************************************************************************)
(* What a connection does with its request and its response, proved of      *)
(* WeatherServer for requests, buffers, bodies and segments of any size:    *)
(* replies follow requests, a response is sent in full, a timeout never     *)
(* hits a client that has just been heard or whose request is complete; and *)
(* every step of WeatherServer is a step of the abstract exchange of one    *)
(* client, the end of the process, or nothing to a client.                  *)
(***************************************************************************)
EXTENDS WeatherServer_proofs

-----------------------------------------------------------------------------
(* The invariant is about one connection at a time: h is its heap state, f  *)
(* its fields, n the other end of its socket.                               *)
CanServe(r) == r.hdr <= RecvCap /\ HeaderAccepted(r) /\ r.kind = "route"

Whole(f, n) == f.recvLength >= n.request.hdr

(* What the state tells of the request.                                     *)
Phase(f, n) ==
  /\ f.state \in {"Read", "Timeout"} => ~Whole(f, n)
  /\ f.state \in {"Parse", "ParseURL", "FindRoute", "Handlers",
                  "FormatResponse", "SendResponse"} => Whole(f, n)
  /\ f.state \in {"ParseURL", "FindRoute", "Handlers"} =>
       HeaderAccepted(n.request)
  /\ f.state \in {"FindRoute", "Handlers"} => URLAccepted(n.request)
  /\ f.state = "Handlers" => RouteFound(n.request)

(* What it tells of the response.                                           *)
Answer(h, f, n) ==
  /\ f.response # NoBody => CanServe(n.request) /\ Whole(f, n)
  /\ f.state \in {"FormatResponse", "SendResponse"} /\ CanServe(n.request) =>
       f.response # NoBody
  /\ h = "none" => n.sent = 0
  /\ f.state \notin {"SendResponse", "Cleanup"} =>
       f.response_length = 0 /\ (h = "live" => n.sent = 0)
  /\ f.state = "SendResponse" =>
       /\ f.response = NoBody => n.sent = 0 /\ f.response_length = 0
       /\ f.response # NoBody => n.sent + f.response_length = HeadLen + f.response
  /\ f.state = "Cleanup" =>
       \/ n.peer = "reset" \/ ~CanServe(n.request) \/ ~Whole(f, n)
       \/ f.response # NoBody /\ n.sent = HeadLen + f.response
  /\ n.sent > 0 => CanServe(n.request) /\ n.arrived = n.request.hdr

(* A running timer means that the last read took nothing, and a read takes  *)
(* nothing before the end of the header only from a client that has sent    *)
(* nothing yet, closed its side, or filled the buffer.                      *)
Silence(f, n) ==
  f.state = "Read" =>
    /\ f.timeout # Off => f.bytesReadOut = 0
    /\ f.bytesReadOut = 0 => f.recvLength \in {0, RecvCap} \/ n.peer # "open"

Exchange(h, f, n) == Phase(f, n) /\ Answer(h, f, n) /\ Silence(f, n)

ExchangeInv == \A c \in Conns : Exchange(heap[c], conn[c], net[c])

-----------------------------------------------------------------------------
(* One connection at a time: f and n before a step, g and m after it.       *)
SameData(f, g) ==
  /\ g.recvLength = f.recvLength
  /\ g.bytesReadOut = f.bytesReadOut
  /\ g.timeout = f.timeout
  /\ g.response = f.response
  /\ g.response_length = f.response_length

(* The numbers in it, and the bounds of the buffer.                         *)
LEMMA Numbers ==
  ASSUME TypeOK, BufferInBounds, NEW c \in Conns
  PROVE  /\ conn[c] \in Fields /\ net[c] \in Peers
         /\ conn[c].recvLength \in Nat /\ conn[c].response_length \in Nat
         /\ conn[c].bytesReadOut \in Nat
         /\ net[c].arrived \in Nat /\ net[c].sent \in Nat
         /\ net[c].request.hdr \in Nat \ {0} /\ net[c].request.kind \in Kinds
         /\ RecvCap \in Nat \ {0} /\ HeadLen \in Nat \ {0} /\ TimeoutMs \in Nat
         /\ conn[c].recvLength <= RecvCap
         /\ conn[c].recvLength <= net[c].arrived
         /\ net[c].arrived <= net[c].request.hdr
<1>1. conn[c] \in Fields /\ net[c] \in Peers
  BY DEF TypeOK, ConnectionTypeOK
<1>2. net[c].request \in Requests
  BY <1>1 DEF Peers
<1>3. net[c].request.hdr \in Nat \ {0} /\ net[c].request.kind \in Kinds
  BY <1>2, ConnectionAssumption
<1> QED
  BY <1>1, <1>3, ConnectionAssumption DEF Fields, Peers, BufferInBounds

(* A body has a length.                                                     *)
LEMMA BodyLength ==
  ASSUME NEW f \in Fields, f.response # NoBody
  PROVE  f.response \in Nat
BY ConnectionAssumption DEF Fields

(* The two ways to change the state and leave the data alone.               *)
LEMMA NewState ==
  ASSUME TypeOK, NEW c \in Conns, NEW s \in States, NEW status,
         Goto(c, s) \/ Fails(c, status, s)
  PROVE  /\ conn'[c].state = s
         /\ SameData(conn[c], conn'[c])
         /\ \A d \in Conns \ {c} : conn'[d] = conn[d]
<1>1. conn \in [Conns -> Fields] /\ conn[c] \in Fields
  BY DEF TypeOK, ConnectionTypeOK
<1>2. CASE Goto(c, s)
  BY <1>1, <1>2 DEF Goto, Becomes, Fields, SameData
<1>3. CASE Fails(c, status, s)
  BY <1>1, <1>3 DEF Fails, Becomes, Fields, SameData
<1> QED
  BY <1>2, <1>3

(* A request that passes all three checks and was read can be served.       *)
LEMMA ChecksPassed ==
  ASSUME TypeOK, BufferInBounds, NEW c \in Conns, Whole(conn[c], net[c]),
         HeaderAccepted(net[c].request), URLAccepted(net[c].request),
         RouteFound(net[c].request)
  PROVE  CanServe(net[c].request)
<1>1. net[c].request.hdr <= RecvCap
  BY Numbers DEF Whole
<1>2. net[c].request.kind = "route"
  BY Numbers DEF Kinds, HeaderAccepted, URLAccepted, RouteFound
<1> QED
  BY <1>1, <1>2 DEF CanServe

-----------------------------------------------------------------------------
(* What a read does to the fields, in the terms of the invariant.           *)
LEMMA ReadEffect ==
  ASSUME TypeOK, BufferInBounds, NEW c \in Conns, Read(c)
  PROVE  /\ conn[c].state = "Read"
         /\ conn'[c].recvLength = ReadHeaders(c).length
         /\ conn'[c].bytesReadOut = ReadHeaders(c).bytes
         /\ conn'[c].timeout = TimerAfter(c, ReadHeaders(c).bytes)
         /\ conn'[c].state = StateAfterRead(c, ReadHeaders(c).result)
         /\ conn'[c].response = conn[c].response
         /\ conn'[c].response_length = conn[c].response_length
         /\ \A d \in Conns \ {c} : conn'[d] = conn[d]
         /\ heap' = heap /\ net' = net
<1> DEFINE length  == ReadHeaders(c).length
           bytes   == ReadHeaders(c).bytes
           timeout == TimerAfter(c, bytes)
           state   == StateAfterRead(c, ReadHeaders(c).result)
<1>1. conn' = [conn EXCEPT ![c] = [conn[c] EXCEPT !.recvLength   = length,
                                                  !.bytesReadOut = bytes,
                                                  !.timeout      = timeout,
                                                  !.state        = state]]
  BY DEF Read, Becomes
<1>2. conn[c].state = "Read" /\ heap' = heap /\ net' = net
  BY DEF Read, InState, KeepsObject
<1>3. conn \in [Conns -> Fields]
  BY DEF TypeOK, ConnectionTypeOK
<1> HIDE DEF length, bytes, timeout, state
<1>4. /\ conn'[c].recvLength = length /\ conn'[c].bytesReadOut = bytes
      /\ conn'[c].timeout = timeout /\ conn'[c].state = state
      /\ conn'[c].response = conn[c].response
      /\ conn'[c].response_length = conn[c].response_length
      /\ \A d \in Conns \ {c} : conn'[d] = conn[d]
  BY <1>1, <1>3 DEF Fields
<1> QED
  BY <1>2, <1>4 DEF length, bytes, timeout, state

(* What the result of a read tells of the request and of the client.        *)
LEMMA ReadResult ==
  ASSUME TypeOK, BufferInBounds, NEW c \in Conns
  PROVE  LET read == ReadHeaders(c)
             hdr  == net[c].request.hdr
         IN /\ read.result \in {"Success", "Pending", "Error"}
            /\ read.result = "Success" => read.length >= hdr
            /\ read.result = "Error" => net[c].peer = "reset"
            /\ read.result = "Pending" /\ conn[c].recvLength < hdr =>
                 /\ read.length < hdr
                 /\ net[c].arrived < hdr \/ RecvCap < hdr
            /\ read.length >= conn[c].recvLength
            /\ read.bytes \in Nat
            /\ read.bytes = 0 =>
                 \/ RecvFails(c) /\ conn[c].bytesReadOut = 0
                 \/ read.length = RecvCap
                 \/ net[c].peer # "open"
            /\ RecvFails(c) => /\ read.length = conn[c].recvLength
                               /\ read.bytes = conn[c].bytesReadOut
<1> DEFINE total == conn[c].recvLength + Taken(c)
<1>1. /\ Taken(c) \in Nat /\ total \in Nat
      /\ total = net[c].arrived \/ total = RecvCap
      /\ total >= conn[c].recvLength
      /\ Taken(c) = 0 => net[c].arrived = conn[c].recvLength \/ total = RecvCap
  BY Numbers DEF Taken, Ready, MinOf
<1>2. CASE RecvFails(c)
  <2>1. /\ net[c].arrived = conn[c].recvLength
        /\ net[c].peer \in {"open", "reset"}
    BY <1>2, Numbers DEF RecvFails, Ready
  <2>2. ReadHeaders(c) = [result |-> IF net[c].peer = "open" THEN "Pending"
                                                             ELSE "Error",
                          bytes  |-> conn[c].bytesReadOut,
                          length |-> conn[c].recvLength]
    BY <1>2 DEF ReadHeaders
  <2> QED
    BY <1>2, <2>1, <2>2, Numbers
<1>3. CASE ~RecvFails(c)
  <2>1. ReadHeaders(c) = [result |-> IF Complete(c, total) THEN "Success"
                                                           ELSE "Pending",
                          bytes  |-> Taken(c),
                          length |-> total]
    BY <1>3 DEF ReadHeaders
  <2>2. Taken(c) = 0 => total = RecvCap \/ net[c].peer # "open"
    BY <1>1, <1>3, Numbers DEF RecvFails, Ready
  <2> QED
    BY <1>1, <1>3, <2>1, <2>2, Numbers DEF Complete
<1> QED
  BY <1>2, <1>3

(* A read keeps the invariant of its connection.                            *)
LEMMA ReadExchange ==
  ASSUME TypeOK, BufferInBounds, NEW c \in Conns, Read(c),
         Exchange(heap[c], conn[c], net[c])
  PROVE  Exchange(heap[c], conn'[c], net[c])
<1> DEFINE read == ReadHeaders(c)
<1>1. conn[c].recvLength < net[c].request.hdr
  BY ReadEffect, Numbers DEF Exchange, Phase, Whole
<1>2. /\ conn'[c].recvLength >= conn[c].recvLength
      /\ conn'[c].recvLength \in Nat
  BY ReadEffect, ReadHeadersType, ReadResult
<1>3. \/ read.result = "Success" /\ conn'[c].state = "Parse"
      \/ read.result = "Error" /\ conn'[c].state = "Cleanup"
      \/ read.result = "Pending" /\ conn'[c].state \in {"Read", "Timeout"}
  BY ReadEffect, ReadResult DEF StateAfterRead, NextState
<1>4. Phase(conn'[c], net[c])
  <2>1. CASE read.result = "Success"
    BY <1>3, <2>1, ReadEffect, ReadResult DEF Phase, Whole
  <2>2. CASE read.result = "Error"
    BY <1>3, <2>2 DEF Phase
  <2>3. CASE read.result = "Pending"
    BY <1>1, <1>2, <1>3, <2>3, ReadEffect, ReadResult, Numbers DEF Phase, Whole
  <2> QED
    BY <1>3, <2>1, <2>2, <2>3
<1>5. conn[c].response = NoBody
  BY <1>1, Numbers DEF Exchange, Answer, Whole
<1>6. Answer(heap[c], conn'[c], net[c])
  BY <1>3, <1>5, ReadEffect, ReadResult DEF Exchange, Answer
<1>7. Silence(conn'[c], net[c])
  <2> SUFFICES ASSUME conn'[c].state = "Read"
               PROVE  /\ conn'[c].timeout # Off => conn'[c].bytesReadOut = 0
                      /\ conn'[c].bytesReadOut = 0 =>
                           \/ conn'[c].recvLength \in {0, RecvCap}
                           \/ net[c].peer # "open"
    BY DEF Silence
  <2>1. conn'[c].timeout # Off => conn'[c].bytesReadOut = 0
    BY ReadEffect, ReadResult DEF TimerAfter
  <2>2. ASSUME conn'[c].bytesReadOut = 0
        PROVE  conn'[c].recvLength \in {0, RecvCap} \/ net[c].peer # "open"
    <3>1. \/ RecvFails(c) /\ conn[c].bytesReadOut = 0
          \/ read.length = RecvCap
          \/ net[c].peer # "open"
      BY <2>2, ReadEffect, ReadResult
    <3>2. CASE RecvFails(c) /\ conn[c].bytesReadOut = 0
      BY <3>2, ReadEffect, ReadResult DEF Exchange, Silence
    <3> QED
      BY <3>1, <3>2, ReadEffect
  <2> QED
    BY <2>1, <2>2
<1> QED
  BY <1>4, <1>6, <1>7 DEF Exchange

-----------------------------------------------------------------------------
(* The checks of the request, the timeout and the end of a response: the    *)
(* cases of the switch that choose a state and leave the data alone.        *)
LEMMA CheckExchange ==
  ASSUME TypeOK, BufferInBounds, NEW c \in Conns,
         Exchange(heap[c], conn[c], net[c]),
         Parse(c) \/ ParseURL(c) \/ FindRoute(c) \/ SendEnds(c) \/ Timeout(c)
  PROVE  /\ Exchange(heap[c], conn'[c], net[c])
         /\ \A d \in Conns \ {c} : conn'[d] = conn[d]
         /\ heap' = heap /\ net' = net
<1> DEFINE r == net[c].request
           Others == \A d \in Conns \ {c} : conn'[d] = conn[d]
<1> USE DEF States
<1>1. heap' = heap /\ net' = net
  BY DEF Parse, ParseURL, FindRoute, SendEnds, Timeout, KeepsObject
<1>2. CASE Parse(c)
  <2>1. /\ conn[c].state = "Parse"
        /\ conn'[c].state = IF HeaderAccepted(r) THEN "ParseURL" ELSE "Cleanup"
        /\ SameData(conn[c], conn'[c]) /\ Others
    BY <1>2, NewState DEF Parse, InState
  <2> QED
    BY <1>1, <2>1 DEF Exchange, Phase, Answer, Silence, SameData, Whole, CanServe
<1>3. CASE ParseURL(c)
  <2>1. /\ conn[c].state = "ParseURL"
        /\ conn'[c].state = IF URLAccepted(r) THEN "FindRoute"
                                              ELSE "FormatResponse"
        /\ SameData(conn[c], conn'[c]) /\ Others
    BY <1>3, NewState DEF ParseURL, InState
  <2>2. CanServe(r) => URLAccepted(r)
    BY DEF CanServe, URLAccepted
  <2> QED
    BY <1>1, <2>1, <2>2 DEF Exchange, Phase, Answer, Silence, SameData, Whole
<1>4. CASE FindRoute(c)
  <2>1. /\ conn[c].state = "FindRoute"
        /\ conn'[c].state = IF RouteFound(r) THEN "Handlers"
                                             ELSE "FormatResponse"
        /\ SameData(conn[c], conn'[c]) /\ Others
    BY <1>4, NewState DEF FindRoute, InState
  <2>2. CanServe(r) => RouteFound(r)
    BY DEF CanServe, RouteFound
  <2> QED
    BY <1>1, <2>1, <2>2 DEF Exchange, Phase, Answer, Silence, SameData, Whole
<1>5. CASE SendEnds(c)
  <2>1. /\ conn[c].state = "SendResponse" /\ conn'[c].state = "Cleanup"
        /\ conn[c].response_length = 0 \/ net[c].peer = "reset"
        /\ SameData(conn[c], conn'[c]) /\ Others
    BY <1>5, NewState DEF SendEnds, InState
  <2>2. conn[c].response_length = 0 => net[c].sent + conn[c].response_length = net[c].sent
    BY Numbers
  <2> QED
    BY <1>1, <2>1, <2>2 DEF Exchange, Phase, Answer, Silence, SameData, Whole
<1>6. CASE Timeout(c)
  <2>1. /\ conn[c].state = "Timeout" /\ conn'[c].state = "Cleanup"
        /\ SameData(conn[c], conn'[c]) /\ Others
    BY <1>6, NewState DEF Timeout, InState
  <2> QED
    BY <1>1, <2>1 DEF Exchange, Phase, Answer, Silence, SameData, Whole
<1> QED
  BY <1>2, <1>3, <1>4, <1>5, <1>6

(* The body of a handler: the request has passed every check by then.       *)
LEMMA HandlersExchange ==
  ASSUME TypeOK, BufferInBounds, NEW c \in Conns,
         Exchange(heap[c], conn[c], net[c]), Handlers(c)
  PROVE  /\ Exchange(heap[c], conn'[c], net[c])
         /\ \A d \in Conns \ {c} : conn'[d] = conn[d]
         /\ heap' = heap /\ net' = net
<1>1. conn[c].state = "Handlers" /\ heap' = heap /\ net' = net
  BY DEF Handlers, InState, KeepsObject
<1>2. PICK body \in Bodies :
        conn' = [conn EXCEPT ![c] = [conn[c] EXCEPT !.response = body,
                                                    !.state = "FormatResponse"]]
  BY DEF Handlers, Becomes
<1>3. /\ conn'[c].state = "FormatResponse" /\ conn'[c].response = body
      /\ conn'[c].recvLength = conn[c].recvLength
      /\ conn'[c].response_length = conn[c].response_length
      /\ \A d \in Conns \ {c} : conn'[d] = conn[d]
  BY <1>2 DEF TypeOK, ConnectionTypeOK, Fields
<1>4. body # NoBody
  BY ConnectionAssumption DEF NoBody
<1>5. CanServe(net[c].request) /\ Whole(conn[c], net[c])
  BY <1>1, ChecksPassed DEF Exchange, Phase
<1> QED
  BY <1>1, <1>3, <1>4, <1>5 DEF Exchange, Phase, Answer, Silence, Whole

(* Formatting: with a body the whole text is to be sent, without one nothing. *)
LEMMA FormatExchange ==
  ASSUME TypeOK, BufferInBounds, NEW c \in Conns, heap[c] = "live",
         Exchange(heap[c], conn[c], net[c]), FormatResponse(c)
  PROVE  /\ Exchange(heap[c], conn'[c], net[c])
         /\ \A d \in Conns \ {c} : conn'[d] = conn[d]
         /\ heap' = heap /\ net' = net
<1>1. conn[c].state = "FormatResponse" /\ heap' = heap /\ net' = net
  BY DEF FormatResponse, InState, KeepsObject
<1>2. conn' = [conn EXCEPT ![c] = [HTTPResponse_Format(c) EXCEPT
                                     !.state = "SendResponse"]]
  BY DEF FormatResponse, Becomes
<1>3. conn \in [Conns -> Fields] /\ conn[c] \in Fields
  BY DEF TypeOK, ConnectionTypeOK
<1>4. net[c].sent = 0 /\ conn[c].response_length = 0
  BY <1>1 DEF Exchange, Answer
<1>5. CASE conn[c].response = NoBody
  <2>1. conn' = [conn EXCEPT ![c] = [conn[c] EXCEPT !.state = "SendResponse"]]
    BY <1>2, <1>5 DEF HTTPResponse_Format
  <2>2. conn'[c].state = "SendResponse" /\ SameData(conn[c], conn'[c])
    BY <1>3, <2>1 DEF Fields, SameData
  <2> QED
    BY <1>1, <1>2, <1>4, <1>5, <2>2
       DEF Exchange, Phase, Answer, Silence, SameData, Whole
<1>6. CASE conn[c].response # NoBody
  <2> DEFINE text == HeadLen + conn[c].response
             fits == MinOf(text, FormatCap)
  <2>1. conn' = [conn EXCEPT ![c] =
                   [[conn[c] EXCEPT !.response_length = text,
                                    !.formatted = fits] EXCEPT
                      !.state = "SendResponse"]]
    BY <1>2, <1>6 DEF HTTPResponse_Format
  <2>2. net[c].sent + text = text
    BY <1>3, <1>4, <1>6, BodyLength, Numbers
  <2>3. /\ conn'[c].state = "SendResponse"
        /\ conn'[c].response_length = text
        /\ conn'[c].response = conn[c].response
        /\ conn'[c].recvLength = conn[c].recvLength
    <3> HIDE DEF text, fits
    <3> QED
      BY <1>3, <2>1 DEF Fields
  <2>4. net[c].sent + conn'[c].response_length = HeadLen + conn'[c].response
    BY <2>2, <2>3
  <2> HIDE DEF text, fits
  <2> QED
    BY <1>1, <1>2, <1>4, <1>6, <2>3, <2>4
       DEF Exchange, Phase, Answer, Silence, Whole
<1> QED
  BY <1>5, <1>6

(* Sending: what is sent and what is left add up to the response.           *)
LEMMA SendPartExchange ==
  ASSUME TypeOK, BufferInBounds, NEW c \in Conns, heap[c] = "live",
         Exchange(heap[c], conn[c], net[c]), SendPart(c)
  PROVE  /\ Exchange(heap[c], conn'[c], net'[c])
         /\ \A d \in Conns \ {c} : conn'[d] = conn[d] /\ net'[d] = net[d]
         /\ heap' = heap
<1>1. conn[c].state = "SendResponse" /\ heap' = heap
  BY DEF SendPart, InState, KeepsObject
<1>2. PICK n \in 1 .. conn[c].response_length :
        /\ conn' = [conn EXCEPT ![c] = [conn[c] EXCEPT !.response_length = @ - n]]
        /\ net' = [net EXCEPT ![c].sent = @ + n]
  BY DEF SendPart, Becomes
<1>3. /\ conn'[c].state = "SendResponse"
      /\ conn'[c].response_length = conn[c].response_length - n
      /\ conn'[c].response = conn[c].response
      /\ conn'[c].recvLength = conn[c].recvLength
      /\ net'[c].sent = net[c].sent + n
      /\ net'[c].request = net[c].request
      /\ net'[c].arrived = net[c].arrived
      /\ net'[c].peer = net[c].peer
      /\ \A d \in Conns \ {c} : conn'[d] = conn[d] /\ net'[d] = net[d]
  BY <1>1, <1>2 DEF TypeOK, ConnectionTypeOK, Fields, Peers
<1>4. conn[c].response_length > 0
  BY <1>2, Numbers
<1>5. /\ conn[c].response # NoBody
      /\ net[c].sent + conn[c].response_length = HeadLen + conn[c].response
  BY <1>1, <1>4 DEF Exchange, Answer
<1>6. net'[c].sent + conn'[c].response_length = HeadLen + conn'[c].response
  BY <1>2, <1>3, <1>5, Numbers
<1>7. CanServe(net[c].request) /\ Whole(conn[c], net[c])
  BY <1>5 DEF Exchange, Answer
<1>8. net[c].arrived = net[c].request.hdr
  BY <1>7, Numbers DEF Whole
<1> QED
  BY <1>1, <1>3, <1>5, <1>6, <1>7, <1>8
     DEF Exchange, Phase, Answer, Silence, Whole

-----------------------------------------------------------------------------
(* A new object and a freed one.                                            *)
LEMMA NewExchange ==
  ASSUME NEW h \in {"live", "freed"}, NEW n,
         n.request.hdr \in Nat \ {0}, n.sent \in Nat,
         h = "live" => n.sent = 0,
         n.sent > 0 => CanServe(n.request) /\ n.arrived = n.request.hdr
  PROVE  Exchange(h, NewFields, n)
BY DEF NewFields, Exchange, Phase, Answer, Silence, Whole

(* The callback of a connection, which is always called on a live object.   *)
LEMMA WorkExchange ==
  ASSUME TypeOK, BufferInBounds, ExchangeInv, NEW c \in Conns,
         heap[c] = "live", Work(c)
  PROVE  ExchangeInv'
<1>1. Exchange(heap[c], conn[c], net[c])
  BY DEF ExchangeInv
<1> USE <1>1 DEF ExchangeInv
<1>2. CASE Read(c)
  BY <1>2, ReadExchange, ReadEffect
<1>3. CASE Parse(c) \/ ParseURL(c) \/ FindRoute(c) \/ SendEnds(c) \/ Timeout(c)
  BY <1>3, CheckExchange
<1>4. CASE Handlers(c)
  BY <1>4, HandlersExchange
<1>5. CASE FormatResponse(c)
  BY <1>5, FormatExchange
<1>6. CASE SendPart(c)
  BY <1>6, SendPartExchange
<1>7. CASE Cleanup(c)
  <2>1. /\ conn'[c] = NewFields /\ heap'[c] = "freed" /\ net' = net
        /\ \A d \in Conns \ {c} : conn'[d] = conn[d] /\ heap'[d] = heap[d]
    BY <1>7 DEF Cleanup, Dispose, TypeOK, ConnectionTypeOK
  <2>2. Exchange("freed", NewFields, net[c])
    BY NewExchange, Numbers DEF Exchange, Answer
  <2> QED
    BY <2>1, <2>2
<1> QED
  BY <1>2, <1>3, <1>4, <1>5, <1>6, <1>7 DEF Work

(* An accept: nothing can have been sent on a socket without an object.     *)
LEMMA InitializeExchange ==
  ASSUME TypeOK, BufferInBounds, ExchangeInv, NEW c \in Conns, Initialize(c)
  PROVE  ExchangeInv'
<1>1. /\ heap[c] = "none" /\ net' = net
      /\ conn'[c] = NewFields /\ heap'[c] = "live"
      /\ \A d \in Conns \ {c} : conn'[d] = conn[d] /\ heap'[d] = heap[d]
  BY DEF Initialize, TypeOK, ConnectionTypeOK
<1>2. net[c].sent = 0
  BY <1>1 DEF ExchangeInv, Exchange, Answer
<1>3. Exchange("live", NewFields, net[c])
  BY <1>2, NewExchange, Numbers
<1> QED
  BY <1>1, <1>3 DEF ExchangeInv

(* A sweep makes armed timers older and arms none.                          *)
LEMMA SweepExchange ==
  ASSUME TypeOK, ExchangeInv, NEW d \in Elapsed, BeginSweep(d)
  PROVE  ExchangeInv'
<1> SUFFICES ASSUME NEW c \in Conns
             PROVE  Exchange(heap'[c], conn'[c], net'[c])
  BY DEF ExchangeInv
<1>1. heap' = heap /\ net' = net
  BY DEF BeginSweep
<1>2. /\ conn'[c].state = conn[c].state
      /\ conn'[c].recvLength = conn[c].recvLength
      /\ conn'[c].bytesReadOut = conn[c].bytesReadOut
      /\ conn'[c].response = conn[c].response
      /\ conn'[c].response_length = conn[c].response_length
      /\ conn'[c].timeout # Off => conn[c].timeout # Off
  <2>1. conn[c] \in Fields
    BY DEF TypeOK, ConnectionTypeOK
  <2>2. conn'[c] = IF Armed(c) THEN Aged(c, d) ELSE conn[c]
    BY DEF BeginSweep
  <2>3. CASE ~Armed(c)
    BY <2>2, <2>3
  <2>4. CASE Armed(c)
    <3> DEFINE age == MinOf(conn[c].timeout + d, TimeoutMs)
    <3>1. conn'[c] = [conn[c] EXCEPT !.timeout = age]
      BY <2>2, <2>4 DEF Aged
    <3>2. conn[c].timeout # Off
      BY <2>4 DEF Armed
    <3> HIDE DEF age
    <3> QED
      BY <2>1, <3>1, <3>2 DEF Fields
  <2> QED
    BY <2>3, <2>4
<1>3. Exchange(heap[c], conn[c], net[c])
  BY DEF ExchangeInv
<1> QED
  BY <1>1, <1>2, <1>3 DEF Exchange, Phase, Answer, Silence, Whole

(* The clients: what arrives only adds to the request, a closed or broken   *)
(* connection is never open again.                                          *)
LEMMA ClientsExchange ==
  ASSUME TypeOK, BufferInBounds, ExchangeInv, Clients
  PROVE  ExchangeInv'
<1>1. PICK c \in Conns : Connect(c) \/ Deliver(c) \/ Shut(c) \/ Reset(c)
  BY DEF Clients
<1>2. heap' = heap /\ conn' = conn
  BY <1>1 DEF Connect, Deliver, Shut, Reset, Peer
<1>3. CASE Connect(c)
  BY <1>2, <1>3 DEF Connect, ExchangeInv
<1>4. CASE Deliver(c)
  <2>1. PICK n \in 1 .. net[c].request.hdr - net[c].arrived :
          net' = [net EXCEPT ![c] = [net[c] EXCEPT !.arrived = @ + n]]
    BY <1>4 DEF Deliver, Peer
  <2>2. /\ net'[c].request = net[c].request /\ net'[c].sent = net[c].sent
        /\ net'[c].peer = net[c].peer
        /\ \A d \in Conns \ {c} : net'[d] = net[d]
    BY <2>1 DEF TypeOK, ConnectionTypeOK, Peers
  <2>3. net[c].arrived # net[c].request.hdr
    BY <2>1, Numbers
  <2>4. Exchange(heap[c], conn[c], net'[c])
    BY <2>2, <2>3 DEF ExchangeInv, Exchange, Phase, Answer, Silence, Whole
  <2> QED
    BY <1>2, <2>2, <2>4 DEF ExchangeInv
<1>5. CASE Shut(c) \/ Reset(c)
  <2>1. PICK p \in {"shut", "reset"} :
          /\ net' = [net EXCEPT ![c] = [net[c] EXCEPT !.peer = p]]
          /\ net[c].peer = "reset" => p = "reset"
    BY <1>5 DEF Shut, Reset, Peer
  <2>2. /\ net'[c].request = net[c].request /\ net'[c].sent = net[c].sent
        /\ net'[c].arrived = net[c].arrived /\ net'[c].peer = p
        /\ \A d \in Conns \ {c} : net'[d] = net[d]
    BY <2>1 DEF TypeOK, ConnectionTypeOK, Peers
  <2>3. Exchange(heap[c], conn[c], net'[c])
    BY <2>1, <2>2 DEF ExchangeInv, Exchange, Phase, Answer, Silence, Whole
  <2> QED
    BY <1>2, <2>2, <2>3 DEF ExchangeInv
<1> QED
  BY <1>1, <1>3, <1>4, <1>5

(* The invariant is inductive, given who owns the task table: a callback    *)
(* that ran on a freed object would serve a request twice.                  *)
LEMMA ExchangeStep ==
  ASSUME TableInv, ExchangeInv, [Next]_vars
  PROVE  ExchangeInv'
<1> USE DEF TableInv
<1>1. CASE UNCHANGED <<heap, conn, net>>
  BY <1>1 DEF ExchangeInv
<1>2. ASSUME NEW c \in Conns, HTTPServerConnection_work(c)
      PROVE  ExchangeInv'
  <2>1. main = "running" /\ Work(c) /\ cursor \in Slots /\ tasks[cursor] = c
    BY <1>2, WorkOutcome DEF HTTPServerConnection_work, Calls
  <2>2. heap[c] = "live"
    BY <2>1 DEF TasksOwnLiveConnections
  <2> QED
    BY <2>1, <2>2, WorkExchange
<1>3. ASSUME NEW c \in Conns, tcpserver_accept(c)
      PROVE  ExchangeInv'
  BY <1>3, InitializeExchange DEF tcpserver_accept
<1>4. ASSUME NEW d \in Elapsed, BeginSweep(d)
      PROVE  ExchangeInv'
  BY <1>4, SweepExchange
<1>5. CASE Clients
  BY <1>5, ClientsExchange
<1>6. CASE Boot \/ Exit \/ Skip \/ HTTPServer_work \/ NothingToAccept
  BY <1>1, <1>6 DEF Boot, HTTPServer_Initialize, tcpserver_listen, Exit, Skip,
                    HTTPServer_work, NothingToAccept, connVars
<1>7. ASSUME NEW c \in Conns, HandlerCrash(c)
      PROVE  ExchangeInv'
  BY <1>1, <1>7 DEF HandlerCrash, KeepsObject
<1>8. CASE handle_sigint \/ Terminated \/ UNCHANGED vars
  BY <1>1, <1>8 DEF handle_sigint, Terminated, vars, connVars
<1> QED
  BY <1>2, <1>3, <1>4, <1>5, <1>6, <1>7, <1>8 DEF Next, Process, Iteration

(* No connection yet.                                                       *)
LEMMA InitExchange == Init => ExchangeInv
<1> SUFFICES ASSUME Init, NEW c \in Conns
             PROVE  Exchange(heap[c], conn[c], net[c])
  BY DEF ExchangeInv
<1>1. TypeOK /\ BufferInBounds
  BY InitTypeOK
<1>2. heap[c] = "none" /\ conn[c] = NewFields /\ net[c].sent = 0
  BY DEF Init
<1> QED
  BY <1>1, <1>2, Numbers
     DEF NewFields, Exchange, Phase, Answer, Silence, Whole

(* The invariant of the specification.                                      *)
LEMMA ExchangeInvariant == Safety => [](TableInv /\ ExchangeInv)
<1>1. ExchangeInv /\ TableInv /\ [Next]_vars => ExchangeInv'
  BY ExchangeStep
<1> QED
  BY <1>1, InitExchange, TableInvariant, PTL DEF Safety

-----------------------------------------------------------------------------
(***************************************************************************)
(* A client is sent bytes only after the whole of a request that is         *)
(* accepted and has a handler, however it was cut into segments.            *)
(***************************************************************************)
THEOREM RepliesAfterRequests == Safety => []RepliesFollowRequests
<1>1. ExchangeInv => RepliesFollowRequests
  BY DEF ExchangeInv, Exchange, Answer, RepliesFollowRequests, Servable, CanServe
<1> QED
  BY <1>1, ExchangeInvariant, PTL

(***************************************************************************)
(* A request that was read and can be served has all of its response sent,  *)
(* in however many parts, before its connection is given up, unless the     *)
(* client broke it.                                                         *)
(***************************************************************************)
THEOREM AllIsSent == Safety => []AnsweredInFull
<1>1. ExchangeInv => AnsweredInFull
  BY DEF ExchangeInv, Exchange, Answer, AnsweredInFull, Servable, CanServe,
         Complete, Whole
<1> QED
  BY <1>1, ExchangeInvariant, PTL

(* A step to the state Timeout is a read that found the timer expired and   *)
(* the request incomplete.                                                  *)
LEMMA TimeoutStep ==
  ASSUME TableInv, [Next]_vars, NEW c \in Conns,
         conn[c].state = "Read", conn'[c].state = "Timeout"
  PROVE  /\ Read(c) /\ Expired(c)
         /\ ReadHeaders(c).result = "Pending"
<1> USE DEF TableInv
<1>1. ASSUME NEW d \in Conns, Work(d)
      PROVE  Read(c)
  <2>1. CASE d # c
    BY <1>1, <2>1 DEF Work, Read, Parse, ParseURL, FindRoute, Handlers,
          FormatResponse, SendPart, SendEnds, Timeout, Cleanup, Dispose,
          Goto, Fails, Becomes, TypeOK, ConnectionTypeOK
  <2>2. CASE d = c
    <3>1. CASE Cleanup(c)
      BY <3>1 DEF Cleanup, InState
    <3> QED
      BY <1>1, <2>2, <3>1 DEF Work, Parse, ParseURL, FindRoute, Handlers,
            FormatResponse, SendPart, SendEnds, Timeout, InState
  <2> QED
    BY <2>1, <2>2
<1>2. ASSUME NEW d \in Conns, tcpserver_accept(d)
      PROVE  FALSE
  BY <1>2 DEF tcpserver_accept, Initialize, NewFields, TypeOK, ConnectionTypeOK
<1>3. ASSUME NEW d \in Elapsed, BeginSweep(d)
      PROVE  FALSE
  <2>1. conn'[c] = conn[c] \/ conn'[c] = Aged(c, d)
    BY <1>3 DEF BeginSweep
  <2>2. Aged(c, d).state = conn[c].state
    BY DEF Aged, TypeOK, ConnectionTypeOK, Fields
  <2> QED
    BY <2>1, <2>2
<1>4. conn' # conn
  OBVIOUS
<1>5. Read(c)
  BY <1>1, <1>2, <1>3, <1>4
     DEF Next, Process, Iteration, HTTPServerConnection_work, Boot,
         HTTPServer_Initialize, tcpserver_listen, Exit, Skip, HTTPServer_work,
         NothingToAccept, HandlerCrash, Clients, Connect, Deliver, Shut, Reset,
         Peer, handle_sigint, Terminated, vars, connVars
<1>6. StateAfterRead(c, ReadHeaders(c).result) = "Timeout"
  BY <1>5, ReadEffect
<1> QED
  BY <1>5, <1>6, ReadResult DEF StateAfterRead, NextState

(***************************************************************************)
(* The timer expires only on a client that had sent nothing, had closed its *)
(* side, or had filled the buffer without an end of its header.             *)
(***************************************************************************)
THEOREM TimeoutIsDeserved == Safety => TimeoutHitsOnlyTheSilent
<1> DEFINE Hit(c) == conn[c].state = "Read" /\ conn'[c].state = "Timeout"
<1>1. ASSUME TableInv, ExchangeInv, [Next]_vars, NEW c \in Conns, Hit(c)
      PROVE  conn[c].recvLength \in {0, RecvCap} \/ net[c].peer # "open"
  <2>1. Expired(c)
    BY <1>1, TimeoutStep
  <2> QED
    BY <1>1, <2>1 DEF Expired, ExchangeInv, Exchange, Silence
<1>2. TableInv /\ ExchangeInv /\ [Next]_vars =>
        [\A c \in Conns : Hit(c) =>
           \/ conn[c].recvLength \in {0, RecvCap}
           \/ net[c].peer # "open"]_vars
  BY <1>1
<1> QED
  BY <1>2, ExchangeInvariant, PTL DEF Safety, TimeoutHitsOnlyTheSilent

(***************************************************************************)
(* A request that is complete when the timer expires is served, provided    *)
(* that it fits in the buffer.                                              *)
(***************************************************************************)
THEOREM LateRequestIsServed == Safety => TimeoutSparesCompleteRequest
<1> DEFINE Hit(c) == conn[c].state = "Read" /\ conn'[c].state = "Timeout"
<1>1. ASSUME TableInv, ExchangeInv, [Next]_vars, NEW c \in Conns, Hit(c)
      PROVE  ~Complete(c, net[c].arrived) \/ net[c].request.hdr > RecvCap
  <2>1. TypeOK /\ BufferInBounds
    BY <1>1 DEF TableInv
  <2>2. ReadHeaders(c).result = "Pending"
    BY <1>1, TimeoutStep
  <2>3. conn[c].recvLength < net[c].request.hdr
    BY <1>1, <2>1, Numbers DEF ExchangeInv, Exchange, Phase, Whole
  <2>4. net[c].arrived < net[c].request.hdr \/ RecvCap < net[c].request.hdr
    BY <2>1, <2>2, <2>3, ReadResult
  <2> QED
    BY <2>1, <2>4, Numbers DEF Complete
<1>2. TableInv /\ ExchangeInv /\ [Next]_vars =>
        [\A c \in Conns : Hit(c) =>
           \/ ~Complete(c, net[c].arrived)
           \/ net[c].request.hdr > RecvCap]_vars
  BY <1>1
<1> QED
  BY <1>2, ExchangeInvariant, PTL DEF Safety, TimeoutSparesCompleteRequest

-----------------------------------------------------------------------------
(* What the exchange needs beyond the invariant above: the fields of an     *)
(* object that is not alive are those of a new one, the socket tells what   *)
(* became of the object, and a reply is given up only at its end or when    *)
(* the client has broken the connection.                                    *)
Fresh(c) ==
  /\ heap[c] # "live" => conn[c] = NewFields
  /\ heap[c] = "none" <=> socket[c] \in {"none", "backlog"}
  /\ conn[c].state = "Cleanup" /\ conn[c].response # NoBody =>
       conn[c].response_length = 0 \/ net[c].peer = "reset"

FreshInv == \A c \in Conns : Fresh(c)

AllInv == TableInv /\ ExchangeInv /\ FreshInv

(* A connection as the abstract exchange sees it, and what a step may keep  *)
(* of it.                                                                   *)
Heard(c) == Complete(c, conn[c].recvLength)

Left(c) == conn[c].response_length

Broken(c) == net[c].peer = "reset"

KeepsPhase(c)   == PhaseOf(c)' = PhaseOf(c)
KeepsRequest(c) == Servable(c)' <=> Servable(c)
KeepsHeard(c)   == Heard(c)' <=> Heard(c)
KeepsLeft(c)    == Left(c)' = Left(c)
KeepsSent(c)    == net'[c].sent = net[c].sent
KeepsBroken(c)  == Broken(c)' <=> Broken(c)

KeepsView(c) ==
  /\ KeepsPhase(c) /\ KeepsRequest(c) /\ KeepsHeard(c)
  /\ KeepsLeft(c) /\ KeepsSent(c) /\ KeepsBroken(c)

Others(c) == \A d \in Conns \ {c} : KeepsView(d)

(* A connection that a step leaves alone keeps its view.                    *)
LEMMA SameView ==
  ASSUME NEW c \in Conns, socket'[c] = socket[c], conn'[c] = conn[c],
         net'[c] = net[c]
  PROVE  KeepsView(c)
BY DEF KeepsView, KeepsPhase, KeepsRequest, KeepsHeard, KeepsLeft, KeepsSent,
       KeepsBroken, PhaseOf, Replying, Servable, Heard, Complete, Left, Broken

-----------------------------------------------------------------------------
(* What is kept of every connection is an unchanged variable of the         *)
(* abstract exchange.                                                       *)
LEMMA Unchanged ==
  /\ (\A c \in Conns : KeepsPhase(c)) => UNCHANGED [c \in Conns |-> PhaseOf(c)]
  /\ (\A c \in Conns : KeepsRequest(c)) => UNCHANGED [c \in Conns |-> Servable(c)]
  /\ (\A c \in Conns : KeepsHeard(c)) =>
       UNCHANGED [c \in Conns |-> Complete(c, conn[c].recvLength)]
  /\ (\A c \in Conns : KeepsLeft(c)) =>
       UNCHANGED [c \in Conns |-> conn[c].response_length]
  /\ (\A c \in Conns : KeepsSent(c)) => UNCHANGED [c \in Conns |-> net[c].sent]
  /\ (\A c \in Conns : KeepsBroken(c)) =>
       UNCHANGED [c \in Conns |-> net[c].peer = "reset"]
<1>1. (\A c \in Conns : KeepsPhase(c)) => UNCHANGED [c \in Conns |-> PhaseOf(c)]
  BY DEF KeepsPhase
<1>2. (\A c \in Conns : KeepsRequest(c)) => UNCHANGED [c \in Conns |-> Servable(c)]
  BY DEF KeepsRequest, Servable
<1>3. (\A c \in Conns : KeepsHeard(c)) =>
        UNCHANGED [c \in Conns |-> Complete(c, conn[c].recvLength)]
  BY DEF KeepsHeard, Heard, Complete
<1>4. (\A c \in Conns : KeepsLeft(c)) =>
        UNCHANGED [c \in Conns |-> conn[c].response_length]
  BY DEF KeepsLeft, Left
<1>5. (\A c \in Conns : KeepsSent(c)) => UNCHANGED [c \in Conns |-> net[c].sent]
  BY DEF KeepsSent
<1>6. (\A c \in Conns : KeepsBroken(c)) =>
        UNCHANGED [c \in Conns |-> net[c].peer = "reset"]
  BY DEF KeepsBroken, Broken
<1> QED
  BY <1>1, <1>2, <1>3, <1>4, <1>5, <1>6

(* The phase of one connection changes.                                     *)
LEMMA MovesMaps ==
  ASSUME NEW c \in Conns, Others(c), ~Stopped, NEW from, NEW to,
         PhaseOf(c) = from, PhaseOf(c)' = to
  PROVE  Abstract!Moves(c, from, to)
BY DEF Abstract!Moves, Others, KeepsView, KeepsPhase

(* The actions of the abstract exchange.                                    *)
LEMMA NothingMaps ==
  ASSUME \A d \in Conns : KeepsView(d), Stopped' <=> Stopped
  PROVE  UNCHANGED Abstract!xvars
<1>1. UNCHANGED ~Stopped
  BY DEF Stopped
<1> QED
  BY <1>1, Unchanged DEF Abstract!xvars, KeepsView

(* The end of the process ends the abstract server.                         *)
LEMMA StopMaps ==
  ASSUME \A d \in Conns : KeepsView(d), ~Stopped, Stopped'
  PROVE  Abstract!Stop
BY Unchanged DEF Abstract!Stop, KeepsView

(* A connection that enters the backlog arrives.                            *)
LEMMA ArriveMaps ==
  ASSUME NEW c \in Conns, Others(c), ~Stopped, ~Stopped',
         PhaseOf(c) = "absent", PhaseOf(c)' = "queued",
         KeepsRequest(c), KeepsHeard(c), KeepsLeft(c), KeepsSent(c),
         KeepsBroken(c)
  PROVE  Abstract!Arrive(c)
<1>1. Abstract!Moves(c, "absent", "queued")
  BY MovesMaps
<1>2. UNCHANGED ~Stopped
  BY DEF Stopped
<1> QED
  BY <1>1, <1>2, Unchanged DEF Abstract!Arrive, Others, KeepsView

(* One that leaves it for a connection object is accepted.                  *)
LEMMA AcceptMaps ==
  ASSUME NEW c \in Conns, Others(c), ~Stopped, ~Stopped',
         PhaseOf(c) = "queued", PhaseOf(c)' = "serving",
         KeepsRequest(c), KeepsHeard(c), KeepsLeft(c), KeepsSent(c),
         KeepsBroken(c)
  PROVE  Abstract!Accept(c)
<1>1. Abstract!Moves(c, "queued", "serving")
  BY MovesMaps
<1>2. UNCHANGED ~Stopped
  BY DEF Stopped
<1> QED
  BY <1>1, <1>2, Unchanged DEF Abstract!Accept, Others, KeepsView

(* A request that is read to its end is heard.                              *)
LEMMA HearMaps ==
  ASSUME NEW c \in Conns, Others(c), ~Stopped, ~Stopped',
         PhaseOf(c) = "serving", ~Heard(c), Heard(c)',
         KeepsPhase(c), KeepsRequest(c), KeepsLeft(c), KeepsSent(c),
         KeepsBroken(c)
  PROVE  Abstract!Hear(c)
<1>1. [d \in Conns |-> Complete(d, conn[d].recvLength)]' =
        [[d \in Conns |-> Complete(d, conn[d].recvLength)] EXCEPT ![c] = TRUE]
  <2>1. Heard(c)' = TRUE
    BY DEF Heard, Complete
  <2>2. ASSUME NEW d \in Conns \ {c}
        PROVE  Heard(d)' = Heard(d)
    BY DEF Others, KeepsView, KeepsHeard, Heard, Complete
  <2> QED
    BY <2>1, <2>2 DEF Heard
<1>2. UNCHANGED ~Stopped
  BY DEF Stopped
<1> QED
  BY <1>1, <1>2, Unchanged DEF Abstract!Hear, Others, KeepsView, Heard

(* What is left changes for one connection only.                            *)
LEMMA LeftOf ==
  ASSUME NEW c \in Conns, Others(c)
  PROVE  [d \in Conns |-> conn[d].response_length]' =
           [[d \in Conns |-> conn[d].response_length]
              EXCEPT ![c] = conn'[c].response_length]
BY DEF Others, KeepsView, KeepsLeft, Left

(* A response that is made begins the reply.                                *)
LEMMA BeginReplyMaps ==
  ASSUME NEW c \in Conns, Others(c), ~Stopped, ~Stopped',
         PhaseOf(c) = "serving", PhaseOf(c)' = "replying",
         Heard(c), Servable(c), conn'[c].response_length \in Nat \ {0},
         KeepsRequest(c), KeepsHeard(c), KeepsSent(c), KeepsBroken(c)
  PROVE  Abstract!BeginReply(c)
<1>1. Abstract!Moves(c, "serving", "replying")
  BY MovesMaps
<1>2. UNCHANGED ~Stopped
  BY DEF Stopped
<1>3. [d \in Conns |-> conn[d].response_length]'[c] = conn'[c].response_length
  OBVIOUS
<1>4. [d \in Conns |-> conn[d].response_length]' =
        [[d \in Conns |-> conn[d].response_length]
           EXCEPT ![c] = [d \in Conns |-> conn[d].response_length]'[c]]
  BY <1>3, LeftOf
<1>5. [d \in Conns |-> Complete(d, conn[d].recvLength)][c]
  BY DEF Heard
<1> QED
  BY <1>1, <1>2, <1>3, <1>4, <1>5, Unchanged
     DEF Abstract!BeginReply, Others, KeepsView

(* A part of the response that is sent is no longer left to send.           *)
LEMMA SendMaps ==
  ASSUME NEW c \in Conns, Others(c), ~Stopped, ~Stopped',
         PhaseOf(c) = "replying", ~Broken(c),
         Left(c) \in Nat, conn'[c].response_length \in 0 .. Left(c) - 1,
         net'[c].sent = net[c].sent + Left(c) - conn'[c].response_length,
         KeepsPhase(c), KeepsRequest(c), KeepsHeard(c), KeepsBroken(c)
  PROVE  Abstract!Send(c)
<1> DEFINE left == [d \in Conns |-> conn[d].response_length]
           sent == [d \in Conns |-> net[d].sent]
<1>1. UNCHANGED ~Stopped
  BY DEF Stopped
<1>2. left'[c] = conn'[c].response_length /\ left[c] = Left(c)
  BY DEF Left
<1>3. left' = [left EXCEPT ![c] = left'[c]]
  BY <1>2, LeftOf
<1>4. sent' = [sent EXCEPT ![c] = sent[c] + left[c] - left'[c]]
  <2>1. \A d \in Conns \ {c} : net'[d].sent = net[d].sent
    BY DEF Others, KeepsView, KeepsSent
  <2> QED
    BY <1>2, <2>1
<1>5. UNCHANGED [d \in Conns |-> PhaseOf(d)]
  BY Unchanged DEF Others, KeepsView
<1>6. UNCHANGED [d \in Conns |-> Servable(d)]
  BY Unchanged DEF Others, KeepsView
<1>7. UNCHANGED [d \in Conns |-> Complete(d, conn[d].recvLength)]
  BY Unchanged DEF Others, KeepsView
<1>8. UNCHANGED [d \in Conns |-> net[d].peer = "reset"]
  BY Unchanged DEF Others, KeepsView
<1>9. ~[d \in Conns |-> net[d].peer = "reset"][c]
  BY DEF Broken
<1> QED
  BY <1>1, <1>2, <1>3, <1>4, <1>5, <1>6, <1>7, <1>8, <1>9 DEF Abstract!Send

(* The object is gone: nothing is heard and nothing left any more.          *)
LEMMA ClosesMaps ==
  ASSUME NEW c \in Conns, Others(c), ~Stopped, ~Stopped',
         NEW from, PhaseOf(c) = from, PhaseOf(c)' = "closed",
         ~Heard(c)', conn'[c].response_length = 0,
         KeepsRequest(c), KeepsSent(c), KeepsBroken(c)
  PROVE  Abstract!Closes(c, from)
<1> DEFINE heard == [d \in Conns |-> Complete(d, conn[d].recvLength)]
           left  == [d \in Conns |-> conn[d].response_length]
<1>1. Abstract!Moves(c, from, "closed")
  BY MovesMaps
<1>2. heard' = [heard EXCEPT ![c] = FALSE]
  <2>1. Heard(c)' = FALSE
    BY DEF Heard, Complete
  <2>2. ASSUME NEW d \in Conns \ {c}
        PROVE  Heard(d)' = Heard(d)
    BY DEF Others, KeepsView, KeepsHeard, Heard, Complete
  <2> QED
    BY <2>1, <2>2 DEF Heard
<1>3. left' = [left EXCEPT ![c] = 0]
  BY LeftOf
<1>4. UNCHANGED ~Stopped
  BY DEF Stopped
<1>5. UNCHANGED [d \in Conns |-> Servable(d)]
  BY Unchanged DEF Others, KeepsView
<1>6. UNCHANGED [d \in Conns |-> net[d].sent]
  BY Unchanged DEF Others, KeepsView
<1>7. UNCHANGED [d \in Conns |-> net[d].peer = "reset"]
  BY Unchanged DEF Others, KeepsView
<1> QED
  BY <1>1, <1>2, <1>3, <1>4, <1>5, <1>6, <1>7 DEF Abstract!Closes

(* A client that resets its connection breaks it.                           *)
LEMMA BreakMaps ==
  ASSUME NEW c \in Conns, Others(c), ~Stopped, ~Stopped',
         PhaseOf(c) \in {"queued", "serving", "replying"}, Broken(c)',
         KeepsPhase(c), KeepsRequest(c), KeepsHeard(c), KeepsLeft(c),
         KeepsSent(c)
  PROVE  Abstract!Break(c)
<1> DEFINE broken == [d \in Conns |-> net[d].peer = "reset"]
<1>1. broken' = [broken EXCEPT ![c] = TRUE]
  <2>1. Broken(c)' = TRUE
    BY DEF Broken
  <2>2. ASSUME NEW d \in Conns \ {c}
        PROVE  Broken(d)' = Broken(d)
    BY DEF Others, KeepsView, KeepsBroken, Broken
  <2> QED
    BY <2>1, <2>2 DEF Broken
<1>2. UNCHANGED ~Stopped
  BY DEF Stopped
<1> QED
  BY <1>1, <1>2, Unchanged DEF Abstract!Break, Others, KeepsView

-----------------------------------------------------------------------------
(* The steps of the process, one connection at a time.  Frame is what a     *)
(* step of connection c leaves to the others.                               *)
Frame(c) ==
  /\ \A d \in Conns \ {c} : /\ conn'[d] = conn[d] /\ net'[d] = net[d]
                            /\ heap'[d] = heap[d] /\ socket'[d] = socket[d]
  /\ ~Stopped /\ ~Stopped'

AbstractStep == [Abstract!Next]_Abstract!xvars

(* A step about one connection leaves the view of the others.               *)
LEMMA FrameKeeps ==
  ASSUME NEW c \in Conns, Frame(c)
  PROVE  Others(c)
BY SameView DEF Frame, Others

(* The other connections stay fresh.                                        *)
LEMMA FrameFresh ==
  ASSUME NEW c \in Conns, Frame(c), FreshInv, Fresh(c)'
  PROVE  FreshInv'
BY DEF Frame, FreshInv, Fresh

(* A step of one connection is a step of the exchange.                      *)
LEMMA StepMaps ==
  ASSUME NEW c \in Conns, Abstract!Step(c)
  PROVE  AbstractStep
BY DEF AbstractStep, Abstract!Next

(* A step that keeps the view of its connection is no step of the exchange. *)
LEMMA QuietMaps ==
  ASSUME NEW c \in Conns, Frame(c), KeepsView(c)
  PROVE  AbstractStep
<1>1. Stopped' <=> Stopped
  BY DEF Frame
<1>2. \A d \in Conns : KeepsView(d)
  BY FrameKeeps DEF Others
<1> QED
  BY <1>1, <1>2, NothingMaps DEF AbstractStep

(* What a callback finds: an open socket and the invariants.                *)
Served(c) ==
  /\ TypeOK /\ BufferInBounds
  /\ heap[c] = "live" /\ socket[c] = "open"
  /\ Exchange(heap[c], conn[c], net[c])
  /\ Fresh(c)

(* A read that completes the request is the moment it is heard.             *)
LEMMA ReadMaps ==
  ASSUME NEW c \in Conns, Served(c), Frame(c), Read(c)
  PROVE  Fresh(c)' /\ AbstractStep
<1> USE DEF Served
<1>1. /\ conn[c].state = "Read"
      /\ conn'[c].response = conn[c].response
      /\ conn'[c].response_length = conn[c].response_length
      /\ heap' = heap /\ net' = net /\ socket' = socket
  BY ReadEffect DEF Read, KeepsObject
<1>2. ~Heard(c) /\ conn[c].response = NoBody
  BY <1>1, Numbers DEF Exchange, Phase, Answer, Whole, Heard, Complete
<1>3. PhaseOf(c) = "serving" /\ PhaseOf(c)' = "serving"
  BY <1>1, <1>2 DEF PhaseOf, Replying
<1>4. /\ KeepsPhase(c) /\ KeepsRequest(c) /\ KeepsLeft(c)
      /\ KeepsSent(c) /\ KeepsBroken(c)
  BY <1>1, <1>3 DEF KeepsPhase, KeepsRequest, KeepsLeft, KeepsSent, KeepsBroken,
                    Servable, Left, Broken
<1>5. Fresh(c)'
  BY <1>1, <1>2 DEF Fresh
<1>6. CASE Heard(c)'
  <2>1. Abstract!Hear(c)
    BY <1>2, <1>3, <1>4, <1>6, HearMaps, FrameKeeps DEF Frame
  <2> QED
    BY <1>5, <2>1, StepMaps DEF Abstract!Step
<1>7. CASE ~Heard(c)'
  BY <1>2, <1>4, <1>5, <1>7, QuietMaps DEF KeepsView, KeepsHeard
<1> QED
  BY <1>6, <1>7

(* The states in between mean nothing to the exchange.                      *)
LEMMA CheckMaps ==
  ASSUME NEW c \in Conns, Served(c), Frame(c),
         Parse(c) \/ ParseURL(c) \/ FindRoute(c) \/ SendEnds(c) \/ Timeout(c)
  PROVE  Fresh(c)' /\ AbstractStep
<1> USE DEF Served
<1>1. heap' = heap /\ net' = net /\ socket' = socket
  BY DEF Parse, ParseURL, FindRoute, SendEnds, Timeout, KeepsObject
<1>2. SameData(conn[c], conn'[c])
  BY NewState DEF Parse, ParseURL, FindRoute, SendEnds, Timeout, States
<1>3. /\ Replying(c)' <=> Replying(c)
      /\ conn'[c].state = "Cleanup" /\ conn'[c].response # NoBody =>
           conn[c].response_length = 0 \/ net[c].peer = "reset"
  <2>1. CASE Parse(c)
    <3>1. /\ conn[c].state = "Parse"
          /\ conn'[c].state = IF HeaderAccepted(net[c].request) THEN "ParseURL"
                                                                ELSE "Cleanup"
      BY <2>1, NewState DEF Parse, InState, States
    <3> QED
      BY <1>2, <3>1 DEF Exchange, Answer, CanServe, SameData, Replying
  <2>2. CASE ParseURL(c) \/ FindRoute(c)
    <3>1. /\ conn[c].state \in {"ParseURL", "FindRoute"}
          /\ conn'[c].state \in {"FindRoute", "Handlers", "FormatResponse"}
      BY <2>2, NewState DEF ParseURL, FindRoute, InState, States
    <3> QED
      BY <3>1 DEF Replying
  <2>3. CASE SendEnds(c)
    <3>1. /\ conn[c].state = "SendResponse" /\ conn'[c].state = "Cleanup"
          /\ conn[c].response_length = 0 \/ net[c].peer = "reset"
      BY <2>3, NewState DEF SendEnds, InState, States
    <3> QED
      BY <1>2, <3>1 DEF SameData, Replying
  <2>4. CASE Timeout(c)
    <3>1. conn[c].state = "Timeout" /\ conn'[c].state = "Cleanup"
      BY <2>4, NewState DEF Timeout, InState, States
    <3> QED
      BY <1>2, <3>1 DEF Exchange, Phase, Answer, SameData, Replying
  <2> QED
    BY <2>1, <2>2, <2>3, <2>4
<1>4. KeepsView(c)
  BY <1>1, <1>2, <1>3
     DEF KeepsView, KeepsPhase, KeepsRequest, KeepsHeard, KeepsLeft, KeepsSent,
         KeepsBroken, PhaseOf, Servable, Heard, Complete, Left, Broken, SameData
<1>5. Fresh(c)'
  BY <1>1, <1>2, <1>3 DEF Fresh, SameData
<1> QED
  BY <1>4, <1>5, QuietMaps

(* The body of a handler is not seen before it is formatted.                *)
LEMMA HandlersMaps ==
  ASSUME NEW c \in Conns, Served(c), Frame(c), Handlers(c)
  PROVE  Fresh(c)' /\ AbstractStep
<1> USE DEF Served
<1>1. /\ conn[c].state = "Handlers"
      /\ heap' = heap /\ net' = net /\ socket' = socket
  BY DEF Handlers, InState, KeepsObject
<1>2. /\ conn'[c].state = "FormatResponse"
      /\ conn'[c].recvLength = conn[c].recvLength
      /\ conn'[c].response_length = conn[c].response_length
  <2>1. PICK body \in Bodies :
          conn' = [conn EXCEPT ![c] = [conn[c] EXCEPT !.response = body,
                                                      !.state = "FormatResponse"]]
    BY DEF Handlers, Becomes
  <2> QED
    BY <2>1 DEF TypeOK, ConnectionTypeOK, Fields
<1>3. KeepsView(c)
  BY <1>1, <1>2
     DEF KeepsView, KeepsPhase, KeepsRequest, KeepsHeard, KeepsLeft, KeepsSent,
         KeepsBroken, PhaseOf, Replying, Servable, Heard, Complete, Left, Broken
<1>4. Fresh(c)'
  BY <1>1, <1>2 DEF Fresh
<1> QED
  BY <1>3, <1>4, QuietMaps

(* The reply begins with the formatting of a body.                          *)
LEMMA FormatMaps ==
  ASSUME NEW c \in Conns, Served(c), Frame(c), FormatResponse(c)
  PROVE  Fresh(c)' /\ AbstractStep
<1> USE DEF Served
<1>1. /\ conn[c].state = "FormatResponse"
      /\ heap' = heap /\ net' = net /\ socket' = socket
  BY DEF FormatResponse, InState, KeepsObject
<1>2. conn' = [conn EXCEPT ![c] = [HTTPResponse_Format(c) EXCEPT
                                     !.state = "SendResponse"]]
  BY DEF FormatResponse, Becomes
<1>3. conn \in [Conns -> Fields] /\ conn[c] \in Fields
  BY DEF TypeOK, ConnectionTypeOK
<1>4. CASE conn[c].response = NoBody
  <2>1. conn' = [conn EXCEPT ![c] = [conn[c] EXCEPT !.state = "SendResponse"]]
    BY <1>2, <1>4 DEF HTTPResponse_Format
  <2>2. conn'[c].state = "SendResponse" /\ SameData(conn[c], conn'[c])
    BY <1>3, <2>1 DEF Fields, SameData
  <2>3. KeepsView(c)
    BY <1>1, <1>4, <2>2
       DEF KeepsView, KeepsPhase, KeepsRequest, KeepsHeard, KeepsLeft, KeepsSent,
           KeepsBroken, PhaseOf, Replying, Servable, Heard, Complete, Left,
           Broken, SameData
  <2>4. Fresh(c)'
    BY <1>1, <2>2 DEF Fresh
  <2> QED
    BY <2>3, <2>4, QuietMaps
<1>5. CASE conn[c].response # NoBody
  <2> DEFINE text == HeadLen + conn[c].response
             fits == MinOf(text, FormatCap)
  <2>1. conn' = [conn EXCEPT ![c] =
                   [[conn[c] EXCEPT !.response_length = text,
                                    !.formatted = fits] EXCEPT
                      !.state = "SendResponse"]]
    BY <1>2, <1>5 DEF HTTPResponse_Format
  <2>2. text \in Nat \ {0}
    BY <1>3, <1>5, BodyLength, Numbers
  <2>3. /\ conn'[c].state = "SendResponse"
        /\ conn'[c].response_length = text
        /\ conn'[c].response = conn[c].response
        /\ conn'[c].recvLength = conn[c].recvLength
    <3> HIDE DEF text, fits
    <3> QED
      BY <1>3, <2>1 DEF Fields
  <2>4. Heard(c) /\ Servable(c)
    BY <1>5, Numbers
       DEF Exchange, Answer, CanServe, Whole, Heard, Complete, Servable
  <2>5. PhaseOf(c) = "serving" /\ PhaseOf(c)' = "replying"
    BY <1>1, <1>5, <2>3 DEF PhaseOf, Replying
  <2>6. KeepsRequest(c) /\ KeepsHeard(c) /\ KeepsSent(c) /\ KeepsBroken(c)
    BY <1>1, <2>3 DEF KeepsRequest, KeepsHeard, KeepsSent, KeepsBroken,
                      Servable, Heard, Complete, Broken
  <2> HIDE DEF text, fits
  <2>7. Abstract!BeginReply(c)
    BY <2>2, <2>3, <2>4, <2>5, <2>6, BeginReplyMaps, FrameKeeps DEF Frame
  <2>8. Fresh(c)'
    BY <1>1, <2>3 DEF Fresh
  <2> QED
    BY <2>7, <2>8, StepMaps DEF Abstract!Step
<1> QED
  BY <1>4, <1>5

(* Every part that is sent is taken off what is left.                       *)
LEMMA SendPartMaps ==
  ASSUME NEW c \in Conns, Served(c), Frame(c), SendPart(c)
  PROVE  Fresh(c)' /\ AbstractStep
<1> USE DEF Served
<1>1. /\ conn[c].state = "SendResponse" /\ net[c].peer # "reset"
      /\ heap' = heap /\ socket' = socket
  BY DEF SendPart, InState, KeepsObject
<1>2. PICK n \in 1 .. conn[c].response_length :
        /\ conn' = [conn EXCEPT ![c] = [conn[c] EXCEPT !.response_length = @ - n]]
        /\ net' = [net EXCEPT ![c].sent = @ + n]
  BY DEF SendPart, Becomes
<1>3. /\ conn'[c].state = "SendResponse"
      /\ conn'[c].response_length = conn[c].response_length - n
      /\ conn'[c].response = conn[c].response
      /\ conn'[c].recvLength = conn[c].recvLength
      /\ net'[c].sent = net[c].sent + n
      /\ net'[c].request = net[c].request
      /\ net'[c].peer = net[c].peer
  BY <1>1, <1>2 DEF TypeOK, ConnectionTypeOK, Fields, Peers
<1>4. conn[c].response # NoBody
  BY <1>1, <1>2, Numbers DEF Exchange, Answer
<1>5. PhaseOf(c) = "replying" /\ PhaseOf(c)' = "replying"
  BY <1>1, <1>3, <1>4 DEF PhaseOf, Replying
<1>6. /\ KeepsPhase(c) /\ KeepsRequest(c) /\ KeepsHeard(c) /\ KeepsBroken(c)
      /\ ~Broken(c)
  BY <1>1, <1>3, <1>5 DEF KeepsPhase, KeepsRequest, KeepsHeard, KeepsBroken,
                          Servable, Heard, Complete, Broken
<1>7. /\ Left(c) \in Nat
      /\ conn'[c].response_length \in 0 .. Left(c) - 1
      /\ net'[c].sent = net[c].sent + Left(c) - conn'[c].response_length
  BY <1>2, <1>3, Numbers DEF Left
<1>8. Abstract!Send(c)
  BY <1>5, <1>6, <1>7, SendMaps, FrameKeeps DEF Frame
<1>9. Fresh(c)'
  BY <1>1, <1>3 DEF Fresh
<1> QED
  BY <1>8, <1>9, StepMaps DEF Abstract!Step

(* The disposal ends a reply, or gives up a request that has none.          *)
LEMMA CleanupMaps ==
  ASSUME NEW c \in Conns, Served(c), Frame(c), Cleanup(c)
  PROVE  Fresh(c)' /\ AbstractStep
<1> USE DEF Served
<1>1. /\ conn[c].state = "Cleanup" /\ net' = net
      /\ heap'[c] = "freed" /\ socket'[c] = "closed" /\ conn'[c] = NewFields
  BY DEF Cleanup, InState, Dispose, TypeOK, ConnectionTypeOK
<1>2. ~Heard(c)' /\ conn'[c].response_length = 0
  BY <1>1, Numbers DEF Heard, Complete, NewFields
<1>3. KeepsRequest(c) /\ KeepsSent(c) /\ KeepsBroken(c)
  BY <1>1 DEF KeepsRequest, KeepsSent, KeepsBroken, Servable, Broken
<1>4. PhaseOf(c)' = "closed"
  BY <1>1 DEF PhaseOf
<1>5. Fresh(c)'
  BY <1>1 DEF Fresh, NewFields
<1>6. CASE conn[c].response # NoBody
  <2>1. PhaseOf(c) = "replying"
    BY <1>1, <1>6 DEF PhaseOf, Replying
  <2>2. conn[c].response_length = 0 \/ net[c].peer = "reset"
    BY <1>1, <1>6 DEF Fresh
  <2>3. Abstract!Closes(c, "replying")
    BY <1>2, <1>3, <1>4, <2>1, ClosesMaps, FrameKeeps DEF Frame
  <2>4. Abstract!Finish(c)
    BY <2>2, <2>3 DEF Abstract!Finish
  <2> QED
    BY <1>5, <2>4, StepMaps DEF Abstract!Step
<1>7. CASE conn[c].response = NoBody
  <2>1. PhaseOf(c) = "serving"
    BY <1>7 DEF PhaseOf, Replying
  <2>2. ~(Heard(c) /\ Servable(c)) \/ net[c].peer = "reset"
    BY <1>1, <1>7, Numbers
       DEF Exchange, Answer, CanServe, Whole, Heard, Complete, Servable
  <2>3. Abstract!Closes(c, "serving")
    BY <1>2, <1>3, <1>4, <2>1, ClosesMaps, FrameKeeps DEF Frame
  <2>4. Abstract!Drop(c)
    BY <2>2, <2>3 DEF Abstract!Drop, Heard
  <2> QED
    BY <1>5, <2>4, StepMaps DEF Abstract!Step
<1> QED
  BY <1>6, <1>7

(* A callback of a connection.                                              *)
LEMMA WorkMaps ==
  ASSUME AllInv, NEW c \in Conns, HTTPServerConnection_work(c)
  PROVE  FreshInv' /\ AbstractStep
<1> USE DEF AllInv, TableInv
<1>1. main = "running" /\ main' = main /\ Work(c)
  BY DEF HTTPServerConnection_work
<1>2. heap[c] = "live"
  BY <1>1, WorkOutcome DEF Calls, TasksOwnLiveConnections
<1>3. Served(c)
  BY <1>2 DEF Served, SocketLivesWithObject, ExchangeInv, FreshInv
<1>4. Frame(c)
  <2>1. ~Stopped /\ ~Stopped'
    BY <1>1 DEF Stopped
  <2>2. CASE Read(c)
    BY <2>1, <2>2, ReadEffect DEF Frame, Read, KeepsObject
  <2>3. CASE Parse(c) \/ ParseURL(c) \/ FindRoute(c) \/ SendEnds(c) \/ Timeout(c)
    BY <1>3, <2>1, <2>3, CheckExchange
       DEF Served, Frame, Parse, ParseURL, FindRoute, SendEnds, Timeout, KeepsObject
  <2>4. CASE Handlers(c)
    BY <1>3, <2>1, <2>4, HandlersExchange DEF Served, Frame, Handlers, KeepsObject
  <2>5. CASE FormatResponse(c)
    BY <1>3, <2>1, <2>5, FormatExchange
       DEF Served, Frame, FormatResponse, KeepsObject
  <2>6. CASE SendPart(c)
    BY <1>3, <2>1, <2>6, SendPartExchange DEF Served, Frame, SendPart, KeepsObject
  <2>7. CASE Cleanup(c)
    BY <2>1, <2>7 DEF Frame, Cleanup, Dispose, TypeOK, ConnectionTypeOK
  <2> QED
    BY <1>1, <2>2, <2>3, <2>4, <2>5, <2>6, <2>7 DEF Work
<1>5. Fresh(c)' /\ AbstractStep
  BY <1>1, <1>3, <1>4, ReadMaps, CheckMaps, HandlersMaps, FormatMaps,
     SendPartMaps, CleanupMaps DEF Work
<1> QED
  BY <1>4, <1>5, FrameFresh

(* A client is accepted: its object is new, as its fields already are.      *)
LEMMA AcceptStep ==
  ASSUME AllInv, NEW c \in Conns, tcpserver_accept(c)
  PROVE  FreshInv' /\ AbstractStep
<1> USE DEF AllInv, TableInv
<1>1. /\ main = "running" /\ main' = main /\ socket[c] = "backlog"
      /\ heap[c] = "none" /\ heap'[c] = "live" /\ socket'[c] = "open"
      /\ conn'[c] = NewFields /\ net' = net
      /\ \A d \in Conns \ {c} : /\ conn'[d] = conn[d] /\ heap'[d] = heap[d]
                                /\ socket'[d] = socket[d]
  BY DEF tcpserver_accept, Waiting, Initialize, TypeOK, ConnectionTypeOK
<1>2. conn[c] = NewFields
  BY <1>1 DEF FreshInv, Fresh
<1>3. Frame(c)
  BY <1>1 DEF Frame, Stopped
<1>4. PhaseOf(c) = "queued" /\ PhaseOf(c)' = "serving"
  BY <1>1 DEF PhaseOf, Replying, NewFields
<1>5. /\ KeepsRequest(c) /\ KeepsHeard(c) /\ KeepsLeft(c)
      /\ KeepsSent(c) /\ KeepsBroken(c)
  BY <1>1, <1>2 DEF KeepsRequest, KeepsHeard, KeepsLeft, KeepsSent, KeepsBroken,
                    Servable, Heard, Complete, Left, Broken
<1>6. Abstract!Accept(c)
  BY <1>3, <1>4, <1>5, AcceptMaps, FrameKeeps DEF Frame
<1>7. Fresh(c)'
  BY <1>1 DEF Fresh, NewFields
<1> QED
  BY <1>3, <1>6, <1>7, StepMaps, FrameFresh DEF Abstract!Step

(* The clock is no part of the exchange.                                    *)
LEMMA SweepMaps ==
  ASSUME AllInv, NEW d \in Elapsed, BeginSweep(d)
  PROVE  FreshInv' /\ AbstractStep
<1> USE DEF AllInv, TableInv
<1>1. /\ heap' = heap /\ net' = net /\ socket' = socket
      /\ Stopped' <=> Stopped
  BY DEF BeginSweep, Stopped
<1>2. ASSUME NEW c \in Conns
      PROVE  KeepsView(c) /\ Fresh(c)'
  <2>1. conn'[c] = IF Armed(c) THEN Aged(c, d) ELSE conn[c]
    BY DEF BeginSweep
  <2>2. Fresh(c)
    BY DEF FreshInv
  <2>3. CASE ~Armed(c)
    BY <1>1, <2>1, <2>2, <2>3, SameView DEF Fresh
  <2>4. CASE Armed(c)
    <3> DEFINE age == MinOf(conn[c].timeout + d, TimeoutMs)
    <3>1. conn'[c] = [conn[c] EXCEPT !.timeout = age]
      BY <2>1, <2>4 DEF Aged
    <3>2. conn[c] \in Fields
      BY DEF TypeOK, ConnectionTypeOK
    <3> HIDE DEF age
    <3>3. /\ conn'[c].state = conn[c].state
          /\ conn'[c].response = conn[c].response
          /\ conn'[c].response_length = conn[c].response_length
          /\ conn'[c].recvLength = conn[c].recvLength
      BY <3>1, <3>2 DEF Fields
    <3>4. KeepsView(c)
      BY <1>1, <3>3
         DEF KeepsView, KeepsPhase, KeepsRequest, KeepsHeard, KeepsLeft,
             KeepsSent, KeepsBroken, PhaseOf, Replying, Servable, Heard,
             Complete, Left, Broken
    <3>5. Fresh(c)'
      BY <1>1, <2>2, <2>4, <3>3 DEF Fresh, Armed
    <3> QED
      BY <3>4, <3>5
  <2> QED
    BY <2>3, <2>4
<1> QED
  BY <1>1, <1>2, NothingMaps DEF AbstractStep, FreshInv

(* The clients arrive and break their connections.                          *)
LEMMA ClientsMap ==
  ASSUME AllInv, Clients
  PROVE  FreshInv' /\ AbstractStep
<1> USE DEF AllInv, TableInv
<1>1. PICK c \in Conns : Connect(c) \/ Deliver(c) \/ Shut(c) \/ Reset(c)
  BY DEF Clients
<1>2. /\ heap' = heap /\ conn' = conn
      /\ main = "running" /\ main' = main
  BY <1>1 DEF Connect, Listening, Deliver, Shut, Reset, Attached, Peer
<1>3. Fresh(c)
  BY DEF FreshInv
<1>4. CASE Connect(c)
  <2>1. /\ socket[c] = "none" /\ socket'[c] = "backlog" /\ net' = net
        /\ \A d \in Conns \ {c} : socket'[d] = socket[d]
    BY <1>4 DEF Connect, TypeOK, ConnectionTypeOK
  <2>2. Frame(c)
    BY <1>2, <2>1 DEF Frame, Stopped
  <2>3. PhaseOf(c) = "absent" /\ PhaseOf(c)' = "queued"
    BY <2>1 DEF PhaseOf
  <2>4. /\ KeepsRequest(c) /\ KeepsHeard(c) /\ KeepsLeft(c)
        /\ KeepsSent(c) /\ KeepsBroken(c)
    BY <1>2, <2>1 DEF KeepsRequest, KeepsHeard, KeepsLeft, KeepsSent,
                      KeepsBroken, Servable, Heard, Complete, Left, Broken
  <2>5. Abstract!Arrive(c)
    BY <2>2, <2>3, <2>4, ArriveMaps, FrameKeeps DEF Frame
  <2>6. Fresh(c)'
    BY <1>2, <1>3, <2>1 DEF Fresh
  <2> QED
    BY <2>2, <2>5, <2>6, StepMaps, FrameFresh DEF Abstract!Step
<1>5. CASE Deliver(c) \/ Shut(c) \/ Reset(c)
  <2>1. /\ socket' = socket /\ socket[c] \in {"backlog", "open"}
        /\ \A d \in Conns \ {c} : net'[d] = net[d]
        /\ net'[c].request = net[c].request /\ net'[c].sent = net[c].sent
        /\ net[c].peer = "reset" => net'[c].peer = "reset"
    BY <1>5 DEF Deliver, Shut, Reset, Attached, Peer, TypeOK, ConnectionTypeOK,
                Peers
  <2>2. Frame(c)
    BY <1>2, <2>1 DEF Frame, Stopped
  <2>3. Fresh(c)'
    BY <1>2, <1>3, <2>1 DEF Fresh
  <2>4. /\ KeepsPhase(c) /\ KeepsRequest(c) /\ KeepsHeard(c)
        /\ KeepsLeft(c) /\ KeepsSent(c)
    BY <1>2, <2>1 DEF KeepsPhase, KeepsRequest, KeepsHeard, KeepsLeft,
         KeepsSent, PhaseOf, Replying, Servable, Heard, Complete, Left
  <2>5. CASE net'[c].peer = "reset" /\ net[c].peer # "reset"
    <3>1. PhaseOf(c) \in {"queued", "serving", "replying"}
      BY <2>1 DEF PhaseOf
    <3>2. Abstract!Break(c)
      BY <2>2, <2>4, <2>5, <3>1, BreakMaps, FrameKeeps DEF Frame, Broken
    <3> QED
      BY <2>2, <2>3, <3>2, StepMaps, FrameFresh DEF Abstract!Step
  <2>6. CASE ~(net'[c].peer = "reset" /\ net[c].peer # "reset")
    <3>1. KeepsView(c)
      BY <2>1, <2>4, <2>6 DEF KeepsView, KeepsBroken, Broken
    <3> QED
      BY <2>2, <2>3, <3>1, QuietMaps, FrameFresh
  <2> QED
    BY <2>5, <2>6
<1> QED
  BY <1>1, <1>4, <1>5

(* What leaves every connection alone, and may end the process.             *)
LEMMA RestMaps ==
  ASSUME AllInv, UNCHANGED <<heap, socket, conn, net>>, Stopped => Stopped'
  PROVE  FreshInv' /\ AbstractStep
<1>1. \A c \in Conns : KeepsView(c)
  BY SameView
<1>2. AbstractStep
  BY <1>1, NothingMaps, StopMaps DEF AbstractStep, Abstract!Next
<1>3. FreshInv'
  BY DEF AllInv, FreshInv, Fresh
<1> QED
  BY <1>2, <1>3

(* Every step.                                                              *)
LEMMA ExchangeMaps ==
  ASSUME AllInv, [Next]_vars
  PROVE  FreshInv' /\ AbstractStep
<1>1. ASSUME Boot \/ Skip \/ HTTPServer_work \/ NothingToAccept \/ Exit
      PROVE  FreshInv' /\ AbstractStep
  BY <1>1, RestMaps
     DEF Boot, HTTPServer_Initialize, tcpserver_listen, Skip, HTTPServer_work,
         NothingToAccept, Exit, connVars, Stopped
<1>2. ASSUME NEW c \in Conns, HandlerCrash(c)
      PROVE  FreshInv' /\ AbstractStep
  BY <1>2, RestMaps DEF HandlerCrash, KeepsObject, Stopped
<1>3. ASSUME handle_sigint \/ Terminated \/ UNCHANGED vars
      PROVE  FreshInv' /\ AbstractStep
  BY <1>3, RestMaps DEF handle_sigint, Terminated, vars, connVars, Stopped
<1> QED
  BY <1>1, <1>2, <1>3, WorkMaps, AcceptStep, SweepMaps, ClientsMap
     DEF Next, Process, Iteration

-----------------------------------------------------------------------------
(* Nobody has come yet.                                                     *)
LEMMA InitMaps == Init => FreshInv /\ Abstract!Init
<1> SUFFICES ASSUME Init
             PROVE  FreshInv /\ Abstract!Init
  OBVIOUS
<1>1. TypeOK /\ BufferInBounds
  BY InitTypeOK
<1>2. ASSUME NEW c \in Conns
      PROVE  /\ heap[c] = "none" /\ socket[c] = "none" /\ conn[c] = NewFields
             /\ net[c].sent = 0 /\ net[c].peer = "open"
  BY DEF Init
<1>3. FreshInv
  BY <1>2 DEF FreshInv, Fresh, NewFields
<1>4. [c \in Conns |-> PhaseOf(c)] = [c \in Conns |-> "absent"]
  BY <1>2 DEF PhaseOf
<1>5. [c \in Conns |-> Servable(c)] \in [Conns -> BOOLEAN]
  BY DEF Servable
<1>6. [c \in Conns |-> Complete(c, conn[c].recvLength)] = [c \in Conns |-> FALSE]
  <2>1. ASSUME NEW c \in Conns
        PROVE  Complete(c, conn[c].recvLength) = FALSE
    BY <1>1, <1>2, Numbers DEF Complete, NewFields
  <2> QED
    BY <2>1
<1>7. [c \in Conns |-> conn[c].response_length] = [c \in Conns |-> 0]
  BY <1>2 DEF NewFields
<1>8. [c \in Conns |-> net[c].sent] = [c \in Conns |-> 0]
  BY <1>2
<1>9. [c \in Conns |-> net[c].peer = "reset"] = [c \in Conns |-> FALSE]
  BY <1>2
<1>10. (~Stopped) = TRUE
  BY DEF Init, Stopped
<1> QED
  BY <1>3, <1>4, <1>5, <1>6, <1>7, <1>8, <1>9, <1>10 DEF Abstract!Init

(***************************************************************************)
(* Refinement: the process with its states, buffers, timers and task table  *)
(* implements the exchange of module HTTPExchange for every client: a reply *)
(* begins only for a servable request that was read whole, is sent without  *)
(* loss or repetition, and its connection is closed once, at its end.       *)
(***************************************************************************)
THEOREM ExchangeImplemented == Safety => ImplementsExchangeSafety
<1>1. Init => FreshInv /\ Abstract!Init
  BY InitMaps
<1>2. TableInv /\ ExchangeInv /\ FreshInv /\ [Next]_vars =>
        FreshInv' /\ [Abstract!Next]_Abstract!xvars
  BY ExchangeMaps DEF AllInv, AbstractStep
<1> QED
  BY <1>1, <1>2, ExchangeInvariant, PTL
     DEF Safety, ImplementsExchangeSafety, Abstract!XSafety

=============================================================================
