------------------------ MODULE HTTPServerConnection ------------------------
(***************************************************************************)
(* One HTTP exchange of the server: server/src/HTTPServerConnection.c with  *)
(* the request reader, the response writer and the parsers it calls.        *)
(*                                                                          *)
(* Every accepted socket gets a heap object with its own smw task; each     *)
(* call of the task runs one case of the switch in                          *)
(* HTTPServerConnection_work, and each such case is one action here.        *)
(*                                                                          *)
(* Byte counts are kept, in units small enough for TLC (RecvCap, HeaderMax, *)
(* FormatCap); what the bytes spell is abstracted to the class of the       *)
(* request, and a response body to its length.                              *)
(***************************************************************************)
EXTENDS Smw

CONSTANTS
  Conns,        \* the HTTPServerConnection objects, one per accepted socket
  Requests,     \* what clients send: [hdr : Nat, kind : Kinds]
  RecvCap,      \* sizeof(recv_buffer) - 1, what ReadHeaders can hold (2047)
  HeaderMax,    \* the largest header ParseHeader takes (1024)
  TimeoutMs,    \* 3000
  Bodies,       \* lengths of the bodies the handlers return
  HeadLen,      \* length of RESPONSE_HEADER once formatted
  FormatCap     \* sizeof(response) - 1 in HTTPResponse_Format (2047)

(***************************************************************************)
(* hdr is the length of the request up to and including its blank line.     *)
(* kind is the first check the request fails, if any:                       *)
(*   "badHeader"  a bare LF, or no two blanks in the request line;          *)
(*   "POST"       a method other than GET and OPTIONS;                      *)
(*   "badURL"     no "v1/" or no "?" in the URL;                            *)
(*   "noRoute"    an endpoint that was never given to RouteHandler_Init;    *)
(*   "route"      none: the request names the endpoint geo or gwd.          *)
(***************************************************************************)
Kinds == {"badHeader", "POST", "badURL", "noRoute", "route"}

ASSUME ConnectionAssumption ==
  /\ Conns \subseteq Contexts
  /\ Requests \subseteq [hdr : Nat \ {0}, kind : Kinds]
  /\ RecvCap \in Nat \ {0}
  /\ HeaderMax \in Nat
  /\ TimeoutMs \in Nat \ {0}
  /\ Bodies \subseteq Nat
  /\ HeadLen \in Nat \ {0}
  /\ FormatCap \in Nat \ {0}

VARIABLES
  heap,     \* the object: "none" before calloc, "live", "freed"
  task,     \* its field task: the slot that smw_create_task returned, or NULL
  socket,   \* its socket: "none", "backlog" (not accepted yet), "open", "closed"
  conn,     \* its other fields that work reads and writes
  net       \* the other end of its socket

connVars == <<heap, task, socket, conn, net>>

Off == -1     \* the value 0 of timeout: the timer is not armed
NoBody == -1  \* the NULL of response

States == {"Read", "Parse", "ParseURL", "FindRoute", "Handlers",
           "FormatResponse", "SendResponse", "Timeout", "Cleanup"}

Statuses == {200, 400, 404, 408}

(***************************************************************************)
(* timeout is kept as the time that passed since it was armed, i.e. as      *)
(* monTime + 3000 - timeout, and stops growing at TimeoutMs: the code only  *)
(* compares it with monTime, which is the same during a whole sweep.        *)
(***************************************************************************)
Timers == {Off} \cup 0 .. TimeoutMs

Fields ==
  [state           : States,
   timeout         : Timers,
   bytesReadOut    : Nat,
   recvLength      : Nat,           \* http_request.recv_buffer_length
   status          : Statuses,
   response        : {NoBody} \cup Bodies,
   formatted       : Nat,           \* strlen(response_formatted), 0 if NULL
   response_length : Nat]

(* calloc, HTTPRequest_Initialize and HTTPResponse_Initialize.              *)
NewFields ==
  [state |-> "Read", timeout |-> Off, bytesReadOut |-> 0, recvLength |-> 0,
   status |-> 200, response |-> NoBody, formatted |-> 0,
   response_length |-> 0]

(***************************************************************************)
(* The other end: the request its client is sending, how much of it has     *)
(* arrived in the kernel of the server, whether the client still may send   *)
(* ("open"), has closed its side ("shut") or the connection is broken       *)
(* ("reset"), and how much of a response the server has sent.               *)
(***************************************************************************)
Peers ==
  [request : Requests,
   arrived : Nat,
   peer    : {"open", "shut", "reset"},
   sent    : Nat]

-----------------------------------------------------------------------------
Complete(c, length) == length >= net[c].request.hdr

MinOf(m, n) == IF m <= n THEN m ELSE n

(* What recv finds in the kernel, and what of it fits in the buffer.        *)
Ready(c) == net[c].arrived - conn[c].recvLength

(* Mutant: the room left in the buffer is not looked at.                    *)
Taken_All(c) == Ready(c)

Taken(c) == MinOf(Ready(c), RecvCap - conn[c].recvLength)

RecvFails(c) == Ready(c) = 0 /\ net[c].peer \in {"open", "reset"}

(* Mutant: the blank line is not looked for.                                *)
ReadHeaders_AnyBytes(c) ==
  [result |-> IF Taken(c) > 0 THEN "Success" ELSE "Pending",
   bytes  |-> Taken(c),
   length |-> conn[c].recvLength + Taken(c)]

(***************************************************************************)
(* HTTPRequest_ReadHeaders: one non-blocking recv into what is left of the  *)
(* buffer.  What has arrived is taken first, even from a broken connection. *)
(* With nothing to take, an open socket fails with EWOULDBLOCK and a broken *)
(* one with another error; either way *bytesReadOut keeps the value of the  *)
(* last call that succeeded.  A closed peer and a full buffer both read as  *)
(* 0 bytes, which is no error.                                              *)
(***************************************************************************)
ReadHeaders(c) ==
  LET total == conn[c].recvLength + Taken(c)
  IN IF RecvFails(c)
       THEN [result |-> IF net[c].peer = "open" THEN "Pending" ELSE "Error",
             bytes  |-> conn[c].bytesReadOut,
             length |-> conn[c].recvLength]
       ELSE [result |-> IF Complete(c, total) THEN "Success" ELSE "Pending",
             bytes  |-> Taken(c),
             length |-> total]

(***************************************************************************)
(* The timer of a connection in state Read, run after the read.             *)
(***************************************************************************)
Expired(c) == conn[c].timeout # Off /\ conn[c].timeout >= TimeoutMs

(* Mutant: bytes that arrive do not reset the timer.                        *)
TimerAfter_NoReset(c, bytes) ==
  IF conn[c].timeout = Off THEN 0 ELSE conn[c].timeout

(* Mutant: a running timer is armed again by every call.                    *)
TimerAfter_Rearms(c, bytes) == IF bytes > 0 THEN Off ELSE 0

TimerAfter(c, bytes) ==
  IF bytes > 0 THEN Off
               ELSE IF conn[c].timeout = Off THEN 0 ELSE conn[c].timeout

NextState == [Success |-> "Parse", Error |-> "Cleanup", Pending |-> "Read"]

(* Mutant: the timer is looked at last.                                     *)
StateAfterRead_TimerWins(c, result) ==
  IF Expired(c) THEN "Timeout" ELSE NextState[result]

(* The result of the read comes last, so it overrides an expired timer.     *)
StateAfterRead(c, result) ==
  IF result = "Pending" /\ Expired(c) THEN "Timeout" ELSE NextState[result]

-----------------------------------------------------------------------------
(***************************************************************************)
(* HTTPServerConnection_Initialize(socket), called by the accept of the     *)
(* listening socket.  It never looks at what smw_create_task returned.      *)
(***************************************************************************)
Initialize(c) ==
  /\ heap[c] = "none"
  /\ heap' = [heap EXCEPT ![c] = "live"]
  /\ \E t \in Slots \cup {NULL} :
       /\ CreateTask(c, t)
       /\ task' = [task EXCEPT ![c] = t]
  /\ socket' = [socket EXCEPT ![c] = "open"]
  /\ conn' = [conn EXCEPT ![c] = NewFields]
  /\ UNCHANGED net

(* Mutant: the task is not destroyed.                                       *)
Dispose_KeepsTask(c) ==
  /\ tasks' = tasks
  /\ socket' = [socket EXCEPT ![c] = "closed"]
  /\ heap' = [heap EXCEPT ![c] = "freed"]
  /\ task' = [task EXCEPT ![c] = NULL]
  /\ conn' = [conn EXCEPT ![c] = NewFields]
  /\ UNCHANGED net

(* Mutant: the socket is not closed.                                        *)
Dispose_LeaksSocket(c) ==
  /\ DestroyTask(task[c])
  /\ heap' = [heap EXCEPT ![c] = "freed"]
  /\ task' = [task EXCEPT ![c] = NULL]
  /\ conn' = [conn EXCEPT ![c] = NewFields]
  /\ UNCHANGED <<socket, net>>

(***************************************************************************)
(* HTTPServerConnection_Dispose: the task is destroyed, the socket closed,  *)
(* the object freed.  The fields of a freed object are not meaningful any   *)
(* more and are given their initial value.                                  *)
(***************************************************************************)
Dispose(c) ==
  /\ DestroyTask(task[c])
  /\ socket' = [socket EXCEPT ![c] = "closed"]
  /\ heap' = [heap EXCEPT ![c] = "freed"]
  /\ task' = [task EXCEPT ![c] = NULL]
  /\ conn' = [conn EXCEPT ![c] = NewFields]
  /\ UNCHANGED net

(* What the cases of HTTPServerConnection_work other than Cleanup share:    *)
(* they touch their own fields and nothing else.                            *)
InState(c, state) == Calls(c) /\ conn[c].state = state

KeepsObject == UNCHANGED <<tasks, heap, task, socket>>

Becomes(c, fields) == conn' = [conn EXCEPT ![c] = fields]

Goto(c, state) == Becomes(c, [conn[c] EXCEPT !.state = state])

Fails(c, status, state) ==
  Becomes(c, [conn[c] EXCEPT !.status = status, !.state = state])

-----------------------------------------------------------------------------
(* Mutant: recv without MSG_DONTWAIT.                                       *)
Read_Blocks(c) ==
  /\ InState(c, "Read")
  /\ net[c].peer # "open" \/ net[c].arrived > conn[c].recvLength
  /\ LET read == ReadHeaders(c)
     IN Becomes(c, [conn[c] EXCEPT
                      !.recvLength   = read.length,
                      !.bytesReadOut = read.bytes,
                      !.timeout      = TimerAfter(c, read.bytes),
                      !.state        = StateAfterRead(c, read.result)])
  /\ KeepsObject /\ UNCHANGED net

Read(c) ==
  /\ InState(c, "Read")
  /\ LET read == ReadHeaders(c)
     IN Becomes(c, [conn[c] EXCEPT
                      !.recvLength   = read.length,
                      !.bytesReadOut = read.bytes,
                      !.timeout      = TimerAfter(c, read.bytes),
                      !.state        = StateAfterRead(c, read.result)])
  /\ KeepsObject /\ UNCHANGED net

(* HTTPRequest_ParseHeader; a header it refuses gets no answer.             *)
HeaderAccepted(r) == r.hdr <= HeaderMax /\ r.kind \notin {"badHeader", "POST"}

Parse(c) ==
  /\ InState(c, "Parse")
  /\ Goto(c, IF HeaderAccepted(net[c].request) THEN "ParseURL" ELSE "Cleanup")
  /\ KeepsObject /\ UNCHANGED net

(* URLHandler_Parse.                                                        *)
URLAccepted(r) == r.kind # "badURL"

ParseURL(c) ==
  /\ InState(c, "ParseURL")
  /\ IF URLAccepted(net[c].request)
       THEN Goto(c, "FindRoute")
       ELSE Fails(c, 400, "FormatResponse")
  /\ KeepsObject /\ UNCHANGED net

(* RouteHandler_FindRoute.                                                  *)
RouteFound(r) == r.kind # "noRoute"

FindRoute(c) ==
  /\ InState(c, "FindRoute")
  /\ IF RouteFound(net[c].request)
       THEN Goto(c, "Handlers")
       ELSE Fails(c, 404, "FormatResponse")
  /\ KeepsObject /\ UNCHANGED net

(* Handle_GEO or Handle_Weather returns a body: the data, or a JSON text    *)
(* with an "error" member.                                                  *)
Handlers(c) ==
  /\ InState(c, "Handlers")
  /\ \E body \in Bodies :
       Becomes(c, [conn[c] EXCEPT !.response = body,
                                  !.state    = "FormatResponse"])
  /\ KeepsObject /\ UNCHANGED net

(* Mutant: the error code for a missing response becomes the length.        *)
HTTPResponse_Format_StoresError(c) == [conn[c] EXCEPT !.response_length = -2]

(***************************************************************************)
(* HTTPResponse_Format: snprintf into a local buffer, strdup of what fits.  *)
(* response_length is what snprintf returns, i.e. the length of the whole   *)
(* text.  Without a response it fails and changes nothing.                  *)
(***************************************************************************)
HTTPResponse_Format(c) ==
  LET text == HeadLen + conn[c].response
  IN IF conn[c].response = NoBody
       THEN conn[c]
       ELSE [conn[c] EXCEPT !.response_length = text,
                            !.formatted       = MinOf(text, FormatCap)]

(* The Cleanup that a failure chooses is overwritten by the next line.      *)
FormatResponse(c) ==
  /\ InState(c, "FormatResponse")
  /\ Becomes(c, [HTTPResponse_Format(c) EXCEPT !.state = "SendResponse"])
  /\ KeepsObject /\ UNCHANGED net

(* Mutant: the length is not reduced by what was sent.                      *)
SendPart_Resends(c) ==
  /\ InState(c, "SendResponse")
  /\ net[c].peer # "reset"
  /\ \E n \in 1 .. conn[c].response_length : net' = [net EXCEPT ![c].sent = @ + n]
  /\ KeepsObject /\ UNCHANGED conn

(***************************************************************************)
(* HTTPResponse_Send: send may take a part of the text; the call that has   *)
(* nothing left to send, and one that fails on a broken connection, end it. *)
(***************************************************************************)
SendPart(c) ==
  /\ InState(c, "SendResponse")
  /\ net[c].peer # "reset"
  /\ \E n \in 1 .. conn[c].response_length :
       /\ Becomes(c, [conn[c] EXCEPT !.response_length = @ - n])
       /\ net' = [net EXCEPT ![c].sent = @ + n]
  /\ KeepsObject

(* Mutant: one send is taken for all of them.                               *)
SendEnds_AfterOnePart(c) ==
  /\ InState(c, "SendResponse")
  /\ net[c].sent > 0
  /\ Goto(c, "Cleanup")
  /\ KeepsObject /\ UNCHANGED net

SendEnds(c) ==
  /\ InState(c, "SendResponse")
  /\ \/ conn[c].response_length = 0
     \/ net[c].peer = "reset"
  /\ Goto(c, "Cleanup")
  /\ KeepsObject /\ UNCHANGED net

Timeout(c) ==
  /\ InState(c, "Timeout")
  /\ Fails(c, 408, "Cleanup")
  /\ KeepsObject /\ UNCHANGED net

Cleanup(c) ==
  /\ InState(c, "Cleanup")
  /\ Dispose(c)

(* HTTPServerConnection_work.                                               *)
Work(c) ==
  \/ Read(c)
  \/ Parse(c)
  \/ ParseURL(c)
  \/ FindRoute(c)
  \/ Handlers(c)
  \/ FormatResponse(c)
  \/ SendPart(c)
  \/ SendEnds(c)
  \/ Timeout(c)
  \/ Cleanup(c)

-----------------------------------------------------------------------------
(* Types.                                                                   *)
ConnectionTypeOK ==
  /\ heap   \in [Conns -> {"none", "live", "freed"}]
  /\ task   \in [Conns -> Slots \cup {NULL}]
  /\ socket \in [Conns -> {"none", "backlog", "open", "closed"}]
  /\ conn   \in [Conns -> Fields]
  /\ net    \in [Conns -> Peers]

(* The receive buffer never holds more than it has room for, its closing    *)
(* NUL included, nor bytes that the client did not send.                    *)
BufferInBounds ==
  \A c \in Conns :
    /\ conn[c].recvLength <= RecvCap
    /\ conn[c].recvLength <= net[c].arrived
    /\ net[c].arrived <= net[c].request.hdr

=============================================================================
