------------------------ MODULE WeatherServer_proofs ------------------------
(***************************************************************************)
(* What is proved of WeatherServer, for any number of slots, connections    *)
(* and requests, and for any sizes: its types; who owns the slots of the    *)
(* task table and the sockets - no callback runs on a freed object, sockets *)
(* live exactly as long as their objects, the listening socket keeps its    *)
(* slot - that every step of the process is a step of the abstract          *)
(* scheduler of module Smw, and what that scheduler promises.               *)
(***************************************************************************)
EXTENDS WeatherServer, TLAPS

-----------------------------------------------------------------------------
(***************************************************************************)
(* What the abstract scheduler of module Smw promises, for any number of    *)
(* slots and of contexts.                                                   *)
(***************************************************************************)
SmwInv == SmwTypeOK /\ OneSlotPerContext

(* A context that is not in the table goes into a slot nobody has.          *)
LEMMA CreateKeepsSlots ==
  ASSUME SmwInv, NEW ctx \in Contexts \ Registered, NEW t \in Slots,
         CreateTask(ctx, t)
  PROVE  /\ tasks' \in [Slots -> Contexts \cup {NULL}]
         /\ OneSlotPerContext'
<1>1. \A i \in Slots : tasks[i] # ctx
  BY SmwAssumption DEF Registered
<1>2. tasks' = tasks \/ tasks' = [tasks EXCEPT ![t] = ctx]
  BY DEF CreateTask
<1> QED
  BY <1>1, <1>2 DEF SmwInv, SmwTypeOK, OneSlotPerContext

(* Clearing any slot, or none, leaves the others as they were.              *)
LEMMA DestroyKeepsSlots ==
  ASSUME SmwInv, NEW t, DestroyTask(t)
  PROVE  /\ tasks' \in [Slots -> Contexts \cup {NULL}]
         /\ OneSlotPerContext'
BY DEF SmwInv, SmwTypeOK, OneSlotPerContext, DestroyTask

(* The table and the loop index keep their types, and no context is ever    *)
(* registered twice: an object is called at most once in a sweep.           *)
THEOREM SlotsUnique == SmwSafety => [](SmwTypeOK /\ OneSlotPerContext)
<1>1. SmwInit => SmwInv
  BY SmwAssumption DEF SmwInit, SmwInv, SmwTypeOK, OneSlotPerContext
<1>2. SmwInv /\ [SmwNext]_smwVars => SmwInv'
  <2> SUFFICES ASSUME SmwInv, [SmwNext]_smwVars
               PROVE  SmwInv'
    OBVIOUS
  <2>1. CASE UNCHANGED smwVars
    BY <2>1 DEF smwVars, SmwInv, SmwTypeOK, OneSlotPerContext
  <2>2. CASE Register
    BY <2>2, CreateKeepsSlots DEF Register, SmwInv, SmwTypeOK
  <2>3. CASE Sweep \/ SkipFreeSlot
    <3>1. tasks' = tasks /\ cursor' \in 0 .. MaxTasks
      BY <2>3, SmwAssumption DEF Sweep, BeginSmwWork, SkipFreeSlot, Slots
    <3> QED
      BY <3>1 DEF SmwInv, SmwTypeOK, OneSlotPerContext
  <2>4. CASE CallTask
    <3>1. cursor' \in 0 .. MaxTasks
      BY <2>4, SmwAssumption DEF CallTask, Calls, Slots
    <3>2. CASE tasks' = tasks
      BY <3>1, <3>2 DEF SmwInv, SmwTypeOK, OneSlotPerContext
    <3>3. CASE \E new \in Contexts \ Registered, t \in Slots : CreateTask(new, t)
      BY <3>1, <3>3, CreateKeepsSlots DEF SmwInv, SmwTypeOK
    <3>4. CASE DestroyTask(cursor)
      BY <3>1, <3>4, DestroyKeepsSlots DEF SmwInv, SmwTypeOK
    <3> QED
      BY <2>4, <3>2, <3>3, <3>4 DEF CallTask
  <2>5. CASE DisposeAll
    BY <2>5 DEF DisposeAll, ClearTasks, SmwInv, SmwTypeOK, OneSlotPerContext
  <2> QED
    BY <2>1, <2>2, <2>3, <2>4, <2>5 DEF SmwNext
<1>3. SmwInv => SmwTypeOK /\ OneSlotPerContext
  BY DEF SmwInv
<1> QED
  BY <1>1, <1>2, <1>3, PTL DEF SmwSafety

-----------------------------------------------------------------------------
(* Facts about the constants.                                               *)
LEMMA ConstantFacts ==
  /\ MaxTasks \in Nat /\ MaxTasks >= 2
  /\ 0 \in Slots /\ 1 \in Slots
  /\ NULL \notin Slots
  /\ NULL \notin Contexts /\ NULL \notin Conns
  /\ Conns \subseteq Contexts
  /\ HTTPServer \in Contexts \ Conns
  /\ TCPServer \in Contexts \ Conns
  /\ HTTPServer # TCPServer
BY SmwAssumption, ConnectionAssumption, ServerAssumption DEF Slots

(* smw_create_task either finds the table full or fills a free slot.        *)
LEMMA CreateTaskOutcome ==
  ASSUME NEW ctx \in Contexts, NEW t,
         tasks \in [Slots -> Contexts \cup {NULL}],
         CreateTask(ctx, t)
  PROVE  /\ tasks' \in [Slots -> Contexts \cup {NULL}]
         /\ \/ t = NULL /\ tasks' = tasks
            \/ /\ t \in Slots
               /\ tasks[t] = NULL
               /\ tasks' = [tasks EXCEPT ![t] = ctx]
BY DEF CreateTask, FreeSlots

(* The task table, as far as the connection's callback is concerned: it     *)
(* leaves the table and the ownership alone, or disposes of its own object. *)
LEMMA WorkOutcome ==
  ASSUME NEW c \in Conns, Work(c)
  PROVE  /\ Calls(c)
         /\ KeepsObject \/ Dispose(c)
BY DEF Work, Read, Parse, ParseURL, FindRoute, Handlers, FormatResponse,
       SendPart, SendEnds, Timeout, Cleanup, InState

-----------------------------------------------------------------------------
(***************************************************************************)
(* Types.                                                                   *)
(***************************************************************************)
LEMMA NewFieldsType == NewFields \in Fields
BY ConnectionAssumption DEF NewFields, Fields, States, Statuses, Timers, NoBody

(* The initial state is typed.                                              *)
LEMMA InitTypeOK == Init => TypeOK /\ BufferInBounds
<1> SUFFICES ASSUME Init PROVE TypeOK /\ BufferInBounds
  OBVIOUS
<1>1. SmwTypeOK
  BY ConstantFacts DEF Init, SmwInit, SmwTypeOK
<1>2. conn \in [Conns -> Fields]
  BY NewFieldsType DEF Init
<1>3. net \in [Conns -> Peers]
  <2>1. \A r \in Requests :
          [request |-> r, arrived |-> 0, peer |-> "open", sent |-> 0] \in Peers
    BY DEF Peers
  <2> QED
    BY <2>1 DEF Init
<1>4. TypeOK
  BY <1>1, <1>2, <1>3 DEF Init, TypeOK, ConnectionTypeOK
<1>5. BufferInBounds
  <2> SUFFICES ASSUME NEW c \in Conns
               PROVE  /\ conn[c].recvLength = 0 /\ net[c].arrived = 0
                      /\ net[c].request.hdr \in Nat
    BY ConnectionAssumption DEF BufferInBounds
  <2>1. conn[c].recvLength = 0 /\ net[c].arrived = 0 /\ net[c].request \in Requests
    BY DEF Init, NewFields
  <2> QED
    BY <2>1, ConnectionAssumption
<1> QED
  BY <1>4, <1>5

(* What a read leaves in the fields it writes.                              *)
LEMMA ReadHeadersType ==
  ASSUME TypeOK, BufferInBounds, NEW c \in Conns
  PROVE  /\ ReadHeaders(c).result \in {"Success", "Pending", "Error"}
         /\ ReadHeaders(c).bytes \in Nat
         /\ ReadHeaders(c).length \in Nat
         /\ ReadHeaders(c).length <= RecvCap
         /\ ReadHeaders(c).length <= net[c].arrived
<1>1. /\ conn[c].recvLength \in Nat /\ conn[c].bytesReadOut \in Nat
      /\ net[c].arrived \in Nat /\ RecvCap \in Nat
      /\ conn[c].recvLength <= RecvCap /\ conn[c].recvLength <= net[c].arrived
  BY ConnectionAssumption DEF TypeOK, ConnectionTypeOK, BufferInBounds, Fields, Peers
<1>2. /\ Taken(c) \in Nat
      /\ conn[c].recvLength + Taken(c) \in Nat
      /\ conn[c].recvLength + Taken(c) <= RecvCap
      /\ conn[c].recvLength + Taken(c) <= net[c].arrived
  BY <1>1 DEF Taken, Ready, MinOf
<1>3. CASE RecvFails(c)
  BY <1>1, <1>3 DEF ReadHeaders
<1>4. CASE ~RecvFails(c)
  BY <1>2, <1>4 DEF ReadHeaders
<1> QED
  BY <1>3, <1>4

(* The fields that a read leaves behind.                                    *)
LEMMA ReadFields ==
  ASSUME NEW f \in Fields, NEW length \in Nat, NEW bytes \in Nat,
         NEW timeout \in Timers, NEW state \in States
  PROVE  /\ [f EXCEPT !.recvLength = length, !.bytesReadOut = bytes,
                      !.timeout = timeout, !.state = state] \in Fields
         /\ [f EXCEPT !.recvLength = length, !.bytesReadOut = bytes,
                      !.timeout = timeout, !.state = state].recvLength = length
BY DEF Fields

(* One action each: the object keeps its fields typed, the buffer its bounds. *)
LEMMA ReadType ==
  ASSUME TypeOK, BufferInBounds, NEW c \in Conns, Read(c)
  PROVE  /\ conn' \in [Conns -> Fields]
         /\ conn'[c].recvLength <= RecvCap
         /\ conn'[c].recvLength <= net[c].arrived
         /\ \A d \in Conns \ {c} : conn'[d] = conn[d]
<1> DEFINE length  == ReadHeaders(c).length
           bytes   == ReadHeaders(c).bytes
           timeout == TimerAfter(c, bytes)
           state   == StateAfterRead(c, ReadHeaders(c).result)
           new     == [conn[c] EXCEPT !.recvLength   = length,
                                      !.bytesReadOut = bytes,
                                      !.timeout      = timeout,
                                      !.state        = state]
<1>1. conn' = [conn EXCEPT ![c] = new]
  BY DEF Read, Becomes
<1>2. conn \in [Conns -> Fields] /\ conn[c] \in Fields
  BY DEF TypeOK, ConnectionTypeOK
<1>3. length \in Nat /\ bytes \in Nat
  BY ReadHeadersType
<1>4. timeout \in Timers
  BY <1>2, ConnectionAssumption DEF TimerAfter, Fields, Timers
<1>5. state \in States
  BY ReadHeadersType DEF StateAfterRead, NextState, States
<1>6. new \in Fields /\ new.recvLength = length
  <2> HIDE DEF length, bytes, timeout, state
  <2>1. new \in Fields
    BY <1>2, <1>3, <1>4, <1>5, ReadFields
  <2>2. new.recvLength = length
    BY <1>2 DEF Fields
  <2> QED
    BY <2>1, <2>2
<1>7. length <= RecvCap /\ length <= net[c].arrived
  BY ReadHeadersType
<1> QED
  BY <1>1, <1>2, <1>6, <1>7

(***************************************************************************)
(* A step of a connection that leaves its receive buffer alone.             *)
(***************************************************************************)
LEMMA GotoType ==
  ASSUME conn \in [Conns -> Fields], NEW c \in Conns,
         NEW state \in States, Goto(c, state)
  PROVE  /\ conn' \in [Conns -> Fields]
         /\ \A d \in Conns : conn'[d].recvLength = conn[d].recvLength
BY DEF Goto, Becomes, Fields

(* A status and a new state.                                                *)
LEMMA FailsType ==
  ASSUME conn \in [Conns -> Fields], NEW c \in Conns,
         NEW state \in States, NEW status \in Statuses,
         Fails(c, status, state)
  PROVE  /\ conn' \in [Conns -> Fields]
         /\ \A d \in Conns : conn'[d].recvLength = conn[d].recvLength
BY DEF Fails, Becomes, Fields

(* The body of a handler.                                                   *)
LEMMA HandlersType ==
  ASSUME conn \in [Conns -> Fields], NEW c \in Conns, Handlers(c)
  PROVE  /\ conn' \in [Conns -> Fields]
         /\ \A d \in Conns : conn'[d].recvLength = conn[d].recvLength
<1>1. PICK body \in Bodies :
        conn' = [conn EXCEPT ![c] = [conn[c] EXCEPT !.response = body,
                                                    !.state = "FormatResponse"]]
  BY DEF Handlers, Becomes
<1>2. body \in {NoBody} \cup Bodies /\ "FormatResponse" \in States
  BY DEF States
<1> QED
  BY <1>1, <1>2 DEF Fields

(* The two lengths that HTTPResponse_Format writes.                         *)
LEMMA FormatType ==
  ASSUME conn \in [Conns -> Fields], NEW c \in Conns, FormatResponse(c)
  PROVE  /\ conn' \in [Conns -> Fields]
         /\ \A d \in Conns : conn'[d].recvLength = conn[d].recvLength
<1> DEFINE after == HTTPResponse_Format(c)
<1>1. after \in Fields /\ after.recvLength = conn[c].recvLength
  <2>1. CASE conn[c].response = NoBody
    BY <2>1 DEF HTTPResponse_Format
  <2>2. CASE conn[c].response # NoBody
    <3> DEFINE text == HeadLen + conn[c].response
               fits == MinOf(text, FormatCap)
    <3>1. conn[c].response \in Bodies
      BY <2>2 DEF Fields
    <3>2. conn[c].response \in Nat /\ HeadLen \in Nat /\ FormatCap \in Nat
      BY <3>1, ConnectionAssumption
    <3>3. text \in Nat /\ fits \in Nat
      BY <3>2 DEF MinOf
    <3>4. after = [conn[c] EXCEPT !.response_length = text, !.formatted = fits]
      BY <2>2 DEF HTTPResponse_Format
    <3> HIDE DEF text, fits, after
    <3> QED
      BY <3>3, <3>4 DEF Fields
  <2> QED
    BY <2>1, <2>2
<1>2. conn' = [conn EXCEPT ![c] = [after EXCEPT !.state = "SendResponse"]]
  BY DEF FormatResponse, Becomes
<1> HIDE DEF after
<1> QED
  BY <1>1, <1>2 DEF Fields, States

(* What is sent is taken off what is left.                                  *)
LEMMA SendPartType ==
  ASSUME conn \in [Conns -> Fields], net \in [Conns -> Peers],
         NEW c \in Conns, SendPart(c)
  PROVE  /\ conn' \in [Conns -> Fields]
         /\ \A d \in Conns : conn'[d].recvLength = conn[d].recvLength
         /\ net' \in [Conns -> Peers]
         /\ \A d \in Conns : /\ net'[d].arrived = net[d].arrived
                             /\ net'[d].request = net[d].request
<1>1. PICK n \in 1 .. conn[c].response_length :
        /\ Becomes(c, [conn[c] EXCEPT !.response_length = @ - n])
        /\ net' = [net EXCEPT ![c].sent = @ + n]
  BY DEF SendPart
<1>2. conn[c].response_length - n \in Nat /\ net[c].sent + n \in Nat
  BY DEF Fields, Peers
<1> QED
  BY <1>1, <1>2 DEF Becomes, Fields, Peers

(* A new object, with or without a slot.                                    *)
LEMMA InitializeType ==
  ASSUME TypeOK, BufferInBounds, NEW c \in Conns, Initialize(c)
  PROVE  tasks' \in [Slots -> Contexts \cup {NULL}] /\ ConnectionTypeOK'
         /\ BufferInBounds'
<1> USE DEF TypeOK, SmwTypeOK, ConnectionTypeOK
<1>1. PICK t \in Slots \cup {NULL} :
        CreateTask(c, t) /\ task' = [task EXCEPT ![c] = t]
  BY DEF Initialize
<1>2. tasks' \in [Slots -> Contexts \cup {NULL}]
  BY <1>1, CreateTaskOutcome, ConstantFacts
<1>3. conn' \in [Conns -> Fields]
  BY NewFieldsType DEF Initialize
<1>4. BufferInBounds'
  <2> SUFFICES ASSUME NEW d \in Conns
               PROVE  /\ conn'[d].recvLength <= RecvCap
                      /\ conn'[d].recvLength <= net[d].arrived
                      /\ net[d].arrived <= net[d].request.hdr
    BY DEF BufferInBounds, Initialize
  <2>1. CASE d # c
    BY <2>1 DEF Initialize, BufferInBounds
  <2>2. CASE d = c
    <3>1. conn'[d].recvLength = 0
      BY <2>2 DEF Initialize, NewFields
    <3>2. net[d].arrived \in Nat
      BY DEF Peers
    <3> QED
      BY <3>1, <3>2, ConnectionAssumption DEF BufferInBounds
  <2> QED
    BY <2>1, <2>2
<1> QED
  BY <1>1, <1>2, <1>3, <1>4 DEF Initialize

(* A freed object.                                                          *)
LEMMA DisposeType ==
  ASSUME TypeOK, BufferInBounds, NEW c \in Conns, Dispose(c)
  PROVE  tasks' \in [Slots -> Contexts \cup {NULL}] /\ ConnectionTypeOK'
         /\ BufferInBounds'
<1> USE DEF TypeOK, SmwTypeOK, ConnectionTypeOK
<1>1. tasks' \in [Slots -> Contexts \cup {NULL}]
  BY DEF Dispose, DestroyTask
<1>2. conn' \in [Conns -> Fields]
  BY NewFieldsType DEF Dispose
<1>3. BufferInBounds'
  <2> SUFFICES ASSUME NEW d \in Conns
               PROVE  /\ conn'[d].recvLength <= RecvCap
                      /\ conn'[d].recvLength <= net[d].arrived
                      /\ net[d].arrived <= net[d].request.hdr
    BY DEF BufferInBounds, Dispose
  <2>1. CASE d # c
    BY <2>1 DEF Dispose, BufferInBounds
  <2>2. CASE d = c
    <3>1. conn'[d].recvLength = 0
      BY <2>2 DEF Dispose, NewFields
    <3>2. net[d].arrived \in Nat
      BY DEF Peers
    <3> QED
      BY <3>1, <3>2, ConnectionAssumption DEF BufferInBounds
  <2> QED
    BY <2>1, <2>2
<1> QED
  BY <1>1, <1>2, <1>3 DEF Dispose

(* Every case of HTTPServerConnection_work.                                 *)
LEMMA WorkType ==
  ASSUME TypeOK, BufferInBounds, NEW c \in Conns, Work(c)
  PROVE  SmwTypeOK' /\ ConnectionTypeOK' /\ BufferInBounds'
<1> DEFINE Kept == /\ conn' \in [Conns -> Fields]
                   /\ \A d \in Conns : conn'[d].recvLength = conn[d].recvLength
<1>1. cursor' \in 0 .. MaxTasks
  BY WorkOutcome, ConstantFacts DEF Calls, Slots
<1>2. CASE Cleanup(c)
  BY <1>1, <1>2, DisposeType DEF Cleanup, SmwTypeOK
<1>3. CASE KeepsObject /\ Kept /\ net' = net
  BY <1>1, <1>3 DEF KeepsObject, TypeOK, SmwTypeOK, ConnectionTypeOK, BufferInBounds
<1>4. CASE Read(c)
  <2>1. KeepsObject /\ net' = net
    BY <1>4 DEF Read
  <2>2. BufferInBounds'
    BY <1>4, <2>1, ReadType DEF BufferInBounds
  <2> QED
    BY <1>1, <1>4, <2>1, <2>2, ReadType
       DEF KeepsObject, TypeOK, SmwTypeOK, ConnectionTypeOK
<1>5. CASE SendPart(c)
  <2>1. KeepsObject
    BY <1>5 DEF SendPart
  <2>2. /\ Kept
        /\ net' \in [Conns -> Peers]
        /\ \A d \in Conns : /\ net'[d].arrived = net[d].arrived
                            /\ net'[d].request = net[d].request
    BY <1>5, SendPartType DEF TypeOK, ConnectionTypeOK
  <2> QED
    BY <1>1, <2>1, <2>2
       DEF KeepsObject, TypeOK, SmwTypeOK, ConnectionTypeOK, BufferInBounds
<1> USE DEF TypeOK, ConnectionTypeOK, States, Statuses
<1>6. CASE Parse(c)
  BY <1>3, <1>6, GotoType DEF Parse
<1>7. CASE ParseURL(c)
  BY <1>3, <1>7, GotoType, FailsType DEF ParseURL
<1>8. CASE FindRoute(c)
  BY <1>3, <1>8, GotoType, FailsType DEF FindRoute
<1>9. CASE Handlers(c)
  BY <1>3, <1>9, HandlersType DEF Handlers
<1>10. CASE FormatResponse(c)
  BY <1>3, <1>10, FormatType DEF FormatResponse
<1>11. CASE SendEnds(c)
  BY <1>3, <1>11, GotoType DEF SendEnds
<1>12. CASE Timeout(c)
  BY <1>3, <1>12, FailsType DEF Timeout
<1> QED
  BY <1>2, <1>4, <1>5, <1>6, <1>7, <1>8, <1>9, <1>10, <1>11, <1>12 DEF Work

(* The clock of a sweep.                                                    *)
LEMMA BeginSweepType ==
  ASSUME TypeOK, BufferInBounds, NEW d \in Elapsed, BeginSweep(d)
  PROVE  TypeOK' /\ BufferInBounds'
<1> USE DEF TypeOK, SmwTypeOK, ConnectionTypeOK
<1>1. ASSUME NEW c \in Conns
      PROVE  /\ conn'[c] \in Fields
             /\ conn'[c].recvLength = conn[c].recvLength
  <2>1. conn[c] \in Fields
    OBVIOUS
  <2>2. CASE ~Armed(c)
    BY <2>1, <2>2 DEF BeginSweep
  <2>3. CASE Armed(c)
    <3> DEFINE timeout == MinOf(conn[c].timeout + d, TimeoutMs)
    <3>1. conn[c].timeout \in 0 .. TimeoutMs /\ d \in Nat /\ TimeoutMs \in Nat
      BY <2>3, ConnectionAssumption, ServerAssumption DEF Armed, Fields, Timers
    <3>2. timeout \in Timers
      BY <3>1 DEF MinOf, Timers
    <3>3. conn'[c] = [conn[c] EXCEPT !.timeout = timeout]
      BY <2>3 DEF BeginSweep, Aged
    <3> HIDE DEF timeout
    <3> QED
      BY <2>1, <3>2, <3>3 DEF Fields
  <2> QED
    BY <2>2, <2>3
<1>2. conn' \in [Conns -> Fields]
  BY <1>1 DEF BeginSweep
<1>3. cursor' \in 0 .. MaxTasks
  BY ConstantFacts DEF BeginSweep, BeginSmwWork
<1>4. BufferInBounds'
  BY <1>1 DEF BufferInBounds, BeginSweep
<1> QED
  BY <1>2, <1>3, <1>4 DEF BeginSweep

(* The clients add to what arrived no more than their request has.          *)
LEMMA ClientsType ==
  ASSUME TypeOK, BufferInBounds, NEW c \in Conns,
         Connect(c) \/ Deliver(c) \/ Shut(c) \/ Reset(c)
  PROVE  TypeOK' /\ BufferInBounds'
<1> USE DEF TypeOK, SmwTypeOK, ConnectionTypeOK
<1>1. CASE Connect(c)
  BY <1>1 DEF Connect, smwVars, BufferInBounds
<1>2. CASE Deliver(c)
  <2>1. PICK n \in 1 .. net[c].request.hdr - net[c].arrived :
          Peer(c, [net[c] EXCEPT !.arrived = @ + n])
    BY <1>2 DEF Deliver
  <2>2. /\ net[c] \in Peers /\ net[c].arrived \in Nat
        /\ net[c].request \in Requests /\ net[c].request.hdr \in Nat
        /\ conn[c].recvLength \in Nat
    BY ConnectionAssumption DEF Peers, Fields
  <2> DEFINE arrived == net[c].arrived + n
  <2>3. /\ arrived \in Nat /\ arrived <= net[c].request.hdr
        /\ net[c].arrived <= arrived
    BY <2>2
  <2>4. /\ net' = [net EXCEPT ![c] = [net[c] EXCEPT !.arrived = arrived]]
        /\ UNCHANGED <<smwVars, heap, task, socket, conn, main, shutdown>>
    BY <2>1 DEF Peer
  <2>5. conn[c].recvLength <= arrived
    BY <2>2, <2>3 DEF BufferInBounds
  <2> HIDE DEF arrived
  <2>6. net' \in [Conns -> Peers]
    BY <2>2, <2>3, <2>4 DEF Peers
  <2>7. /\ net'[c].arrived = arrived /\ net'[c].request = net[c].request
        /\ \A d \in Conns \ {c} : net'[d] = net[d]
    BY <2>2, <2>4 DEF Peers
  <2>8. BufferInBounds'
    BY <2>3, <2>4, <2>5, <2>7 DEF BufferInBounds
  <2> QED
    BY <2>4, <2>6, <2>8 DEF smwVars
<1>3. CASE Shut(c) \/ Reset(c)
  <2>1. PICK peer \in {"shut", "reset"} : Peer(c, [net[c] EXCEPT !.peer = peer])
    BY <1>3 DEF Shut, Reset
  <2>2. net' \in [Conns -> Peers]
    BY <2>1 DEF Peer, Peers
  <2>3. \A d \in Conns : /\ net'[d].arrived = net[d].arrived
                        /\ net'[d].request = net[d].request
    BY <2>1 DEF Peer, Peers
  <2> QED
    BY <2>1, <2>2, <2>3 DEF Peer, smwVars, BufferInBounds
<1> QED
  BY <1>1, <1>2, <1>3

(* Types and bounds are inductive together.                                 *)
LEMMA NextTypeOK ==
  ASSUME TypeOK, BufferInBounds, [Next]_vars
  PROVE  TypeOK' /\ BufferInBounds'
<1> USE DEF TypeOK, SmwTypeOK, ConnectionTypeOK
<1>1. CASE UNCHANGED vars \/ Terminated
  BY <1>1 DEF vars, Terminated, smwVars, connVars, BufferInBounds
<1>2. CASE Boot
  <2>1. tasks' \in [Slots -> Contexts \cup {NULL}]
    BY <1>2, CreateTaskOutcome, ConstantFacts
       DEF Boot, HTTPServer_Initialize, tcpserver_listen
  <2> QED
    BY <1>2, <2>1 DEF Boot, HTTPServer_Initialize, tcpserver_listen, connVars,
                      BufferInBounds
<1>3. CASE \E d \in Elapsed : BeginSweep(d)
  BY <1>3, BeginSweepType
<1>4. CASE Skip \/ HTTPServer_work \/ NothingToAccept
  <2>1. /\ cursor' \in 0 .. MaxTasks
        /\ tasks' = tasks /\ UNCHANGED <<connVars, main, shutdown>>
    BY <1>4, ConstantFacts DEF Skip, SkipFreeSlot, HTTPServer_work,
                               NothingToAccept, Calls, Slots
  <2> QED
    BY <2>1 DEF connVars, BufferInBounds
<1>5. ASSUME NEW c \in Conns, tcpserver_accept(c)
      PROVE  TypeOK' /\ BufferInBounds'
  <2>1. cursor' \in 0 .. MaxTasks
    BY <1>5, ConstantFacts DEF tcpserver_accept, Calls, Slots
  <2> QED
    BY <1>5, <2>1, InitializeType DEF tcpserver_accept
<1>6. ASSUME NEW c \in Conns, HTTPServerConnection_work(c)
      PROVE  TypeOK' /\ BufferInBounds'
  BY <1>6, WorkType DEF HTTPServerConnection_work
<1>7. ASSUME NEW c \in Conns, HandlerCrash(c)
      PROVE  TypeOK' /\ BufferInBounds'
  BY <1>7, ConstantFacts DEF HandlerCrash, InState, Calls, KeepsObject, Slots,
                             BufferInBounds
<1>8. CASE Exit
  BY <1>8 DEF Exit, ClearTasks, connVars, BufferInBounds
<1>9. CASE Clients
  BY <1>9, ClientsType DEF Clients
<1>10. CASE handle_sigint
  BY <1>10 DEF handle_sigint, smwVars, connVars, BufferInBounds
<1> QED
  BY <1>1, <1>2, <1>3, <1>4, <1>5, <1>6, <1>7, <1>8, <1>9, <1>10
     DEF Next, Process, Iteration

(***************************************************************************)
(* Every variable keeps its type, and the receive buffer its bounds: no     *)
(* sequence of reads writes past recv_buffer or takes bytes nobody sent.    *)
(***************************************************************************)
THEOREM TypeCorrect == Safety => [](TypeOK /\ BufferInBounds)
<1>1. Init => TypeOK /\ BufferInBounds
  BY InitTypeOK
<1>2. TypeOK /\ BufferInBounds /\ [Next]_vars => TypeOK' /\ BufferInBounds'
  BY NextTypeOK
<1> QED
  BY <1>1, <1>2, PTL DEF Safety

-----------------------------------------------------------------------------
(* Before the main loop starts, the table holds what has been registered so *)
(* far and nothing else; that is why the listening socket gets slot 1.      *)
BootTable ==
  /\ main \in {"boot", "listen"} => cursor = MaxTasks
  /\ main = "boot" => \A i \in Slots : tasks[i] = NULL
  /\ main = "listen" => /\ tasks[0] = HTTPServer
                        /\ \A i \in Slots \ {0} : tasks[i] = NULL

(* The inductive invariant.                                                 *)
TableInv ==
  /\ TypeOK
  /\ BufferInBounds
  /\ BootTable
  /\ TasksOwnLiveConnections
  /\ SocketLivesWithObject
  /\ ListenerSurvives

(* The part of it that does not mention main, while the process runs.       *)
Ownership ==
  /\ \A i \in Slots :
       tasks[i] \in Conns => heap[tasks[i]] = "live" /\ task[tasks[i]] = i
  /\ \A c \in Conns :
       task[c] # NULL => heap[c] = "live" /\ tasks[task[c]] = c

Listeners ==
  /\ tasks[0] = HTTPServer
  /\ tasks[1] = TCPServer \/ TCPServer \notin Registered

-----------------------------------------------------------------------------
(* Accepting a connection.                                                  *)
LEMMA InitializeOwnership ==
  ASSUME TypeOK, Ownership, Listeners, SocketLivesWithObject,
         NEW c \in Conns, Initialize(c)
  PROVE  Ownership' /\ Listeners' /\ SocketLivesWithObject'
<1> USE DEF TypeOK, SmwTypeOK, ConnectionTypeOK
<1>1. PICK t \in Slots \cup {NULL} :
        CreateTask(c, t) /\ task' = [task EXCEPT ![c] = t]
  BY DEF Initialize
<1>2. /\ heap[c] = "none"
      /\ heap' = [heap EXCEPT ![c] = "live"]
      /\ socket' = [socket EXCEPT ![c] = "open"]
  BY DEF Initialize
<1>3. \A i \in Slots : tasks[i] # c
  BY <1>2 DEF Ownership
<1>4. \/ t = NULL /\ tasks' = tasks
      \/ t \in Slots /\ tasks[t] = NULL /\ tasks' = [tasks EXCEPT ![t] = c]
  BY <1>1, CreateTaskOutcome, ConstantFacts
<1>5. Ownership'
  BY <1>1, <1>2, <1>3, <1>4, ConstantFacts DEF Ownership
<1>6. Listeners'
  BY <1>4, ConstantFacts DEF Listeners, Registered
<1>7. SocketLivesWithObject'
  BY <1>2 DEF SocketLivesWithObject
<1> QED
  BY <1>5, <1>6, <1>7

(* Disposing of one, from its own callback: the slot that is cleared is the *)
(* one being called.                                                        *)
LEMMA DisposeOwnership ==
  ASSUME TypeOK, Ownership, Listeners, SocketLivesWithObject,
         NEW c \in Conns, Calls(c), Dispose(c)
  PROVE  /\ Ownership' /\ Listeners' /\ SocketLivesWithObject'
         /\ task[c] = cursor
<1> USE DEF TypeOK, SmwTypeOK, ConnectionTypeOK
<1>1. cursor \in Slots /\ tasks[cursor] = c
  BY DEF Calls
<1>2. task[c] = cursor
  BY <1>1 DEF Ownership
<1>3. /\ tasks' = [i \in Slots |-> IF i = cursor THEN NULL ELSE tasks[i]]
      /\ task' = [task EXCEPT ![c] = NULL]
      /\ heap' = [heap EXCEPT ![c] = "freed"]
      /\ socket' = [socket EXCEPT ![c] = "closed"]
  BY <1>2 DEF Dispose, DestroyTask
<1>4. Ownership'
  BY <1>1, <1>2, <1>3, ConstantFacts DEF Ownership
<1>5. Listeners'
  BY <1>1, <1>3, ConstantFacts DEF Listeners, Registered
<1>6. SocketLivesWithObject'
  BY <1>3 DEF SocketLivesWithObject
<1> QED
  BY <1>2, <1>4, <1>5, <1>6

(* A callback of a connection.                                              *)
LEMMA WorkOwnership ==
  ASSUME TypeOK, Ownership, Listeners, SocketLivesWithObject,
         NEW c \in Conns, Work(c)
  PROVE  Ownership' /\ Listeners' /\ SocketLivesWithObject'
<1>1. CASE KeepsObject
  BY <1>1 DEF KeepsObject, Ownership, Listeners, Registered, SocketLivesWithObject
<1>2. CASE Dispose(c)
  BY <1>2, WorkOutcome, DisposeOwnership
<1> QED
  BY <1>1, <1>2, WorkOutcome

-----------------------------------------------------------------------------
(* The parts of TableInv beyond the types, step by step.                    *)
TableParts ==
  BootTable /\ TasksOwnLiveConnections /\ SocketLivesWithObject /\ ListenerSurvives

(* While the process runs, it is Ownership and Listeners that hold.         *)
LEMMA RunningParts ==
  TableParts /\ main = "running" => Ownership /\ Listeners
BY DEF TableParts, TasksOwnLiveConnections, ListenerSurvives, Ownership, Listeners

(* An empty table, and no connection yet.                                   *)
LEMMA InitTable == Init => TableInv
BY InitTypeOK, ConstantFacts
   DEF Init, SmwInit, TableInv, BootTable, TasksOwnLiveConnections,
       SocketLivesWithObject, ListenerSurvives

(* The two tasks of the server get the first two slots.                     *)
LEMMA BootStep ==
  ASSUME TableInv, Boot
  PROVE  TableParts'
<1> USE DEF TableInv, TypeOK, SmwTypeOK, ConnectionTypeOK
<1>1. CASE HTTPServer_Initialize
  <2>1. PICK t \in Slots \cup {NULL} : CreateTask(HTTPServer, t)
    BY <1>1 DEF HTTPServer_Initialize
  <2>2. \A i \in Slots : tasks[i] = NULL
    BY <1>1 DEF HTTPServer_Initialize, BootTable
  <2>3. tasks' = [tasks EXCEPT ![0] = HTTPServer]
    BY <2>1, <2>2, ConstantFacts DEF CreateTask, FreeSlots, Slots
  <2> QED
    BY <1>1, <2>2, <2>3, ConstantFacts
       DEF HTTPServer_Initialize, connVars, TableParts, BootTable,
           TasksOwnLiveConnections, SocketLivesWithObject, ListenerSurvives
<1>2. CASE tcpserver_listen
  <2>1. /\ tasks[0] = HTTPServer /\ \A i \in Slots \ {0} : tasks[i] = NULL
        /\ main = "listen" /\ main' = "running" /\ UNCHANGED connVars
    BY <1>2 DEF tcpserver_listen, BootTable
  <2>2. tasks' = [tasks EXCEPT ![1] = TCPServer] \/ tasks' = tasks
    <3>1. CASE tasks' = tasks
      BY <3>1
    <3>2. ASSUME NEW t \in Slots \cup {NULL}, CreateTask(TCPServer, t)
          PROVE  tasks' = [tasks EXCEPT ![1] = TCPServer]
      <4>1. 1 \in FreeSlots /\ 0 \notin FreeSlots
        BY <2>1, ConstantFacts DEF FreeSlots
      <4>2. t \in FreeSlots /\ t <= 1 /\ tasks' = [tasks EXCEPT ![t] = TCPServer]
        BY <3>2, <4>1 DEF CreateTask
      <4>3. t = 1
        BY <4>1, <4>2, ConstantFacts DEF FreeSlots, Slots
      <4> QED
        BY <4>2, <4>3
    <3> QED
      BY <1>2, <3>1, <3>2 DEF tcpserver_listen
  <2>3. Ownership
    BY <2>1 DEF TasksOwnLiveConnections, Ownership
  <2>4. Ownership'
    BY <2>1, <2>2, <2>3, ConstantFacts DEF Ownership, connVars
  <2>5. Listeners'
    BY <2>1, <2>2, ConstantFacts DEF Listeners, Registered
  <2>6. SocketLivesWithObject'
    BY <2>1 DEF SocketLivesWithObject, connVars
  <2> QED
    BY <2>1, <2>4, <2>5, <2>6
       DEF TableParts, BootTable, TasksOwnLiveConnections, ListenerSurvives,
           Ownership, Listeners
<1> QED
  BY <1>1, <1>2 DEF Boot

(* The invariant is inductive.                                              *)
LEMMA NextTable ==
  ASSUME TableInv, [Next]_vars
  PROVE  TableInv'
<1> USE DEF TableInv
<1>1. TypeOK' /\ BufferInBounds'
  BY NextTypeOK
<1> SUFFICES TableParts'
  BY <1>1 DEF TableParts
<1>2. ASSUME UNCHANGED <<tasks, heap, task, socket, main>>,
             main = "running" \/ UNCHANGED cursor,
             main # "exited" \/ UNCHANGED shutdown
      PROVE  TableParts'
  BY <1>2 DEF TableParts, BootTable, TasksOwnLiveConnections,
              SocketLivesWithObject, ListenerSurvives, Registered
<1>3. CASE UNCHANGED vars \/ Terminated
  BY <1>2, <1>3 DEF vars, Terminated, smwVars, connVars
<1>4. CASE Boot
  BY <1>4, BootStep
<1>5. CASE \E d \in Elapsed : BeginSweep(d)
  BY <1>2, <1>5 DEF BeginSweep
<1>6. CASE Skip \/ HTTPServer_work \/ NothingToAccept
  BY <1>2, <1>6 DEF Skip, SkipFreeSlot, HTTPServer_work, NothingToAccept, connVars
<1>7. ASSUME NEW c \in Conns, tcpserver_accept(c)
      PROVE  TableParts'
  <2>1. main = "running" /\ main' = "running"
    BY <1>7 DEF tcpserver_accept
  <2>2. Ownership' /\ Listeners' /\ SocketLivesWithObject'
    BY <1>7, <2>1, RunningParts, InitializeOwnership DEF tcpserver_accept, TableParts
  <2> QED
    BY <2>1, <2>2 DEF TableParts, BootTable, TasksOwnLiveConnections,
                      ListenerSurvives, Ownership, Listeners
<1>8. ASSUME NEW c \in Conns, HTTPServerConnection_work(c)
      PROVE  TableParts'
  <2>1. main = "running" /\ main' = "running"
    BY <1>8 DEF HTTPServerConnection_work
  <2>2. Ownership' /\ Listeners' /\ SocketLivesWithObject'
    BY <1>8, <2>1, RunningParts, WorkOwnership DEF HTTPServerConnection_work, TableParts
  <2> QED
    BY <2>1, <2>2 DEF TableParts, BootTable, TasksOwnLiveConnections,
                      ListenerSurvives, Ownership, Listeners
<1>9. ASSUME NEW c \in Conns, HandlerCrash(c)
      PROVE  TableParts'
  BY <1>9 DEF HandlerCrash, KeepsObject, TableParts, BootTable,
              TasksOwnLiveConnections, SocketLivesWithObject, ListenerSurvives
<1>10. CASE Exit
  <2>1. HTTPServer \in Registered
    BY <1>10, ConstantFacts DEF Exit, ListenerSurvives, Registered
  <2> QED
    BY <1>10, <2>1 DEF Exit, connVars, TableParts, BootTable,
                       TasksOwnLiveConnections, SocketLivesWithObject,
                       ListenerSurvives
<1>11. CASE Clients
  <2>1. PICK c \in Conns : Connect(c) \/ Deliver(c) \/ Shut(c) \/ Reset(c)
    BY <1>11 DEF Clients
  <2>2. CASE Connect(c)
    BY <2>2 DEF Connect, smwVars, TableParts, BootTable, TasksOwnLiveConnections,
                SocketLivesWithObject, ListenerSurvives, Registered,
                TypeOK, ConnectionTypeOK
  <2>3. CASE Deliver(c) \/ Shut(c) \/ Reset(c)
    BY <1>2, <2>3 DEF Deliver, Shut, Reset, Peer, smwVars
  <2> QED
    BY <2>1, <2>2, <2>3
<1>12. CASE handle_sigint
  BY <1>2, <1>12 DEF handle_sigint, Stopped, smwVars, connVars
<1> QED
  BY <1>3, <1>4, <1>5, <1>6, <1>7, <1>8, <1>9, <1>10, <1>11, <1>12
     DEF Next, Process, Iteration

(* The invariant of the specification, which the theorems below are parts of. *)
LEMMA TableInvariant == Safety => []TableInv
<1>1. Init => TableInv
  BY InitTable
<1>2. TableInv /\ [Next]_vars => TableInv'
  BY NextTable
<1> QED
  BY <1>1, <1>2, PTL DEF Safety

-----------------------------------------------------------------------------
(***************************************************************************)
(* No callback ever runs on a freed connection, no two connections share a  *)
(* slot, and a disposal clears nobody else's slot, whatever the number of   *)
(* connections and of slots.                                                *)
(***************************************************************************)
THEOREM TableOwned == Safety => []TasksOwnLiveConnections
<1>1. TableInv => TasksOwnLiveConnections
  BY DEF TableInv
<1> QED
  BY <1>1, TableInvariant, PTL

(* A socket is open exactly while its connection object lives.              *)
THEOREM SocketsPaired == Safety => []SocketLivesWithObject
<1>1. TableInv => SocketLivesWithObject
  BY DEF TableInv
<1> QED
  BY <1>1, TableInvariant, PTL

(* The server's own two tasks are never displaced, and main ends its loop   *)
(* only after a SIGINT.                                                     *)
THEOREM ListenerKept == Safety => []ListenerSurvives
<1>1. TableInv => ListenerSurvives
  BY DEF TableInv
<1> QED
  BY <1>1, TableInvariant, PTL

-----------------------------------------------------------------------------
(***************************************************************************)
(* The process implements the abstract scheduler: in every step it          *)
(* registers an object that was not registered, calls one object back,      *)
(* which creates at most one task and destroys at most its own, or leaves   *)
(* the table alone.                                                         *)
(***************************************************************************)
LEMMA SchedulerStep ==
  ASSUME TableInv, [Next]_vars
  PROVE  [SmwNext]_smwVars
<1> USE DEF TableInv, TypeOK, SmwTypeOK, ConnectionTypeOK
<1>1. CASE UNCHANGED smwVars
  BY <1>1
<1>2. CASE Boot
  <2>1. \A i \in Slots : tasks[i] # TCPServer
    BY <1>2, ConstantFacts DEF Boot, HTTPServer_Initialize, tcpserver_listen, BootTable
  <2>2. main = "boot" => \A i \in Slots : tasks[i] # HTTPServer
    BY ConstantFacts DEF BootTable
  <2>3. cursor = MaxTasks /\ cursor' = cursor
    BY <1>2 DEF Boot, HTTPServer_Initialize, tcpserver_listen, BootTable
  <2>4. ASSUME NEW ctx \in Contexts \ Registered, NEW t \in Slots \cup {NULL},
               CreateTask(ctx, t)
        PROVE  [SmwNext]_smwVars
    <3>1. CASE t \in Slots
      BY <2>3, <2>4, <3>1 DEF Register, SmwNext
    <3>2. CASE t = NULL
      BY <2>3, <2>4, <3>2, CreateTaskOutcome, ConstantFacts DEF smwVars
    <3> QED
      BY <3>1, <3>2
  <2>5. CASE HTTPServer_Initialize
    BY <2>2, <2>4, <2>5, ConstantFacts DEF HTTPServer_Initialize, Registered
  <2>6. CASE tcpserver_listen
    BY <2>1, <2>3, <2>4, <2>6, ConstantFacts DEF tcpserver_listen, Registered, smwVars
  <2> QED
    BY <1>2, <2>5, <2>6 DEF Boot
<1>3. CASE \E d \in Elapsed : BeginSweep(d)
  BY <1>3 DEF BeginSweep, Sweep, SmwNext
<1>4. CASE Skip
  BY <1>4 DEF Skip, SmwNext
<1>5. CASE HTTPServer_work \/ NothingToAccept
  BY <1>5, ConstantFacts DEF HTTPServer_work, NothingToAccept, CallTask, SmwNext
<1>6. ASSUME NEW c \in Conns, tcpserver_accept(c)
      PROVE  SmwNext
  <2>1. PICK t \in Slots \cup {NULL} : CreateTask(c, t)
    BY <1>6 DEF tcpserver_accept, Initialize
  <2>2. c \in Contexts \ Registered
    BY <1>6, ConstantFacts
       DEF tcpserver_accept, Initialize, Registered, TasksOwnLiveConnections
  <2>3. Calls(TCPServer)
    BY <1>6 DEF tcpserver_accept
  <2>4. CASE t \in Slots
    BY <2>1, <2>2, <2>3, <2>4, ConstantFacts DEF CallTask, SmwNext
  <2>5. CASE t = NULL
    <3>1. tasks' = tasks
      BY <2>1, <2>2, <2>5, CreateTaskOutcome, ConstantFacts
    <3> QED
      BY <2>3, <3>1, ConstantFacts DEF CallTask, SmwNext
  <2> QED
    BY <2>4, <2>5
<1>7. ASSUME NEW c \in Conns, HTTPServerConnection_work(c)
      PROVE  SmwNext
  <2>1. /\ main = "running" /\ Calls(c)
        /\ KeepsObject \/ Dispose(c)
    BY <1>7, WorkOutcome DEF HTTPServerConnection_work
  <2>2. CASE KeepsObject
    BY <2>1, <2>2, ConstantFacts DEF KeepsObject, CallTask, SmwNext
  <2>3. CASE Dispose(c)
    <3>1. task[c] = cursor
      BY <2>1 DEF Calls, TasksOwnLiveConnections
    <3>2. DestroyTask(cursor)
      BY <2>3, <3>1 DEF Dispose
    <3> QED
      BY <2>1, <3>2, ConstantFacts DEF CallTask, SmwNext
  <2> QED
    BY <2>1, <2>2, <2>3
<1>8. ASSUME NEW c \in Conns, HandlerCrash(c)
      PROVE  SmwNext
  BY <1>8, ConstantFacts DEF HandlerCrash, InState, KeepsObject, CallTask, SmwNext
<1>9. CASE Exit
  BY <1>9 DEF Exit, DisposeAll, SmwNext
<1>10. CASE Clients \/ handle_sigint \/ Terminated
  BY <1>1, <1>10 DEF Clients, Connect, Deliver, Shut, Reset, Peer, handle_sigint,
                     Terminated, vars, smwVars
<1> QED
  BY <1>1, <1>2, <1>3, <1>4, <1>5, <1>6, <1>7, <1>8, <1>9, <1>10
     DEF Next, Process, Iteration, vars

(***************************************************************************)
(* Refinement: every step of main, of a callback and of a client is a step  *)
(* of the abstract scheduler, or leaves the task table and the loop index   *)
(* alone; no callback destroys a task but its own.                          *)
(***************************************************************************)
THEOREM SchedulerImplemented == Safety => ImplementsSmwSafety
<1>1. Init => SmwInit
  BY DEF Init
<1>2. TableInv /\ [Next]_vars => [SmwNext]_smwVars
  BY SchedulerStep
<1> QED
  BY <1>1, <1>2, TableInvariant, PTL DEF Safety, ImplementsSmwSafety, SmwSafety

=============================================================================
