---------------------------- MODULE WeatherServer ----------------------------
(***************************************************************************)
(* The server process: main of server/src/main.c, the two long-lived tasks  *)
(* (HTTPServer, TCPServer), the connections, and the clients they talk to.  *)
(*                                                                          *)
(* The process has one thread.  Its interleaving with the rest of the world *)
(* is what is modelled here: between any two callbacks of a sweep, clients  *)
(* connect, send, close or break their connections, and a SIGINT may come.  *)
(***************************************************************************)
EXTENDS HTTPServerConnection

CONSTANTS
  HTTPServer,   \* the context of the first task
  TCPServer,    \* the context of the second one, the listening socket
  Elapsed,      \* how far the clock may move from one sweep to the next
  Upstream      \* what the remote weather APIs answer, {"json", "notJSON"}

ASSUME ServerAssumption ==
  /\ HTTPServer # TCPServer
  /\ {HTTPServer, TCPServer} \cap Conns = {}
  /\ Contexts = Conns \cup {HTTPServer, TCPServer}
  /\ MaxTasks >= 2
  /\ Elapsed \subseteq Nat
  /\ Upstream \subseteq {"json", "notJSON"}

VARIABLES
  main,       \* where main is: "boot", "listen", "running", "exited", "crashed"
  shutdown    \* the flag that handle_sigint sets

vars == <<smwVars, connVars, main, shutdown>>

Stopped == main \in {"exited", "crashed"}

-----------------------------------------------------------------------------
Init ==
  /\ SmwInit
  /\ heap   = [c \in Conns |-> "none"]
  /\ task   = [c \in Conns |-> NULL]
  /\ socket = [c \in Conns |-> "none"]
  /\ conn   = [c \in Conns |-> NewFields]
  /\ net \in [Conns -> {[request |-> r, arrived |-> 0, peer |-> "open",
                         sent |-> 0] : r \in Requests}]
  /\ main = "boot"
  /\ shutdown = FALSE

(***************************************************************************)
(* WeatherServer_Initialize, by way of HTTPServer_Initialize: the task of   *)
(* the HTTP server, then tcpserver_listen, whose failure nobody looks at.   *)
(***************************************************************************)
HTTPServer_Initialize ==
  /\ main = "boot"
  /\ \E t \in Slots \cup {NULL} : CreateTask(HTTPServer, t)
  /\ main' = "listen"
  /\ UNCHANGED <<cursor, connVars, shutdown>>

tcpserver_listen ==
  /\ main = "listen"
  /\ \/ \E t \in Slots \cup {NULL} : CreateTask(TCPServer, t)
     \/ tasks' = tasks
  /\ main' = "running"
  /\ UNCHANGED <<cursor, connVars, shutdown>>

(***************************************************************************)
(* The loop of main: the clock is read once per sweep, so that is when the  *)
(* armed timers of the connections grow older.                              *)
(***************************************************************************)
Armed(c) == heap[c] = "live" /\ conn[c].timeout # Off

Aged(c, d) == [conn[c] EXCEPT !.timeout = MinOf(@ + d, TimeoutMs)]

BeginSweep(d) ==
  /\ main = "running"
  /\ ~shutdown
  /\ Registered # {}
  /\ BeginSmwWork
  /\ conn' = [c \in Conns |-> IF Armed(c) THEN Aged(c, d) ELSE conn[c]]
  /\ UNCHANGED <<tasks, heap, task, socket, net, main, shutdown>>

(* Mutant: the handler of SIGINT disposes of everything itself.             *)
Exit_FromHandler ==
  /\ main = "running"
  /\ shutdown \/ Registered = {}
  /\ ClearTasks
  /\ main' = "exited"
  /\ UNCHANGED <<cursor, connVars, shutdown>>

(* WeatherServer_Dispose, smw_dispose and the return of main.  Connections  *)
(* that are being served are left to the operating system.                  *)
Exit ==
  /\ main = "running"
  /\ cursor = MaxTasks
  /\ shutdown \/ Registered = {}
  /\ ClearTasks
  /\ main' = "exited"
  /\ UNCHANGED <<cursor, connVars, shutdown>>

-----------------------------------------------------------------------------
(* The iterations of the loop of smw_work.                                  *)
Skip ==
  /\ main = "running"
  /\ SkipFreeSlot
  /\ UNCHANGED <<connVars, main, shutdown>>

HTTPServer_work ==
  /\ main = "running"
  /\ Calls(HTTPServer)
  /\ UNCHANGED <<tasks, connVars, main, shutdown>>

(* tcpserver_work: at most one client is accepted per sweep.                *)
Waiting == {c \in Conns : socket[c] = "backlog"}

tcpserver_accept(c) ==
  /\ main = "running"
  /\ Calls(TCPServer)
  /\ c \in Waiting
  /\ Initialize(c)
  /\ UNCHANGED <<main, shutdown>>

(* Mutant: the listening socket is left blocking, so accept never returns.  *)
NothingToAccept_Blocks == FALSE

NothingToAccept ==
  /\ main = "running"
  /\ Calls(TCPServer)
  /\ Waiting = {}
  /\ UNCHANGED <<tasks, connVars, main, shutdown>>

HTTPServerConnection_work(c) ==
  /\ main = "running"
  /\ Work(c)
  /\ UNCHANGED <<main, shutdown>>

(***************************************************************************)
(* GEO_ParseResponse and Meteo_ParseResponse leave parsed_response NULL     *)
(* when the answer is no JSON, and the handler calls strdup of it.          *)
(***************************************************************************)
HandlerCrash(c) ==
  /\ main = "running"
  /\ "notJSON" \in Upstream
  /\ InState(c, "Handlers")
  /\ main' = "crashed"
  /\ KeepsObject /\ UNCHANGED <<conn, net, shutdown>>

-----------------------------------------------------------------------------
(* The clients, and the user at the terminal.                               *)
Listening == main = "running" /\ TCPServer \in Registered

Connect(c) ==
  /\ Listening
  /\ socket[c] = "none"
  /\ socket' = [socket EXCEPT ![c] = "backlog"]
  /\ UNCHANGED <<smwVars, heap, task, conn, net, main, shutdown>>

Attached(c) ==
  /\ main = "running"
  /\ socket[c] \in {"backlog", "open"}

Peer(c, new) ==
  /\ net' = [net EXCEPT ![c] = new]
  /\ UNCHANGED <<smwVars, heap, task, socket, conn, main, shutdown>>

(* A segment of any length; nothing follows the blank line of the request.  *)
Deliver(c) ==
  /\ Attached(c)
  /\ net[c].peer = "open"
  /\ \E n \in 1 .. net[c].request.hdr - net[c].arrived :
       Peer(c, [net[c] EXCEPT !.arrived = @ + n])

Shut(c) ==
  /\ Attached(c)
  /\ net[c].peer = "open"
  /\ Peer(c, [net[c] EXCEPT !.peer = "shut"])

Reset(c) ==
  /\ Attached(c)
  /\ net[c].peer # "reset"
  /\ Peer(c, [net[c] EXCEPT !.peer = "reset"])

handle_sigint ==
  /\ ~Stopped
  /\ ~shutdown
  /\ shutdown' = TRUE
  /\ UNCHANGED <<smwVars, connVars, main>>

(* The process is gone: nothing happens any more.                           *)
Terminated ==
  /\ Stopped
  /\ UNCHANGED vars

-----------------------------------------------------------------------------
Boot == HTTPServer_Initialize \/ tcpserver_listen

Iteration ==
  \/ Skip
  \/ HTTPServer_work
  \/ NothingToAccept
  \/ \E c \in Conns :
       \/ tcpserver_accept(c)
       \/ HTTPServerConnection_work(c)
       \/ HandlerCrash(c)

Process ==
  \/ Boot
  \/ \E d \in Elapsed : BeginSweep(d)
  \/ Iteration
  \/ Exit

Clients ==
  \E c \in Conns : Connect(c) \/ Deliver(c) \/ Shut(c) \/ Reset(c)

Next == Process \/ Clients \/ handle_sigint \/ Terminated

Safety == Init /\ [][Next]_vars

(***************************************************************************)
(* The process keeps running, and its clock does not stand still: of        *)
(* infinitely many sweeps, infinitely many begin at a later time than the   *)
(* one before.  Nothing is assumed of the clients.                          *)
(***************************************************************************)
Fairness ==
  /\ WF_vars(Process)
  /\ SF_vars(\E d \in Elapsed \ {0} : BeginSweep(d))

Spec == Safety /\ Fairness

-----------------------------------------------------------------------------
(* Types.                                                                   *)
TypeOK ==
  /\ SmwTypeOK
  /\ ConnectionTypeOK
  /\ main   \in {"boot", "listen", "running", "exited", "crashed"}
  /\ shutdown \in BOOLEAN

(***************************************************************************)
(* A callback never runs on a freed object, and no two objects believe they *)
(* own the same slot: while the process runs, every connection in the task  *)
(* table is live and its task field is that slot, and every task field is a *)
(* slot that holds the object.  (smw_work passes the context on unchecked,  *)
(* and HTTPServerConnection_Dispose clears whatever slot task points to.)   *)
(***************************************************************************)
TasksOwnLiveConnections ==
  main # "exited" =>
    /\ \A i \in Slots :
         tasks[i] \in Conns => heap[tasks[i]] = "live" /\ task[tasks[i]] = i
    /\ \A c \in Conns :
         task[c] # NULL => heap[c] = "live" /\ tasks[task[c]] = c

(* A socket is open exactly as long as its object lives: none is leaked by  *)
(* the disposal of its connection, none is used after its close.            *)
SocketLivesWithObject ==
  \A c \in Conns : socket[c] = "open" <=> heap[c] = "live"

(* The first two slots stay with the HTTP server and the listening socket,  *)
(* however connections come and go in the others, so that main leaves its   *)
(* loop only because of a SIGINT.                                           *)
ListenerSurvives ==
  /\ main = "running" =>
       /\ tasks[0] = HTTPServer
       /\ tasks[1] = TCPServer \/ TCPServer \notin Registered
  /\ main = "exited" => shutdown

(***************************************************************************)
(* A client that gets bytes has sent the whole of a request that was        *)
(* accepted and has a handler; nothing is sent early, and nothing to the    *)
(* wrong socket.                                                            *)
(***************************************************************************)
Servable(c) ==
  /\ net[c].request.hdr <= RecvCap
  /\ HeaderAccepted(net[c].request)
  /\ net[c].request.kind = "route"

RepliesFollowRequests ==
  \A c \in Conns :
    net[c].sent > 0 => Servable(c) /\ net[c].arrived = net[c].request.hdr

(* A connection whose request was read and can be served is only given up   *)
(* when all of the response is sent or the client broke the connection.     *)
AnsweredInFull ==
  \A c \in Conns :
    /\ conn[c].state = "Cleanup"
    /\ Servable(c)
    /\ Complete(c, conn[c].recvLength)
    /\ net[c].peer # "reset"
    => /\ conn[c].response # NoBody
       /\ net[c].sent = HeadLen + conn[c].response

(* The timeout only ever hits a client that had sent nothing before its     *)
(* timer expired (the bytes of the very read that found it expired do not   *)
(* save it), that closed its side, or that filled the buffer without ending *)
(* its header.                                                              *)
TimeoutHitsOnlyTheSilent ==
  [][\A c \in Conns :
       conn[c].state = "Read" /\ conn'[c].state = "Timeout" =>
         \/ conn[c].recvLength \in {0, RecvCap}
         \/ net[c].peer # "open"]_vars

(* A request that is complete in the kernel when the timer expires is read  *)
(* and served: the late answer wins over the timeout.                       *)
TimeoutSparesCompleteRequest ==
  [][\A c \in Conns :
       conn[c].state = "Read" /\ conn'[c].state = "Timeout" =>
         \/ ~Complete(c, net[c].arrived)
         \/ net[c].request.hdr > RecvCap]_vars

(* The process as a scheduler: it implements the abstract one of Smw.       *)
ImplementsSmwSafety == SmwSafety

ImplementsSmw == SmwSpec

(***************************************************************************)
(* The process as a server: for every client it implements the abstract     *)
(* exchange.  An object with a body whose response was formatted is         *)
(* replying, down to its disposal.                                          *)
(***************************************************************************)
Replying(c) ==
  conn[c].response # NoBody /\ conn[c].state \in {"SendResponse", "Cleanup"}

PhaseOf(c) ==
  IF socket[c] = "open"
    THEN IF Replying(c) THEN "replying" ELSE "serving"
    ELSE [none |-> "absent", backlog |-> "queued", closed |-> "closed"][socket[c]]

Abstract ==
  INSTANCE HTTPExchange WITH
    phase    <- [c \in Conns |-> PhaseOf(c)],
    servable <- [c \in Conns |-> Servable(c)],
    heard    <- [c \in Conns |-> Complete(c, conn[c].recvLength)],
    left     <- [c \in Conns |-> conn[c].response_length],
    sent     <- [c \in Conns |-> net[c].sent],
    broken   <- [c \in Conns |-> net[c].peer = "reset"],
    up       <- ~Stopped

(* A reply only ever begins for a servable request that was read whole, is  *)
(* taken apart without loss, and ends whole or with a broken client.        *)
ImplementsExchangeSafety == Abstract!XSafety

(* The same with its liveness: accepted in the end, replied to the end.     *)
ImplementsExchange == Abstract!XSpec

(* A request that can be served is answered once it has all arrived, unless *)
(* its client breaks the connection.                                        *)
RequestIsAnswered ==
  \A c \in Conns :
    /\ task[c] # NULL
    /\ conn[c].state = "Read"
    /\ Servable(c)
    /\ Complete(c, net[c].arrived)
    ~> net[c].sent > 0 \/ net[c].peer = "reset" \/ Stopped

(***************************************************************************)
(* A connection that has a task disposes itself, unless it is stalled for   *)
(* ever: bytesReadOut still holds the size of the last segment, and no more *)
(* bytes and no close arrive.                                               *)
(***************************************************************************)
Stalled(c) ==
  /\ conn[c].state = "Read"
  /\ conn[c].bytesReadOut > 0
  /\ net[c].peer = "open"
  /\ net[c].arrived = conn[c].recvLength

Disposed(c) == heap[c] = "freed" \/ Stopped

ConnectionDisposesItself ==
  \A c \in Conns :
    []<>~Stalled(c) => (task[c] # NULL ~> Disposed(c))

(* A SIGINT stops the process, whatever its connections are doing.          *)
SigintStops == shutdown ~> Stopped

-----------------------------------------------------------------------------
(***************************************************************************)
(* What comments and documents say, and the code does not do: each of these *)
(* is the property of a run that finds it violated.                         *)
(***************************************************************************)

(* HTTPServerConnection.h:67, "HTTPServerConnection disposes itself", of a  *)
(* connection that is not stalled.                                          *)
AcceptedDisposesItself ==
  \A c \in Conns :
    []<>~Stalled(c) => (heap[c] = "live" ~> Disposed(c))

(* The same line, of a connection that has a task.                          *)
ServedDisposesItself ==
  \A c \in Conns : task[c] # NULL ~> Disposed(c)

(* HTTPServerConnection.h:27, "Sends respose to client", of the two errors  *)
(* the connection sets and HTTPResponse_Format has a status text for.       *)
ErrorsAreSent ==
  \A c \in Conns :
    /\ conn[c].state = "Cleanup"
    /\ conn[c].status \in {404, 408}
    /\ net[c].peer # "reset"
    => net[c].sent > 0

=============================================================================
