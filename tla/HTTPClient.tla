------------------------------ MODULE HTTPClient ------------------------------
(***************************************************************************)
(* The HTTP client of libs/HTTP/HTTPClient.c on top of libs/TCPClient.c:    *)
(* requests that run as tasks of the scheduler beside each other, each over *)
(* a socket of its own.  Nothing in the server or the clients calls it yet. *)
(*                                                                          *)
(* Descriptors are numbers, and socket() returns the lowest one that is     *)
(* free, so a number that was closed comes back.  The sockets are blocking: *)
(* a step whose call would block is not enabled, and the sweep waits in it. *)
(* A request and its response are lengths.  A client is given one GET, and  *)
(* is disposed of between two sweeps or never.                              *)
(*                                                                          *)
(* The code leaves its buffer in two places, which extent shows: snprintf   *)
(* returns the length of the whole request, so one that does not fit is     *)
(* sent with what is behind the buffer, and the NUL behind an answer that   *)
(* fills the buffer is written behind it.                                   *)
(***************************************************************************)
EXTENDS Smw, FiniteSetsExt

CONSTANTS
  Requests,       \* the lengths of the texts that HTTPClient_GET formats
  Responses,      \* the lengths of what servers answer
  BufferCap,      \* 4096
  Descriptors     \* the numbers that socket() may return

ClientAssumption ==
  /\ Requests \subseteq Nat \ {0}
  /\ Responses \subseteq Nat
  /\ BufferCap \in Nat \ {0}
  /\ Descriptors \subseteq Nat
  /\ IsFiniteSet(Contexts)

VARIABLES
  state,   \* client->state; "none" before GET, "freed" after the disposal
  task,    \* client->task
  asked,   \* history: the length of the request
  length,  \* what is left to send
  filled,  \* bufferPtr - buffer while receiving
  extent,  \* history: the octets of the buffer that were read or written,
           \* from its first to the last one
  fd,      \* client_socket
  open,    \* whose connection each descriptor is, NULL: it is closed
  peer     \* the server of each connection: what it got, what it has to
           \* send, and whether it has closed

clientVars == <<state, task, asked, length, filled, extent, fd, open, peer>>

allVars == <<smwVars, clientVars>>

Clients == Contexts

NoSocket == -1

(* Whose connection the descriptor of a client leads to.                    *)
Reaches(c) == IF fd[c] = NoSocket THEN NULL ELSE open[fd[c]]

Larger(m, n) == IF m > n THEN m ELSE n

Smaller(m, n) == IF m < n THEN m ELSE n

FreeDescriptors == {d \in Descriptors : open[d] = NULL}

ClientInit ==
  /\ SmwInit
  /\ state = [c \in Clients |-> "none"]
  /\ task = [c \in Clients |-> NULL]
  /\ asked = [c \in Clients |-> 0]
  /\ length = [c \in Clients |-> 0]
  /\ filled = [c \in Clients |-> 0]
  /\ extent = [c \in Clients |-> 0]
  /\ fd = [c \in Clients |-> NoSocket]
  /\ open = [d \in Descriptors |-> NULL]
  /\ peer \in [Clients -> {[got |-> 0, left |-> n, closed |-> FALSE] :
                              n \in Responses}]

-----------------------------------------------------------------------------
(* HTTPClient_GET.  snprintf writes no more than the buffer holds and tells *)
(* the length of it all.  A NULL of smw_create_task is stored like any      *)
(* task: the client is then never called.                                   *)
HTTPClient_GET(c) ==
  /\ cursor = MaxTasks
  /\ state[c] = "none"
  /\ \E t \in Slots \cup {NULL} :
       CreateTask(c, t) /\ task' = [task EXCEPT ![c] = t]
  /\ state' = [state EXCEPT ![c] = "Connect"]
  /\ \E n \in Requests :
       /\ asked' = [asked EXCEPT ![c] = n]
       /\ length' = [length EXCEPT ![c] = n]
       /\ extent' = [extent EXCEPT ![c] = Smaller(n + 1, BufferCap)]
  /\ UNCHANGED <<cursor, filled, fd, open, peer>>

(* HTTPClient_Dispose_s: the socket is left to whoever closed it or not.    *)
HTTPClient_Dispose(c) ==
  /\ cursor = MaxTasks
  /\ state[c] \notin {"none", "freed"}
  /\ IF task[c] = NULL THEN tasks' = tasks ELSE DestroyTask(task[c])
  /\ state' = [state EXCEPT ![c] = "freed"]
  /\ UNCHANGED <<cursor, task, asked, length, filled, extent, fd, open, peer>>

-----------------------------------------------------------------------------
(* The cases of HTTPClient_Work but Init, which GET has left behind before  *)
(* it creates the task.  tcp_connect: a name that cannot be resolved or a   *)
(* connection that is refused is tried again in every sweep.                *)
Connect(c) ==
  /\ Calls(c) /\ state[c] = "Connect"
  /\ \/ \E d \in FreeDescriptors :
          /\ \A e \in FreeDescriptors : d <= e
          /\ open' = [open EXCEPT ![d] = c]
          /\ fd' = [fd EXCEPT ![c] = d]
          /\ state' = [state EXCEPT ![c] = "Transmit"]
     \/ UNCHANGED <<state, fd, open>>
  /\ UNCHANGED <<tasks, task, asked, length, filled, extent, peer>>

(* A call reads or writes the first n octets of the buffer, or some of them.*)
Touches(c, n) == extent' = [extent EXCEPT ![c] = Larger(@, n)]

(* Mutant: the first send counts as the whole request.                      *)
AfterSend_Blind(c, n) ==
  /\ length' = [length EXCEPT ![c] = @ - n]
  /\ state' = [state EXCEPT ![c] = "Receive"]
  /\ UNCHANGED filled

AfterSend(c, n) ==
  /\ length' = [length EXCEPT ![c] = @ - n]
  /\ IF length[c] - n <= 0
     THEN /\ state' = [state EXCEPT ![c] = "Receive"]
          /\ filled' = [filled EXCEPT ![c] = 0]
     ELSE UNCHANGED <<state, filled>>

(* A part of the request goes to whoever the descriptor is connected to,    *)
(* the request ending asked octets from the start of the buffer; an error,  *)
(* a closed descriptor among them, leaves everything as it was.             *)
Transmit(c) ==
  /\ Calls(c) /\ state[c] = "Transmit"
  /\ LET other == Reaches(c) IN
     IF other = NULL
     THEN UNCHANGED <<peer, length, state, filled, extent>>
     ELSE \/ \E n \in 1 .. length[c] :
               /\ peer' = [peer EXCEPT ![other].got = @ + n]
               /\ AfterSend(c, n)
               /\ Touches(c, asked[c] - (length[c] - n))
          \/ /\ peer[other].closed
             /\ UNCHANGED <<peer, length, state, filled, extent>>
  /\ UNCHANGED <<tasks, task, asked, fd, open>>

Room(c) == BufferCap - filled[c]

(* recv of n > 0 bytes of the answer.                                       *)
ReceivePart(c) ==
  /\ Calls(c) /\ state[c] = "Receive"
  /\ Reaches(c) # NULL
  /\ \E n \in 1 .. Room(c) :
       /\ n <= peer[Reaches(c)].left
       /\ peer' = [peer EXCEPT ![Reaches(c)].left = @ - n]
       /\ filled' = [filled EXCEPT ![c] = @ + n]
       /\ Touches(c, filled[c] + n)
  /\ UNCHANGED <<tasks, task, asked, state, length, fd, open>>

(* recv returns 0 at the end of the answer, and when it has data for a full *)
(* buffer; a NUL is then put behind what has come.                          *)
ReturnsZero(c) ==
  /\ Reaches(c) # NULL
  /\ \/ Room(c) = 0 /\ peer[Reaches(c)].left > 0
     \/ peer[Reaches(c)].closed
  /\ Touches(c, filled[c] + 1)

(* Any error but EAGAIN, which a blocking socket does not give, ends it,    *)
(* too: the descriptor is closed, or the server has broken off.             *)
ReturnsError(c) ==
  /\ Reaches(c) # NULL => peer[Reaches(c)].closed
  /\ UNCHANGED extent

ReceiveEnd(c) ==
  /\ Calls(c) /\ state[c] = "Receive"
  /\ ReturnsZero(c) \/ ReturnsError(c)
  /\ state' = [state EXCEPT ![c] = "Close"]
  /\ UNCHANGED <<tasks, task, asked, length, filled, fd, open, peer>>

(* tcp_disconnect: the descriptor is closed in this and every later call,   *)
(* whoever it belongs to by then.                                           *)
Close(c) ==
  /\ Calls(c) /\ state[c] = "Close"
  /\ open' = [open EXCEPT ![fd[c]] = NULL]
  /\ UNCHANGED <<tasks, task, state, asked, length, filled, extent, fd, peer>>

HTTPClient_Work(c) ==
  Connect(c) \/ Transmit(c) \/ ReceivePart(c) \/ ReceiveEnd(c) \/ Close(c)

-----------------------------------------------------------------------------
BeginSweep == Registered # {} /\ BeginSmwWork /\ UNCHANGED <<tasks, clientVars>>

Skip == SkipFreeSlot /\ UNCHANGED clientVars

(* A server that has sent all of its answer to a whole request closes       *)
(* (Connection: close); it may also break off at any time.                  *)
PeerCloses(c) ==
  /\ \E d \in Descriptors : open[d] = c
  /\ ~peer[c].closed
  /\ peer' = [peer EXCEPT ![c].closed = TRUE]
  /\ UNCHANGED <<smwVars, state, task, asked, length, filled, extent, fd, open>>

Process ==
  \/ BeginSweep \/ Skip
  \/ \E c \in Clients : HTTPClient_Work(c)

ClientNext ==
  \/ Process
  \/ \E c \in Clients :
       HTTPClient_GET(c) \/ HTTPClient_Dispose(c) \/ PeerCloses(c)

ClientSpec == ClientInit /\ [][ClientNext]_allVars

-----------------------------------------------------------------------------
(* Types; what was received fits in the buffer.                             *)
ClientTypeOK ==
  /\ state \in [Clients -> {"none", "Connect", "Transmit", "Receive",
                            "Close", "freed"}]
  /\ task \in [Clients -> Slots \cup {NULL}]
  /\ asked \in [Clients -> Requests \cup {0}]
  /\ length \in [Clients -> Nat]
  /\ \A c \in Clients : length[c] <= asked[c]
  /\ filled \in [Clients -> 0 .. BufferCap]
  /\ extent \in [Clients -> Nat]
  /\ fd \in [Clients -> Descriptors \cup {NoSocket}]
  /\ open \in [Descriptors -> Clients \cup {NULL}]
  /\ peer \in [Clients -> [got : Nat, left : Nat, closed : BOOLEAN]]

(* The sum of a number of every client.                                     *)
Total(f) == MapThenSumSet(LAMBDA c : f[c], Clients)

Sent == [c \in Clients |-> asked[c] - length[c]]

Got == [c \in Clients |-> peer[c].got]

(* Another client has had or has a connection with the same number.         *)
Shares(c) ==
  fd[c] # NoSocket /\ \E d \in Clients \ {c} : fd[d] = fd[c]

(* The buffer is left only by a request that does not fit in it and by the  *)
(* NUL behind an answer that fills it.                                      *)
StaysInBuffer(c) ==
  extent[c] > BufferCap =>
    \/ asked[c] > BufferCap /\ extent[c] <= Larger(asked[c], BufferCap + 1)
    \/ /\ filled[c] = BufferCap /\ state[c] \in {"Close", "freed"}
       /\ extent[c] = BufferCap + 1

(***************************************************************************)
(* However a request is cut by the sends and whatever the other clients do  *)
(* between them, its server gets as many octets as the client has counted   *)
(* off, and none is left when the client turns to the response.  A client   *)
(* whose descriptor has been another's may send to the server of that one:  *)
(* then it holds of all of them together.  What is received fits in the     *)
(* buffer, which is left in the two places that StaysInBuffer names.        *)
(***************************************************************************)
RequestsAreSentOnce ==
  /\ ClientTypeOK
  /\ \A c \in Clients :
       /\ ~Shares(c) => Got[c] = Sent[c]
       /\ state[c] \in {"Receive", "Close"} => length[c] = 0
       /\ StaysInBuffer(c)
  /\ Total(Got) = Total(Sent)

=============================================================================
