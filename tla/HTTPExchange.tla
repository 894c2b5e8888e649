---------------------------- MODULE HTTPExchange ----------------------------
(***************************************************************************)
(* What an HTTP exchange of the weather server is to somebody who knows     *)
(* neither its states, its buffers, its timer nor its task table: a client  *)
(* waits to be accepted, is served, gets a reply of some length in some     *)
(* number of parts or none at all, and its connection is closed, once.      *)
(* Module WeatherServer is checked, and proved, to implement it.            *)
(***************************************************************************)
EXTENDS Integers

CONSTANT Conns

VARIABLES
  phase,     \* "absent", "queued", "serving", "replying" or "closed"
  servable,  \* the request has a handler, for ever the same
  heard,     \* the whole request has been read
  left,      \* how much of the reply is still to be sent
  sent,      \* how much was
  broken,    \* the client broke the connection
  up         \* the process runs

xvars == <<phase, servable, heard, left, sent, broken, up>>

Init ==
  /\ phase = [c \in Conns |-> "absent"]
  /\ servable \in [Conns -> BOOLEAN]
  /\ heard = [c \in Conns |-> FALSE]
  /\ left = [c \in Conns |-> 0]
  /\ sent = [c \in Conns |-> 0]
  /\ broken = [c \in Conns |-> FALSE]
  /\ up = TRUE

Moves(c, from, to) ==
  /\ up
  /\ phase[c] = from
  /\ phase' = [phase EXCEPT ![c] = to]

Arrive(c) ==
  /\ Moves(c, "absent", "queued")
  /\ UNCHANGED <<servable, heard, left, sent, broken, up>>

Accept(c) ==
  /\ Moves(c, "queued", "serving")
  /\ UNCHANGED <<servable, heard, left, sent, broken, up>>

Hear(c) ==
  /\ up
  /\ phase[c] = "serving"
  /\ ~heard[c]
  /\ heard' = [heard EXCEPT ![c] = TRUE]
  /\ UNCHANGED <<phase, servable, left, sent, broken, up>>

(* Nothing is ever replied to half a request, or to one without handler.    *)
BeginReply(c) ==
  /\ Moves(c, "serving", "replying")
  /\ heard[c]
  /\ servable[c]
  /\ left'[c] \in Nat \ {0}
  /\ left' = [left EXCEPT ![c] = left'[c]]
  /\ UNCHANGED <<servable, heard, sent, broken, up>>

(* Every part is taken off what is left, and nothing reaches a client that  *)
(* broke the connection.                                                    *)
Send(c) ==
  /\ up
  /\ phase[c] = "replying"
  /\ ~broken[c]
  /\ left'[c] \in 0 .. left[c] - 1
  /\ left' = [left EXCEPT ![c] = left'[c]]
  /\ sent' = [sent EXCEPT ![c] = @ + left[c] - left'[c]]
  /\ UNCHANGED <<phase, servable, heard, broken, up>>

Closes(c, from) ==
  /\ Moves(c, from, "closed")
  /\ heard' = [heard EXCEPT ![c] = FALSE]
  /\ left' = [left EXCEPT ![c] = 0]
  /\ UNCHANGED <<servable, sent, broken, up>>

(* A reply that has begun is sent to its end, or until the client breaks.   *)
Finish(c) ==
  /\ left[c] = 0 \/ broken[c]
  /\ Closes(c, "replying")

(* Given up without a byte: never once a servable request was heard.        *)
Drop(c) ==
  /\ ~(heard[c] /\ servable[c]) \/ broken[c]
  /\ Closes(c, "serving")

Break(c) ==
  /\ up
  /\ phase[c] \in {"queued", "serving", "replying"}
  /\ broken' = [broken EXCEPT ![c] = TRUE]
  /\ UNCHANGED <<phase, servable, heard, left, sent, up>>

Stop ==
  /\ up
  /\ up' = FALSE
  /\ UNCHANGED <<phase, servable, heard, left, sent, broken>>

Step(c) ==
  \/ Arrive(c)
  \/ Accept(c)
  \/ Hear(c)
  \/ BeginReply(c)
  \/ Send(c)
  \/ Finish(c)
  \/ Drop(c)
  \/ Break(c)

Next == (\E c \in Conns : Step(c)) \/ Stop

XSafety == Init /\ [][Next]_xvars

(***************************************************************************)
(* A client is accepted, and a reply that has begun ends, unless the        *)
(* process stops first.  Nothing is promised of a client that is slow to    *)
(* send its request.  (Stated without ENABLED, which TLC cannot evaluate    *)
(* under a refinement mapping.)                                             *)
(***************************************************************************)
Progress(c, at) == phase[c] = at ~> phase[c] # at \/ ~up

XSpec ==
  /\ XSafety
  /\ \A c \in Conns : Progress(c, "queued") /\ Progress(c, "replying")

=============================================================================
