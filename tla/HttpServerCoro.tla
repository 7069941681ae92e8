--------------------------- MODULE HttpServerCoro ---------------------------
(***************************************************************************)
(* The coroutine server (src/src/core/coro/http_server_coro.cpp): one      *)
(* accept loop, and the connections it has started.  The loop is a         *)
(* coroutine with one try block around it, so its first error is its last. *)
(***************************************************************************)
EXTENDS HttpConnection, FiniteSets

CONSTANT MaxDescriptors     \* bound: the largest limit considered

ASSUME MaxDescriptorsAssumption == MaxDescriptors \in Nat \ {0}

VARIABLES
  accepting,            \* the accept loop
  limit                 \* how many connections the process has descriptors for

vars == <<connVars, accepting, limit>>

TypeOK ==
  /\ ConnTypeOK
  /\ pc \in [Clients -> Places]
  /\ accepting \in {"running", "ended"}
  /\ limit \in 1 .. MaxDescriptors

Init ==
  /\ ConnInit
  /\ accepting = "running"
  /\ limit \in 1 .. MaxDescriptors

Waiting(c) == client[c] # "away" /\ pc[c] = "none"
OpenSockets == {c \in Clients : pc[c] \notin {"none", "ended"}}

-----------------------------------------------------------------------------
(* async_accept returns a socket, whose DetectSession is started.          *)
Accept_OneByOne(c) ==
  /\ accepting = "running"
  /\ Waiting(c)
  /\ OpenSockets = {}
  /\ client[c] # "reset"
  /\ Goto(c, "detect")
  /\ UNCHANGED <<clientVars, taken, m_buffer, req, replies, accepting, limit>>

Accept(c) ==
  /\ accepting = "running"
  /\ Waiting(c)
  /\ Cardinality(OpenSockets) < limit
  /\ client[c] # "reset"
  /\ Goto(c, "detect")
  /\ UNCHANGED <<clientVars, taken, m_buffer, req, replies, accepting, limit>>

(* The client has reset the connection before get_ip_port asked for its    *)
(* address: the exception ends the loop.                                   *)
AcceptReset(c) ==
  /\ accepting = "running"
  /\ Waiting(c)
  /\ Cardinality(OpenSockets) < limit
  /\ client[c] = "reset"
  /\ Goto(c, "ended")
  /\ accepting' = "ended"
  /\ UNCHANGED <<clientVars, taken, m_buffer, req, replies, limit>>

(* async_accept fails, because the process has no descriptor left.         *)
AcceptFails ==
  /\ accepting = "running"
  /\ \E c \in Clients : Waiting(c)
  /\ Cardinality(OpenSockets) >= limit
  /\ accepting' = "ended"
  /\ UNCHANGED <<connVars, limit>>

AcceptStep == AcceptFails \/ \E c \in Clients : Accept(c) \/ AcceptReset(c)

Next ==
  \/ AcceptStep
  \/ \E c \in Clients : (ClientStep(c) \/ SessionStep(c)) /\ UNCHANGED <<accepting, limit>>

Spec == Init /\ [][Next]_vars

(***************************************************************************)
(* The threads in run() resume every coroutine that can go on.  Handlers   *)
(* come to an end: they wait for nothing but the database pool, which      *)
(* answers.  Nothing is assumed of the clients.                            *)
(***************************************************************************)
FairSpec ==
  /\ Spec
  /\ WF_vars(AcceptStep)
  /\ \A c \in Clients : WF_vars(SessionStep(c) /\ UNCHANGED <<accepting, limit>>)

-----------------------------------------------------------------------------
(***************************************************************************)
(* Properties.                                                             *)
(***************************************************************************)

Over == {c \in Clients : pc[c] \in {"close", "upgraded", "ended"}}

(* Requests are answered in order, once, and not beyond the one that ends  *)
(* the connection, although the session that answers the second is not the *)
(* one that read the first, and requests may wait in the buffer that is    *)
(* handed over (detect_session.cpp:57, http_session_coro.cpp:112-130).     *)
RR == INSTANCE RequestReply WITH over <- Over
ImplementsRequestReply == RR!RRSpec

(* A client that keeps reading gets an answer to every request it has      *)
(* sent, unless its connection ends before.  Neither the other connections *)
(* nor the end of the accept loop stop that.                               *)
Served ==
  \A c \in Clients :
    []<>(unread[c] = 0)
      => \A i \in 1 .. MaxRequests :
           (i \in DOMAIN sent[c] /\ pc[c] # "none")
             ~> (i <= Len(replies[c]) \/ pc[c] \in {"upgraded", "ended"})

(* A connection whose client is gone gives its socket back: always after a *)
(* reset, and after the end of the stream if the replies are read.  There  *)
(* are no timeouts, so it is the only way in which sockets come back.      *)
Released ==
  \A c \in Clients :
    /\ (client[c] = "reset" /\ pc[c] # "none") ~> (pc[c] \in {"upgraded", "ended"})
    /\ []<>(unread[c] = 0)
         => (client[c] = "eof" /\ pc[c] # "none")
              ~> (pc[c] \in {"upgraded", "ended"})

(* As long as the loop lives, whoever connects is accepted: one session    *)
(* that is slow does not keep the loop from the next client.               *)
Accepted ==
  \A c \in Clients : Waiting(c) ~> (pc[c] # "none" \/ accepting = "ended")

=============================================================================
