-------------------------- MODULE HttpServerAsync --------------------------
(***************************************************************************)
(* The callback server (src/src/core/async): an HttpSession reads a        *)
(* request in the io_context, has it handled by a pool of worker threads,  *)
(* which also starts the write, and goes on when the write has completed.  *)
(*                                                                         *)
(* No handler of the io_context catches anything: what one of them throws  *)
(* leaves a thread of run() and takes the process down.                    *)
(***************************************************************************)
EXTENDS HttpStream, FiniteSets

CONSTANT Workers            \* the number of threads in m_workers_pool

ASSUME WorkersAssumption == Workers \in Nat \ {0}

VARIABLES
  m_workers_pool,           \* the requests that wait for a worker, by client
  process                   \* "running" or "crashed"

vars == <<connVars, m_workers_pool, process>>

up == process = "running"

(***************************************************************************)
(* "posted": the request waits for a worker; "handle": a worker runs its   *)
(* handler; "write": the write is under way; "written": it has completed,  *)
(* and its completion handler is about to run.                             *)
(***************************************************************************)
Places == {"none", "read", "posted", "handle", "write", "written", "ended"}

TypeOK ==
  /\ ConnTypeOK
  /\ pc \in [Clients -> Places]
  /\ m_workers_pool \in Seq(Clients)
  /\ process \in {"running", "crashed"}

Init == ConnInit /\ m_workers_pool = <<>> /\ process = "running"

(* get_ip_port throws for a socket whose peer has reset the connection.    *)
AskPeer(c) == process' = IF client[c] = "reset" THEN "crashed" ELSE process

-----------------------------------------------------------------------------
(* The accept handler starts a session and accepts again.                  *)
Accept(c) ==
  /\ up
  /\ client[c] # "away"
  /\ pc[c] = "none"
  /\ AskPeer(c)
  /\ Goto(c, "read")
  /\ UNCHANGED <<clientVars, taken, m_buffer, req, replies, m_workers_pool>>

(* async_accept has failed.  The handler asks for the peer of a socket     *)
(* that is not open before it looks at the error.                          *)
AcceptFails ==
  /\ up
  /\ \E c \in Clients : client[c] # "away" /\ pc[c] = "none"
  /\ process' = "crashed"
  /\ UNCHANGED <<connVars, m_workers_pool>>

-----------------------------------------------------------------------------
(* read(): the completion handler, on the strand, posts the request to the *)
(* workers, or closes the session.                                         *)
ReadDone_Twice(c) ==
  /\ up
  /\ Parse(c, "read")
  /\ m_buffer' = m_buffer
  /\ Goto(c, "posted")
  /\ m_workers_pool' = Append(m_workers_pool, c)
  /\ UNCHANGED <<clientVars, taken, replies, process>>

ReadDone(c) ==
  /\ up
  /\ Parse(c, "read")
  /\ m_buffer' = [m_buffer EXCEPT ![c] = Tail(@)]
  /\ Goto(c, "posted")
  /\ m_workers_pool' = Append(m_workers_pool, c)
  /\ UNCHANGED <<clientVars, taken, replies, process>>

ReadFails(c) ==
  /\ up
  /\ ReadError(c)
  /\ AskPeer(c)
  /\ Goto(c, "ended")
  /\ UNCHANGED <<clientVars, taken, m_buffer, req, replies, m_workers_pool>>

(* A worker that is free takes the request.  Its handler may take long.    *)
Busy == {c \in Clients : pc[c] = "handle"}

TakeUp(c) ==
  /\ up
  /\ m_workers_pool # <<>> /\ Head(m_workers_pool) = c
  /\ Cardinality(Busy) < Workers
  /\ m_workers_pool' = Tail(m_workers_pool)
  /\ Goto(c, "handle")
  /\ UNCHANGED <<clientVars, taken, m_buffer, req, replies, process>>

(* The router always has a response; the worker starts to write it.        *)
Handled_HoldsWorker(c) ==
  /\ up
  /\ pc[c] = "handle"
  /\ unread[c] < MaxUnread
  /\ Goto(c, "write")
  /\ UNCHANGED <<clientVars, taken, m_buffer, req, replies, m_workers_pool, process>>

Handled(c) ==
  /\ up
  /\ pc[c] = "handle"
  /\ Goto(c, "write")
  /\ UNCHANGED <<clientVars, taken, m_buffer, req, replies, m_workers_pool, process>>

(* async_write completes, with an error if the connection was reset: then  *)
(* the session closes its socket.                                          *)
Write_NotAwaited(c) ==
  /\ up
  /\ pc[c] = "write"
  /\ client[c] # "reset"
  /\ unread' = [unread EXCEPT ![c] = @ + 1]
  /\ replies' = [replies EXCEPT ![c] = Append(@, req[c])]
  /\ Goto(c, "written")
  /\ UNCHANGED <<client, sent, taken, m_buffer, req, m_workers_pool, process>>

Write(c) ==
  /\ up
  /\ pc[c] = "write"
  /\ client[c] # "reset"
  /\ unread[c] < MaxUnread
  /\ unread' = [unread EXCEPT ![c] = @ + 1]
  /\ replies' = [replies EXCEPT ![c] = Append(@, req[c])]
  /\ Goto(c, "written")
  /\ UNCHANGED <<client, sent, taken, m_buffer, req, m_workers_pool, process>>

WriteFails_Retries(c) ==
  /\ up
  /\ pc[c] = "write"
  /\ client[c] = "reset"
  /\ UNCHANGED vars

WriteFails(c) ==
  /\ up
  /\ pc[c] = "write"
  /\ client[c] = "reset"
  /\ Goto(c, "ended")
  /\ UNCHANGED <<clientVars, taken, m_buffer, req, replies, m_workers_pool, process>>

(* The completion handler of a write without an error.                     *)
WriteDone(c) ==
  /\ up
  /\ pc[c] = "written"
  /\ IF KeepAlive(c)
     THEN Goto(c, "read") /\ UNCHANGED process
     ELSE Goto(c, "ended") /\ AskPeer(c)
  /\ UNCHANGED <<clientVars, taken, m_buffer, req, replies, m_workers_pool>>

-----------------------------------------------------------------------------
SessionStep(c) ==
  \/ (up /\ ReadSome(c) /\ UNCHANGED <<m_workers_pool, process>>)
  \/ ReadDone(c) \/ ReadFails(c) \/ TakeUp(c) \/ Handled(c)
  \/ Write(c) \/ WriteFails(c) \/ WriteDone(c)

Next ==
  \/ AcceptFails
  \/ \E c \in Clients :
       \/ Accept(c)
       \/ SessionStep(c)
       \/ up /\ ClientStep(c) /\ UNCHANGED <<m_workers_pool, process>>

Spec == Init /\ [][Next]_vars

(***************************************************************************)
(* The threads in run() and the workers go on while there is work, and     *)
(* handlers come to an end.  Nothing is assumed of the clients.            *)
(***************************************************************************)
FairSpec ==
  /\ Spec
  /\ \A c \in Clients :
       /\ WF_vars(Accept(c))
       /\ WF_vars(SessionStep(c))

-----------------------------------------------------------------------------
(***************************************************************************)
(* Properties.                                                             *)
(***************************************************************************)

Over == {c \in Clients : pc[c] = "ended" \/ (pc[c] = "written" /\ ~ KeepAlive(c))}

(* Requests are answered in order, once, and not beyond the one that ends  *)
(* the connection, although they pass through three executors              *)
(* (http_session.cpp:55-93).                                               *)
RR == INSTANCE RequestReply WITH over <- Over
ImplementsRequestReply == RR!RRSpec

(* A client that keeps reading gets an answer to every request, unless its *)
(* connection ends before, or the process dies.  In particular, a client   *)
(* that does not read its replies does not hold a worker.                  *)
Served ==
  \A c \in Clients :
    []<>(unread[c] = 0)
      => \A i \in 1 .. MaxRequests :
           (i \in DOMAIN sent[c] /\ pc[c] # "none")
             ~> (i <= Len(replies[c]) \/ pc[c] = "ended" \/ ~ up)

(* A connection whose client has reset it gives its socket back, or takes  *)
(* the process along.                                                      *)
Released ==
  \A c \in Clients :
    (client[c] = "reset" /\ pc[c] # "none") ~> (pc[c] = "ended" \/ ~ up)

=============================================================================
