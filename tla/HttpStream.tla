----------------------------- MODULE HttpStream -----------------------------
(***************************************************************************)
(* HTTP connections as the sessions of either server (src/src/core/coro,   *)
(* src/src/core/async) see them: the clients, the bytes between, and the   *)
(* calls of http::async_read, which both sessions make with a buffer and a *)
(* parser of their own.                                                    *)
(*                                                                         *)
(* A client may send requests without waiting for the answers, stop        *)
(* sending, stop reading, or reset the connection at any moment.           *)
(***************************************************************************)
EXTENDS Integers, Sequences

CONSTANTS
  Clients,
  Requests,             \* the kinds of requests the clients send
  MaxRequests,          \* bound: requests a client sends
  MaxUnread             \* replies that fit between server and client

(***************************************************************************)
(* A request that keeps the connection alive, one that closes it, one that *)
(* asks for a websocket or for another protocol (and keeps the connection  *)
(* alive), and bytes that are not a request.                               *)
(***************************************************************************)
ASSUME RequestsAssumption == Requests \subseteq {"keep", "last", "websocket", "other", "bad"}
ASSUME MaxRequestsAssumption == MaxRequests \in Nat
ASSUME MaxUnreadAssumption == MaxUnread \in Nat \ {0}

VARIABLES
  client,               \* the client's end of the connection
  sent,                 \* the requests it has sent
  unread,               \* how many replies it has not read yet
  taken,                \* how many requests were taken off the socket
  pc,                   \* where the coroutine of the connection is
  m_buffer,             \* requests taken but not parsed, by their numbers
  req,                  \* the request being handled
  replies               \* the requests that were answered, in order

clientVars  == <<client, sent, unread>>
sessionVars == <<taken, pc, m_buffer, req, replies>>
connVars    == <<clientVars, sessionVars>>

ConnTypeOK ==
  /\ client \in [Clients -> {"away", "open", "eof", "reset"}]
  /\ sent \in [Clients -> Seq(Requests)]
  /\ unread \in [Clients -> 0 .. MaxUnread]
  /\ taken \in [Clients -> Nat]
  /\ m_buffer \in [Clients -> Seq(Nat)]
  /\ req \in [Clients -> Nat]
  /\ replies \in [Clients -> Seq(Nat)]

ConnInit ==
  /\ client = [c \in Clients |-> "away"]
  /\ sent = [c \in Clients |-> <<>>]
  /\ unread = [c \in Clients |-> 0]
  /\ taken = [c \in Clients |-> 0]
  /\ pc = [c \in Clients |-> "none"]
  /\ m_buffer = [c \in Clients |-> <<>>]
  /\ req = [c \in Clients |-> 0]
  /\ replies = [c \in Clients |-> <<>>]

Goto(c, place) == pc' = [pc EXCEPT ![c] = place]

-----------------------------------------------------------------------------
(* The client and the network.                                             *)

ClientConnect(c) ==
  /\ client[c] = "away"
  /\ client' = [client EXCEPT ![c] = "open"]
  /\ UNCHANGED <<sent, unread, sessionVars>>

ClientSend(c) ==
  /\ client[c] = "open"
  /\ pc[c] \notin {"upgraded", "ended"}
  /\ Len(sent[c]) < MaxRequests
  /\ \E r \in Requests : sent' = [sent EXCEPT ![c] = Append(@, r)]
  /\ UNCHANGED <<client, unread, sessionVars>>

ReadReply(c) ==
  /\ unread[c] > 0
  /\ unread' = [unread EXCEPT ![c] = @ - 1]
  /\ UNCHANGED <<client, sent, sessionVars>>

(* The client sends no more, or resets the connection: then no reply will  *)
(* reach it, and its requests may or may not reach the server.             *)
ClientEof(c) ==
  /\ client[c] = "open"
  /\ client' = [client EXCEPT ![c] = "eof"]
  /\ UNCHANGED <<sent, unread, sessionVars>>

ClientReset(c) ==
  /\ client[c] \in {"open", "eof"}
  /\ client' = [client EXCEPT ![c] = "reset"]
  /\ unread' = [unread EXCEPT ![c] = 0]
  /\ UNCHANGED <<sent, sessionVars>>

-----------------------------------------------------------------------------
(* Reading a request, in either session.                                   *)

Reading(c) == pc[c] \in {"detect", "read"}

(* http::async_read needs more bytes: it takes from the socket whatever    *)
(* has arrived.                                                            *)
ReadSome_Blocking(c) ==
  /\ Reading(c)
  /\ \A d \in Clients \ {c} : ~ Reading(d)
  /\ m_buffer[c] = <<>>
  /\ \E n \in taken[c] + 1 .. Len(sent[c]) :
       /\ taken' = [taken EXCEPT ![c] = n]
       /\ m_buffer' = [m_buffer EXCEPT ![c] = [i \in 1 .. n - taken[c] |-> taken[c] + i]]
  /\ UNCHANGED <<clientVars, pc, req, replies>>

ReadSome(c) ==
  /\ Reading(c)
  /\ m_buffer[c] = <<>>
  /\ \E n \in taken[c] + 1 .. Len(sent[c]) :
       /\ taken' = [taken EXCEPT ![c] = n]
       /\ m_buffer' = [m_buffer EXCEPT ![c] = [i \in 1 .. n - taken[c] |-> taken[c] + i]]
  /\ UNCHANGED <<clientVars, pc, req, replies>>

(* http::async_read fails: no more bytes will come, or the next ones are   *)
(* not a request.                                                          *)
ReadError_NoEof(c) ==
  /\ Reading(c)
  /\ IF m_buffer[c] = <<>>
     THEN client[c] = "reset"
     ELSE sent[c][Head(m_buffer[c])] = "bad"

ReadError(c) ==
  /\ Reading(c)
  /\ IF m_buffer[c] = <<>>
     THEN client[c] = "reset" \/ (client[c] = "eof" /\ taken[c] = Len(sent[c]))
     ELSE sent[c][Head(m_buffer[c])] = "bad"

(* http::async_read completes, and m_parser releases a request.            *)
Parse(c, reader) ==
  /\ pc[c] = reader
  /\ m_buffer[c] # <<>>
  /\ sent[c][Head(m_buffer[c])] # "bad"
  /\ req' = [req EXCEPT ![c] = Head(m_buffer[c])]

(* What the response says of the connection is decided by the request.     *)
KeepAlive(c) == sent[c][req[c]] # "last"

-----------------------------------------------------------------------------
ClientStep(c) ==
  \/ ClientConnect(c) \/ ClientSend(c) \/ ReadReply(c)
  \/ ClientEof(c) \/ ClientReset(c)

=============================================================================
