--------------------------- MODULE HttpConnection ---------------------------
(***************************************************************************)
(* Connections of the coroutine server (src/src/core/coro): a              *)
(* DetectSession reads the first request of a connection and hands the     *)
(* socket, and what it has read beyond that request, to an HttpSessionCoro *)
(* or to a WebsocketSession.  An HttpSessionCoro answers request after     *)
(* request until one of them, or an error, ends the connection.  A         *)
(* connection has one coroutine at a time; connections run in parallel.    *)
(***************************************************************************)
EXTENDS HttpStream

(***************************************************************************)
(* "none": not accepted yet.  "detect": DetectSession::async_read.  The    *)
(* next four are those of HttpSessionCoro.  "upgraded": a WebsocketSession *)
(* owns the socket.  "ended": nobody does, and it is closed.               *)
(***************************************************************************)
Places == {"none", "detect", "handle", "write", "read", "close", "upgraded", "ended"}

-----------------------------------------------------------------------------
(* Either session's async_read catches the exception of http::async_read:  *)
(* the coroutine ends, and the socket dies with its session.               *)
ReadFails(c) ==
  /\ ReadError(c)
  /\ Goto(c, "ended")
  /\ UNCHANGED <<clientVars, taken, m_buffer, req, replies>>

-----------------------------------------------------------------------------
(* DetectSession::async_start_specific_session: the first request chooses  *)
(* the session that goes on.                                               *)

FirstRequest(c) == sent[c][Head(m_buffer[c])]

DetectHttp_LosesBuffer(c) ==
  /\ Parse(c, "detect")
  /\ FirstRequest(c) \in {"keep", "last"}
  /\ m_buffer' = [m_buffer EXCEPT ![c] = <<>>]
  /\ Goto(c, "handle")
  /\ UNCHANGED <<clientVars, taken, replies>>

DetectHttp(c) ==
  /\ Parse(c, "detect")
  /\ FirstRequest(c) \in {"keep", "last"}
  /\ m_buffer' = [m_buffer EXCEPT ![c] = Tail(@)]
  /\ Goto(c, "handle")
  /\ UNCHANGED <<clientVars, taken, replies>>

DetectWebsocket(c) ==
  /\ Parse(c, "detect")
  /\ FirstRequest(c) = "websocket"
  /\ m_buffer' = [m_buffer EXCEPT ![c] = Tail(@)]
  /\ Goto(c, "upgraded")
  /\ UNCHANGED <<clientVars, taken, replies>>

(* Any other protocol: nobody takes the socket.                            *)
DetectOther(c) ==
  /\ Parse(c, "detect")
  /\ FirstRequest(c) = "other"
  /\ m_buffer' = [m_buffer EXCEPT ![c] = <<>>]
  /\ Goto(c, "ended")
  /\ UNCHANGED <<clientVars, taken, replies>>

-----------------------------------------------------------------------------
(* HttpSessionCoro.                                                        *)

(* async_read: every later request is an ordinary one, whatever it asks.   *)
HttpRead(c) ==
  /\ Parse(c, "read")
  /\ m_buffer' = [m_buffer EXCEPT ![c] = Tail(@)]
  /\ Goto(c, "handle")
  /\ UNCHANGED <<clientVars, taken, replies>>

(* The router always has a response: that of the handler, or 400 if there  *)
(* is no route, or 500 if the handler throws or returns no response.       *)
Route(c) ==
  /\ pc[c] = "handle"
  /\ Goto(c, "write")
  /\ UNCHANGED <<clientVars, taken, m_buffer, req, replies>>

(* http::async_write completes, and the session reads on or closes.        *)
Write_NotAwaited(c) ==
  /\ pc[c] = "write"
  /\ client[c] # "reset"
  /\ unread' = [unread EXCEPT ![c] = @ + 1]
  /\ replies' = [replies EXCEPT ![c] = Append(@, req[c])]
  /\ Goto(c, IF KeepAlive(c) THEN "read" ELSE "close")
  /\ UNCHANGED <<client, sent, taken, m_buffer, req>>

Write_AlwaysReads(c) ==
  /\ pc[c] = "write"
  /\ client[c] # "reset"
  /\ unread[c] < MaxUnread
  /\ unread' = [unread EXCEPT ![c] = @ + 1]
  /\ replies' = [replies EXCEPT ![c] = Append(@, req[c])]
  /\ Goto(c, "read")
  /\ UNCHANGED <<client, sent, taken, m_buffer, req>>

Write(c) ==
  /\ pc[c] = "write"
  /\ client[c] # "reset"
  /\ unread[c] < MaxUnread
  /\ unread' = [unread EXCEPT ![c] = @ + 1]
  /\ replies' = [replies EXCEPT ![c] = Append(@, req[c])]
  /\ Goto(c, IF KeepAlive(c) THEN "read" ELSE "close")
  /\ UNCHANGED <<client, sent, taken, m_buffer, req>>

(* http::async_write throws: the coroutine logs it and ends.               *)
WriteFails(c) ==
  /\ pc[c] = "write"
  /\ client[c] = "reset"
  /\ Goto(c, "ended")
  /\ UNCHANGED <<clientVars, taken, m_buffer, req, replies>>

(* async_close.  If the peer's address cannot be had it leaves the socket  *)
(* to the destructor of the session, which is next.                        *)
Close(c) ==
  /\ pc[c] = "close"
  /\ Goto(c, "ended")
  /\ UNCHANGED <<clientVars, taken, m_buffer, req, replies>>

-----------------------------------------------------------------------------
SessionStep(c) ==
  \/ ReadSome(c) \/ ReadFails(c)
  \/ DetectHttp(c) \/ DetectWebsocket(c) \/ DetectOther(c)
  \/ HttpRead(c) \/ Route(c) \/ Write(c) \/ WriteFails(c) \/ Close(c)

=============================================================================
