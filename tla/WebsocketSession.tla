-------------------------- MODULE WebsocketSession --------------------------
(***************************************************************************)
(* One websocket session (src/src/core/coro/websocket_session.cpp and      *)
(* websocket_router.cpp), from the moment DetectSession hands it the       *)
(* socket.  One coroutine accepts the handshake and then reads, routes and *)
(* answers one message after another.                                      *)
(*                                                                         *)
(* The stream watches the peer by itself: it pings an idle one, and gives  *)
(* up on one that stays silent, even while the session waits for a handler *)
(* or for a write.                                                         *)
(***************************************************************************)
EXTENDS Integers, Sequences

CONSTANTS
  MaxMessages,          \* bound: messages the client sends, or that are read
  MaxUnread             \* replies that fit between server and client

ASSUME MaxMessagesAssumption == MaxMessages \in Nat
ASSUME MaxUnreadAssumption == MaxUnread \in Nat \ {0}

VARIABLES
  client,               \* the client's end of the connection
  target,               \* the path of the upgrade request
  leftover,             \* what DetectSession has left in the buffer
  sent,                 \* the messages the client has sent
  unread,               \* how many replies it has not read yet
  timer,                \* has the stream given up on the client?
  pc,                   \* where the coroutine is
  taken,                \* how many messages it has read
  raw,                  \* the message it has read last
  replies               \* the messages that were answered, in order

clientVars == <<client, target, leftover, sent, unread>>
vars == <<clientVars, timer, pc, taken, raw, replies>>

(***************************************************************************)
(* A message of the type the route expects and its handler answers; one    *)
(* that does not parse, or that the handler answers with nullptr or with   *)
(* an exception; and one that the stream itself refuses, because it is too *)
(* long, is no UTF-8, or breaks the protocol.                              *)
(***************************************************************************)
Readable == {"good", "mute"}
Messages == Readable \cup {"refused"}

(***************************************************************************)
(* Bytes that came right behind the upgrade request are in the buffer, not *)
(* in the stream: nothing, whole frames, or frames and a part of one, so   *)
(* that what the stream takes for the next frame is the rest of it.        *)
(***************************************************************************)
Leftovers == {"no", "whole", "cut"}

(* A path with a route, a path without, or a target that is not a URL.     *)
Targets == {"routed", "unknown", "invalid"}

TypeOK ==
  /\ client \in {"open", "closing", "silent", "reset"}
  /\ target \in Targets
  /\ leftover \in Leftovers
  /\ sent \in Seq(Messages)
  /\ unread \in 0 .. MaxUnread
  /\ timer \in {"running", "expired"}
  /\ pc \in {"accept", "read", "route", "write", "ended"}
  /\ taken \in Nat
  /\ raw \in Readable
  /\ replies \in Seq(Nat)

Init ==
  /\ client = "open"
  /\ target \in Targets
  /\ leftover \in Leftovers
  /\ sent = <<>>
  /\ unread = 0
  /\ timer = "running"
  /\ pc = "accept"
  /\ taken = 0
  /\ raw = "mute"
  /\ replies = <<>>

-----------------------------------------------------------------------------
(* The client: it sends messages, reads replies, starts the closing        *)
(* handshake, falls silent (and answers no pings), or resets.              *)

ClientSend ==
  /\ client = "open"
  /\ pc # "accept"
  /\ Len(sent) < MaxMessages
  /\ \E m \in Messages : sent' = Append(sent, m)
  /\ UNCHANGED <<client, target, leftover, unread, timer, pc, taken, raw, replies>>

ReadReply ==
  /\ unread > 0
  /\ client \in {"open", "closing"}
  /\ unread' = unread - 1
  /\ UNCHANGED <<client, target, leftover, sent, timer, pc, taken, raw, replies>>

ClientLeaves ==
  /\ client \in {"open", "closing"}
  /\ client' \in IF client = "open" THEN {"closing", "silent", "reset"}
                                    ELSE {"silent", "reset"}
  /\ UNCHANGED <<target, leftover, sent, unread, timer, pc, taken, raw, replies>>

(* timeout::suggested: the handshake is not finished, or nothing has come  *)
(* from the client for so long that the stream closes the socket.  A       *)
(* client that is alive answers the pings, but the stream notices only     *)
(* while it reads.                                                         *)
Expire ==
  /\ timer = "running"
  /\ pc # "ended"
  /\ client # "open" \/ pc \in {"route", "write"}
  /\ timer' = "expired"
  /\ UNCHANGED <<clientVars, pc, taken, raw, replies>>

Broken == client = "reset" \/ timer = "expired"

-----------------------------------------------------------------------------
(* async_wait: accept the handshake, take the path out of the target.      *)

Accept ==
  /\ pc = "accept"
  /\ ~ Broken
  /\ pc' = IF target = "invalid" THEN "ended" ELSE "read"
  /\ UNCHANGED <<clientVars, timer, taken, raw, replies>>

(* async_accept throws: the request is no proper handshake, or the reply   *)
(* to it cannot be written.                                                *)
AcceptFails ==
  /\ pc = "accept"
  /\ pc' = "ended"
  /\ UNCHANGED <<clientVars, timer, taken, raw, replies>>

-----------------------------------------------------------------------------
(* async_read: a message is copied out of the read buffer, which is then   *)
(* cleared.  What DetectSession left there comes before the first message, *)
(* which may be anything then; and so may whatever a stream that is out of *)
(* step takes for a message.                                               *)

FirstOfLeftover == taken = 0 /\ leftover = "whole"

Refused ==
  \/ leftover = "cut"
  \/ taken < Len(sent) /\ sent[taken + 1] = "refused"

HandedOver ==
  {m \in Readable :
     IF leftover = "cut"
     THEN taken < MaxMessages
     ELSE /\ taken < Len(sent)
          /\ sent[taken + 1] # "refused"
          /\ FirstOfLeftover \/ m = sent[taken + 1]}

Read_KeepsBuffer ==
  /\ pc = "read"
  /\ ~ Broken
  /\ taken' = taken + 1
  /\ raw' \in IF taken > 0 /\ HandedOver # {} THEN Readable ELSE HandedOver
  /\ pc' = "route"
  /\ UNCHANGED <<clientVars, timer, replies>>

Read ==
  /\ pc = "read"
  /\ ~ Broken
  /\ taken' = taken + 1
  /\ raw' \in HandedOver
  /\ pc' = "route"
  /\ UNCHANGED <<clientVars, timer, replies>>

(* async_read reports an error: the client has closed and nothing more is  *)
(* to come, the connection is broken, or the stream refuses what it gets.  *)
ReadFails_NoTimeout ==
  /\ pc = "read"
  /\ \/ client = "reset"
     \/ client = "closing" /\ taken = Len(sent)
     \/ Refused
  /\ pc' = "ended"
  /\ UNCHANGED <<clientVars, timer, taken, raw, replies>>

ReadFails ==
  /\ pc = "read"
  /\ \/ Broken
     \/ client = "closing" /\ taken = Len(sent)
     \/ Refused
  /\ pc' = "ended"
  /\ UNCHANGED <<clientVars, timer, taken, raw, replies>>

(* The router has no response if it has no route for the path, and none if *)
(* the handler has none: then the session reads on.                        *)
Route_GivesUp ==
  /\ pc = "route"
  /\ pc' = IF target = "routed" /\ raw = "good" THEN "write" ELSE "ended"
  /\ UNCHANGED <<clientVars, timer, taken, raw, replies>>

Route ==
  /\ pc = "route"
  /\ pc' = IF target = "routed" /\ raw = "good" THEN "write" ELSE "read"
  /\ UNCHANGED <<clientVars, timer, taken, raw, replies>>

(* async_write completes when the reply fits in what the client has not    *)
(* read yet.                                                               *)
Write_NotAwaited ==
  /\ pc = "write"
  /\ ~ Broken
  /\ unread' = unread + 1
  /\ replies' = Append(replies, taken)
  /\ pc' = "read"
  /\ UNCHANGED <<client, target, leftover, sent, timer, taken, raw>>

Write_ReadsMeanwhile ==
  /\ pc = "write"
  /\ ~ Broken
  /\ unread < MaxUnread
  /\ unread' = unread + 1
  /\ \E n \in taken .. Len(sent) : replies' = Append(replies, n)
  /\ pc' = "read"
  /\ UNCHANGED <<client, target, leftover, sent, timer, taken, raw>>

Write ==
  /\ pc = "write"
  /\ ~ Broken
  /\ unread < MaxUnread
  /\ unread' = unread + 1
  /\ replies' = Append(replies, taken)
  /\ pc' = "read"
  /\ UNCHANGED <<client, target, leftover, sent, timer, taken, raw>>

(* async_write throws; the exception goes up through every async_read that *)
(* is waiting for the next one, to the handler in async_wait.              *)
WriteFails ==
  /\ pc = "write"
  /\ Broken
  /\ pc' = "ended"
  /\ UNCHANGED <<clientVars, timer, taken, raw, replies>>

-----------------------------------------------------------------------------
SessionStep ==
  Accept \/ AcceptFails \/ Read \/ ReadFails \/ Route \/ Write \/ WriteFails

Next ==
  \/ ClientSend \/ ReadReply \/ ClientLeaves
  \/ Expire
  \/ SessionStep

Spec == Init /\ [][Next]_vars

(***************************************************************************)
(* The session's coroutine goes on whenever it can, and handlers come to   *)
(* an end.  The timer of the stream expires if the client has fallen       *)
(* silent, or does not finish closing.  A stream that is out of step may   *)
(* wait for the rest of a frame for ever.                                  *)
(***************************************************************************)
FairSpec ==
  /\ Spec
  /\ WF_vars((leftover # "cut" \/ pc # "read" \/ Broken) /\ SessionStep)
  /\ WF_vars(Expire /\ client # "open")

-----------------------------------------------------------------------------
(***************************************************************************)
(* Properties.                                                             *)
(***************************************************************************)

(* The replies are to messages the handler answers, each at most once and  *)
(* in the order of the messages (websocket_session.cpp:92-103); only the   *)
(* first message can be mistaken for another, because of bytes that came   *)
(* right behind the upgrade request, unless they ended within a frame.     *)
RepliesMatch ==
  /\ \A i, j \in DOMAIN replies : i < j => replies[i] < replies[j]
  /\ \A i \in DOMAIN replies :
       /\ target = "routed"
       /\ \/ leftover = "cut"
          \/ /\ replies[i] \in DOMAIN sent
             /\ sent[replies[i]] = "good" \/ (replies[i] = 1 /\ leftover = "whole")

(* Every message that was read and has an answer has got it.               *)
AllAnswered ==
  (target = "routed" /\ leftover = "no")
    => \A i \in 1 .. taken :
         sent[i] = "good" => \E k \in DOMAIN replies : replies[k] = i

(* No message that the stream hands over ends the session: not one without *)
(* a route, not one that does not parse, not one whose handler throws      *)
(* (websocket_router.cpp:23-32).  Once the handshake is done it ends with  *)
(* the connection; or between two messages, because the client closes or   *)
(* the stream refuses what comes (websocket_session.cpp:79-90), and then   *)
(* it has answered all it has read.                                        *)
EndsForCause ==
  [][pc' = "ended" /\ pc # "ended"
       => \/ pc = "accept"
          \/ Broken
          \/ pc = "read" /\ (client = "closing" \/ Refused) /\ AllAnswered]_vars

(* A client that keeps reading gets its answers.                           *)
Answered ==
  []<>(unread = 0)
    => \A i \in 1 .. MaxMessages :
         (/\ i \in DOMAIN sent /\ sent[i] = "good" /\ target = "routed"
          /\ leftover = "no" \/ (leftover = "whole" /\ i > 1))
           ~> (pc = "ended" \/ \E k \in DOMAIN replies : replies[k] = i)

(* A client that leaves, in whatever way, does not keep the session: also  *)
(* if it does so while a reply is being written that it does not read.     *)
Released == (client # "open") ~> (pc = "ended")

(* "Echoes back all received WebSocket messages" (websocket_session.h:11): *)
(* when the session reads on, it has answered all it has read, if it was   *)
(* all the client's messages.                                              *)
EchoesBackAll == pc = "read" /\ leftover = "no" => Len(replies) = taken

=============================================================================
