----------------------- MODULE WebsocketSession_proofs -----------------------
(***************************************************************************)
(* Proofs about one websocket session, for any number of messages: which   *)
(* messages are answered, and what ends the session.                       *)
(*                                                                         *)
(* The session has at most one message in hand.  Every reply is to a       *)
(* message read before that one, so the reply to it is the next in order;  *)
(* and every message read before that one and owed a reply has got it.     *)
(***************************************************************************)
EXTENDS WebsocketSession, SequenceTheorems, TLAPS

(* The message in hand is the last one that was read.                      *)
MessageInHand ==
  pc \in {"route", "write"} =>
    /\ taken >= 1
    /\ \/ leftover = "cut"
       \/ raw = sent[taken]
       \/ taken = 1 /\ leftover = "whole"
    /\ pc = "write" => target = "routed" /\ raw = "good"

(* What was answered was read, and is no longer in hand.                   *)
RepliesWereRead ==
  \A i \in 1 .. Len(replies) :
    /\ replies[i] >= 1
    /\ replies[i] <= taken
    /\ pc \in {"route", "write"} => replies[i] < taken

(* A message that has an answer and has not got it is in hand, or was when *)
(* the session ended.                                                      *)
AnsweredBefore ==
  (target = "routed" /\ leftover = "no" /\ pc # "ended")
    => \A i \in 1 .. taken :
         sent[i] = "good" =>
           \/ \E k \in DOMAIN replies : replies[k] = i
           \/ i = taken /\ pc \in {"route", "write"}

IInv ==
  /\ TypeOK
  /\ leftover # "cut" => taken <= Len(sent)
  /\ MessageInHand
  /\ RepliesWereRead
  /\ RepliesMatch
  /\ AnsweredBefore

-----------------------------------------------------------------------------
LEMMA Lengths ==
  ASSUME TypeOK
  PROVE  /\ Len(sent) \in Nat /\ DOMAIN sent = 1 .. Len(sent)
         /\ Len(replies) \in Nat /\ DOMAIN replies = 1 .. Len(replies)
         /\ \A i \in 1 .. Len(replies) : replies[i] \in Nat
         /\ \A i \in 1 .. Len(sent) : sent[i] \in Messages
BY LenProperties, ElementOfSeq DEF TypeOK

LEMMA InitIInv == Init => IInv
BY MaxUnreadAssumption
   DEF Init, IInv, TypeOK, Targets, Leftovers, Readable, Messages, MessageInHand,
       RepliesWereRead, RepliesMatch, AnsweredBefore

(* A step that neither reads nor answers anything.                         *)
LEMMA MoveKeeps ==
  ASSUME IInv, UNCHANGED <<target, leftover, sent, taken, raw, replies>>,
         TypeOK',
         \/ pc' = pc
         \/ pc = "accept" /\ pc' = "read"
         \/ pc' = "ended"
         \/ pc = "route" /\ pc' = "write" /\ target = "routed" /\ raw = "good"
         \/ pc = "route" /\ pc' = "read" /\ ~ (target = "routed" /\ raw = "good")
  PROVE  IInv'
<1>1. AnsweredBefore'
  BY DEF IInv, AnsweredBefore, MessageInHand
<1> QED
  BY <1>1 DEF IInv, MessageInHand, RepliesWereRead, RepliesMatch

LEMMA SendKeeps ==
  ASSUME IInv, ClientSend
  PROVE  IInv'
<1>1. PICK m \in Messages : sent' = Append(sent, m)
  BY DEF ClientSend
<1>2. UNCHANGED <<client, target, leftover, unread, timer, pc, taken, raw, replies>>
  BY DEF ClientSend
<1>3. /\ sent' \in Seq(Messages)
      /\ Len(sent') = Len(sent) + 1
      /\ \A i \in 1 .. Len(sent) : sent'[i] = sent[i]
  BY <1>1, AppendProperties DEF IInv, TypeOK
<1>4. TypeOK'
  BY <1>2, <1>3 DEF IInv, TypeOK
<1>5. taken \in Nat /\ Len(sent) \in Nat /\ (leftover # "cut" => taken <= Len(sent))
  BY Lengths DEF IInv, TypeOK
<1>6. leftover' # "cut" => taken' <= Len(sent')
  BY <1>2, <1>3, <1>5
<1>7. MessageInHand'
  BY <1>2, <1>3, <1>5 DEF IInv, MessageInHand
<1>8. RepliesWereRead'
  BY <1>2 DEF IInv, RepliesWereRead
<1>9. RepliesMatch'
  BY <1>2, <1>3, <1>4, Lengths, LenProperties DEF IInv, RepliesMatch
<1>10. AnsweredBefore'
  BY <1>2, <1>3, <1>5 DEF IInv, AnsweredBefore
<1> QED
  BY <1>4, <1>6, <1>7, <1>8, <1>9, <1>10 DEF IInv

LEMMA ReadKeeps ==
  ASSUME IInv, Read
  PROVE  IInv'
<1>1. /\ pc = "read" /\ pc' = "route"
      /\ taken' = taken + 1
      /\ raw' \in Readable
      /\ \/ leftover = "cut"
         \/ /\ taken < Len(sent)
            /\ FirstOfLeftover \/ raw' = sent[taken + 1]
      /\ UNCHANGED <<client, target, leftover, sent, unread, timer, replies>>
  BY DEF Read, HandedOver, clientVars
<1>2. taken \in Nat /\ Len(sent) \in Nat
  BY Lengths DEF IInv, TypeOK
<1>3. TypeOK'
  BY <1>1, <1>2 DEF IInv, TypeOK
<1>4. MessageInHand'
  BY <1>1, <1>2 DEF MessageInHand, FirstOfLeftover
<1>5. RepliesWereRead'
  BY <1>1, <1>2, Lengths DEF IInv, RepliesWereRead
<1>6. RepliesMatch'
  BY <1>1 DEF IInv, RepliesMatch
<1>7. AnsweredBefore'
  BY <1>1, <1>2 DEF IInv, AnsweredBefore
<1>8. leftover' # "cut" => taken' <= Len(sent')
  BY <1>1, <1>2
<1> QED
  BY <1>3, <1>4, <1>5, <1>6, <1>7, <1>8 DEF IInv

LEMMA WriteKeeps ==
  ASSUME IInv, Write
  PROVE  IInv'
<1>1. /\ pc = "write" /\ pc' = "read"
      /\ unread < MaxUnread /\ unread' = unread + 1
      /\ replies' = Append(replies, taken)
      /\ UNCHANGED <<client, target, leftover, sent, timer, taken, raw>>
  BY DEF Write
<1>2. /\ replies' \in Seq(Nat)
      /\ Len(replies') = Len(replies) + 1
      /\ \A i \in 1 .. Len(replies) : replies'[i] = replies[i]
      /\ replies'[Len(replies) + 1] = taken
  BY <1>1, AppendProperties DEF IInv, TypeOK
<1>3. /\ taken \in Nat
      /\ taken >= 1
      /\ target = "routed"
      /\ \/ leftover = "cut"
         \/ /\ taken \in 1 .. Len(sent)
            /\ sent[taken] = "good" \/ (taken = 1 /\ leftover = "whole")
  BY <1>1, Lengths DEF IInv, TypeOK, MessageInHand
<1>4. TypeOK'
  <2>1. unread + 1 \in 0 .. MaxUnread
    BY <1>1, MaxUnreadAssumption DEF IInv, TypeOK
  <2> QED
    BY <1>1, <1>2, <2>1 DEF IInv, TypeOK
<1>5. \A i \in 1 .. Len(replies') :
        \/ i \in 1 .. Len(replies) /\ replies'[i] = replies[i]
        \/ i = Len(replies) + 1 /\ replies'[i] = taken
  BY <1>2, Lengths DEF IInv
<1>6. \A i \in 1 .. Len(replies) : replies[i] \in Nat /\ replies[i] >= 1 /\ replies[i] < taken
  BY <1>1, Lengths DEF IInv, RepliesWereRead
<1>7. MessageInHand' /\ RepliesWereRead'
  BY <1>1, <1>3, <1>5, <1>6 DEF MessageInHand, RepliesWereRead
<1>8. RepliesMatch'
  <2>1. DOMAIN replies' = 1 .. Len(replies') /\ DOMAIN replies = 1 .. Len(replies)
    BY <1>4, Lengths, LenProperties DEF IInv, TypeOK
  <2>2. DOMAIN sent = 1 .. Len(sent)
    BY Lengths DEF IInv
  <2>3. ASSUME NEW i \in 1 .. Len(replies'), NEW j \in 1 .. Len(replies'), i < j
        PROVE  replies'[i] < replies'[j]
    <3>1. i \in 1 .. Len(replies) /\ replies'[i] = replies[i]
      BY <1>2, <1>5, <2>3, Lengths DEF IInv
    <3>2. CASE j \in 1 .. Len(replies)
      BY <1>5, <1>2, <2>1, <2>3, <3>1, <3>2 DEF IInv, RepliesMatch
    <3>3. CASE j = Len(replies) + 1
      BY <1>2, <1>6, <3>1, <3>3
    <3> QED
      BY <1>5, <3>2, <3>3
  <2>4. ASSUME NEW i \in 1 .. Len(replies')
        PROVE  /\ target = "routed"
               /\ \/ leftover = "cut"
                  \/ /\ replies'[i] \in DOMAIN sent
                     /\ \/ sent[replies'[i]] = "good"
                        \/ replies'[i] = 1 /\ leftover = "whole"
    BY <1>3, <1>5, <2>1, <2>2 DEF IInv, RepliesMatch
  <2> QED
    BY <1>1, <2>1, <2>3, <2>4 DEF RepliesMatch
<1>9. AnsweredBefore'
  <2>1. DOMAIN replies' = 1 .. Len(replies') /\ DOMAIN replies = 1 .. Len(replies)
    BY <1>4, Lengths, LenProperties DEF IInv, TypeOK
  <2>2. \A k \in DOMAIN replies : k \in DOMAIN replies' /\ replies'[k] = replies[k]
    BY <1>2, <2>1, Lengths DEF IInv
  <2>3. Len(replies) + 1 \in DOMAIN replies'
    BY <1>2, <2>1, Lengths DEF IInv
  <2> QED
    BY <1>1, <1>2, <2>2, <2>3 DEF IInv, AnsweredBefore
<1>10. leftover' # "cut" => taken' <= Len(sent')
  BY <1>1 DEF IInv
<1> QED
  BY <1>4, <1>7, <1>8, <1>9, <1>10 DEF IInv

LEMMA NextIInv ==
  ASSUME IInv, [Next]_vars
  PROVE  IInv'
<1>1. CASE ClientSend
  BY <1>1, SendKeeps
<1>2. CASE ReadReply
  <2>1. unread - 1 \in 0 .. MaxUnread
    BY <1>2, MaxUnreadAssumption DEF ReadReply, IInv, TypeOK
  <2>2. TypeOK'
    BY <1>2, <2>1 DEF ReadReply, IInv, TypeOK
  <2> QED
    BY <1>2, <2>2, MoveKeeps DEF ReadReply
<1>3. CASE ClientLeaves
  <2>1. TypeOK'
    BY <1>3 DEF ClientLeaves, IInv, TypeOK
  <2> QED
    BY <1>3, <2>1, MoveKeeps DEF ClientLeaves
<1>4. CASE Expire
  <2>1. TypeOK'
    BY <1>4 DEF Expire, IInv, TypeOK, clientVars
  <2> QED
    BY <1>4, <2>1, MoveKeeps DEF Expire, clientVars
<1>5. CASE Accept \/ AcceptFails \/ ReadFails \/ Route \/ WriteFails
  <2>1. /\ UNCHANGED <<clientVars, timer, taken, raw, replies>>
        /\ \/ pc = "accept" /\ pc' = "read"
           \/ pc' = "ended"
           \/ pc = "route" /\ pc' = "write" /\ target = "routed" /\ raw = "good"
           \/ pc = "route" /\ pc' = "read" /\ ~ (target = "routed" /\ raw = "good")
    BY <1>5 DEF Accept, AcceptFails, ReadFails, Route, WriteFails
  <2>2. TypeOK'
    BY <2>1 DEF IInv, TypeOK, clientVars
  <2> QED
    BY <2>1, <2>2, MoveKeeps DEF clientVars
<1>6. CASE Read
  BY <1>6, ReadKeeps
<1>7. CASE Write
  BY <1>7, WriteKeeps
<1>8. CASE UNCHANGED vars
  <2>1. TypeOK'
    BY <1>8 DEF vars, clientVars, IInv, TypeOK
  <2> QED
    BY <1>8, <2>1, MoveKeeps DEF vars, clientVars
<1> QED
  BY <1>1, <1>2, <1>3, <1>4, <1>5, <1>6, <1>7, <1>8 DEF Next, SessionStep

-----------------------------------------------------------------------------
(* Every reachable state satisfies the inductive invariant.                *)
THEOREM Invariance == Spec => []IInv
BY InitIInv, NextIInv, PTL DEF Spec

(* Type correctness of the session and its client.                         *)
THEOREM TypeCorrect == Spec => []TypeOK
<1>1. IInv => TypeOK
  BY DEF IInv
<1> QED
  BY <1>1, Invariance, PTL

(* Replies are to messages that the handler answers, in their order, each  *)
(* at most once (websocket_session.cpp:92-103).                            *)
THEOREM RepliesAreToMessages == Spec => []RepliesMatch
<1>1. IInv => RepliesMatch
  BY DEF IInv
<1> QED
  BY <1>1, Invariance, PTL

(* No message that the stream hands over ends the session.  It ends with   *)
(* the connection; or because the client closes or the stream refuses what *)
(* comes, and then every message read has got its answer                   *)
(* (websocket_session.cpp:79-90, websocket_router.cpp:23-32).              *)
THEOREM EndsOnlyForCause == Spec => EndsForCause
<1> DEFINE Cause == \/ pc = "accept"
                    \/ Broken
                    \/ pc = "read" /\ (client = "closing" \/ Refused) /\ AllAnswered
<1>1. ASSUME IInv, Next, pc' = "ended", pc # "ended"
      PROVE  Cause
  <2>1. CASE ReadFails
    <3>1. pc = "read" /\ (Broken \/ client = "closing" \/ Refused)
      BY <2>1 DEF ReadFails
    <3>2. AllAnswered
      BY <1>1, <3>1 DEF IInv, AnsweredBefore, AllAnswered
    <3> QED
      BY <3>1, <3>2
  <2>2. CASE ~ ReadFails
    BY <1>1, <2>2
       DEF Next, SessionStep, ClientSend, ReadReply, ClientLeaves, Expire,
           Accept, AcceptFails, Read, Route, Write, WriteFails
  <2> QED
    BY <2>1, <2>2
<1>2. IInv /\ [Next]_vars => [pc' = "ended" /\ pc # "ended" => Cause]_vars
  BY <1>1
<1> QED
  BY <1>2, Invariance, PTL DEF Spec, EndsForCause

=============================================================================
