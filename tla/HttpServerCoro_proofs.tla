------------------------ MODULE HttpServerCoro_proofs ------------------------
(***************************************************************************)
(* Proofs about the coroutine server: for any number of clients, requests  *)
(* and descriptors, every connection answers its requests in order, once,  *)
(* and not beyond the one that ends it.                                    *)
(*                                                                         *)
(* A step changes one connection.  Between requests a connection has       *)
(* answered all that it has parsed; while it handles one it has answered   *)
(* all before that one; so the reply it writes is the next.                *)
(***************************************************************************)
EXTENDS HttpServerCoro, HttpStream_proofs

ConnInv(c) ==
  /\ Numbered(c)
  /\ pc[c] \in {"none", "detect", "read"} => CaughtUp(c)
  /\ pc[c] \in {"handle", "write"} => Handling(c)

IInv ==
  /\ TypeOK
  /\ \A c \in Clients : ConnInv(c)

-----------------------------------------------------------------------------
(* The connections are left alone, but for the place of one coroutine,     *)
(* which goes on with what it has.                                         *)
LEMMA MoveKeeps ==
  ASSUME IInv, NEW c \in Clients, NEW place \in Places, Goto(c, place),
         UNCHANGED <<clientVars, taken, m_buffer, req, replies>>,
         \/ place \notin {"none", "detect", "read", "handle", "write"}
         \/ pc[c] = "none" /\ place = "detect"
         \/ pc[c] = "handle" /\ place = "write",
         accepting' \in {"running", "ended"}, UNCHANGED limit
  PROVE  IInv'
<1>1. TypeOK'
  BY DEF IInv, TypeOK, ConnTypeOK, Goto, clientVars
<1>2. ASSUME NEW d \in Clients PROVE ConnInv(d)'
  <2>1. /\ Numbered(d)'
        /\ CaughtUp(d) => CaughtUp(d)'
        /\ Handling(d) => Handling(d)'
    BY SameConnection DEF IInv, ConnInv, clientVars
  <2>2. pc'[d] = IF d = c THEN place ELSE pc[d]
    BY DEF Goto, IInv, TypeOK
  <2> QED
    BY <2>1, <2>2 DEF IInv, ConnInv
<1> QED
  BY <1>1, <1>2 DEF IInv

(* A reader has a request, and its connection goes on to handle it.        *)
LEMMA ParsedKeeps ==
  ASSUME IInv, NEW c \in Clients, NEW reader \in {"detect", "read"}, Parse(c, reader),
         m_buffer' = [m_buffer EXCEPT ![c] = Tail(@)],
         NEW place \in {"handle", "upgraded"}, Goto(c, place),
         UNCHANGED <<clientVars, taken, replies, accepting, limit>>
  PROVE  IInv'
<1>1. CaughtUp(c)
  BY DEF Parse, IInv, ConnInv
<1>2. ASSUME NEW d \in Clients
      PROVE  /\ ConnTypeOK'
             /\ Numbered(d)'
             /\ d = c => Handling(d)'
             /\ d # c /\ CaughtUp(d) => CaughtUp(d)'
             /\ d # c /\ Handling(d) => Handling(d)'
  BY <1>1, ParseKeeps DEF IInv, TypeOK, ConnInv
<1>3. TypeOK'
  BY <1>2 DEF IInv, TypeOK, Goto, Places
<1>4. ASSUME NEW d \in Clients PROVE ConnInv(d)'
  <2>1. pc'[d] = IF d = c THEN place ELSE pc[d]
    BY DEF Goto, IInv, TypeOK
  <2> QED
    BY <1>2, <2>1 DEF IInv, ConnInv
<1> QED
  BY <1>3, <1>4 DEF IInv

LEMMA OtherKeeps ==
  ASSUME IInv, NEW c \in Clients, DetectOther(c), UNCHANGED <<accepting, limit>>
  PROVE  IInv'
<1>1. /\ m_buffer' = [m_buffer EXCEPT ![c] = <<>>]
      /\ req' = [req EXCEPT ![c] = Head(m_buffer[c])]
      /\ m_buffer[c] # <<>>
      /\ Goto(c, "ended")
      /\ UNCHANGED <<clientVars, taken, replies>>
  BY DEF DetectOther, Parse
<1>2. Head(m_buffer[c]) \in Nat
  BY <1>1, NumberedTypes DEF IInv, TypeOK
<1>3. TypeOK'
  BY <1>1, <1>2 DEF IInv, TypeOK, ConnTypeOK, Goto, Places, clientVars
<1>4. ASSUME NEW d \in Clients PROVE ConnInv(d)'
  <2>1. pc'[d] = IF d = c THEN "ended" ELSE pc[d]
    BY <1>1 DEF Goto, IInv, TypeOK
  <2>2. CASE d = c
    <3>1. m_buffer'[d] = <<>> /\ taken'[d] = taken[d] /\ sent'[d] = sent[d]
      BY <1>1, <2>2 DEF IInv, TypeOK, ConnTypeOK, clientVars
    <3> QED
      BY <2>1, <2>2, <3>1, NumberedTypes DEF IInv, TypeOK, ConnInv, Numbered
  <2>3. CASE d # c
    BY <1>1, <2>1, <2>3, SameConnection DEF IInv, TypeOK, ConnTypeOK, ConnInv, clientVars
  <2> QED
    BY <2>2, <2>3
<1> QED
  BY <1>3, <1>4 DEF IInv

LEMMA WrittenKeeps ==
  ASSUME IInv, NEW c \in Clients, Write(c), UNCHANGED <<accepting, limit>>
  PROVE  IInv'
<1>1. Handling(c)
  BY DEF Write, IInv, ConnInv
<1>2. ASSUME NEW d \in Clients
      PROVE  /\ ConnTypeOK'
             /\ Numbered(d)'
             /\ d = c => CaughtUp(d)'
             /\ d # c /\ CaughtUp(d) => CaughtUp(d)'
             /\ d # c /\ Handling(d) => Handling(d)'
  BY <1>1, WriteKeeps DEF Write, IInv, TypeOK, ConnInv, Answered
<1>3. TypeOK'
  BY <1>2 DEF Write, IInv, TypeOK, Goto, Places
<1>4. ASSUME NEW d \in Clients PROVE ConnInv(d)'
  <2>1. /\ d = c => pc'[d] \in {"read", "close"}
        /\ d # c => pc'[d] = pc[d]
    BY DEF Write, Goto, IInv, TypeOK
  <2> QED
    BY <1>2, <2>1 DEF IInv, ConnInv
<1> QED
  BY <1>3, <1>4 DEF IInv

LEMMA ArrivedKeeps ==
  ASSUME IInv, NEW c \in Clients, ReadSome(c), UNCHANGED <<accepting, limit>>
  PROVE  IInv'
<1>1. pc[c] \in {"detect", "read"} /\ pc' = pc
  BY DEF ReadSome, Reading
<1>2. ASSUME NEW d \in Clients
      PROVE  /\ ConnTypeOK'
             /\ Numbered(d)'
             /\ CaughtUp(d) => CaughtUp(d)'
             /\ d # c /\ Handling(d) => Handling(d)'
  BY ReadKeeps DEF IInv, TypeOK, ConnInv
<1>3. TypeOK'
  BY <1>1, <1>2 DEF IInv, TypeOK
<1> QED
  BY <1>1, <1>2, <1>3 DEF IInv, ConnInv

LEMMA ClientStepKeeps ==
  ASSUME IInv, NEW c \in Clients, ClientStep(c), UNCHANGED <<accepting, limit>>
  PROVE  IInv'
<1>1. ASSUME NEW d \in Clients
      PROVE  /\ ConnTypeOK'
             /\ UNCHANGED sessionVars
             /\ Numbered(d)'
             /\ CaughtUp(d) => CaughtUp(d)'
             /\ Handling(d) => Handling(d)'
  BY ClientKeeps DEF IInv, TypeOK, ConnInv
<1>2. TypeOK'
  BY <1>1 DEF IInv, TypeOK, sessionVars
<1> QED
  BY <1>1, <1>2 DEF IInv, ConnInv, sessionVars

LEMMA SessionKeeps ==
  ASSUME IInv, NEW c \in Clients, SessionStep(c), UNCHANGED <<accepting, limit>>
  PROVE  IInv'
<1> USE DEF Places
<1>0. accepting' \in {"running", "ended"}
  BY DEF IInv, TypeOK
<1>1. CASE ReadSome(c)
  BY <1>1, ArrivedKeeps
<1>2. CASE ReadFails(c)
  BY <1>0, <1>2, MoveKeeps DEF ReadFails
<1>3. CASE DetectHttp(c)
  BY <1>3, ParsedKeeps DEF DetectHttp
<1>4. CASE DetectWebsocket(c)
  BY <1>4, ParsedKeeps DEF DetectWebsocket
<1>5. CASE DetectOther(c)
  BY <1>5, OtherKeeps
<1>6. CASE HttpRead(c)
  BY <1>6, ParsedKeeps DEF HttpRead
<1>7. CASE Route(c)
  BY <1>0, <1>7, MoveKeeps DEF Route
<1>8. CASE Write(c)
  BY <1>8, WrittenKeeps
<1>9. CASE WriteFails(c)
  BY <1>0, <1>9, MoveKeeps DEF WriteFails
<1>10. CASE Close(c)
  BY <1>0, <1>10, MoveKeeps DEF Close
<1> QED
  BY <1>1, <1>2, <1>3, <1>4, <1>5, <1>6, <1>7, <1>8, <1>9, <1>10 DEF SessionStep

LEMMA InitIInv == Init => IInv
<1> SUFFICES ASSUME Init PROVE IInv
  OBVIOUS
<1>1. ConnTypeOK /\ \A c \in Clients : Numbered(c) /\ CaughtUp(c)
  BY InitConnections DEF Init
<1>2. pc = [c \in Clients |-> "none"]
  BY DEF Init, ConnInit
<1> QED
  BY <1>1, <1>2 DEF Init, IInv, TypeOK, ConnInv, Places

LEMMA NextIInv ==
  ASSUME IInv, [Next]_vars
  PROVE  IInv'
<1>1. ASSUME NEW c \in Clients, Accept(c) PROVE IInv'
  BY <1>1, MoveKeeps DEF Accept, Waiting, IInv, TypeOK, Places
<1>2. ASSUME NEW c \in Clients, AcceptReset(c) PROVE IInv'
  BY <1>2, MoveKeeps DEF AcceptReset, Places
<1>3. ASSUME UNCHANGED <<connVars, limit>>, accepting' \in {"running", "ended"} PROVE IInv'
  <2>1. TypeOK'
    BY <1>3 DEF IInv, TypeOK, ConnTypeOK, connVars, clientVars, sessionVars
  <2>2. \A d \in Clients : ConnInv(d)'
    BY <1>3, SameConnection DEF IInv, ConnInv, connVars, clientVars, sessionVars
  <2> QED
    BY <2>1, <2>2 DEF IInv
<1>4. ASSUME NEW c \in Clients, ClientStep(c), UNCHANGED <<accepting, limit>> PROVE IInv'
  BY <1>4, ClientStepKeeps
<1>5. ASSUME NEW c \in Clients, SessionStep(c), UNCHANGED <<accepting, limit>> PROVE IInv'
  BY <1>5, SessionKeeps
<1>6. CASE AcceptFails
  BY <1>3, <1>6 DEF AcceptFails
<1>7. CASE UNCHANGED vars
  BY <1>3, <1>7 DEF vars, IInv, TypeOK
<1> QED
  BY <1>1, <1>2, <1>4, <1>5, <1>6, <1>7 DEF Next, AcceptStep

-----------------------------------------------------------------------------
(* Every reachable state satisfies the inductive invariant.                *)
THEOREM Invariance == Spec => []IInv
BY InitIInv, NextIInv, PTL DEF Spec

(* Type correctness of the accept loop and its connections.                *)
THEOREM TypeCorrect == Spec => []TypeOK
<1>1. IInv => TypeOK
  BY DEF IInv
<1> QED
  BY <1>1, Invariance, PTL

-----------------------------------------------------------------------------
(* The server implements RequestReply.                                     *)

(* A coroutine moves, and no reply is written: the client may be given up. *)
LEMMA MoveImplements ==
  ASSUME IInv, NEW c \in Clients, NEW place \in Places, Goto(c, place),
         UNCHANGED <<sent, replies>>,
         pc[c] \notin {"upgraded", "ended"}, pc[c] = "close" => place = "ended"
  PROVE  RR!RRNext \/ UNCHANGED RR!rrVars
<1>1. \A d \in Clients : pc'[d] = IF d = c THEN place ELSE pc[d]
  BY DEF Goto, IInv, TypeOK
<1>2. CASE place \in {"close", "upgraded", "ended"}
  <2>1. Over' = Over \cup {c}
    BY <1>1, <1>2 DEF Over
  <2>2. RR!GiveUp(c)
    BY <2>1 DEF RR!GiveUp
  <2> QED
    BY <2>2 DEF RR!RRNext
<1>3. CASE place \notin {"close", "upgraded", "ended"}
  <2>1. Over' = Over
    BY <1>1, <1>3 DEF Over
  <2> QED
    BY <2>1 DEF RR!rrVars
<1> QED
  BY <1>2, <1>3

LEMMA WriteImplements ==
  ASSUME IInv, NEW c \in Clients, Write(c)
  PROVE  RR!RRNext
<1>1. /\ pc[c] = "write"
      /\ replies' = [replies EXCEPT ![c] = Append(@, req[c])]
      /\ Goto(c, IF KeepAlive(c) THEN "read" ELSE "close")
      /\ sent' = sent
  BY DEF Write
<1>2. Numbered(c) /\ Handling(c)
  BY <1>1 DEF IInv, ConnInv
<1>3. req[c] = Len(replies[c]) + 1 /\ req[c] \in DOMAIN sent[c] /\ sent[c][req[c]] # "bad"
  BY <1>2, HandledWasSent DEF Handling, IInv, TypeOK
<1>4. \A d \in Clients :
        pc'[d] = IF d = c THEN IF KeepAlive(c) THEN "read" ELSE "close" ELSE pc[d]
  BY <1>1 DEF Goto, IInv, TypeOK
<1>5. c \notin Over
  BY <1>1 DEF Over
<1>6. Over' = IF sent[c][req[c]] = "last" THEN Over \cup {c} ELSE Over
  BY <1>1, <1>4 DEF Over, KeepAlive
<1>7. RR!Answer(c)
  BY <1>1, <1>3, <1>5, <1>6 DEF RR!Answer
<1> QED
  BY <1>7 DEF RR!RRNext

LEMMA ClientImplements ==
  ASSUME IInv, NEW c \in Clients, ClientStep(c)
  PROVE  RR!RRNext \/ UNCHANGED RR!rrVars
<1>1. /\ UNCHANGED sessionVars
      /\ UNCHANGED sent \/ \E r \in Requests : sent' = [sent EXCEPT ![c] = Append(@, r)]
  BY ClientKeeps DEF IInv, TypeOK, ConnInv
<1>2. replies' = replies /\ Over' = Over
  BY <1>1 DEF sessionVars, Over
<1>3. CASE UNCHANGED sent
  BY <1>2, <1>3 DEF RR!rrVars
<1>4. CASE \E r \in Requests : sent' = [sent EXCEPT ![c] = Append(@, r)]
  <2>1. RR!Ask(c)
    BY <1>2, <1>4 DEF RR!Ask
  <2> QED
    BY <2>1 DEF RR!RRNext
<1> QED
  BY <1>1, <1>3, <1>4

LEMMA SessionImplements ==
  ASSUME IInv, NEW c \in Clients, SessionStep(c)
  PROVE  RR!RRNext \/ UNCHANGED RR!rrVars
<1> USE DEF Places, clientVars
<1>1. CASE ReadSome(c)
  <2>1. UNCHANGED <<sent, replies>> /\ Over' = Over
    BY <1>1 DEF ReadSome, Over
  <2> QED
    BY <2>1 DEF RR!rrVars
<1>2. CASE ReadFails(c)
  BY <1>2, MoveImplements DEF ReadFails, ReadError, Reading
<1>3. CASE DetectHttp(c)
  BY <1>3, MoveImplements DEF DetectHttp, Parse
<1>4. CASE DetectWebsocket(c)
  BY <1>4, MoveImplements DEF DetectWebsocket, Parse
<1>5. CASE DetectOther(c)
  BY <1>5, MoveImplements DEF DetectOther, Parse
<1>6. CASE HttpRead(c)
  BY <1>6, MoveImplements DEF HttpRead, Parse
<1>7. CASE Route(c)
  BY <1>7, MoveImplements DEF Route
<1>8. CASE Write(c)
  BY <1>8, WriteImplements
<1>9. CASE WriteFails(c)
  BY <1>9, MoveImplements DEF WriteFails
<1>10. CASE Close(c)
  BY <1>10, MoveImplements DEF Close
<1> QED
  BY <1>1, <1>2, <1>3, <1>4, <1>5, <1>6, <1>7, <1>8, <1>9, <1>10 DEF SessionStep

LEMMA StepImplements ==
  ASSUME IInv, [Next]_vars
  PROVE  RR!RRNext \/ UNCHANGED RR!rrVars
<1>1. ASSUME NEW c \in Clients, Accept(c) \/ AcceptReset(c)
      PROVE  RR!RRNext \/ UNCHANGED RR!rrVars
  BY <1>1, MoveImplements DEF Accept, AcceptReset, Waiting, Places, clientVars
<1>2. CASE AcceptFails \/ UNCHANGED vars
  <2>1. UNCHANGED <<sent, replies, pc>>
    BY <1>2 DEF AcceptFails, vars, connVars, clientVars, sessionVars
  <2>2. Over' = Over
    BY <2>1 DEF Over
  <2> QED
    BY <2>1, <2>2 DEF RR!rrVars
<1>3. ASSUME NEW c \in Clients, ClientStep(c) PROVE RR!RRNext \/ UNCHANGED RR!rrVars
  BY <1>3, ClientImplements
<1>4. ASSUME NEW c \in Clients, SessionStep(c) PROVE RR!RRNext \/ UNCHANGED RR!rrVars
  BY <1>4, SessionImplements
<1> QED
  BY <1>1, <1>2, <1>3, <1>4 DEF Next, AcceptStep

(* Whatever the clients do, and whenever the accept loop ends, requests    *)
(* are answered as RequestReply promises (detect_session.cpp:57,           *)
(* http_session_coro.cpp:112-130).                                         *)
THEOREM ServerImplementsRequestReply == Spec => ImplementsRequestReply
<1>1. Init => RR!RRInit
  BY DEF Init, ConnInit, RR!RRInit, Over
<1>2. IInv /\ [Next]_vars => [RR!RRNext]_(RR!rrVars)
  BY StepImplements
<1> QED
  BY <1>1, <1>2, Invariance, PTL DEF Spec, ImplementsRequestReply, RR!RRSpec

-----------------------------------------------------------------------------
(* What that means to a client: its i-th reply is to its i-th request, and *)
(* there is none after the one to a request that ends the connection.      *)
RepliesInOrder ==
  \A c \in Clients :
    /\ AnsweredInOrder(sent[c], replies[c])
    /\ c \notin Over => NoEndAsked(sent[c], replies[c])

LEMMA StepKeepsOrder ==
  ASSUME IInv, [Next]_vars, RepliesInOrder
  PROVE  RepliesInOrder'
<1> SUFFICES ASSUME NEW d \in Clients
             PROVE  /\ AnsweredInOrder(sent'[d], replies'[d])
                    /\ d \notin Over' => NoEndAsked(sent'[d], replies'[d])
  BY DEF RepliesInOrder, AnsweredInOrder, NoEndAsked
<1>1. /\ AnsweredInOrder(sent[d], replies[d])
      /\ d \notin Over => NoEndAsked(sent[d], replies[d])
  BY DEF RepliesInOrder
<1>2. sent \in [Clients -> Seq(Requests)] /\ replies \in [Clients -> Seq(Nat)]
  BY DEF IInv, TypeOK, ConnTypeOK
<1>3. ASSUME NEW c \in Clients, RR!Ask(c)
      PROVE  /\ AnsweredInOrder(sent'[d], replies'[d])
             /\ d \notin Over' => NoEndAsked(sent'[d], replies'[d])
  <2>1. PICK r \in Requests : sent' = [sent EXCEPT ![c] = Append(@, r)]
    BY <1>3 DEF RR!Ask
  <2>2. replies' = replies /\ Over' = Over
    BY <1>3 DEF RR!Ask
  <2>3. /\ AnsweredInOrder(Append(sent[d], r), replies[d])
        /\ d \notin Over => NoEndAsked(Append(sent[d], r), replies[d])
    BY <1>1, <1>2, OrderOfAsk
  <2>4. sent'[d] = IF d = c THEN Append(sent[d], r) ELSE sent[d]
    BY <1>2, <2>1
  <2> QED
    BY <1>1, <2>2, <2>3, <2>4
<1>4. ASSUME NEW c \in Clients, RR!Answer(c)
      PROVE  /\ AnsweredInOrder(sent'[d], replies'[d])
             /\ d \notin Over' => NoEndAsked(sent'[d], replies'[d])
  <2> DEFINE next == Len(replies[c]) + 1
  <2>1. /\ c \notin Over
        /\ next \in DOMAIN sent[c] /\ sent[c][next] # "bad"
        /\ replies' = [replies EXCEPT ![c] = Append(@, next)]
        /\ Over' = IF sent[c][next] = "last" THEN Over \cup {c} ELSE Over
        /\ sent' = sent
    BY <1>4 DEF RR!Answer
  <2>2. CASE d = c
    <3>1. replies'[d] = Append(replies[d], next)
      BY <1>2, <2>1, <2>2
    <3>2. /\ AnsweredInOrder(sent[d], Append(replies[d], next))
          /\ sent[d][next] # "last" => NoEndAsked(sent[d], Append(replies[d], next))
      BY <1>1, <1>2, <2>1, <2>2, OrderOfAnswer
    <3> QED
      BY <2>1, <2>2, <3>1, <3>2
  <2>3. CASE d # c
    BY <1>1, <1>2, <2>1, <2>3
  <2> QED
    BY <2>2, <2>3
<1>5. ASSUME NEW c \in Clients, RR!GiveUp(c)
      PROVE  /\ AnsweredInOrder(sent'[d], replies'[d])
             /\ d \notin Over' => NoEndAsked(sent'[d], replies'[d])
  BY <1>1, <1>5 DEF RR!GiveUp
<1>6. CASE UNCHANGED RR!rrVars
  BY <1>1, <1>6 DEF RR!rrVars
<1> QED
  BY <1>3, <1>4, <1>5, <1>6, StepImplements DEF RR!RRNext

(* The i-th reply on a connection is to the i-th request, none is to bytes *)
(* that are no request, and none comes after the reply to a request that   *)
(* asked for the end.                                                      *)
THEOREM AnswersInOrder == Spec => []RepliesInOrder
<1>1. Init => RepliesInOrder
  <2>1. ASSUME Init, NEW c \in Clients PROVE 1 .. Len(replies[c]) = {}
    BY <2>1 DEF Init, ConnInit
  <2> QED
    BY <2>1, Zenon DEF RepliesInOrder, AnsweredInOrder, NoEndAsked
<1>2. IInv /\ [Next]_vars /\ RepliesInOrder => RepliesInOrder'
  BY StepKeepsOrder
<1> QED
  BY <1>1, <1>2, Invariance, PTL DEF Spec

=============================================================================
