----------------------- MODULE HttpServerAsync_proofs ------------------------
(***************************************************************************)
(* Proofs about the callback server: for any number of clients, requests   *)
(* and workers, every connection answers its requests in order, once, and  *)
(* not beyond the one that ends it, although each request passes through   *)
(* the strand of its session, the queue of the workers and a worker.       *)
(*                                                                         *)
(* The queue is what orders the executors: a session is in it at most      *)
(* once, and only while it waits there, so a worker that takes a session   *)
(* up is the only one to go on with it.                                    *)
(***************************************************************************)
EXTENDS HttpServerAsync, HttpStream_proofs

ConnInv(c) ==
  /\ Numbered(c)
  /\ pc[c] \in {"none", "read"} => CaughtUp(c)
  /\ pc[c] \in {"posted", "handle", "write"} => Handling(c)
  /\ pc[c] = "written" => Answered(c)

(* Who is in the queue of the workers waits there, and once.               *)
QueueInv ==
  /\ \A i \in 1 .. Len(m_workers_pool) : pc[m_workers_pool[i]] = "posted"
  /\ \A i, j \in 1 .. Len(m_workers_pool) : m_workers_pool[i] = m_workers_pool[j] => i = j

IInv ==
  /\ TypeOK
  /\ QueueInv
  /\ \A c \in Clients : ConnInv(c)

-----------------------------------------------------------------------------
(* The queue, while the sessions in it stay where they are.                *)
LEMMA QueueKeeps ==
  ASSUME IInv, NEW c \in Clients, pc[c] # "posted", NEW place, Goto(c, place),
         UNCHANGED m_workers_pool
  PROVE  QueueInv'
<1>1. m_workers_pool \in Seq(Clients)
  BY DEF IInv, TypeOK
<1>2. \A i \in 1 .. Len(m_workers_pool) :
        m_workers_pool[i] \in Clients /\ m_workers_pool[i] # c
  BY <1>1, ElementOfSeq DEF IInv, QueueInv
<1>3. \A d \in Clients : d # c => pc'[d] = pc[d]
  BY DEF Goto, IInv, TypeOK
<1> QED
  BY <1>2, <1>3 DEF IInv, QueueInv

(* The connections are left alone, but for the place of one session, which *)
(* goes on with what it has.                                               *)
LEMMA MoveKeeps ==
  ASSUME IInv, NEW c \in Clients, NEW place \in Places, Goto(c, place),
         UNCHANGED <<clientVars, taken, m_buffer, req, replies>>,
         \/ place = "ended"
         \/ pc[c] = "none" /\ place = "read"
         \/ pc[c] = "posted" /\ place = "handle"
         \/ pc[c] = "handle" /\ place = "write"
         \/ pc[c] = "written" /\ place = "read",
         QueueInv', m_workers_pool' \in Seq(Clients), process' \in {"running", "crashed"}
  PROVE  IInv'
<1>1. TypeOK'
  BY DEF IInv, TypeOK, ConnTypeOK, Goto, clientVars
<1>2. ASSUME NEW d \in Clients PROVE ConnInv(d)'
  <2>1. /\ Numbered(d)'
        /\ CaughtUp(d) => CaughtUp(d)'
        /\ Handling(d) => Handling(d)'
        /\ Answered(d) => Answered(d)'
    BY SameConnection DEF IInv, ConnInv, clientVars
  <2>2. pc'[d] = IF d = c THEN place ELSE pc[d]
    BY DEF Goto, IInv, TypeOK
  <2> QED
    BY <2>1, <2>2 DEF IInv, ConnInv, Answered
<1> QED
  BY <1>1, <1>2 DEF IInv

LEMMA ReadDoneKeeps ==
  ASSUME IInv, NEW c \in Clients, ReadDone(c)
  PROVE  IInv'
<1>1. /\ pc[c] = "read" /\ Parse(c, "read")
      /\ m_buffer' = [m_buffer EXCEPT ![c] = Tail(@)]
      /\ Goto(c, "posted")
      /\ m_workers_pool' = Append(m_workers_pool, c)
      /\ UNCHANGED <<clientVars, taken, replies, process>>
  BY DEF ReadDone, Parse
<1>2. CaughtUp(c)
  BY <1>1 DEF IInv, ConnInv
<1>3. ASSUME NEW d \in Clients
      PROVE  /\ ConnTypeOK'
             /\ Numbered(d)'
             /\ d = c => Handling(d)'
             /\ d # c /\ CaughtUp(d) => CaughtUp(d)'
             /\ d # c /\ Handling(d) => Handling(d)'
             /\ d # c /\ Answered(d) => Answered(d)'
  BY <1>1, <1>2, ParseKeeps DEF IInv, TypeOK, ConnInv
<1>4. \A d \in Clients : pc'[d] = IF d = c THEN "posted" ELSE pc[d]
  BY <1>1 DEF Goto, IInv, TypeOK
<1>5. /\ m_workers_pool \in Seq(Clients)
      /\ Len(m_workers_pool) \in Nat
      /\ m_workers_pool' \in Seq(Clients)
      /\ Len(m_workers_pool') = Len(m_workers_pool) + 1
      /\ \A i \in 1 .. Len(m_workers_pool) : m_workers_pool'[i] = m_workers_pool[i]
      /\ m_workers_pool'[Len(m_workers_pool) + 1] = c
  BY <1>1, AppendProperties, LenProperties DEF IInv, TypeOK
<1>6. \A i \in 1 .. Len(m_workers_pool) :
        m_workers_pool[i] \in Clients /\ m_workers_pool[i] # c
  BY <1>1, <1>5, ElementOfSeq DEF IInv, QueueInv
<1>7. QueueInv'
  <2>1. \A i \in 1 .. Len(m_workers_pool') :
          i \in 1 .. Len(m_workers_pool) \/ i = Len(m_workers_pool) + 1
    BY <1>5
  <2> QED
    BY <1>4, <1>5, <1>6, <2>1 DEF IInv, QueueInv
<1>8. TypeOK'
  BY <1>1, <1>3, <1>5 DEF IInv, TypeOK, Goto, Places
<1>9. \A d \in Clients : ConnInv(d)'
  BY <1>3, <1>4 DEF IInv, ConnInv
<1> QED
  BY <1>7, <1>8, <1>9 DEF IInv

LEMMA TakeUpKeeps ==
  ASSUME IInv, NEW c \in Clients, TakeUp(c)
  PROVE  pc[c] = "posted" /\ IInv'
<1>1. /\ m_workers_pool # <<>> /\ Head(m_workers_pool) = c
      /\ m_workers_pool' = Tail(m_workers_pool)
      /\ Goto(c, "handle")
      /\ UNCHANGED <<clientVars, taken, m_buffer, req, replies, process>>
  BY DEF TakeUp
<1>2. /\ m_workers_pool \in Seq(Clients)
      /\ Len(m_workers_pool) \in Nat \ {0}
      /\ m_workers_pool[1] = c
      /\ m_workers_pool' \in Seq(Clients)
      /\ Len(m_workers_pool') = Len(m_workers_pool) - 1
      /\ \A i \in 1 .. Len(m_workers_pool') : m_workers_pool'[i] = m_workers_pool[i + 1]
  BY <1>1, HeadTailProperties, EmptySeq DEF IInv, TypeOK
<1>3. pc[c] = "posted"
  BY <1>2 DEF IInv, QueueInv
<1>4. ASSUME NEW i \in 1 .. Len(m_workers_pool')
      PROVE  /\ i + 1 \in 1 .. Len(m_workers_pool)
             /\ m_workers_pool'[i] \in Clients
             /\ m_workers_pool'[i] # c
             /\ pc'[m_workers_pool'[i]] = "posted"
  <2>1. i + 1 \in 1 .. Len(m_workers_pool) /\ 1 \in 1 .. Len(m_workers_pool) /\ i + 1 # 1
    BY <1>2
  <2>2. m_workers_pool'[i] \in Clients
    BY <1>2, ElementOfSeq
  <2>3. m_workers_pool'[i] # c /\ pc[m_workers_pool'[i]] = "posted"
    BY <1>2, <2>1 DEF IInv, QueueInv
  <2> QED
    BY <1>1, <2>1, <2>2, <2>3 DEF Goto, IInv, TypeOK
<1>5. QueueInv'
  <2> SUFFICES ASSUME NEW i \in 1 .. Len(m_workers_pool'), NEW j \in 1 .. Len(m_workers_pool'),
                      m_workers_pool'[i] = m_workers_pool'[j]
               PROVE  i = j
    BY <1>4 DEF QueueInv
  <2>1. i + 1 = j + 1
    BY <1>2, <1>4 DEF IInv, QueueInv
  <2> QED
    BY <2>1, <1>2
<1>6. process' \in {"running", "crashed"}
  BY <1>1 DEF IInv, TypeOK
<1> QED
  BY <1>1, <1>2, <1>3, <1>5, <1>6, MoveKeeps DEF Places

LEMMA WrittenKeeps ==
  ASSUME IInv, NEW c \in Clients, Write(c)
  PROVE  IInv'
<1>1. Handling(c) /\ pc[c] # "posted"
  BY DEF Write, IInv, ConnInv
<1>2. ASSUME NEW d \in Clients
      PROVE  /\ ConnTypeOK'
             /\ Numbered(d)'
             /\ d = c => Answered(d)'
             /\ d # c /\ CaughtUp(d) => CaughtUp(d)'
             /\ d # c /\ Handling(d) => Handling(d)'
             /\ d # c /\ Answered(d) => Answered(d)'
  BY <1>1, WriteKeeps DEF Write, IInv, TypeOK, ConnInv
<1>3. TypeOK'
  BY <1>2 DEF Write, IInv, TypeOK, Goto, Places
<1>4. \A d \in Clients : pc'[d] = IF d = c THEN "written" ELSE pc[d]
  BY DEF Write, Goto, IInv, TypeOK
<1>5. \A d \in Clients : ConnInv(d)'
  BY <1>2, <1>4 DEF IInv, ConnInv
<1>6. QueueInv'
  BY <1>1, QueueKeeps DEF Write
<1> QED
  BY <1>3, <1>5, <1>6 DEF IInv

LEMMA ArrivedKeeps ==
  ASSUME IInv, NEW c \in Clients, ReadSome(c), UNCHANGED <<m_workers_pool, process>>
  PROVE  IInv'
<1>1. pc[c] = "read" /\ pc' = pc
  BY DEF ReadSome, Reading, IInv, TypeOK, Places
<1>2. ASSUME NEW d \in Clients
      PROVE  /\ ConnTypeOK'
             /\ Numbered(d)'
             /\ CaughtUp(d) => CaughtUp(d)'
             /\ d # c /\ Handling(d) => Handling(d)'
             /\ d # c /\ Answered(d) => Answered(d)'
  BY ReadKeeps DEF IInv, TypeOK, ConnInv
<1>3. TypeOK' /\ QueueInv'
  BY <1>1, <1>2 DEF IInv, TypeOK, QueueInv
<1> QED
  BY <1>1, <1>2, <1>3 DEF IInv, ConnInv

LEMMA ClientStepKeeps ==
  ASSUME IInv, NEW c \in Clients, ClientStep(c), UNCHANGED <<m_workers_pool, process>>
  PROVE  IInv'
<1>1. ASSUME NEW d \in Clients
      PROVE  /\ ConnTypeOK'
             /\ UNCHANGED sessionVars
             /\ Numbered(d)'
             /\ CaughtUp(d) => CaughtUp(d)'
             /\ Handling(d) => Handling(d)'
             /\ Answered(d) => Answered(d)'
  BY ClientKeeps DEF IInv, TypeOK, ConnInv
<1>2. TypeOK' /\ QueueInv'
  BY <1>1 DEF IInv, TypeOK, QueueInv, sessionVars
<1> QED
  BY <1>1, <1>2 DEF IInv, ConnInv, sessionVars

(* The process: no handler brings it back.                                 *)
LEMMA PeerAsked ==
  ASSUME IInv, NEW c \in Clients, AskPeer(c) \/ UNCHANGED process
  PROVE  process' \in {"running", "crashed"}
BY DEF AskPeer, IInv, TypeOK

LEMMA SessionKeeps ==
  ASSUME IInv, NEW c \in Clients, SessionStep(c)
  PROVE  IInv'
<1> USE DEF Places
<1>0. ASSUME NEW place \in Places, Goto(c, place), pc[c] # "posted",
             AskPeer(c) \/ UNCHANGED process,
             UNCHANGED <<clientVars, taken, m_buffer, req, replies, m_workers_pool>>,
             \/ place = "ended"
             \/ pc[c] = "handle" /\ place = "write"
             \/ pc[c] = "written" /\ place = "read"
      PROVE  IInv'
  <2>1. QueueInv' /\ m_workers_pool' \in Seq(Clients)
    BY <1>0, QueueKeeps DEF IInv, TypeOK
  <2>2. process' \in {"running", "crashed"}
    BY <1>0, PeerAsked
  <2> QED
    BY <1>0, <2>1, <2>2, MoveKeeps
<1>1. CASE ReadSome(c) /\ UNCHANGED <<m_workers_pool, process>>
  BY <1>1, ArrivedKeeps
<1>2. CASE ReadDone(c)
  BY <1>2, ReadDoneKeeps
<1>3. CASE ReadFails(c)
  BY <1>0, <1>3 DEF ReadFails, ReadError, Reading
<1>4. CASE TakeUp(c)
  BY <1>4, TakeUpKeeps
<1>5. CASE Handled(c)
  BY <1>0, <1>5 DEF Handled
<1>6. CASE Write(c)
  BY <1>6, WrittenKeeps
<1>7. CASE WriteFails(c)
  BY <1>0, <1>7 DEF WriteFails
<1>8. CASE WriteDone(c)
  BY <1>0, <1>8 DEF WriteDone
<1> QED
  BY <1>1, <1>2, <1>3, <1>4, <1>5, <1>6, <1>7, <1>8 DEF SessionStep

LEMMA InitIInv == Init => IInv
<1> SUFFICES ASSUME Init PROVE IInv
  OBVIOUS
<1>1. ConnTypeOK /\ \A c \in Clients : Numbered(c) /\ CaughtUp(c)
  BY InitConnections DEF Init
<1>2. pc = [c \in Clients |-> "none"]
  BY DEF Init, ConnInit
<1> QED
  BY <1>1, <1>2 DEF Init, IInv, TypeOK, ConnInv, QueueInv, Places

LEMMA NextIInv ==
  ASSUME IInv, [Next]_vars
  PROVE  IInv'
<1>1. ASSUME NEW c \in Clients, Accept(c) PROVE IInv'
  <2>1. /\ pc[c] = "none" /\ Goto(c, "read") /\ AskPeer(c)
        /\ UNCHANGED <<clientVars, taken, m_buffer, req, replies, m_workers_pool>>
    BY <1>1 DEF Accept
  <2>2. QueueInv' /\ m_workers_pool' \in Seq(Clients)
    BY <2>1, QueueKeeps DEF IInv, TypeOK
  <2>3. process' \in {"running", "crashed"}
    BY <2>1, PeerAsked
  <2> QED
    BY <2>1, <2>2, <2>3, MoveKeeps DEF Places
<1>2. ASSUME NEW c \in Clients, SessionStep(c) PROVE IInv'
  BY <1>2, SessionKeeps
<1>3. ASSUME NEW c \in Clients, ClientStep(c), UNCHANGED <<m_workers_pool, process>> PROVE IInv'
  BY <1>3, ClientStepKeeps
<1>4. ASSUME UNCHANGED <<connVars, m_workers_pool>>, process' \in {"running", "crashed"}
      PROVE  IInv'
  <2>1. TypeOK' /\ QueueInv'
    BY <1>4 DEF IInv, TypeOK, QueueInv, ConnTypeOK, connVars, clientVars, sessionVars
  <2>2. \A d \in Clients : ConnInv(d)'
    BY <1>4, SameConnection DEF IInv, ConnInv, connVars, clientVars, sessionVars
  <2> QED
    BY <2>1, <2>2 DEF IInv
<1>5. CASE AcceptFails
  BY <1>4, <1>5 DEF AcceptFails
<1>6. CASE UNCHANGED vars
  BY <1>4, <1>6 DEF vars, IInv, TypeOK
<1> QED
  BY <1>1, <1>2, <1>3, <1>5, <1>6 DEF Next

-----------------------------------------------------------------------------
(* Every reachable state satisfies the inductive invariant.                *)
THEOREM Invariance == Spec => []IInv
BY InitIInv, NextIInv, PTL DEF Spec

(* Type correctness of the sessions, the queue of the workers and the      *)
(* process.                                                                *)
THEOREM TypeCorrect == Spec => []TypeOK
<1>1. IInv => TypeOK
  BY DEF IInv
<1> QED
  BY <1>1, Invariance, PTL

-----------------------------------------------------------------------------
(* The server implements RequestReply.                                     *)

(* A session moves on from a place where it is served, and no reply is     *)
(* written: it may be given up.                                            *)
LEMMA MoveImplements ==
  ASSUME IInv, NEW c \in Clients, NEW place \in Places \ {"written"}, Goto(c, place),
         UNCHANGED <<sent, replies>>, pc[c] \notin {"written", "ended"},
         \A d \in Clients : pc[d] = "written" => KeepAlive(d)' = KeepAlive(d)
  PROVE  RR!RRNext \/ UNCHANGED RR!rrVars
<1>1. \A d \in Clients : pc'[d] = IF d = c THEN place ELSE pc[d]
  BY DEF Goto, IInv, TypeOK
<1>2. CASE place = "ended"
  <2>1. Over' = Over \cup {c}
    BY <1>1, <1>2 DEF Over
  <2>2. RR!GiveUp(c)
    BY <2>1 DEF RR!GiveUp
  <2> QED
    BY <2>2 DEF RR!RRNext
<1>3. CASE place # "ended"
  <2>1. Over' = Over
    BY <1>1, <1>3 DEF Over
  <2> QED
    BY <2>1 DEF RR!rrVars
<1> QED
  BY <1>2, <1>3

LEMMA WriteImplements ==
  ASSUME IInv, NEW c \in Clients, Write(c)
  PROVE  RR!RRNext
<1>1. /\ pc[c] = "write"
      /\ replies' = [replies EXCEPT ![c] = Append(@, req[c])]
      /\ Goto(c, "written")
      /\ sent' = sent /\ req' = req
  BY DEF Write
<1>2. Numbered(c) /\ Handling(c)
  BY <1>1 DEF IInv, ConnInv
<1>3. req[c] = Len(replies[c]) + 1 /\ req[c] \in DOMAIN sent[c] /\ sent[c][req[c]] # "bad"
  BY <1>2, HandledWasSent DEF Handling, IInv, TypeOK
<1>4. \A d \in Clients : pc'[d] = IF d = c THEN "written" ELSE pc[d]
  BY <1>1 DEF Goto, IInv, TypeOK
<1>5. c \notin Over
  BY <1>1 DEF Over
<1>6. Over' = IF sent[c][req[c]] = "last" THEN Over \cup {c} ELSE Over
  BY <1>1, <1>4 DEF Over, KeepAlive
<1>7. RR!Answer(c)
  BY <1>1, <1>3, <1>5, <1>6 DEF RR!Answer
<1> QED
  BY <1>7 DEF RR!RRNext

(* The completion handler ends what the reply has ended already.           *)
LEMMA WriteDoneImplements ==
  ASSUME IInv, NEW c \in Clients, WriteDone(c)
  PROVE  UNCHANGED RR!rrVars
<1>1. /\ pc[c] = "written"
      /\ Goto(c, IF KeepAlive(c) THEN "read" ELSE "ended")
      /\ UNCHANGED <<sent, req, replies>>
  BY DEF WriteDone, clientVars
<1>2. \A d \in Clients :
        pc'[d] = IF d = c THEN IF KeepAlive(c) THEN "read" ELSE "ended" ELSE pc[d]
  BY <1>1 DEF Goto, IInv, TypeOK
<1>3. \A d \in Clients : KeepAlive(d)' = KeepAlive(d)
  BY <1>1 DEF KeepAlive
<1>4. Over' = Over
  BY <1>1, <1>2, <1>3 DEF Over
<1> QED
  BY <1>1, <1>4 DEF RR!rrVars

LEMMA ClientImplements ==
  ASSUME IInv, NEW c \in Clients, ClientStep(c)
  PROVE  RR!RRNext \/ UNCHANGED RR!rrVars
<1>1. ASSUME NEW d \in Clients
      PROVE  /\ UNCHANGED sessionVars
             /\ UNCHANGED sent \/ \E r \in Requests : sent' = [sent EXCEPT ![c] = Append(@, r)]
             /\ pc[d] = "written" => KeepAlive(d)' = KeepAlive(d)
  BY ClientKeeps DEF IInv, TypeOK, ConnInv
<1>2. replies' = replies /\ Over' = Over
  BY <1>1 DEF sessionVars, Over
<1>3. CASE UNCHANGED sent
  BY <1>2, <1>3 DEF RR!rrVars
<1>4. CASE \E r \in Requests : sent' = [sent EXCEPT ![c] = Append(@, r)]
  <2>1. RR!Ask(c)
    BY <1>2, <1>4 DEF RR!Ask
  <2> QED
    BY <2>1 DEF RR!RRNext
<1> QED
  BY <1>1, <1>3, <1>4

LEMMA SessionImplements ==
  ASSUME IInv, NEW c \in Clients, SessionStep(c)
  PROVE  RR!RRNext \/ UNCHANGED RR!rrVars
<1> USE DEF Places, clientVars
<1>1. CASE ReadSome(c)
  <2>1. UNCHANGED <<sent, replies>> /\ Over' = Over
    BY <1>1 DEF ReadSome, Over, KeepAlive
  <2> QED
    BY <2>1 DEF RR!rrVars
<1>2. CASE ReadDone(c)
  <2>1. \A d \in Clients : pc[d] = "written" => KeepAlive(d)' = KeepAlive(d)
    <3> SUFFICES ASSUME NEW d \in Clients, pc[d] = "written"
                 PROVE  KeepAlive(d)' = KeepAlive(d)
      OBVIOUS
    <3>1. d # c /\ sent' = sent /\ req' = [req EXCEPT ![c] = Head(m_buffer[c])]
      BY <1>2 DEF ReadDone, Parse
    <3>2. req'[d] = req[d]
      BY <3>1 DEF IInv, TypeOK, ConnTypeOK
    <3> QED
      BY <3>1, <3>2 DEF KeepAlive
  <2> QED
    BY <1>2, <2>1, MoveImplements DEF ReadDone, Parse
<1>3. UNCHANGED <<sent, req>> => \A d \in Clients : KeepAlive(d)' = KeepAlive(d)
  BY DEF KeepAlive
<1>4. CASE ReadFails(c)
  BY <1>3, <1>4, MoveImplements DEF ReadFails, ReadError, Reading
<1>5. CASE TakeUp(c)
  BY <1>3, <1>5, TakeUpKeeps, MoveImplements DEF TakeUp
<1>6. CASE Handled(c)
  BY <1>3, <1>6, MoveImplements DEF Handled
<1>7. CASE Write(c)
  BY <1>7, WriteImplements
<1>8. CASE WriteFails(c)
  BY <1>3, <1>8, MoveImplements DEF WriteFails
<1>9. CASE WriteDone(c)
  BY <1>9, WriteDoneImplements
<1> QED
  BY <1>1, <1>2, <1>4, <1>5, <1>6, <1>7, <1>8, <1>9 DEF SessionStep

LEMMA StepImplements ==
  ASSUME IInv, [Next]_vars
  PROVE  RR!RRNext \/ UNCHANGED RR!rrVars
<1>1. ASSUME NEW c \in Clients, Accept(c) PROVE RR!RRNext \/ UNCHANGED RR!rrVars
  <2>1. \A d \in Clients : KeepAlive(d)' = KeepAlive(d)
    BY <1>1 DEF Accept, KeepAlive, clientVars
  <2> QED
    BY <1>1, <2>1, MoveImplements DEF Accept, Places, clientVars
<1>2. CASE AcceptFails \/ UNCHANGED vars
  <2>1. UNCHANGED <<sent, req, replies, pc>>
    BY <1>2 DEF AcceptFails, vars, connVars, clientVars, sessionVars
  <2>2. Over' = Over
    BY <2>1 DEF Over, KeepAlive
  <2> QED
    BY <2>1, <2>2 DEF RR!rrVars
<1>3. ASSUME NEW c \in Clients, ClientStep(c) PROVE RR!RRNext \/ UNCHANGED RR!rrVars
  BY <1>3, ClientImplements
<1>4. ASSUME NEW c \in Clients, SessionStep(c) PROVE RR!RRNext \/ UNCHANGED RR!rrVars
  BY <1>4, SessionImplements
<1> QED
  BY <1>1, <1>2, <1>3, <1>4 DEF Next

(* Requests are answered as RequestReply promises, although they pass      *)
(* through three executors (http_session.cpp:55-93).                       *)
THEOREM ServerImplementsRequestReply == Spec => ImplementsRequestReply
<1>1. Init => RR!RRInit
  BY DEF Init, ConnInit, RR!RRInit, Over
<1>2. IInv /\ [Next]_vars => [RR!RRNext]_(RR!rrVars)
  BY StepImplements
<1> QED
  BY <1>1, <1>2, Invariance, PTL DEF Spec, ImplementsRequestReply, RR!RRSpec

-----------------------------------------------------------------------------
(* What that means to a client: its i-th reply is to its i-th request, and *)
(* there is none after the one to a request that ends the connection.      *)
RepliesInOrder ==
  \A c \in Clients :
    /\ AnsweredInOrder(sent[c], replies[c])
    /\ c \notin Over => NoEndAsked(sent[c], replies[c])

LEMMA StepKeepsOrder ==
  ASSUME IInv, [Next]_vars, RepliesInOrder
  PROVE  RepliesInOrder'
<1> SUFFICES ASSUME NEW d \in Clients
             PROVE  /\ AnsweredInOrder(sent'[d], replies'[d])
                    /\ d \notin Over' => NoEndAsked(sent'[d], replies'[d])
  BY DEF RepliesInOrder, AnsweredInOrder, NoEndAsked
<1>1. /\ AnsweredInOrder(sent[d], replies[d])
      /\ d \notin Over => NoEndAsked(sent[d], replies[d])
  BY DEF RepliesInOrder
<1>2. sent \in [Clients -> Seq(Requests)] /\ replies \in [Clients -> Seq(Nat)]
  BY DEF IInv, TypeOK, ConnTypeOK
<1>3. ASSUME NEW c \in Clients, RR!Ask(c)
      PROVE  /\ AnsweredInOrder(sent'[d], replies'[d])
             /\ d \notin Over' => NoEndAsked(sent'[d], replies'[d])
  <2>1. PICK r \in Requests : sent' = [sent EXCEPT ![c] = Append(@, r)]
    BY <1>3 DEF RR!Ask
  <2>2. replies' = replies /\ Over' = Over
    BY <1>3 DEF RR!Ask
  <2>3. /\ AnsweredInOrder(Append(sent[d], r), replies[d])
        /\ d \notin Over => NoEndAsked(Append(sent[d], r), replies[d])
    BY <1>1, <1>2, OrderOfAsk
  <2>4. sent'[d] = IF d = c THEN Append(sent[d], r) ELSE sent[d]
    BY <1>2, <2>1
  <2> QED
    BY <1>1, <2>2, <2>3, <2>4
<1>4. ASSUME NEW c \in Clients, RR!Answer(c)
      PROVE  /\ AnsweredInOrder(sent'[d], replies'[d])
             /\ d \notin Over' => NoEndAsked(sent'[d], replies'[d])
  <2> DEFINE next == Len(replies[c]) + 1
  <2>1. /\ c \notin Over
        /\ next \in DOMAIN sent[c] /\ sent[c][next] # "bad"
        /\ replies' = [replies EXCEPT ![c] = Append(@, next)]
        /\ Over' = IF sent[c][next] = "last" THEN Over \cup {c} ELSE Over
        /\ sent' = sent
    BY <1>4 DEF RR!Answer
  <2>2. CASE d = c
    <3>1. replies'[d] = Append(replies[d], next)
      BY <1>2, <2>1, <2>2
    <3>2. /\ AnsweredInOrder(sent[d], Append(replies[d], next))
          /\ sent[d][next] # "last" => NoEndAsked(sent[d], Append(replies[d], next))
      BY <1>1, <1>2, <2>1, <2>2, OrderOfAnswer
    <3> QED
      BY <2>1, <2>2, <3>1, <3>2
  <2>3. CASE d # c
    BY <1>1, <1>2, <2>1, <2>3
  <2> QED
    BY <2>2, <2>3
<1>5. ASSUME NEW c \in Clients, RR!GiveUp(c)
      PROVE  /\ AnsweredInOrder(sent'[d], replies'[d])
             /\ d \notin Over' => NoEndAsked(sent'[d], replies'[d])
  BY <1>1, <1>5 DEF RR!GiveUp
<1>6. CASE UNCHANGED RR!rrVars
  BY <1>1, <1>6 DEF RR!rrVars
<1> QED
  BY <1>3, <1>4, <1>5, <1>6, StepImplements DEF RR!RRNext

(* The i-th reply on a connection is to the i-th request, none is to bytes *)
(* that are no request, and none comes after the reply to a request that   *)
(* asked for the end.                                                      *)
THEOREM AnswersInOrder == Spec => []RepliesInOrder
<1>1. Init => RepliesInOrder
  <2>1. ASSUME Init, NEW c \in Clients PROVE 1 .. Len(replies[c]) = {}
    BY <2>1 DEF Init, ConnInit
  <2> QED
    BY <2>1, Zenon DEF RepliesInOrder, AnsweredInOrder, NoEndAsked
<1>2. IInv /\ [Next]_vars /\ RepliesInOrder => RepliesInOrder'
  BY StepKeepsOrder
<1> QED
  BY <1>1, <1>2, Invariance, PTL DEF Spec

=============================================================================
