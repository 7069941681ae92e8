-------------------------- MODULE HttpStream_proofs --------------------------
(***************************************************************************)
(* Lemmas about HTTP connections that the proofs of both servers rest on:  *)
(* where the requests of a client are, and what the steps that both kinds  *)
(* of sessions share do to them.                                           *)
(*                                                                         *)
(* The requests of a connection are numbered as they are sent.  Those that *)
(* were answered come first, then the one being handled, if any, then      *)
(* those in the buffer, then those still on the way.                       *)
(***************************************************************************)
EXTENDS HttpStream, SequenceTheorems, TLAPS

(* The buffer holds the last requests taken; the first ones are answered.  *)
Numbered(c) ==
  /\ taken[c] <= Len(sent[c])
  /\ Len(m_buffer[c]) <= taken[c]
  /\ \A i \in 1 .. Len(m_buffer[c]) : m_buffer[c][i] = taken[c] - Len(m_buffer[c]) + i

(* All requests that were parsed are answered.                             *)
CaughtUp(c) == Len(replies[c]) = taken[c] - Len(m_buffer[c])

(* All but the last one, which can be answered.                            *)
Handling(c) ==
  /\ req[c] = Len(replies[c]) + 1
  /\ req[c] = taken[c] - Len(m_buffer[c])
  /\ sent[c][req[c]] # "bad"

(* All of them, and the last one was answered last.                        *)
Answered(c) ==
  /\ CaughtUp(c)
  /\ req[c] = Len(replies[c])
  /\ req[c] # 0

-----------------------------------------------------------------------------
LEMMA NumberedTypes ==
  ASSUME ConnTypeOK, NEW c \in Clients
  PROVE  /\ taken[c] \in Nat /\ req[c] \in Nat
         /\ m_buffer[c] \in Seq(Nat) /\ Len(m_buffer[c]) \in Nat
         /\ sent[c] \in Seq(Requests) /\ Len(sent[c]) \in Nat
         /\ replies[c] \in Seq(Nat) /\ Len(replies[c]) \in Nat
<1>1. /\ taken[c] \in Nat /\ req[c] \in Nat
      /\ m_buffer[c] \in Seq(Nat)
      /\ sent[c] \in Seq(Requests)
      /\ replies[c] \in Seq(Nat)
  BY DEF ConnTypeOK
<1> QED
  BY <1>1, LenProperties

(* A connection that a step does not touch stays as it is.                 *)
LEMMA SameConnection ==
  ASSUME NEW c \in Clients,
         sent'[c] = sent[c], taken'[c] = taken[c], m_buffer'[c] = m_buffer[c],
         req'[c] = req[c], replies'[c] = replies[c]
  PROVE  /\ Numbered(c) => Numbered(c)'
         /\ CaughtUp(c) => CaughtUp(c)'
         /\ Handling(c) => Handling(c)'
         /\ Answered(c) => Answered(c)'
         /\ KeepAlive(c)' = KeepAlive(c)
BY DEF Numbered, CaughtUp, Handling, Answered, KeepAlive

(* What the client does never changes what was sent before.                *)
LEMMA ClientKeeps ==
  ASSUME ConnTypeOK, NEW c \in Clients, ClientStep(c), NEW d \in Clients, Numbered(d)
  PROVE  /\ ConnTypeOK'
         /\ UNCHANGED sessionVars
         /\ Numbered(d)'
         /\ CaughtUp(d) => CaughtUp(d)'
         /\ Handling(d) => Handling(d)'
         /\ Answered(d) => Answered(d)' /\ KeepAlive(d)' = KeepAlive(d)
         /\ UNCHANGED sent \/ \E r \in Requests : sent' = [sent EXCEPT ![c] = Append(@, r)]
<1>1. UNCHANGED sessionVars
  BY DEF ClientStep, ClientConnect, ClientSend, ReadReply, ClientEof, ClientReset
<1>2. UNCHANGED sent \/ \E r \in Requests : sent' = [sent EXCEPT ![c] = Append(@, r)]
  BY DEF ClientStep, ClientConnect, ClientSend, ReadReply, ClientEof, ClientReset
<1>3. CASE UNCHANGED sent
  <2>1. ConnTypeOK'
    <3>1. client' \in [Clients -> {"away", "open", "eof", "reset"}]
      BY DEF ConnTypeOK, ClientStep, ClientConnect, ClientSend, ReadReply, ClientEof, ClientReset
    <3>2. unread' \in [Clients -> 0 .. MaxUnread]
      <4>1. unread[c] \in 0 .. MaxUnread /\ MaxUnread \in Nat
        BY MaxUnreadAssumption DEF ConnTypeOK
      <4>2. 0 \in 0 .. MaxUnread /\ (unread[c] > 0 => unread[c] - 1 \in 0 .. MaxUnread)
        BY <4>1
      <4>3. unread' = unread \/ \E n \in 0 .. MaxUnread : unread' = [unread EXCEPT ![c] = n]
        BY <4>2 DEF ClientStep, ClientConnect, ClientSend, ReadReply, ClientEof, ClientReset
      <4> QED
        BY <4>3 DEF ConnTypeOK
    <3> QED
      BY <1>1, <1>3, <3>1, <3>2 DEF ConnTypeOK, sessionVars
  <2> QED
    BY <1>1, <1>3, <2>1, SameConnection DEF sessionVars
<1>4. ASSUME NEW r \in Requests, sent' = [sent EXCEPT ![c] = Append(@, r)]
      PROVE  /\ ConnTypeOK'
             /\ Numbered(d)'
             /\ CaughtUp(d) => CaughtUp(d)'
             /\ Handling(d) => Handling(d)'
             /\ Answered(d) => Answered(d)' /\ KeepAlive(d)' = KeepAlive(d)
  <2>1. /\ sent[c] \in Seq(Requests)
        /\ Len(sent[c]) \in Nat
        /\ Append(sent[c], r) \in Seq(Requests)
        /\ Len(Append(sent[c], r)) = Len(sent[c]) + 1
        /\ \A i \in 1 .. Len(sent[c]) : Append(sent[c], r)[i] = sent[c][i]
    BY NumberedTypes, AppendProperties
  <2>2. ConnTypeOK'
    <3>1. sent' \in [Clients -> Seq(Requests)]
      BY <1>4, <2>1 DEF ConnTypeOK
    <3>2. client' = client /\ unread' = unread
      <4>1. sent' # sent
        <5>1. sent'[c] = Append(sent[c], r)
          BY <1>4 DEF ConnTypeOK
        <5>2. Len(sent'[c]) # Len(sent[c])
          BY <2>1, <5>1
        <5> QED
          BY <5>2
      <4> QED
        BY <4>1 DEF ClientStep, ClientConnect, ClientSend, ReadReply, ClientEof, ClientReset
    <3> QED
      BY <1>1, <3>1, <3>2 DEF ConnTypeOK, sessionVars
  <2>3. CASE d = c
    <3>1. sent'[d] = Append(sent[c], r)
      BY <1>4, <2>3 DEF ConnTypeOK
    <3>2. /\ taken'[d] = taken[d] /\ m_buffer'[d] = m_buffer[d]
          /\ req'[d] = req[d] /\ replies'[d] = replies[d]
      BY <1>1 DEF sessionVars
    <3>3. Numbered(d)' /\ (CaughtUp(d) => CaughtUp(d)')
      BY <2>1, <2>3, <3>1, <3>2, NumberedTypes DEF Numbered, CaughtUp
    <3>4. ASSUME Handling(d) \/ Answered(d) PROVE sent'[d][req[d]] = sent[d][req[d]]
      <4>1. req[d] \in 1 .. Len(sent[d])
        BY <3>4, NumberedTypes DEF Numbered, Handling, Answered, CaughtUp
      <4> QED
        BY <2>1, <2>3, <3>1, <4>1
    <3> QED
      BY <2>2, <3>2, <3>3, <3>4 DEF Handling, Answered, CaughtUp, KeepAlive
  <2>4. CASE d # c
    BY <1>1, <1>4, <2>2, <2>4, SameConnection DEF ConnTypeOK, sessionVars
  <2> QED
    BY <2>3, <2>4
<1> QED
  BY <1>1, <1>2, <1>3, <1>4

(* What arrives is numbered on.                                            *)
LEMMA ReadKeeps ==
  ASSUME ConnTypeOK, NEW c \in Clients, ReadSome(c), NEW d \in Clients, Numbered(d)
  PROVE  /\ ConnTypeOK'
         /\ Numbered(d)'
         /\ CaughtUp(d) => CaughtUp(d)'
         /\ d # c /\ Handling(d) => Handling(d)'
         /\ d # c /\ Answered(d) => Answered(d)'
<1>1. PICK n \in taken[c] + 1 .. Len(sent[c]) :
        /\ taken' = [taken EXCEPT ![c] = n]
        /\ m_buffer' = [m_buffer EXCEPT ![c] = [i \in 1 .. n - taken[c] |-> taken[c] + i]]
  BY DEF ReadSome
<1>2. m_buffer[c] = <<>> /\ UNCHANGED <<clientVars, req, replies>>
  BY DEF ReadSome
<1> DEFINE arrived == [i \in 1 .. n - taken[c] |-> taken[c] + i]
<1>3. n \in Nat /\ n - taken[c] \in Nat /\ taken[c] \in Nat
  BY <1>1, NumberedTypes
<1>4. /\ arrived \in Seq(Nat)
      /\ Len(arrived) = n - taken[c]
      /\ \A i \in 1 .. Len(arrived) : arrived[i] = taken[c] + i
  <2>1. \A i \in 1 .. n - taken[c] : taken[c] + i \in Nat
    BY <1>3
  <2> QED
    BY <1>3, <2>1
<1> HIDE DEF arrived
<1>5. ConnTypeOK'
  BY <1>1, <1>2, <1>3, <1>4 DEF ConnTypeOK, clientVars, arrived
<1>6. CASE d = c
  <2>1. taken'[d] = n /\ m_buffer'[d] = arrived /\ sent'[d] = sent[d] /\ replies'[d] = replies[d]
    BY <1>1, <1>2, <1>6 DEF ConnTypeOK, clientVars, arrived
  <2>2. Len(m_buffer[d]) = 0
    BY <1>2, <1>6
  <2>3. n <= Len(sent[d]) /\ Len(sent[d]) \in Nat /\ taken[d] \in Nat
    BY <1>1, <1>3, <1>6, NumberedTypes
  <2>4. Numbered(d)'
    <3>1. n <= Len(sent[d]) /\ n - taken[d] <= n
      BY <2>3, <1>3, <1>6
    <3>2. \A i \in 1 .. n - taken[d] : arrived[i] = n - (n - taken[d]) + i
      BY <1>3, <1>4, <1>6
    <3>3. Len(arrived) = n - taken[d]
      BY <1>4, <1>6
    <3> QED
      BY <2>1, <3>1, <3>2, <3>3 DEF Numbered
  <2>5. CaughtUp(d) => CaughtUp(d)'
    <3>1. n - Len(arrived) = taken[d] /\ taken[d] - Len(m_buffer[d]) = taken[d]
      BY <1>3, <1>4, <1>6, <2>2
    <3> QED
      BY <2>1, <3>1 DEF CaughtUp
  <2> QED
    BY <1>5, <1>6, <2>4, <2>5
<1>7. CASE d # c
  BY <1>1, <1>2, <1>5, <1>7, SameConnection DEF ConnTypeOK, clientVars
<1> QED
  BY <1>6, <1>7

(* A parsed request leaves the buffer and is the next to be answered.      *)
LEMMA ParseKeeps ==
  ASSUME ConnTypeOK, NEW c \in Clients, NEW reader, Parse(c, reader),
         m_buffer' = [m_buffer EXCEPT ![c] = Tail(@)],
         UNCHANGED <<clientVars, taken, replies>>,
         NEW d \in Clients, Numbered(d)
  PROVE  /\ ConnTypeOK'
         /\ Numbered(d)'
         /\ d = c /\ CaughtUp(d) => Handling(d)'
         /\ d # c /\ CaughtUp(d) => CaughtUp(d)'
         /\ d # c /\ Handling(d) => Handling(d)'
         /\ d # c /\ Answered(d) => Answered(d)'
<1>1. /\ m_buffer[c] # <<>>
      /\ sent[c][Head(m_buffer[c])] # "bad"
      /\ req' = [req EXCEPT ![c] = Head(m_buffer[c])]
  BY DEF Parse
<1>2. /\ Len(m_buffer[c]) \in Nat \ {0}
      /\ Head(m_buffer[c]) = m_buffer[c][1] /\ m_buffer[c][1] \in Nat
      /\ Tail(m_buffer[c]) \in Seq(Nat)
      /\ Len(Tail(m_buffer[c])) = Len(m_buffer[c]) - 1
      /\ \A i \in 1 .. Len(Tail(m_buffer[c])) : Tail(m_buffer[c])[i] = m_buffer[c][i + 1]
  <2>1. m_buffer[c] \in Seq(Nat)
    BY NumberedTypes
  <2>2. Len(m_buffer[c]) \in Nat \ {0}
    BY <1>1, <2>1, EmptySeq
  <2>3. /\ Tail(m_buffer[c]) \in Seq(Nat)
        /\ Len(Tail(m_buffer[c])) = Len(m_buffer[c]) - 1
        /\ \A i \in 1 .. Len(Tail(m_buffer[c])) : Tail(m_buffer[c])[i] = m_buffer[c][i + 1]
    BY <1>1, <2>1, HeadTailProperties
  <2>4. Head(m_buffer[c]) = m_buffer[c][1]
    OBVIOUS
  <2>5. m_buffer[c][1] \in Nat
    BY <2>1, <2>2
  <2> QED
    BY <2>2, <2>3, <2>4, <2>5
<1>3. ConnTypeOK'
  BY <1>1, <1>2 DEF ConnTypeOK, clientVars
<1>4. CASE d = c
  <2>1. /\ m_buffer'[d] = Tail(m_buffer[d]) /\ req'[d] = m_buffer[d][1]
        /\ taken'[d] = taken[d] /\ sent'[d] = sent[d] /\ replies'[d] = replies[d]
    BY <1>1, <1>2, <1>4 DEF ConnTypeOK, clientVars
  <2>2. m_buffer[d][1] = taken[d] - Len(m_buffer[d]) + 1
    BY <1>2, <1>4 DEF Numbered
  <2>3. sent'[d][req'[d]] # "bad"
    BY <1>1, <1>2, <1>4, <2>1
  <2>4. Numbered(d)'
    <3> SUFFICES ASSUME NEW i \in 1 .. Len(Tail(m_buffer[d]))
                 PROVE  Tail(m_buffer[d])[i] = taken[d] - (Len(m_buffer[d]) - 1) + i
      BY <1>2, <1>4, <2>1, NumberedTypes DEF Numbered
    <3>1. i + 1 \in 1 .. Len(m_buffer[d])
      BY <1>2, <1>4
    <3>2. Tail(m_buffer[d])[i] = taken[d] - Len(m_buffer[d]) + (i + 1)
      BY <1>2, <1>4, <3>1 DEF Numbered
    <3>3. taken[d] \in Nat /\ Len(m_buffer[d]) \in Nat /\ i \in Nat
      BY <1>2, <1>4, NumberedTypes
    <3> QED
      BY <3>2, <3>3
  <2>5. ASSUME CaughtUp(d) PROVE Handling(d)'
    <3>1. taken[d] \in Nat /\ Len(m_buffer[d]) \in Nat /\ Len(replies[d]) \in Nat
      BY NumberedTypes
    <3>2. Len(m_buffer'[d]) = Len(m_buffer[d]) - 1
      BY <1>2, <1>4, <2>1
    <3>3. Len(replies[d]) = taken[d] - Len(m_buffer[d])
      BY <2>5 DEF CaughtUp
    <3> QED
      BY <2>1, <2>2, <2>3, <3>1, <3>2, <3>3 DEF Handling
  <2> QED
    BY <1>3, <1>4, <2>4, <2>5
<1>5. CASE d # c
  BY <1>1, <1>3, <1>5, SameConnection DEF ConnTypeOK, clientVars
<1> QED
  BY <1>4, <1>5

(* A reply is written: it is the next in order.                            *)
LEMMA WriteKeeps ==
  ASSUME ConnTypeOK, NEW c \in Clients, Handling(c), unread[c] < MaxUnread,
         unread' = [unread EXCEPT ![c] = @ + 1],
         replies' = [replies EXCEPT ![c] = Append(@, req[c])],
         UNCHANGED <<client, sent, taken, m_buffer, req>>,
         NEW d \in Clients, Numbered(d)
  PROVE  /\ ConnTypeOK'
         /\ Numbered(d)'
         /\ d = c => Answered(d)'
         /\ d # c /\ CaughtUp(d) => CaughtUp(d)'
         /\ d # c /\ Handling(d) => Handling(d)'
         /\ d # c /\ Answered(d) => Answered(d)'
<1>1. /\ Append(replies[c], req[c]) \in Seq(Nat)
      /\ Len(Append(replies[c], req[c])) = Len(replies[c]) + 1
  BY NumberedTypes, AppendProperties
<1>2. ConnTypeOK'
  <2>1. unread[c] \in 0 .. MaxUnread /\ MaxUnread \in Nat
    BY MaxUnreadAssumption DEF ConnTypeOK
  <2>2. unread[c] + 1 \in 0 .. MaxUnread
    BY <2>1
  <2> QED
    BY <1>1, <2>2 DEF ConnTypeOK
<1>3. CASE d = c
  <2>1. Len(replies'[d]) = Len(replies[d]) + 1
    BY <1>1, <1>3 DEF ConnTypeOK
  <2> QED
    BY <1>2, <1>3, <2>1, NumberedTypes DEF Numbered, CaughtUp, Handling, Answered
<1>4. CASE d # c
  BY <1>2, <1>4, SameConnection DEF ConnTypeOK
<1> QED
  BY <1>3, <1>4

(* The request being handled is one that was sent.                         *)
LEMMA HandledWasSent ==
  ASSUME ConnTypeOK, NEW c \in Clients, Numbered(c), Handling(c)
  PROVE  req[c] \in DOMAIN sent[c]
<1>1. DOMAIN sent[c] = 1 .. Len(sent[c])
  BY NumberedTypes
<1> QED
  BY <1>1, NumberedTypes DEF Numbered, Handling

LEMMA InitConnections ==
  ASSUME ConnInit
  PROVE  ConnTypeOK /\ \A c \in Clients : Numbered(c) /\ CaughtUp(c)
<1>1. ConnTypeOK
  BY MaxUnreadAssumption DEF ConnInit, ConnTypeOK
<1> QED
  BY <1>1 DEF ConnInit, Numbered, CaughtUp

-----------------------------------------------------------------------------
(* The numbers of the requests that were answered, in a list of requests:  *)
(* one after the other, none of them bad, and one that asked for the end   *)
(* was the last.                                                           *)
AnsweredInOrder(list, numbers) ==
  \A i \in 1 .. Len(numbers) :
    /\ numbers[i] = i
    /\ i <= Len(list)
    /\ list[i] # "bad"
    /\ list[i] = "last" => i = Len(numbers)

NoEndAsked(list, numbers) == \A i \in 1 .. Len(numbers) : list[i] # "last"

(* A request more changes nothing about those before it.                   *)
LEMMA OrderOfAsk ==
  ASSUME NEW list \in Seq(Requests), NEW r \in Requests, NEW numbers \in Seq(Nat),
         AnsweredInOrder(list, numbers)
  PROVE  /\ AnsweredInOrder(Append(list, r), numbers)
         /\ NoEndAsked(list, numbers) => NoEndAsked(Append(list, r), numbers)
<1>1. /\ Len(list) \in Nat /\ Len(numbers) \in Nat
      /\ Len(Append(list, r)) = Len(list) + 1
      /\ \A i \in 1 .. Len(list) : Append(list, r)[i] = list[i]
  BY AppendProperties, LenProperties
<1>2. \A i \in 1 .. Len(numbers) : i \in 1 .. Len(list)
  BY <1>1 DEF AnsweredInOrder
<1> QED
  BY <1>1, <1>2 DEF AnsweredInOrder, NoEndAsked

(* The next request is answered.                                           *)
LEMMA OrderOfAnswer ==
  ASSUME NEW list \in Seq(Requests), NEW numbers \in Seq(Nat),
         AnsweredInOrder(list, numbers), NoEndAsked(list, numbers),
         Len(numbers) + 1 \in DOMAIN list,
         list[Len(numbers) + 1] # "bad"
  PROVE  /\ AnsweredInOrder(list, Append(numbers, Len(numbers) + 1))
         /\ list[Len(numbers) + 1] # "last"
              => NoEndAsked(list, Append(numbers, Len(numbers) + 1))
<1> DEFINE next == Len(numbers) + 1
           more == Append(numbers, next)
<1>1. /\ Len(list) \in Nat /\ DOMAIN list = 1 .. Len(list)
      /\ Len(numbers) \in Nat /\ next \in Nat
  BY LenProperties
<1>2. /\ Len(more) = next
      /\ \A i \in 1 .. Len(numbers) : more[i] = numbers[i]
      /\ more[next] = next
  BY <1>1, AppendProperties
<1> HIDE DEF more
<1>3. ASSUME NEW i \in 1 .. next
      PROVE  /\ more[i] = i
             /\ i <= Len(list)
             /\ list[i] # "bad"
             /\ list[i] = "last" => i = next
  <2>1. CASE i = next
    BY <1>1, <1>2, <2>1
  <2>2. CASE i \in 1 .. Len(numbers)
    BY <1>2, <2>2 DEF AnsweredInOrder, NoEndAsked
  <2> QED
    BY <1>1, <2>1, <2>2
<1>4. AnsweredInOrder(list, more)
  BY <1>2, <1>3 DEF AnsweredInOrder
<1>5. list[next] # "last" => NoEndAsked(list, more)
  BY <1>2, <1>3 DEF NoEndAsked
<1> QED
  BY <1>4, <1>5 DEF more

=============================================================================
