------------------------ MODULE ServerThreads_proofs ------------------------
(***************************************************************************)
(* Proofs about the threads of the server: no connection to the database   *)
(* is in two calls at once, so that no more threads are blocked than there *)
(* are sessions, for any number of clients and threads.                    *)
(*                                                                         *)
(* A coroutine that blocks a thread is the first handler of the strand of  *)
(* its session, and that strand is being run (CallersRun, ConnectsRun).    *)
(* Two of them on one session would be the same handler.  This survives    *)
(* the end of a handler only because the handler that ends is nowhere else *)
(* in a strand: each client is in one strand at most, the one its program  *)
(* counter tells (Placed), and there once (OnceEach).                      *)
(*                                                                         *)
(* Conversely, what has something to do stands in a queue, and once        *)
(* (QueueInv), so that no wakeup is lost and no turn is stuck; and the     *)
(* threads take only steps that PgSessionLife allows.                      *)
(***************************************************************************)
EXTENDS ServerThreads, SequenceTheorems, FiniteSetTheorems, FunctionTheorems, TLAPS

Handlers == Clients \cup {"spawned", "connect", "start", "wait"}
Jobs == Clients \cup Strands \cup {"accept", "reactor"}

Once(q) == \A i, j \in 1 .. Len(q) : q[i] \in Clients /\ q[i] = q[j] => i = j

(* The client d has no handler in these strands.                           *)
Absent(d, q) == \A st \in Strands : \A i \in 1 .. Len(q[st]) : q[st][i] # d

(* The strand in which a client's handler is, if it is in one, is the one  *)
(* that its program counter tells.                                         *)
Belongs(c, st, p, o) ==
  IF st = "pool" THEN p[c] = "pool" ELSE p[c] = "session" /\ o[c] = st

PlacedIn(q, p, o) ==
  \A st \in Strands : \A i \in 1 .. Len(q[st]) :
    q[st][i] \in Clients => Belongs(q[st][i], st, p, o)

OnceIn(q) == \A st \in Strands : Once(q[st])

Placed == PlacedIn(queue, pc, on)
OnceEach == OnceIn(queue)

BatchWithin == \A st \in Strands : batch[st] <= Len(queue[st])

(* The coroutine x is the one that the strand st is running.               *)
Runs(st, x) == st \in Sessions /\ batch[st] > 0 /\ Head(queue[st]) = x

CallersRun == \A c \in calls \cap Clients : pc[c] = "session" /\ Runs(on[c], c)
ConnectsRun == \A s \in calls \cap Sessions : Runs(s, "start")

IInv ==
  /\ TypeOK
  /\ Placed
  /\ OnceEach
  /\ BatchWithin
  /\ CallersRun
  /\ ConnectsRun

-----------------------------------------------------------------------------
(* Sequences of handlers.                                                  *)

LEMMA PopOnce ==
  ASSUME NEW q \in Seq(Handlers), q # <<>>, Once(q)
  PROVE  /\ Head(q) = q[1]
         /\ Len(q) \in Nat \ {0}
         /\ Tail(q) \in Seq(Handlers)
         /\ Len(Tail(q)) = Len(q) - 1
         /\ Once(Tail(q))
         /\ \A i \in 1 .. Len(Tail(q)) :
              /\ \E j \in 1 .. Len(q) : Tail(q)[i] = q[j]
              /\ Head(q) \in Clients => Tail(q)[i] # Head(q)
<1>1. Len(q) \in Nat \ {0}
  BY EmptySeq
<1>2. /\ Tail(q) \in Seq(Handlers)
      /\ Len(Tail(q)) = Len(q) - 1
      /\ \A i \in 1 .. Len(Tail(q)) : Tail(q)[i] = q[i + 1]
  BY HeadTailProperties
<1>3. Head(q) = q[1]
  OBVIOUS
<1>4. \A i \in 1 .. Len(Tail(q)) : i + 1 \in 1 .. Len(q) /\ i + 1 # 1
  BY <1>1, <1>2
<1>5. Once(Tail(q))
  <2> SUFFICES ASSUME NEW i \in 1 .. Len(Tail(q)), NEW j \in 1 .. Len(Tail(q)),
                      Tail(q)[i] \in Clients, Tail(q)[i] = Tail(q)[j]
               PROVE  i = j
    BY DEF Once
  <2>1. i + 1 = j + 1
    BY <1>2, <1>4 DEF Once
  <2> QED
    BY <2>1, <1>1, <1>2
<1>6. ASSUME NEW i \in 1 .. Len(Tail(q)), Head(q) \in Clients
      PROVE  Tail(q)[i] # Head(q)
  BY <1>1, <1>2, <1>3, <1>4, <1>6 DEF Once
<1> QED
  BY <1>1, <1>2, <1>3, <1>4, <1>5, <1>6

LEMMA PushOnce ==
  ASSUME NEW q \in Seq(Handlers), Once(q), NEW h \in Handlers,
         h \in Clients => \A i \in 1 .. Len(q) : q[i] # h
  PROVE  /\ Append(q, h) \in Seq(Handlers)
         /\ Len(q) \in Nat
         /\ Len(Append(q, h)) = Len(q) + 1
         /\ Once(Append(q, h))
         /\ \A i \in 1 .. Len(q) : Append(q, h)[i] = q[i]
         /\ Append(q, h)[Len(q) + 1] = h
         /\ q # <<>> => Head(Append(q, h)) = Head(q)
<1>1. Len(q) \in Nat
  BY LenProperties
<1>2. /\ Append(q, h) \in Seq(Handlers)
      /\ Len(Append(q, h)) = Len(q) + 1
      /\ \A i \in 1 .. Len(q) : Append(q, h)[i] = q[i]
      /\ Append(q, h)[Len(q) + 1] = h
  BY AppendProperties
<1>3. Once(Append(q, h))
  <2> SUFFICES ASSUME NEW i \in 1 .. Len(q) + 1, NEW j \in 1 .. Len(q) + 1,
                      Append(q, h)[i] \in Clients, Append(q, h)[i] = Append(q, h)[j]
               PROVE  i = j
    BY <1>2 DEF Once
  <2>1. CASE i \in 1 .. Len(q) /\ j \in 1 .. Len(q)
    BY <2>1, <1>2 DEF Once
  <2>2. CASE i = Len(q) + 1 \/ j = Len(q) + 1
    BY <2>2, <1>1, <1>2
  <2> QED
    BY <2>1, <2>2, <1>1
<1>4. q # <<>> => Head(Append(q, h)) = Head(q)
  BY HeadTailAppend
<1> QED
  BY <1>1, <1>2, <1>3, <1>4

-----------------------------------------------------------------------------
(* Type correctness.                                                       *)

LEMMA InitTypeOK == Init => TypeOK
<1> SUFFICES ASSUME Init PROVE TypeOK
  OBVIOUS
<1>1. LifeTypeOK
  BY MaxClosesAssumption DEF Init, LifeInit, LifeTypeOK, Phases, Links
<1>2. work \in Seq(Clients \cup Strands \cup {"accept", "reactor"})
  BY DEF Init, Strands
<1>3. queue \in [Strands -> Seq(Handlers)]
  <2>1. Cardinality(Sessions) \in Nat
    BY NamesAssumption, FS_CardinalityType
  <2>2. [i \in 1 .. Cardinality(Sessions) |-> "spawned"] \in Seq(Handlers)
    BY <2>1, IsASeq DEF Handlers
  <2>3. <<>> \in Seq(Handlers)
    BY EmptySeq
  <2> QED
    BY <2>2, <2>3 DEF Init
<1> QED
  BY <1>1, <1>2, <1>3 DEF Init, TypeOK, Handlers

(* The strands and the queue of operations after a handler has ended.      *)
LEMMA EndTurnType ==
  ASSUME TypeOK, NEW st \in Strands, batch[st] > 0,
         NEW q \in [Strands -> Seq(Handlers)], NEW woken \in Seq(Jobs),
         EndTurn(st, q, woken)
  PROVE  /\ queue' \in [Strands -> Seq(Handlers)]
         /\ batch' \in [Strands -> Nat]
         /\ work' \in Seq(Jobs)
<1>1. batch' \in [Strands -> Nat]
  BY DEF EndTurn, TypeOK
<1>2. <<st>> \in Seq(Jobs) /\ <<>> \in Seq(Jobs)
  BY DEF Jobs
<1>3. work \in Seq(Jobs)
  BY DEF TypeOK, Jobs
<1>4. work \o woken \in Seq(Jobs)
  BY <1>3, ConcatProperties
<1>5. (IF batch[st] = 1 /\ q[st] # <<>> THEN <<st>> ELSE <<>>) \in Seq(Jobs)
  BY <1>2
<1>6. work' \in Seq(Jobs)
  BY <1>4, <1>5, ConcatProperties DEF EndTurn
<1> QED
  BY <1>1, <1>6 DEF EndTurn

LEMMA ReplyType ==
  ASSUME TypeOK, NEW c \in Clients, Reply(c)
  PROVE  /\ pc' \in [Clients -> {"away", "arrived", "reading", "read", "pool", "session"}]
         /\ want' \in [Clients -> {"none", "hello", "plain"}]
         /\ on' \in [Clients -> Sessions \cup {NotPosted}]
BY DEF TypeOK, Reply, NotPosted

LEMMA WokenType ==
  ASSUME NEW st \in Strands
  PROVE  Woken(st) \in Seq(Jobs)
<1>1. <<>> \in Seq(Jobs)
  BY EmptySeq
<1>2. <<st>> \in Seq(Jobs)
  BY DEF Jobs
<1> QED
  BY <1>1, <1>2 DEF Woken

LEMMA PoppedType ==
  ASSUME TypeOK, NEW st \in Strands, queue[st] # <<>>
  PROVE  /\ Popped(st) \in [Strands -> Seq(Handlers)]
         /\ Tail(queue[st]) \in Seq(Handlers)
<1>1. queue \in [Strands -> Seq(Handlers)]
  BY DEF TypeOK, Handlers
<1>2. Tail(queue[st]) \in Seq(Handlers)
  BY <1>1, HeadTailProperties
<1> QED
  BY <1>1, <1>2 DEF Popped

(* A strand that is being run has a handler.                               *)
LEMMA RunHasHandler ==
  ASSUME TypeOK, BatchWithin, NEW st \in Strands, batch[st] > 0
  PROVE  queue[st] # <<>>
<1>1. Len(queue[st]) > 0
  BY LenProperties DEF TypeOK, BatchWithin
<1> QED
  BY <1>1, EmptySeq

LEMMA PoolIsStrand == "pool" \in Strands /\ Sessions \subseteq Strands
BY DEF Strands

LEMMA TakenTail ==
  ASSUME TypeOK, NEW job, Taken(job)
  PROVE  Tail(work) \in Seq(Jobs)
BY HeadTailProperties DEF TypeOK, Taken, Jobs

LEMMA NextTypeOK ==
  ASSUME IInv, [Next]_vars
  PROVE  TypeOK'
<1> USE DEF IInv, Phases, Links, choiceVars
<1>t. /\ queue \in [Strands -> Seq(Handlers)]
      /\ work \in Seq(Jobs)
      /\ LifeTypeOK
  BY DEF TypeOK, Handlers, Jobs
<1>p. "pool" \in Strands /\ Sessions \subseteq Strands
  BY PoolIsStrand
<1>e. ASSUME NEW st \in Strands, NEW q \in [Strands -> Seq(Handlers)],
             NEW woken \in Seq(Jobs), batch[st] > 0, EndTurn(st, q, woken)
      PROVE  /\ queue' \in [Strands -> Seq(Handlers)]
             /\ batch' \in [Strands -> Nat]
             /\ work' \in Seq(Jobs)
  BY <1>e, EndTurnType
<1>1. ASSUME Reactor PROVE TypeOK'
  <2>1. PICK seen \in SUBSET {s \in Sessions : Readable(s)} :
          /\ \E order \in SetToSeqs(Asked \cup {s \in seen : queue[s] = <<>>}
                 \cup IF Arrived # {} /\ "accept" \notin Range(work) THEN {"accept"} ELSE {}) :
               work' = Tail(work) \o order \o <<"reactor">>
          /\ queue' = [st \in Strands |->
                         IF st \in seen THEN Append(queue[st], "wait") ELSE queue[st]]
          /\ wait' = [s \in Sessions |-> IF s \in seen THEN "ready" ELSE wait[s]]
    BY <1>1 DEF Reactor
  <2>2. queue' \in [Strands -> Seq(Handlers)]
    <3>1. \A st \in Strands : Append(queue[st], "wait") \in Seq(Handlers)
      BY <1>t, AppendProperties DEF Handlers
    <3> QED
      BY <1>t, <2>1, <3>1
  <2>3. work' \in Seq(Jobs)
    <3> DEFINE ready == Asked \cup {s \in seen : queue[s] = <<>>}
                 \cup IF Arrived # {} /\ "accept" \notin Range(work) THEN {"accept"} ELSE {}
    <3>1. PICK order \in SetToSeqs(ready) : work' = Tail(work) \o order \o <<"reactor">>
      BY <2>1
    <3>2. ready \subseteq Jobs
      BY <1>p DEF Asked, Jobs
    <3>3. IsFiniteSet(ready)
      <4>1. IsFiniteSet(Clients \cup Sessions \cup {"accept"})
        BY NamesAssumption, FS_Union, FS_Singleton
      <4>2. ready \subseteq Clients \cup Sessions \cup {"accept"}
        BY DEF Asked
      <4> HIDE DEF ready
      <4> QED
        BY <4>1, <4>2, FS_Subset
    <3> HIDE DEF ready
    <3>4. order \in [1 .. Cardinality(ready) -> ready] /\ Cardinality(ready) \in Nat
      BY <3>1, <3>3, FS_CardinalityType DEF SetToSeqs
    <3>5. order \in Seq(Jobs)
      BY <3>2, <3>4
    <3>6. Tail(work) \in Seq(Jobs)
      BY <1>1, TakenTail DEF Reactor
    <3>7. Tail(work) \o order \in Seq(Jobs)
      BY <3>5, <3>6, ConcatProperties
    <3>8. <<"reactor">> \in Seq(Jobs)
      BY DEF Jobs
    <3> QED
      BY <3>1, <3>7, <3>8, ConcatProperties
  <2>4. wait' \in [Sessions -> {"idle", "armed", "ready"}]
    BY <2>1 DEF TypeOK
  <2> QED
    BY <1>1, <2>2, <2>3, <2>4
       DEF Reactor, TypeOK, Handlers, Jobs, lifeVars, LifeTypeOK
<1>2. ASSUME NEW c \in Clients, Accept(c) PROVE TypeOK'
  BY <1>2, TakenTail DEF Accept, TypeOK, Jobs, lifeVars, LifeTypeOK
<1>3. ASSUME NEW c \in Clients, Handle(c) PROVE TypeOK'
  <2>1. Tail(work) \in Seq(Jobs) /\ Tail(work) \o Woken("pool") \in Seq(Jobs)
    BY <1>3, <1>p, TakenTail, WokenType, ConcatProperties DEF Handle
  <2>2. Append(queue["pool"], c) \in Seq(Handlers)
    BY <1>t, <1>p, AppendProperties DEF Handlers
  <2>3. queue' \in [Strands -> Seq(Handlers)] /\ work' \in Seq(Jobs)
    BY <1>3, <1>t, <2>1, <2>2 DEF Handle
  <2>4. /\ pc' \in [Clients -> {"away", "arrived", "reading", "read", "pool", "session"}]
        /\ want' \in [Clients -> {"none", "hello", "plain"}]
        /\ on' \in [Clients -> Sessions \cup {NotPosted}]
    BY <1>3, ReplyType DEF Handle, TypeOK
  <2> QED
    BY <1>3, <2>3, <2>4 DEF Handle, TypeOK, Handlers, Jobs, lifeVars, LifeTypeOK
<1>4. ASSUME NEW st \in Strands, TakeStrand(st) PROVE TypeOK'
  <2>1. Len(queue[st]) \in Nat
    BY <1>t, LenProperties
  <2> QED
    BY <1>4, <2>1, TakenTail
       DEF TakeStrand, TypeOK, Jobs, lifeVars, clientVars, LifeTypeOK
<1>5. ASSUME PoolPost PROVE TypeOK'
  <2>1. queue["pool"] # <<>> /\ batch["pool"] > 0
    BY <1>5, <1>p, RunHasHandler DEF PoolPost, Turn
  <2>2. Append(Tail(queue["pool"]), "connect") \in Seq(Handlers)
    BY <1>p, <2>1, PoppedType, AppendProperties DEF Handlers
  <2>3. [queue EXCEPT !["pool"] = Append(Tail(@), "connect")] \in [Strands -> Seq(Handlers)]
    BY <1>t, <2>2
  <2>4. <<>> \in Seq(Jobs)
    BY EmptySeq
  <2>5. /\ queue' \in [Strands -> Seq(Handlers)]
        /\ batch' \in [Strands -> Nat]
        /\ work' \in Seq(Jobs)
    BY <1>5, <1>p, <2>1, <2>3, <2>4, <1>e DEF PoolPost
  <2> QED
    BY <1>5, <2>5 DEF PoolPost, TypeOK, Handlers, Jobs, lifeVars, clientVars, LifeTypeOK
<1>6. ASSUME PoolStart PROVE TypeOK'
  <2>1. queue["pool"] # <<>> /\ batch["pool"] > 0
    BY <1>6, <1>p, RunHasHandler DEF PoolStart, Turn
  <2>2. PICK s \in Sessions :
          /\ Start(s)
          /\ EndTurn("pool", [Popped("pool") EXCEPT ![s] = Append(@, "start")], Woken(s))
    BY <1>6 DEF PoolStart
  <2>3. Popped("pool") \in [Strands -> Seq(Handlers)]
    BY <1>p, <2>1, PoppedType
  <2>4. Append(Popped("pool")[s], "start") \in Seq(Handlers)
    BY <1>p, <2>3, AppendProperties DEF Handlers
  <2>5. [Popped("pool") EXCEPT ![s] = Append(@, "start")] \in [Strands -> Seq(Handlers)]
    BY <2>3, <2>4
  <2>6. Woken(s) \in Seq(Jobs)
    BY <1>p, WokenType
  <2>7. /\ queue' \in [Strands -> Seq(Handlers)]
        /\ batch' \in [Strands -> Nat]
        /\ work' \in Seq(Jobs)
    BY <1>p, <2>1, <2>2, <2>5, <2>6, <1>e
  <2>8. LifeTypeOK'
    BY <1>t, <2>2 DEF Start, LifeTypeOK
  <2> QED
    BY <1>6, <2>7, <2>8 DEF PoolStart, TypeOK, Handlers, Jobs, clientVars
<1>n. ASSUME NEW c \in Clients, Turn("pool", c), NoResult(c)
      PROVE  /\ queue' \in [Strands -> Seq(Handlers)]
             /\ batch' \in [Strands -> Nat]
             /\ work' \in Seq(Jobs)
             /\ pc' \in [Clients -> {"away", "arrived", "reading", "read", "pool", "session"}]
             /\ want' \in [Clients -> {"none", "hello", "plain"}]
             /\ on' \in [Clients -> Sessions \cup {NotPosted}]
  <2>1. queue["pool"] # <<>> /\ batch["pool"] > 0
    BY <1>n, <1>p, RunHasHandler DEF Turn
  <2>2. Popped("pool") \in [Strands -> Seq(Handlers)]
    BY <1>p, <2>1, PoppedType
  <2>3. <<>> \in Seq(Jobs)
    BY EmptySeq
  <2>4. /\ queue' \in [Strands -> Seq(Handlers)]
        /\ batch' \in [Strands -> Nat]
        /\ work' \in Seq(Jobs)
    BY <1>n, <1>p, <2>1, <2>2, <2>3, <1>e DEF NoResult
  <2> QED
    BY <1>n, <2>4, ReplyType DEF NoResult
<1>7. ASSUME NEW c \in Clients, PoolSelect(c) PROVE TypeOK'
  <2>1. CASE NoResult(c) /\ UNCHANGED weak
    BY <1>7, <1>n, <2>1
       DEF PoolSelect, Choosing, TypeOK, Handlers, Jobs, lifeVars, LifeTypeOK
  <2>2. CASE weak' \in Live /\ UNCHANGED <<strandVars, clientVars>>
    BY <1>7, <2>2
       DEF PoolSelect, Live, TypeOK, lifeVars, strandVars, clientVars, LifeTypeOK
  <2> QED
    BY <1>7, <2>1, <2>2 DEF PoolSelect
<1>17. ASSUME NEW c \in Clients, PoolCheck(c) PROVE TypeOK'
  <2>1. CASE NoResult(c) /\ weak' = NotPosted /\ UNCHANGED checked
    BY <1>17, <1>n, <2>1 DEF PoolCheck, TypeOK, Handlers, Jobs, lifeVars, LifeTypeOK
  <2>2. CASE checked' = "yes" /\ UNCHANGED <<strandVars, clientVars, weak>>
    BY <1>17, <2>2
       DEF PoolCheck, TypeOK, lifeVars, strandVars, clientVars, LifeTypeOK
  <2> QED
    BY <1>17, <2>1, <2>2 DEF PoolCheck
<1>18. ASSUME NEW c \in Clients, PoolLock(c) PROVE TypeOK'
  <2>1. queue["pool"] # <<>> /\ batch["pool"] > 0 /\ weak \in Sessions
    BY <1>18, <1>p, RunHasHandler DEF PoolLock, Turn, Live
  <2>2. Popped("pool") \in [Strands -> Seq(Handlers)]
    BY <1>p, <2>1, PoppedType
  <2>3. Append(Popped("pool")[weak], c) \in Seq(Handlers)
    BY <1>p, <2>1, <2>2, AppendProperties DEF Handlers
  <2>4. [Popped("pool") EXCEPT ![weak] = Append(@, c)] \in [Strands -> Seq(Handlers)]
    BY <2>2, <2>3
  <2>5. Woken(weak) \in Seq(Jobs)
    BY <1>p, <2>1, WokenType
  <2>6. /\ queue' \in [Strands -> Seq(Handlers)]
        /\ batch' \in [Strands -> Nat]
        /\ work' \in Seq(Jobs)
    BY <1>18, <1>p, <2>1, <2>4, <2>5, <1>e DEF PoolLock
  <2>7. on' \in [Clients -> Sessions \cup {NotPosted}]
    BY <1>18, <2>1 DEF PoolLock, TypeOK
  <2>8. pc' \in [Clients -> {"away", "arrived", "reading", "read", "pool", "session"}]
    BY <1>18 DEF PoolLock, TypeOK
  <2> QED
    BY <1>18, <2>6, <2>7, <2>8
       DEF PoolLock, TypeOK, Handlers, Jobs, lifeVars, LifeTypeOK
<1>19. ASSUME NEW c \in Clients, PoolCrash(c) PROVE TypeOK'
  BY <1>19 DEF PoolCrash, TypeOK, lifeVars, strandVars, clientVars, LifeTypeOK
<1>20. ASSUME Down PROVE TypeOK'
  BY <1>20 DEF Down, vars, TypeOK, lifeVars, strandVars, clientVars, LifeTypeOK
<1>8. ASSUME NEW s \in Sessions, ConnectBegin(s) PROVE TypeOK'
  BY <1>8 DEF ConnectBegin, TypeOK, lifeVars, strandVars, clientVars, LifeTypeOK
<1>9. ASSUME NEW s \in Sessions, ConnectReturns(s) PROVE TypeOK'
  <2>1. s \in Strands /\ batch[s] > 0 /\ queue[s] # <<>>
    BY <1>9, <1>p, RunHasHandler DEF ConnectReturns, ConnectsRun, Runs
  <2>2. /\ queue' \in [Strands -> Seq(Handlers)]
        /\ batch' \in [Strands -> Nat]
        /\ work' \in Seq(Jobs)
    <3>1. <<>> \in Seq(Jobs)
      BY EmptySeq
    <3> QED
      BY <1>9, <2>1, <3>1, <1>e, PoppedType DEF ConnectReturns
  <2>3. LifeTypeOK'
    BY <1>9, <1>t DEF ConnectReturns, Connect, LifeTypeOK
  <2>4. wait' \in [Sessions -> {"idle", "armed", "ready"}]
    BY <1>9 DEF ConnectReturns, TypeOK
  <2> QED
    BY <1>9, <2>2, <2>3, <2>4 DEF ConnectReturns, TypeOK, Handlers, Jobs, clientVars
<1>10. ASSUME NEW s \in Sessions, Resume(s) PROVE TypeOK'
  <2>1. s \in Strands /\ batch[s] > 0 /\ queue[s] # <<>>
    BY <1>10, <1>p, RunHasHandler DEF Resume, Turn
  <2>2. /\ queue' \in [Strands -> Seq(Handlers)]
        /\ batch' \in [Strands -> Nat]
        /\ work' \in Seq(Jobs)
    <3>1. <<>> \in Seq(Jobs)
      BY EmptySeq
    <3> QED
      BY <1>10, <2>1, <3>1, <1>e, PoppedType DEF Resume
  <2>3. LifeTypeOK'
    BY <1>10, <1>t DEF Resume, WaitEnds, LifeTypeOK, lifeVars
  <2>4. wait' \in [Sessions -> {"idle", "armed", "ready"}]
    BY <1>10 DEF Resume, TypeOK
  <2> QED
    BY <1>10, <2>2, <2>3, <2>4 DEF Resume, TypeOK, Handlers, Jobs, clientVars
<1>11. ASSUME NEW c \in Clients, QueryBegin(c) PROVE TypeOK'
  <2>1. PICK s \in Sessions :
          /\ Turn(s, c)
          /\ IF link[s] = "open"
             THEN /\ calls' = calls \cup {c}
                  /\ UNCHANGED <<strandVars, clientVars>>
             ELSE /\ Reply(c)
                  /\ EndTurn(s, Popped(s), <<>>)
                  /\ UNCHANGED calls
          /\ UNCHANGED <<lifeVars, wait, server, choiceVars, process>>
    BY <1>11 DEF QueryBegin
  <2>2. CASE link[s] = "open"
    BY <2>1, <2>2 DEF TypeOK, lifeVars, strandVars, clientVars, LifeTypeOK
  <2>3. CASE link[s] # "open"
    <3>1. s \in Strands /\ batch[s] > 0 /\ queue[s] # <<>>
      BY <2>1, <1>p, RunHasHandler DEF Turn
    <3>2. <<>> \in Seq(Jobs)
      BY EmptySeq
    <3>3. /\ queue' \in [Strands -> Seq(Handlers)]
          /\ batch' \in [Strands -> Nat]
          /\ work' \in Seq(Jobs)
      BY <2>1, <2>3, <3>1, <3>2, <1>e, PoppedType
    <3> QED
      BY <2>1, <2>3, <3>3, ReplyType
         DEF TypeOK, Handlers, Jobs, lifeVars, LifeTypeOK
  <2> QED
    BY <2>2, <2>3
<1>12. ASSUME NEW c \in Clients, QueryReturns(c) PROVE TypeOK'
  <2>1. on[c] \in Sessions /\ on[c] \in Strands /\ batch[on[c]] > 0 /\ queue[on[c]] # <<>>
    BY <1>12, <1>p, RunHasHandler DEF QueryReturns, CallersRun, Runs
  <2>2. /\ queue' \in [Strands -> Seq(Handlers)]
        /\ batch' \in [Strands -> Nat]
        /\ work' \in Seq(Jobs)
    <3>1. <<>> \in Seq(Jobs)
      BY EmptySeq
    <3> QED
      BY <1>12, <2>1, <3>1, <1>e, PoppedType DEF QueryReturns
  <2>3. LifeTypeOK'
    BY <1>12, <1>t, <2>1 DEF QueryReturns, Run, LifeTypeOK
  <2> QED
    BY <1>12, <2>2, <2>3, ReplyType DEF QueryReturns, TypeOK, Handlers, Jobs
<1>13. ASSUME NEW s \in Sessions, ServerEof(s) PROVE TypeOK'
  BY <1>13 DEF ServerEof, TypeOK, lifeVars, strandVars, clientVars, LifeTypeOK
<1>14. ASSUME NEW c \in Clients, Arrive(c) PROVE TypeOK'
  BY <1>14 DEF Arrive, TypeOK, lifeVars, strandVars, LifeTypeOK
<1>15. ASSUME NEW c \in Clients, Ask(c) PROVE TypeOK'
  BY <1>15 DEF Ask, TypeOK, lifeVars, strandVars, LifeTypeOK
<1>16. CASE UNCHANGED vars
  BY <1>16 DEF vars, TypeOK, lifeVars, strandVars, clientVars, LifeTypeOK
<1> QED
  BY <1>1, <1>2, <1>3, <1>4, <1>5, <1>6, <1>7, <1>8, <1>9, <1>10, <1>11, <1>12, <1>13,
     <1>14, <1>15, <1>16, <1>17, <1>18, <1>19, <1>20
     DEF Next, RunFirst, PoolTurn, SessionTurn, CallReturns

-----------------------------------------------------------------------------
(* What a handler that ends, one that is posted and a client that moves    *)
(* leave of the order in the strands.                                      *)

LEMMA PopKeeps ==
  ASSUME IInv, NEW st \in Strands, batch[st] > 0
  PROVE  /\ queue[st] # <<>>
         /\ Popped(st) \in [Strands -> Seq(Handlers)]
         /\ Popped(st) = [queue EXCEPT ![st] = Tail(queue[st])]
         /\ OnceIn(Popped(st))
         /\ PlacedIn(Popped(st), pc, on)
         /\ Head(queue[st]) \in Clients => /\ Absent(Head(queue[st]), Popped(st))
                                           /\ Belongs(Head(queue[st]), st, pc, on)
         /\ Len(Popped(st)[st]) = Len(queue[st]) - 1
<1>1. queue \in [Strands -> Seq(Handlers)]
  BY DEF IInv, TypeOK, Handlers
<1>2. queue[st] # <<>>
  BY RunHasHandler DEF IInv
<1>3. /\ Popped(st) \in [Strands -> Seq(Handlers)]
      /\ Popped(st) = [queue EXCEPT ![st] = Tail(queue[st])]
  BY <1>2, PoppedType DEF IInv, Popped
<1>4. \A x \in Strands : Once(queue[x])
  BY DEF IInv, OnceEach, OnceIn
<1>5. /\ Head(queue[st]) = queue[st][1]
      /\ Len(queue[st]) \in Nat \ {0}
      /\ Len(Tail(queue[st])) = Len(queue[st]) - 1
      /\ Once(Tail(queue[st]))
      /\ \A i \in 1 .. Len(Tail(queue[st])) :
           /\ \E j \in 1 .. Len(queue[st]) : Tail(queue[st])[i] = queue[st][j]
           /\ Head(queue[st]) \in Clients => Tail(queue[st])[i] # Head(queue[st])
  BY <1>1, <1>2, <1>4, PopOnce
<1>6. \A x \in Strands : Popped(st)[x] = IF x = st THEN Tail(queue[st]) ELSE queue[x]
  BY <1>1, <1>3
<1>7. OnceIn(Popped(st))
  BY <1>4, <1>5, <1>6 DEF OnceIn
<1>8. \A x \in Strands : \A i \in 1 .. Len(queue[x]) :
        queue[x][i] \in Clients => Belongs(queue[x][i], x, pc, on)
  BY DEF IInv, Placed, PlacedIn
<1>9. PlacedIn(Popped(st), pc, on)
  <2> SUFFICES ASSUME NEW x \in Strands, NEW i \in 1 .. Len(Popped(st)[x]),
                      Popped(st)[x][i] \in Clients
               PROVE  Belongs(Popped(st)[x][i], x, pc, on)
    BY DEF PlacedIn
  <2>1. CASE x = st
    <3>1. PICK j \in 1 .. Len(queue[st]) : Popped(st)[x][i] = queue[st][j]
      BY <2>1, <1>5, <1>6
    <3>2. queue[st][j] \in Clients
      BY <3>1
    <3>3. Belongs(queue[st][j], st, pc, on)
      BY <3>2, <1>8
    <3> QED
      BY <2>1, <3>1, <3>3
  <2>2. CASE x # st
    BY <2>2, <1>6, <1>8
  <2> QED
    BY <2>1, <2>2
<1>10. ASSUME Head(queue[st]) \in Clients
       PROVE  Absent(Head(queue[st]), Popped(st)) /\ Belongs(Head(queue[st]), st, pc, on)
  <2>1. Belongs(Head(queue[st]), st, pc, on)
    BY <1>5, <1>8, <1>10
  <2>2. ASSUME NEW x \in Strands, x # st
        PROVE  \A i \in 1 .. Len(queue[x]) : queue[x][i] # Head(queue[st])
    <3>1. ~ Belongs(Head(queue[st]), x, pc, on)
      BY <2>1, <2>2 DEF Belongs
    <3> QED
      BY <3>1, <1>8, <1>10
  <2>3. \A i \in 1 .. Len(Tail(queue[st])) : Tail(queue[st])[i] # Head(queue[st])
    BY <1>5, <1>10
  <2>4. Absent(Head(queue[st]), Popped(st))
    BY <1>6, <2>2, <2>3 DEF Absent
  <2> QED
    BY <2>1, <2>4
<1> QED
  BY <1>2, <1>3, <1>5, <1>6, <1>7, <1>9, <1>10

LEMMA PushKeeps ==
  ASSUME NEW q \in [Strands -> Seq(Handlers)], NEW st \in Strands, NEW h \in Handlers,
         NEW p, NEW o, OnceIn(q), PlacedIn(q, p, o),
         h \in Clients => Absent(h, q) /\ Belongs(h, st, p, o)
  PROVE  LET q2 == [q EXCEPT ![st] = Append(q[st], h)]
         IN  /\ q2 \in [Strands -> Seq(Handlers)]
             /\ OnceIn(q2)
             /\ PlacedIn(q2, p, o)
             /\ Len(q2[st]) = Len(q[st]) + 1
             /\ q[st] # <<>> => Head(q2[st]) = Head(q[st])
<1> DEFINE q2 == [q EXCEPT ![st] = Append(q[st], h)]
<1>1. \A x \in Strands : Once(q[x])
  BY DEF OnceIn
<1>2. /\ Append(q[st], h) \in Seq(Handlers)
      /\ Len(q[st]) \in Nat
      /\ Len(Append(q[st], h)) = Len(q[st]) + 1
      /\ Once(Append(q[st], h))
      /\ \A i \in 1 .. Len(q[st]) : Append(q[st], h)[i] = q[st][i]
      /\ Append(q[st], h)[Len(q[st]) + 1] = h
      /\ q[st] # <<>> => Head(Append(q[st], h)) = Head(q[st])
  BY <1>1, PushOnce DEF Absent
<1>3. \A x \in Strands : q2[x] = IF x = st THEN Append(q[st], h) ELSE q[x]
  OBVIOUS
<1>4. q2 \in [Strands -> Seq(Handlers)]
  BY <1>2
<1> HIDE DEF q2
<1>5. OnceIn(q2)
  BY <1>1, <1>2, <1>3 DEF OnceIn
<1>6. PlacedIn(q2, p, o)
  <2> SUFFICES ASSUME NEW x \in Strands, NEW i \in 1 .. Len(q2[x]), q2[x][i] \in Clients
               PROVE  Belongs(q2[x][i], x, p, o)
    BY DEF PlacedIn
  <2>1. CASE x # st
    BY <2>1, <1>3 DEF PlacedIn
  <2>2. CASE x = st /\ i \in 1 .. Len(q[st])
    BY <2>2, <1>2, <1>3 DEF PlacedIn
  <2>3. CASE x = st /\ i = Len(q[st]) + 1
    BY <2>3, <1>2, <1>3
  <2>4. x = st => Len(q2[x]) = Len(q[st]) + 1
    BY <1>2, <1>3
  <2>5. x = st => i \in 1 .. Len(q[st]) \/ i = Len(q[st]) + 1
    BY <2>4, <1>2
  <2> QED
    BY <2>1, <2>2, <2>3, <2>5
<1> QED
  BY <1>2, <1>3, <1>4, <1>5, <1>6 DEF q2

LEMMA MoveKeeps ==
  ASSUME NEW q, NEW d, NEW p, NEW o, NEW p2, NEW o2,
         PlacedIn(q, p, o), Absent(d, q),
         \A c \in Clients \ {d} : p2[c] = p[c] /\ o2[c] = o[c]
  PROVE  PlacedIn(q, p2, o2)
BY DEF PlacedIn, Absent, Belongs

(* The blocked coroutines, when those of the strand st are not among them  *)
(* any more and the strands of the others go on as they were.              *)
LEMMA RunsKeep ==
  ASSUME IInv, NEW st,
         \A x \in Sessions \ {st} :
           batch[x] > 0 => batch'[x] > 0 /\ Head(queue'[x]) = Head(queue[x]),
         calls' \subseteq calls,
         st \notin calls',
         \A c \in calls' \cap Clients : on[c] # st /\ pc'[c] = pc[c] /\ on'[c] = on[c]
  PROVE  CallersRun' /\ ConnectsRun'
<1>1. CallersRun'
  BY DEF IInv, CallersRun, Runs
<1>2. ConnectsRun'
  BY DEF IInv, ConnectsRun, Runs
<1> QED
  BY <1>1, <1>2

(* Of the coroutines that run in the strand st only the first handler may  *)
(* be in a call.                                                           *)
LEMMA OnlyHeadCalls ==
  ASSUME IInv, NEW st \in Sessions
  PROVE  /\ \A c \in calls \cap Clients : on[c] = st => c = Head(queue[st])
         /\ st \in calls => Head(queue[st]) = "start"
         /\ "start" \notin Clients /\ "wait" \notin Clients /\ "connect" \notin Clients
BY NamesAssumption DEF IInv, CallersRun, ConnectsRun, Runs

-----------------------------------------------------------------------------
(* The invariant is inductive.                                             *)

LEMMA InitIInv == Init => IInv
<1> SUFFICES ASSUME Init PROVE IInv
  OBVIOUS
<1>1. TypeOK
  BY InitTypeOK
<1>2. Cardinality(Sessions) \in Nat
  BY NamesAssumption, FS_CardinalityType
<1>3. \A st \in Strands : \A i \in 1 .. Len(queue[st]) : queue[st][i] \notin Clients
  <2>1. ASSUME NEW st \in Strands, NEW i \in 1 .. Len(queue[st]), st = "pool"
        PROVE  queue[st][i] \notin Clients
    BY <1>2, <2>1, NamesAssumption DEF Init
  <2>2. ASSUME NEW st \in Strands, NEW i \in 1 .. Len(queue[st]), st # "pool"
        PROVE  queue[st][i] \notin Clients
    BY <2>2 DEF Init
  <2> QED
    BY <2>1, <2>2
<1>4. Placed /\ OnceEach
  BY <1>3 DEF Placed, PlacedIn, OnceEach, OnceIn, Once
<1>5. BatchWithin
  <2>1. \A st \in Strands : Len(queue[st]) \in Nat
    BY <1>1, LenProperties DEF TypeOK
  <2>2. \A st \in Strands : batch[st] = 0
    BY DEF Init
  <2> QED
    BY <2>1, <2>2 DEF BatchWithin
<1> QED
  BY <1>1, <1>4, <1>5 DEF Init, IInv, CallersRun, ConnectsRun

(* Nothing happens in the strands, and no client moves that is in one.     *)
LEMMA QuietKeeps ==
  ASSUME IInv, UNCHANGED <<queue, batch, calls>>,
         \A c \in Clients : pc[c] \in {"pool", "session"} => pc'[c] = pc[c] /\ on'[c] = on[c]
  PROVE  Placed' /\ OnceEach' /\ BatchWithin' /\ CallersRun' /\ ConnectsRun'
<1>1. Placed'
  BY DEF IInv, Placed, PlacedIn, Belongs
<1>2. OnceEach' /\ BatchWithin'
  BY DEF IInv, OnceEach, OnceIn, BatchWithin
<1>3. CallersRun' /\ ConnectsRun'
  BY DEF IInv, CallersRun, ConnectsRun, Runs
<1> QED
  BY <1>1, <1>2, <1>3

(* How much is left of a batch, and of the strand, when a turn has ended.  *)
LEMMA EndKeepsBatch ==
  ASSUME IInv, NEW st \in Strands, batch[st] > 0,
         NEW q \in [Strands -> Seq(Handlers)], NEW woken, EndTurn(st, q, woken),
         \A x \in Strands : Len(q[x]) >= Len(Popped(st)[x])
  PROVE  /\ BatchWithin'
         /\ \A x \in Strands \ {st} : batch'[x] = batch[x]
<1>1. queue \in [Strands -> Seq(Handlers)] /\ batch \in [Strands -> Nat]
  BY DEF IInv, TypeOK, Handlers
<1>2. batch' = [batch EXCEPT ![st] = batch[st] - 1] /\ queue' = q
  BY DEF EndTurn
<1>3. /\ Len(Popped(st)[st]) = Len(queue[st]) - 1
      /\ \A x \in Strands \ {st} : Popped(st)[x] = queue[x]
  BY <1>1, PopKeeps
<1>4. \A x \in Strands : Len(queue[x]) \in Nat /\ Len(q[x]) \in Nat
  BY <1>1, LenProperties
<1>5. \A x \in Strands : batch[x] <= Len(queue[x])
  BY DEF IInv, BatchWithin
<1>6. ASSUME NEW x \in Strands PROVE batch'[x] <= Len(queue'[x])
  <2>1. CASE x = st
    <3>1. batch'[st] = batch[st] - 1 /\ Len(q[st]) >= Len(queue[st]) - 1
      BY <1>1, <1>2, <1>3
    <3> QED
      BY <2>1, <3>1, <1>1, <1>2, <1>4, <1>5
  <2>2. CASE x # st
    <3>1. batch'[x] = batch[x] /\ Len(q[x]) >= Len(queue[x])
      BY <2>2, <1>1, <1>2, <1>3
    <3> QED
      BY <3>1, <1>1, <1>2, <1>4, <1>5
  <2> QED
    BY <2>1, <2>2
<1> QED
  BY <1>1, <1>2, <1>6 DEF BatchWithin

(* A client's handler ends in the strand of a session, or that of start()  *)
(* or of the wait does, and what it blocked is free.                       *)
LEMMA SessionTurnKeeps ==
  ASSUME IInv, NEW st \in Sessions, batch[st] > 0, EndTurn(st, Popped(st), <<>>),
         calls' = calls \ {st, Head(queue[st])},
         \/ Head(queue[st]) \in Clients
         \/ Head(queue[st]) \in {"start", "wait"},
         \A c \in Clients \ {Head(queue[st])} : pc'[c] = pc[c] /\ on'[c] = on[c]
  PROVE  Placed' /\ OnceEach' /\ BatchWithin' /\ CallersRun' /\ ConnectsRun'
<1> DEFINE h == Head(queue[st])
<1>1. /\ Popped(st) \in [Strands -> Seq(Handlers)]
      /\ OnceIn(Popped(st))
      /\ PlacedIn(Popped(st), pc, on)
      /\ h \in Clients => Absent(h, Popped(st))
  BY PopKeeps, PoolIsStrand
<1>2. queue' = Popped(st)
  BY DEF EndTurn
<1>3. OnceEach'
  BY <1>1, <1>2 DEF OnceEach
<1>4. PlacedIn(Popped(st), pc', on')
  <2>1. CASE h \in Clients
    BY <2>1, <1>1, MoveKeeps
  <2>2. CASE h \notin Clients
    BY <2>2, <1>1 DEF PlacedIn, Belongs
  <2> QED
    BY <2>1, <2>2
<1>5. Placed'
  BY <1>2, <1>4 DEF Placed
<1>6. \A x \in Strands : Len(Popped(st)[x]) >= Len(Popped(st)[x])
  BY <1>1, LenProperties
<1>7. /\ BatchWithin'
      /\ \A x \in Strands \ {st} : batch'[x] = batch[x]
  BY <1>1, <1>6, EndKeepsBatch, PoolIsStrand
<1>8. CallersRun' /\ ConnectsRun'
  <2>1. \A x \in Strands \ {st} : queue'[x] = queue[x]
    BY <1>2, PopKeeps, PoolIsStrand DEF IInv, TypeOK
  <2>2. \A c \in calls' \cap Clients : on[c] # st /\ pc'[c] = pc[c] /\ on'[c] = on[c]
    BY OnlyHeadCalls
  <2> QED
    BY <1>7, <2>1, <2>2, RunsKeep, PoolIsStrand
<1> QED
  BY <1>3, <1>5, <1>7, <1>8

(* A handler ends in the strand of the pool, where none blocks.            *)
LEMMA PoolTurnKeeps ==
  ASSUME IInv, batch["pool"] > 0, UNCHANGED calls,
         NEW q \in [Strands -> Seq(Handlers)], NEW woken, EndTurn("pool", q, woken),
         OnceIn(q), PlacedIn(q, pc', on'),
         \A x \in Strands : /\ Len(q[x]) >= Len(Popped("pool")[x])
                            /\ Popped("pool")[x] # <<>> => Head(q[x]) = Head(Popped("pool")[x]),
         \A c \in calls \cap Clients : pc'[c] = pc[c] /\ on'[c] = on[c]
  PROVE  Placed' /\ OnceEach' /\ BatchWithin' /\ CallersRun' /\ ConnectsRun'
<1>1. queue' = q
  BY DEF EndTurn
<1>2. Placed' /\ OnceEach'
  BY <1>1 DEF Placed, OnceEach
<1>3. /\ BatchWithin'
      /\ \A x \in Strands \ {"pool"} : batch'[x] = batch[x]
  BY EndKeepsBatch, PoolIsStrand
<1>4. "pool" \notin Sessions
  BY NamesAssumption
<1>5. \A x \in Sessions : batch[x] > 0 => batch'[x] > 0 /\ Head(queue'[x]) = Head(queue[x])
  <2> SUFFICES ASSUME NEW x \in Sessions, batch[x] > 0
               PROVE  batch'[x] > 0 /\ Head(queue'[x]) = Head(queue[x])
    OBVIOUS
  <2>1. queue[x] # <<>>
    BY RunHasHandler, PoolIsStrand DEF IInv
  <2>2. Popped("pool")[x] = queue[x]
    BY <1>4, PopKeeps, PoolIsStrand DEF IInv, TypeOK
  <2> QED
    BY <1>1, <1>3, <1>4, <2>1, <2>2, PoolIsStrand
<1>6. \A c \in calls \cap Clients : on[c] # "pool"
  BY <1>4 DEF IInv, CallersRun, Runs
<1>7. "pool" \notin calls
  BY NamesAssumption DEF IInv, TypeOK
<1>8. CallersRun' /\ ConnectsRun'
  BY <1>5, <1>6, <1>7, RunsKeep
<1> QED
  BY <1>2, <1>3, <1>8

LEMMA ReactorKeeps ==
  ASSUME IInv, Reactor
  PROVE  Placed' /\ OnceEach' /\ BatchWithin' /\ CallersRun' /\ ConnectsRun'
<1>1. PICK seen \in SUBSET {s \in Sessions : Readable(s)} :
        queue' = [st \in Strands |->
                    IF st \in seen THEN Append(queue[st], "wait") ELSE queue[st]]
  BY DEF Reactor
<1>2. /\ queue \in [Strands -> Seq(Handlers)]
      /\ \A x \in Strands : Once(queue[x])
  BY DEF IInv, TypeOK, Handlers, OnceEach, OnceIn
<1>3. "wait" \in Handlers /\ "wait" \notin Clients
  BY NamesAssumption DEF Handlers
<1>4. ASSUME NEW x \in Strands
      PROVE  /\ Once(Append(queue[x], "wait"))
             /\ Len(queue[x]) \in Nat
             /\ Len(Append(queue[x], "wait")) = Len(queue[x]) + 1
             /\ \A i \in 1 .. Len(queue[x]) : Append(queue[x], "wait")[i] = queue[x][i]
             /\ Append(queue[x], "wait")[Len(queue[x]) + 1] = "wait"
             /\ queue[x] # <<>> => Head(Append(queue[x], "wait")) = Head(queue[x])
  BY <1>2, <1>3, PushOnce
<1>5. OnceEach'
  BY <1>1, <1>2, <1>4 DEF OnceEach, OnceIn
<1>6. \A x \in Strands : Len(queue'[x]) >= Len(queue[x])
  BY <1>1, <1>4
<1>7. \A c \in Clients : pc[c] \in {"pool", "session"} => pc'[c] = pc[c] /\ on'[c] = on[c]
  BY DEF Reactor, Asked, IInv, TypeOK
<1>8. Placed'
  <2> SUFFICES ASSUME NEW x \in Strands, NEW i \in 1 .. Len(queue'[x]),
                      queue'[x][i] \in Clients
               PROVE  Belongs(queue'[x][i], x, pc', on')
    BY DEF Placed, PlacedIn
  <2>1. i \in 1 .. Len(queue[x]) /\ queue'[x][i] = queue[x][i]
    BY <1>1, <1>3, <1>4
  <2>2. Belongs(queue[x][i], x, pc, on)
    BY <2>1 DEF IInv, Placed, PlacedIn
  <2> QED
    BY <1>7, <2>1, <2>2 DEF Belongs
<1>9. BatchWithin'
  <2>1. \A x \in Strands : batch'[x] = batch[x] /\ batch[x] <= Len(queue[x])
    BY DEF Reactor, IInv, BatchWithin
  <2>2. \A x \in Strands : batch[x] \in Nat /\ Len(queue'[x]) \in Nat
    BY <1>1, <1>4 DEF IInv, TypeOK
  <2> QED
    BY <1>4, <1>6, <2>1, <2>2 DEF BatchWithin
<1>10. \A x \in Sessions : batch[x] > 0 => batch'[x] > 0 /\ Head(queue'[x]) = Head(queue[x])
  BY <1>1, <1>4, RunHasHandler, PoolIsStrand DEF Reactor, IInv
<1>11. CallersRun' /\ ConnectsRun'
  <2>1. calls' = calls /\ on' = on
    BY DEF Reactor
  <2>2. \A c \in calls \cap Clients : on[c] # "pool" /\ pc[c] = "session"
    BY NamesAssumption DEF IInv, CallersRun, Runs
  <2>3. "pool" \notin calls
    BY NamesAssumption DEF IInv, TypeOK
  <2> QED
    BY <1>7, <1>10, <2>1, <2>2, <2>3, RunsKeep
<1> QED
  BY <1>5, <1>8, <1>9, <1>11

LEMMA HandleKeeps ==
  ASSUME IInv, NEW c \in Clients, Handle(c)
  PROVE  Placed' /\ OnceEach' /\ BatchWithin' /\ CallersRun' /\ ConnectsRun'
<1>1. pc[c] = "read" /\ UNCHANGED <<batch, calls>>
  BY DEF Handle
<1>2. CASE ~ NeedsDatabase(c)
  BY <1>1, <1>2, QuietKeeps DEF Handle, Reply, IInv, TypeOK
<1>3. CASE NeedsDatabase(c)
  <2>1. /\ pc' = [pc EXCEPT ![c] = "pool"]
        /\ on' = on
        /\ queue' = [queue EXCEPT !["pool"] = Append(queue["pool"], c)]
    BY <1>3 DEF Handle
  <2>2. Absent(c, queue)
    BY <1>1 DEF Absent, IInv, Placed, PlacedIn, Belongs
  <2>3. PlacedIn(queue, pc', on') /\ OnceIn(queue)
    BY <2>1, <2>2, MoveKeeps DEF IInv, Placed, OnceEach, TypeOK
  <2>4. queue \in [Strands -> Seq(Handlers)] /\ c \in Handlers /\ Belongs(c, "pool", pc', on')
    BY <2>1 DEF IInv, TypeOK, Handlers, Belongs
  <2>5. /\ OnceIn(queue')
        /\ PlacedIn(queue', pc', on')
        /\ Len(queue'["pool"]) = Len(queue["pool"]) + 1
    BY <2>1, <2>2, <2>3, <2>4, PushKeeps, PoolIsStrand
  <2>6. Placed' /\ OnceEach'
    BY <2>5 DEF Placed, OnceEach
  <2>7. "pool" \notin Sessions /\ \A x \in Strands \ {"pool"} : queue'[x] = queue[x]
    BY <2>1, <2>4, NamesAssumption
  <2>8. BatchWithin'
    <3>1. \A x \in Strands : /\ batch[x] \in Nat
                             /\ Len(queue[x]) \in Nat
                             /\ batch[x] <= Len(queue[x])
      BY <2>4, LenProperties DEF IInv, TypeOK, BatchWithin
    <3>2. \A x \in Strands : Len(queue'[x]) >= Len(queue[x])
      BY <2>5, <2>7, <3>1
    <3>3. \A x \in Strands : Len(queue'[x]) \in Nat
      BY <2>5, <2>7, <3>1
    <3> QED
      BY <1>1, <3>1, <3>2, <3>3 DEF BatchWithin
  <2>9. CallersRun' /\ ConnectsRun'
    <3>1. \A d \in calls \cap Clients : d # c /\ on[d] # "pool"
      BY <1>1, <2>7 DEF IInv, CallersRun, Runs
    <3>2. \A d \in calls \cap Clients : pc'[d] = pc[d] /\ on'[d] = on[d]
      BY <2>1, <3>1 DEF IInv, TypeOK
    <3>3. "pool" \notin calls
      BY NamesAssumption DEF IInv, TypeOK
    <3> QED
      BY <1>1, <2>7, <3>1, <3>2, <3>3, RunsKeep, PoolIsStrand
  <2> QED
    BY <2>6, <2>8, <2>9
<1> QED
  BY <1>2, <1>3

LEMMA TakeStrandKeeps ==
  ASSUME IInv, NEW st \in Strands, TakeStrand(st)
  PROVE  Placed' /\ OnceEach' /\ BatchWithin' /\ CallersRun' /\ ConnectsRun'
<1>1. /\ batch' = [batch EXCEPT ![st] = Len(queue[st])]
      /\ UNCHANGED <<queue, calls, pc, on>>
  BY DEF TakeStrand, clientVars
<1>2. \A x \in Strands : Len(queue[x]) \in Nat /\ batch[x] \in Nat /\ batch[x] <= Len(queue[x])
  BY LenProperties DEF IInv, TypeOK, BatchWithin
<1>3. Placed' /\ OnceEach'
  BY <1>1 DEF IInv, Placed, PlacedIn, OnceEach, OnceIn, Belongs
<1>4. \A x \in Strands : batch'[x] <= Len(queue[x]) /\ (batch[x] > 0 => batch'[x] > 0)
  BY <1>1, <1>2 DEF IInv, TypeOK
<1>5. BatchWithin'
  BY <1>1, <1>4 DEF BatchWithin
<1>6. CallersRun' /\ ConnectsRun'
  BY <1>1, <1>4, PoolIsStrand DEF IInv, CallersRun, ConnectsRun, Runs
<1> QED
  BY <1>3, <1>5, <1>6

(* A handler of the pool's strand ends and posts another one.              *)
LEMMA PoolPushKeeps ==
  ASSUME IInv, batch["pool"] > 0, UNCHANGED calls,
         NEW x \in Strands, NEW h \in Handlers, NEW woken,
         EndTurn("pool", [Popped("pool") EXCEPT ![x] = Append(Popped("pool")[x], h)], woken),
         PlacedIn(Popped("pool"), pc', on'),
         h \in Clients => Absent(h, Popped("pool")) /\ Belongs(h, x, pc', on'),
         \A c \in calls \cap Clients : pc'[c] = pc[c] /\ on'[c] = on[c]
  PROVE  Placed' /\ OnceEach' /\ BatchWithin' /\ CallersRun' /\ ConnectsRun'
<1> DEFINE q0 == Popped("pool")
           q == [q0 EXCEPT ![x] = Append(q0[x], h)]
<1>1. q0 \in [Strands -> Seq(Handlers)] /\ OnceIn(q0)
  BY PopKeeps, PoolIsStrand
<1>2. PlacedIn(q0, pc', on')
  OBVIOUS
<1>3. h \in Clients => Absent(h, q0) /\ Belongs(h, x, pc', on')
  OBVIOUS
<1> HIDE DEF q0
<1>4. /\ q \in [Strands -> Seq(Handlers)]
      /\ OnceIn(q)
      /\ PlacedIn(q, pc', on')
      /\ Len(q[x]) = Len(q0[x]) + 1
      /\ q0[x] # <<>> => Head(q[x]) = Head(q0[x])
  BY <1>1, <1>2, <1>3, PushKeeps
<1>5. \A y \in Strands \ {x} : q[y] = q0[y]
  BY <1>1
<1>6. \A y \in Strands : Len(q0[y]) \in Nat
  BY <1>1, LenProperties
<1>7. EndTurn("pool", q, woken)
  BY DEF q0
<1> HIDE DEF q
<1>8. \A y \in Strands : Len(q[y]) >= Len(q0[y]) /\ (q0[y] # <<>> => Head(q[y]) = Head(q0[y]))
  BY <1>4, <1>5, <1>6
<1> QED
  BY <1>4, <1>7, <1>8, PoolTurnKeeps DEF q0

LEMMA PoolPostKeeps ==
  ASSUME IInv, PoolPost
  PROVE  Placed' /\ OnceEach' /\ BatchWithin' /\ CallersRun' /\ ConnectsRun'
<1>1. batch["pool"] > 0 /\ UNCHANGED <<calls, pc, on>>
  BY DEF PoolPost, Turn, clientVars
<1>2. /\ PlacedIn(Popped("pool"), pc, on)
      /\ Popped("pool") = [queue EXCEPT !["pool"] = Tail(queue["pool"])]
  BY <1>1, PopKeeps, PoolIsStrand
<1>3. EndTurn("pool", [Popped("pool") EXCEPT !["pool"] = Append(Popped("pool")["pool"], "connect")],
              <<>>)
  <2>1. [queue EXCEPT !["pool"] = Append(Tail(queue["pool"]), "connect")]
          = [Popped("pool") EXCEPT !["pool"] = Append(Popped("pool")["pool"], "connect")]
    BY <1>2, PoolIsStrand DEF IInv, TypeOK
  <2> QED
    BY <2>1 DEF PoolPost
<1>4. "connect" \in Handlers /\ "connect" \notin Clients
  BY NamesAssumption DEF Handlers
<1>5. PlacedIn(Popped("pool"), pc', on')
  BY <1>1, <1>2
<1> QED
  BY <1>1, <1>3, <1>4, <1>5, PoolPushKeeps, PoolIsStrand

LEMMA PoolStartKeeps ==
  ASSUME IInv, PoolStart
  PROVE  Placed' /\ OnceEach' /\ BatchWithin' /\ CallersRun' /\ ConnectsRun'
<1>1. batch["pool"] > 0 /\ UNCHANGED <<calls, pc, on>>
  BY DEF PoolStart, Turn, clientVars
<1>2. PICK s \in Sessions :
        EndTurn("pool", [Popped("pool") EXCEPT ![s] = Append(Popped("pool")[s], "start")],
                Woken(s))
  BY DEF PoolStart
<1>3. PlacedIn(Popped("pool"), pc', on')
  BY <1>1, PopKeeps, PoolIsStrand
<1>4. "start" \in Handlers /\ "start" \notin Clients
  BY NamesAssumption DEF Handlers
<1> QED
  BY <1>1, <1>2, <1>3, <1>4, PoolPushKeeps, PoolIsStrand

(* A query gets no session, or one to whose strand it is posted.           *)
LEMMA PoolQueryKeeps ==
  ASSUME IInv, NEW c \in Clients, Turn("pool", c), UNCHANGED calls,
         NoResult(c) \/ PoolLock(c)
  PROVE  Placed' /\ OnceEach' /\ BatchWithin' /\ CallersRun' /\ ConnectsRun'
<1>1. batch["pool"] > 0 /\ Head(queue["pool"]) = c
  BY DEF Turn
<1>2. /\ Popped("pool") \in [Strands -> Seq(Handlers)]
      /\ OnceIn(Popped("pool"))
      /\ PlacedIn(Popped("pool"), pc, on)
      /\ Absent(c, Popped("pool"))
      /\ pc[c] = "pool"
  BY <1>1, PopKeeps, PoolIsStrand DEF Belongs
<1>3. \A d \in Clients \ {c} : pc'[d] = pc[d] /\ on'[d] = on[d]
  BY DEF NoResult, PoolLock, Reply, IInv, TypeOK
<1>4. PlacedIn(Popped("pool"), pc', on')
  BY <1>2, <1>3, MoveKeeps
<1>5. c \notin calls
  BY <1>2 DEF IInv, CallersRun
<1>6. CASE NoResult(c)
  <2>1. \A x \in Strands : Len(Popped("pool")[x]) >= Len(Popped("pool")[x])
    BY <1>2, LenProperties
  <2>2. EndTurn("pool", Popped("pool"), <<>>)
    BY <1>6 DEF NoResult
  <2> QED
    BY <1>1, <1>2, <1>3, <1>4, <1>5, <2>1, <2>2, PoolTurnKeeps
<1>7. CASE PoolLock(c)
  <2>1. weak \in Sessions /\ weak \in Strands /\ weak # "pool" /\ c \in Handlers
    BY <1>7, NamesAssumption, PoolIsStrand DEF PoolLock, Live, Handlers
  <2>2. Belongs(c, weak, pc', on')
    BY <1>7, <2>1 DEF PoolLock, Belongs, IInv, TypeOK
  <2>3. EndTurn("pool",
                [Popped("pool") EXCEPT ![weak] = Append(Popped("pool")[weak], c)],
                Woken(weak))
    BY <1>7 DEF PoolLock
  <2> QED
    BY <1>1, <1>2, <1>3, <1>4, <1>5, <2>1, <2>2, <2>3, PoolPushKeeps
<1> QED
  BY <1>6, <1>7

LEMMA PoolQueryStepKeeps ==
  ASSUME IInv, NEW c \in Clients,
         PoolSelect(c) \/ PoolCheck(c) \/ PoolLock(c) \/ PoolCrash(c)
  PROVE  Placed' /\ OnceEach' /\ BatchWithin' /\ CallersRun' /\ ConnectsRun'
<1>1. CASE Turn("pool", c) /\ UNCHANGED calls /\ (NoResult(c) \/ PoolLock(c))
  BY <1>1, PoolQueryKeeps
<1>2. CASE UNCHANGED <<queue, batch, calls, pc, on>>
  BY <1>2, QuietKeeps
<1> QED
  BY <1>1, <1>2
     DEF PoolSelect, PoolCheck, PoolLock, PoolCrash, Choosing, strandVars, clientVars

-----------------------------------------------------------------------------
LEMMA ConnectBeginKeeps ==
  ASSUME IInv, NEW s \in Sessions, ConnectBegin(s)
  PROVE  Placed' /\ OnceEach' /\ BatchWithin' /\ CallersRun' /\ ConnectsRun'
<1>1. /\ batch[s] > 0
      /\ Head(queue[s]) = "start"
      /\ calls' = calls \cup {s}
      /\ UNCHANGED <<queue, batch, pc, on>>
  BY DEF ConnectBegin, Turn, strandVars, clientVars
<1>2. s \notin Clients
  BY NamesAssumption
<1> QED
  BY <1>1, <1>2 DEF IInv, Placed, PlacedIn, Belongs, OnceEach, OnceIn, BatchWithin,
                    CallersRun, ConnectsRun, Runs

LEMMA ConnectReturnsKeeps ==
  ASSUME IInv, NEW s \in Sessions, ConnectReturns(s)
  PROVE  Placed' /\ OnceEach' /\ BatchWithin' /\ CallersRun' /\ ConnectsRun'
<1>1. /\ s \in calls
      /\ calls' = calls \ {s}
      /\ EndTurn(s, Popped(s), <<>>)
      /\ UNCHANGED <<pc, on>>
  BY DEF ConnectReturns, clientVars
<1>2. batch[s] > 0 /\ Head(queue[s]) = "start"
  BY <1>1 DEF IInv, ConnectsRun, Runs
<1>3. "start" \notin calls
  BY NamesAssumption DEF IInv, TypeOK
<1> QED
  BY <1>1, <1>2, <1>3, SessionTurnKeeps

LEMMA ResumeKeeps ==
  ASSUME IInv, NEW s \in Sessions, Resume(s)
  PROVE  Placed' /\ OnceEach' /\ BatchWithin' /\ CallersRun' /\ ConnectsRun'
<1>1. /\ batch[s] > 0
      /\ Head(queue[s]) = "wait"
      /\ EndTurn(s, Popped(s), <<>>)
      /\ UNCHANGED <<calls, pc, on>>
  BY DEF Resume, Turn, clientVars
<1>2. s \notin calls
  BY <1>1, OnlyHeadCalls
<1>3. "wait" \notin calls
  BY NamesAssumption DEF IInv, TypeOK
<1> QED
  BY <1>1, <1>2, <1>3, SessionTurnKeeps

LEMMA QueryBeginKeeps ==
  ASSUME IInv, NEW c \in Clients, QueryBegin(c)
  PROVE  Placed' /\ OnceEach' /\ BatchWithin' /\ CallersRun' /\ ConnectsRun'
<1>1. PICK s \in Sessions :
        /\ Turn(s, c)
        /\ c \notin calls
        /\ IF link[s] = "open"
           THEN /\ calls' = calls \cup {c}
                /\ UNCHANGED <<strandVars, clientVars>>
           ELSE /\ Reply(c)
                /\ EndTurn(s, Popped(s), <<>>)
                /\ UNCHANGED calls
  BY DEF QueryBegin
<1>2. batch[s] > 0 /\ Head(queue[s]) = c
  BY <1>1 DEF Turn
<1>3. pc[c] = "session" /\ on[c] = s /\ s \in Strands
  BY <1>2, PopKeeps, PoolIsStrand, NamesAssumption DEF Belongs
<1>4. CASE link[s] = "open"
  <2>1. /\ calls' = calls \cup {c}
        /\ UNCHANGED <<queue, batch, pc, on>>
    BY <1>1, <1>4 DEF strandVars, clientVars
  <2>2. c \notin Sessions
    BY NamesAssumption
  <2> QED
    BY <1>2, <1>3, <2>1, <2>2
       DEF IInv, Placed, PlacedIn, Belongs, OnceEach, OnceIn, BatchWithin,
           CallersRun, ConnectsRun, Runs
<1>5. CASE link[s] # "open"
  <2>1. \A d \in Clients \ {c} : pc'[d] = pc[d] /\ on'[d] = on[d]
    BY <1>1, <1>5 DEF Reply, IInv, TypeOK
  <2>2. s \notin calls
    BY <1>2, OnlyHeadCalls
  <2> QED
    BY <1>1, <1>2, <1>5, <2>1, <2>2, SessionTurnKeeps
<1> QED
  BY <1>4, <1>5

LEMMA QueryReturnsKeeps ==
  ASSUME IInv, NEW c \in Clients, QueryReturns(c)
  PROVE  Placed' /\ OnceEach' /\ BatchWithin' /\ CallersRun' /\ ConnectsRun'
<1>1. /\ c \in calls
      /\ calls' = calls \ {c}
      /\ Reply(c)
      /\ EndTurn(on[c], Popped(on[c]), <<>>)
  BY DEF QueryReturns
<1>2. on[c] \in Sessions /\ batch[on[c]] > 0 /\ Head(queue[on[c]]) = c
  BY <1>1 DEF IInv, CallersRun, Runs
<1>3. on[c] \notin calls
  BY <1>2, OnlyHeadCalls
<1>4. \A d \in Clients \ {c} : pc'[d] = pc[d] /\ on'[d] = on[d]
  BY <1>1 DEF Reply, IInv, TypeOK
<1> QED
  BY <1>1, <1>2, <1>3, <1>4, SessionTurnKeeps

LEMMA NextIInv ==
  ASSUME IInv, [Next]_vars
  PROVE  IInv'
<1> DEFINE Rest == Placed' /\ OnceEach' /\ BatchWithin' /\ CallersRun' /\ ConnectsRun'
<1>1. TypeOK'
  BY NextTypeOK
<1>2. ASSUME Reactor PROVE Rest
  BY <1>2, ReactorKeeps
<1>3. ASSUME NEW c \in Clients, Accept(c) PROVE Rest
  BY <1>3, QuietKeeps DEF Accept, IInv, TypeOK
<1>4. ASSUME NEW c \in Clients, Handle(c) PROVE Rest
  BY <1>4, HandleKeeps
<1>5. ASSUME NEW st \in Strands, TakeStrand(st) PROVE Rest
  BY <1>5, TakeStrandKeeps
<1>6. ASSUME PoolPost PROVE Rest
  BY <1>6, PoolPostKeeps
<1>7. ASSUME PoolStart PROVE Rest
  BY <1>7, PoolStartKeeps
<1>8. ASSUME NEW c \in Clients,
             PoolSelect(c) \/ PoolCheck(c) \/ PoolLock(c) \/ PoolCrash(c)
      PROVE  Rest
  BY <1>8, PoolQueryStepKeeps
<1>9. ASSUME NEW s \in Sessions, ConnectBegin(s) PROVE Rest
  BY <1>9, ConnectBeginKeeps
<1>10. ASSUME NEW s \in Sessions, ConnectReturns(s) PROVE Rest
  BY <1>10, ConnectReturnsKeeps
<1>11. ASSUME NEW s \in Sessions, Resume(s) PROVE Rest
  BY <1>11, ResumeKeeps
<1>12. ASSUME NEW c \in Clients, QueryBegin(c) PROVE Rest
  BY <1>12, QueryBeginKeeps
<1>13. ASSUME NEW c \in Clients, QueryReturns(c) PROVE Rest
  BY <1>13, QueryReturnsKeeps
<1>14. ASSUME NEW s \in Sessions, ServerEof(s) PROVE Rest
  BY <1>14, QuietKeeps DEF ServerEof, strandVars, clientVars
<1>15. ASSUME NEW c \in Clients, Arrive(c) PROVE Rest
  BY <1>15, QuietKeeps DEF Arrive, strandVars, IInv, TypeOK
<1>16. ASSUME NEW c \in Clients, Ask(c) PROVE Rest
  BY <1>16, QuietKeeps DEF Ask, strandVars
<1>17. ASSUME UNCHANGED vars \/ Down PROVE Rest
  BY <1>17, QuietKeeps DEF Down, vars, strandVars, clientVars
<1>18. Rest
  <2> HIDE DEF Rest
  <2> QED
    BY <1>2, <1>3, <1>4, <1>5, <1>6, <1>7, <1>8, <1>9, <1>10, <1>11, <1>12, <1>13,
       <1>14, <1>15, <1>16, <1>17
       DEF Next, RunFirst, PoolTurn, SessionTurn, CallReturns
<1> QED
  BY <1>1, <1>18 DEF IInv

-----------------------------------------------------------------------------
(* No connection is in two calls at once, and each blocked coroutine has a *)
(* session of its own.                                                     *)
LEMMA IInvOneCall == IInv => OneCallPerConnection
<1> SUFFICES ASSUME IInv PROVE OneCallPerConnection
  OBVIOUS
<1>1. /\ \A c, d \in calls \cap Clients : on[c] = on[d] => c = d
      /\ \A c \in calls \cap Clients : on[c] \in Sessions /\ on[c] \notin calls
  <2>1. \A c \in calls \cap Clients : on[c] \in Sessions
    BY DEF IInv, CallersRun, Runs
  <2> QED
    BY <2>1, OnlyHeadCalls
<1>2. Cardinality(calls) <= Cardinality(Sessions)
  <2> DEFINE f == [x \in calls |-> IF x \in Sessions THEN x ELSE on[x]]
  <2>1. \A x \in calls : x \in Clients \/ x \in Sessions
    BY DEF IInv, TypeOK
  <2>2. \A x \in calls : f[x] \in Sessions
    BY <1>1, <2>1
  <2>3. \A x, y \in calls : f[x] = f[y] => x = y
    BY <1>1, <2>1
  <2>4. f \in [calls -> Sessions]
    BY <2>2
  <2> HIDE DEF f
  <2>5. f \in Injection(calls, Sessions)
    BY <2>3, <2>4 DEF Injection, IsInjective
  <2> QED
    BY <2>5, NamesAssumption, FS_Injection
<1> QED
  BY <1>1, <1>2 DEF OneCallPerConnection

(* Every reachable state satisfies the inductive invariant.                *)
THEOREM Invariance == Spec => []IInv
<1>1. Init => IInv
  BY InitIInv
<1>2. IInv /\ [Next]_vars => IInv'
  BY NextIInv
<1> QED
  BY <1>1, <1>2, PTL DEF Spec

(* Type correctness of the threads, their strands and the connections.     *)
THEOREM TypeCorrect == Spec => []TypeOK
<1>1. IInv => TypeOK
  BY DEF IInv
<1> QED
  BY <1>1, Invariance, PTL

(* A database connection is in one call at a time, and no more threads are *)
(* blocked in libpq than there are sessions (pg_session.h:27, 63, 99).     *)
THEOREM CallsAreExclusive == Spec => []OneCallPerConnection
BY IInvOneCall, Invariance, PTL

-----------------------------------------------------------------------------
(* Nothing is lost, and no turn is stuck.  Which operations and handlers   *)
(* there are follows from where the coroutines are, and the other way      *)
(* round: QueueInv says so of the operations, of the strands of the        *)
(* sessions and of that of the pool.                                       *)

(* What a sequence contains, and whether each of it once, when its head    *)
(* has left.                                                               *)
LEMMA TailContains ==
  ASSUME NEW S, NEW q \in Seq(S), q # <<>>
  PROVE  /\ Tail(q) \in Seq(S)
         /\ Contains(q, Head(q))
         /\ \A x : Contains(Tail(q), x) => Contains(q, x)
         /\ \A x : Contains(q, x) /\ x # Head(q) => Contains(Tail(q), x)
         /\ IsInjective(q) => IsInjective(Tail(q)) /\ ~ Contains(Tail(q), Head(q))
<1>1. /\ Len(q) \in Nat \ {0}
      /\ Head(q) = q[1]
      /\ Tail(q) \in Seq(S)
      /\ Len(Tail(q)) = Len(q) - 1
      /\ \A i \in 1 .. Len(Tail(q)) : Tail(q)[i] = q[i + 1]
  BY EmptySeq, HeadTailProperties
<1>2. DOMAIN q = 1 .. Len(q) /\ DOMAIN Tail(q) = 1 .. Len(Tail(q))
  BY <1>1
<1>3. \A i \in 1 .. Len(Tail(q)) : i + 1 \in 1 .. Len(q) /\ i + 1 # 1
  BY <1>1
<1>4. Contains(q, Head(q))
  BY <1>1 DEF Contains
<1>5. ASSUME NEW x, Contains(Tail(q), x) PROVE Contains(q, x)
  BY <1>1, <1>3, <1>5 DEF Contains
<1>6. ASSUME NEW x, Contains(q, x), x # Head(q) PROVE Contains(Tail(q), x)
  <2>1. PICK i \in 1 .. Len(q) : q[i] = x
    BY <1>6 DEF Contains
  <2>2. i - 1 \in 1 .. Len(Tail(q)) /\ (i - 1) + 1 = i
    BY <1>1, <1>6, <2>1
  <2> QED
    BY <1>1, <2>1, <2>2 DEF Contains
<1>7. ASSUME IsInjective(q) PROVE IsInjective(Tail(q))
  <2> SUFFICES ASSUME NEW i \in 1 .. Len(Tail(q)), NEW j \in 1 .. Len(Tail(q)),
                      Tail(q)[i] = Tail(q)[j]
               PROVE  i = j
    BY <1>2 DEF IsInjective
  <2>1. q[i + 1] = q[j + 1] /\ i + 1 \in DOMAIN q /\ j + 1 \in DOMAIN q
    BY <1>1, <1>2, <1>3
  <2>2. i + 1 = j + 1
    BY <1>7, <2>1 DEF IsInjective
  <2> QED
    BY <1>1, <2>2
<1>8. ASSUME IsInjective(q), Contains(Tail(q), Head(q)) PROVE FALSE
  <2>1. PICK i \in 1 .. Len(Tail(q)) : q[i + 1] = q[1]
    BY <1>1, <1>8 DEF Contains
  <2> QED
    BY <1>1, <1>2, <1>3, <1>8, <2>1 DEF IsInjective
<1> QED
  BY <1>1, <1>4, <1>5, <1>6, <1>7, <1>8

(* Another sequence was put behind it.                                     *)
LEMMA ConcatContains ==
  ASSUME NEW S, NEW q \in Seq(S), NEW r \in Seq(S)
  PROVE  /\ q \o r \in Seq(S)
         /\ \A x : Contains(q \o r, x) <=> Contains(q, x) \/ Contains(r, x)
         /\ IsInjective(q) /\ IsInjective(r) /\ (\A x : ~ (Contains(q, x) /\ Contains(r, x)))
              => IsInjective(q \o r)
<1>1. /\ Len(q) \in Nat
      /\ Len(r) \in Nat
      /\ q \o r \in Seq(S)
      /\ Len(q \o r) = Len(q) + Len(r)
      /\ \A i \in 1 .. Len(q) + Len(r) :
           (q \o r)[i] = IF i <= Len(q) THEN q[i] ELSE r[i - Len(q)]
  BY ConcatProperties, LenProperties
<1>2. /\ DOMAIN q = 1 .. Len(q)
      /\ DOMAIN r = 1 .. Len(r)
      /\ DOMAIN (q \o r) = 1 .. Len(q) + Len(r)
  BY <1>1
<1>3. \A i \in 1 .. Len(q) : i \in 1 .. Len(q) + Len(r) /\ (q \o r)[i] = q[i]
  BY <1>1
<1>4. \A i \in 1 .. Len(r) : /\ i + Len(q) \in 1 .. Len(q) + Len(r)
                             /\ (q \o r)[i + Len(q)] = r[i]
  BY <1>1
<1>5. \A i \in 1 .. Len(q) + Len(r) :
        i \in 1 .. Len(q) \/ (i - Len(q) \in 1 .. Len(r) /\ (q \o r)[i] = r[i - Len(q)])
  BY <1>1
<1>6. ASSUME NEW x
      PROVE  Contains(q \o r, x) <=> Contains(q, x) \/ Contains(r, x)
  <2>1. ASSUME Contains(q \o r, x) PROVE Contains(q, x) \/ Contains(r, x)
    <3>1. PICK i \in 1 .. Len(q) + Len(r) : (q \o r)[i] = x
      BY <1>1, <2>1 DEF Contains
    <3> QED
      BY <1>3, <1>5, <3>1 DEF Contains
  <2>2. ASSUME Contains(q, x) PROVE Contains(q \o r, x)
    BY <1>1, <1>3, <2>2 DEF Contains
  <2>3. ASSUME Contains(r, x) PROVE Contains(q \o r, x)
    BY <1>1, <1>4, <2>3 DEF Contains
  <2> QED
    BY <2>1, <2>2, <2>3
<1>7. ASSUME IsInjective(q), IsInjective(r), \A x : ~ (Contains(q, x) /\ Contains(r, x))
      PROVE  IsInjective(q \o r)
  <2> SUFFICES ASSUME NEW i \in 1 .. Len(q) + Len(r), NEW j \in 1 .. Len(q) + Len(r),
                      (q \o r)[i] = (q \o r)[j]
               PROVE  i = j
    BY <1>2 DEF IsInjective
  <2>0. \A k \in 1 .. Len(q) : \A l \in 1 .. Len(r) : q[k] # r[l]
    BY <1>7 DEF Contains
  <2>1. CASE i \in 1 .. Len(q) /\ j \in 1 .. Len(q)
    BY <2>1, <1>2, <1>3, <1>7 DEF IsInjective
  <2>2. CASE i \in 1 .. Len(q) /\ j \notin 1 .. Len(q)
    BY <2>0, <2>2, <1>3, <1>5
  <2>3. CASE i \notin 1 .. Len(q) /\ j \in 1 .. Len(q)
    BY <2>0, <2>3, <1>3, <1>5
  <2>4. CASE i \notin 1 .. Len(q) /\ j \notin 1 .. Len(q)
    <3>1. /\ i - Len(q) \in DOMAIN r
          /\ j - Len(q) \in DOMAIN r
          /\ r[i - Len(q)] = r[j - Len(q)]
      BY <2>4, <1>2, <1>5
    <3>2. i - Len(q) = j - Len(q)
      BY <1>7, <3>1 DEF IsInjective
    <3> QED
      BY <1>1, <3>2
  <2> QED
    BY <2>1, <2>2, <2>3, <2>4
<1> QED
  BY <1>1, <1>6, <1>7

(* Sequences of one element, and of none.                                  *)
LEMMA SingleContains ==
  /\ \A x, y : Contains(<<y>>, x) <=> x = y
  /\ \A x : ~ Contains(<<>>, x)
  /\ \A y : IsInjective(<<y>>)
  /\ IsInjective(<<>>)
BY DEF Contains, IsInjective

(* One element has come.                                                   *)
LEMMA AppendContains ==
  ASSUME NEW S, NEW q \in Seq(S), NEW h \in S
  PROVE  /\ Append(q, h) \in Seq(S)
         /\ Append(q, h) # <<>>
         /\ \A x : Contains(Append(q, h), x) <=> Contains(q, x) \/ x = h
         /\ IsInjective(q) /\ ~ Contains(q, h) => IsInjective(Append(q, h))
<1>1. /\ Append(q, h) = q \o <<h>>
      /\ <<h>> \in Seq(S)
      /\ Append(q, h) # <<>>
  BY AppendIsConcat, AppendProperties
<1>2. \A x : Contains(<<h>>, x) <=> x = h
  BY SingleContains
<1>3. IsInjective(<<h>>)
  BY SingleContains
<1> DEFINE r == <<h>>
<1> HIDE DEF r
<1>4. /\ \A x : Contains(q \o r, x) <=> Contains(q, x) \/ Contains(r, x)
      /\ IsInjective(q) /\ IsInjective(r) /\ (\A x : ~ (Contains(q, x) /\ Contains(r, x)))
           => IsInjective(q \o r)
  BY <1>1, ConcatContains DEF r
<1>5. r = <<h>>
  BY DEF r
<1>6. Append(q, h) \in Seq(S) /\ Append(q, h) # <<>>
  BY AppendProperties
<1> QED
  BY <1>1, <1>2, <1>3, <1>4, <1>5, <1>6

(* An order in which to put the elements of a finite set.                  *)
LEMMA OrderContains ==
  ASSUME NEW S, IsFiniteSet(S), NEW o \in SetToSeqs(S)
  PROVE  /\ o \in Seq(S)
         /\ \A x : Contains(o, x) <=> x \in S
         /\ IsInjective(o)
<1> DEFINE D == 1 .. Cardinality(S)
<1>1. Cardinality(S) \in Nat
  BY FS_CardinalityType
<1>2. o \in [D -> S] /\ \A i, j \in D : i # j => o[i] # o[j]
  BY DEF SetToSeqs
<1>3. o \in Seq(S) /\ Len(o) = Cardinality(S) /\ DOMAIN o = D
  BY <1>1, <1>2
<1>4. IsInjective(o)
  BY <1>2, <1>3 DEF IsInjective
<1> DEFINE R == {o[i] : i \in D}
<1>5. IsFiniteSet(D) /\ Cardinality(D) = Cardinality(S)
  BY <1>1, FS_Interval
<1>6. Cardinality(R) = Cardinality(S)
  <2>1. o \in [D -> R] /\ \A r \in R : \E i \in D : o[i] = r
    BY <1>2
  <2> HIDE DEF R, D
  <2>2. o \in Bijection(D, R)
    BY <1>3, <1>4, <2>1 DEF Bijection, Injection, Surjection, IsInjective
  <2> QED
    BY <1>5, <2>2, FS_Bijection DEF ExistsBijection
<1>7. R \subseteq S
  BY <1>2
<1>8. R = S
  <2> HIDE DEF R
  <2> QED
    BY <1>6, <1>7, FS_Subset
<1>9. \A x : Contains(o, x) <=> x \in R
  BY <1>3 DEF Contains
<1> QED
  BY <1>3, <1>4, <1>8, <1>9

(* The operations that have completed: each once, and which they are.      *)
WorkInv ==
  /\ IsInjective(work)
  /\ \A st \in Strands : Contains(work, st) <=> queue[st] # <<>> /\ batch[st] = 0
  /\ \A c \in Clients : Contains(work, c) <=> pc[c] = "read"
  /\ Contains(work, "accept") => Arrived # {}
  /\ Contains(work, "reactor")

QueriesPosted ==
  \A c \in Clients :
    /\ pc[c] = "pool" => Contains(queue["pool"], c)
    /\ pc[c] = "session" => on[c] \in Sessions /\ Contains(queue[on[c]], c)

(* The handlers in the strand of a session, and what they tell about it.   *)
SessionStrand(s) ==
  /\ IsInjective(queue[s])
  /\ ~ Contains(queue[s], "spawned") /\ ~ Contains(queue[s], "connect")
  /\ Contains(queue[s], "start") <=> phase[s] = "started"
  /\ Contains(queue[s], "wait") <=> wait[s] = "ready"
  /\ wait[s] # "idle" <=> phase[s] = "waiting"

SessionStrands == \A s \in Sessions : SessionStrand(s)

Starts(q) == {i \in 1 .. Len(q) : q[i] \in {"spawned", "connect"}}
NotStarted == {s \in Sessions : phase[s] = "none"}

(* There are as many start_session on the pool's strand as sessions that   *)
(* they can make.                                                          *)
PoolStrand ==
  /\ ~ Contains(queue["pool"], "start") /\ ~ Contains(queue["pool"], "wait")
  /\ Cardinality(Starts(queue["pool"])) = Cardinality(NotStarted)

QueueInv ==
  /\ IInv
  /\ WorkInv
  /\ QueriesPosted
  /\ SessionStrands
  /\ PoolStrand

(* The first operation is taken, and others come behind the rest.          *)
LEMMA TakenWork ==
  ASSUME IInv, WorkInv, NEW job, Taken(job), NEW r \in Seq(Jobs),
         IsInjective(r), \A x : Contains(r, x) => ~ Contains(work, x) \/ x = job
  PROVE  /\ job \in Jobs
         /\ Contains(work, job)
         /\ Tail(work) \o r \in Seq(Jobs)
         /\ IsInjective(Tail(work) \o r)
         /\ \A x : Contains(Tail(work) \o r, x)
                     <=> (Contains(work, x) /\ x # job) \/ Contains(r, x)
<1>1. work \in Seq(Jobs) /\ work # <<>> /\ Head(work) = job /\ IsInjective(work)
  BY DEF IInv, TypeOK, Jobs, Taken, WorkInv
<1>2. /\ Tail(work) \in Seq(Jobs)
      /\ Contains(work, job)
      /\ \A x : Contains(Tail(work), x) <=> Contains(work, x) /\ x # job
      /\ IsInjective(Tail(work))
  BY <1>1, TailContains
<1>3. job \in Jobs
  BY <1>1, HeadTailProperties
<1> QED
  BY <1>1, <1>2, <1>3, ConcatContains

(* A turn has ended in the strand st and has posted to s, if s is not st.  *)
LEMMA EndTurnWork ==
  ASSUME IInv, WorkInv, NEW st \in Strands, batch[st] > 0, NEW s \in Strands,
         NEW q \in [Strands -> Seq(Handlers)], NEW woken,
         woken = IF s = st THEN <<>> ELSE Woken(s),
         s # st => q[s] # <<>>,
         \A x \in Strands \ {st, s} : q[x] = queue[x],
         EndTurn(st, q, woken)
  PROVE  /\ IsInjective(work')
         /\ \A x \in Strands : Contains(work', x) <=> queue'[x] # <<>> /\ batch'[x] = 0
         /\ \A x : x \notin Strands => (Contains(work', x) <=> Contains(work, x))
<1> DEFINE rest == IF batch[st] = 1 /\ q[st] # <<>> THEN <<st>> ELSE <<>>
<1>1. /\ work \in Seq(Jobs)
      /\ batch \in [Strands -> Nat]
      /\ queue \in [Strands -> Seq(Handlers)]
      /\ IsInjective(work)
      /\ \A x \in Strands : Contains(work, x) <=> queue[x] # <<>> /\ batch[x] = 0
  BY DEF IInv, TypeOK, Jobs, Handlers, WorkInv
<1>2. <<>> \in Seq(Jobs) /\ \A x \in Strands : <<x>> \in Seq(Jobs)
  BY DEF Jobs
<1>3. /\ woken \in Seq(Jobs)
      /\ IsInjective(woken)
      /\ \A x : Contains(woken, x) <=> x = s /\ s # st /\ queue[s] = <<>>
  <2>1. CASE s # st /\ queue[s] = <<>>
    <3>1. woken = <<s>>
      BY <2>1 DEF Woken
    <3>2. IsInjective(<<s>>) /\ \A x : Contains(<<s>>, x) <=> x = s
      BY SingleContains
    <3> QED
      BY <1>2, <2>1, <3>1, <3>2
  <2>2. CASE ~ (s # st /\ queue[s] = <<>>)
    <3>1. woken = <<>>
      BY <2>2 DEF Woken
    <3>2. IsInjective(<<>>) /\ \A x : ~ Contains(<<>>, x)
      BY SingleContains
    <3> QED
      BY <1>2, <2>2, <3>1, <3>2
  <2> QED
    BY <2>1, <2>2
<1>4. /\ rest \in Seq(Jobs)
      /\ IsInjective(rest)
      /\ \A x : Contains(rest, x) <=> x = st /\ batch[st] = 1 /\ q[st] # <<>>
  <2>1. CASE batch[st] = 1 /\ q[st] # <<>>
    <3>1. IsInjective(<<st>>) /\ \A x : Contains(<<st>>, x) <=> x = st
      BY SingleContains
    <3> QED
      BY <1>2, <2>1, <3>1
  <2>2. CASE ~ (batch[st] = 1 /\ q[st] # <<>>)
    BY <1>2, <2>2, SingleContains
  <2> QED
    BY <2>1, <2>2
<1>5. /\ work' = (work \o woken) \o rest
      /\ queue' = q
      /\ batch' = [batch EXCEPT ![st] = batch[st] - 1]
  BY DEF EndTurn
<1> HIDE DEF rest
<1>6. /\ work \o woken \in Seq(Jobs)
      /\ IsInjective(work \o woken)
      /\ \A x : Contains(work \o woken, x) <=> Contains(work, x) \/ Contains(woken, x)
  <2>1. work \in Seq(Jobs) /\ IsInjective(work) /\ woken \in Seq(Jobs) /\ IsInjective(woken)
    BY <1>1, <1>3
  <2>2. \A x : ~ (Contains(work, x) /\ Contains(woken, x))
    BY <1>1, <1>3
  <2> QED
    BY <2>1, <2>2, ConcatContains
<1>7. \A x : ~ (Contains(work \o woken, x) /\ Contains(rest, x))
  BY <1>1, <1>3, <1>4, <1>6
<1>8. /\ IsInjective(work')
      /\ \A x : Contains(work', x)
                  <=> Contains(work, x) \/ Contains(woken, x) \/ Contains(rest, x)
  BY <1>4, <1>5, <1>6, <1>7, ConcatContains
<1>9. ASSUME NEW x \in Strands
      PROVE  Contains(work', x) <=> queue'[x] # <<>> /\ batch'[x] = 0
  <2>1. CASE x = st
    <3>1. batch'[x] = 0 <=> batch[st] = 1
      BY <2>1, <1>1, <1>5
    <3> QED
      BY <2>1, <3>1, <1>1, <1>3, <1>4, <1>5, <1>8
  <2>2. CASE x # st /\ x = s
    <3>1. batch'[x] = batch[x]
      BY <2>2, <1>1, <1>5
    <3>2. queue[x] = <<>> => batch[x] = 0
      BY <1>1, RunHasHandler DEF IInv
    <3> QED
      BY <2>2, <3>1, <3>2, <1>1, <1>3, <1>4, <1>5, <1>8
  <2>3. CASE x # st /\ x # s
    <3>1. batch'[x] = batch[x] /\ queue'[x] = queue[x]
      BY <2>3, <1>1, <1>5
    <3> QED
      BY <2>3, <3>1, <1>1, <1>3, <1>4, <1>8
  <2> QED
    BY <2>1, <2>2, <2>3
<1> QED
  BY <1>3, <1>4, <1>8, <1>9

(* The number of start_session in a strand, when a handler comes or leaves.*)
LEMMA StartsFinite ==
  ASSUME NEW q \in Seq(Handlers)
  PROVE  IsFiniteSet(Starts(q)) /\ Cardinality(Starts(q)) \in Nat
<1>1. IsFiniteSet(1 .. Len(q))
  BY LenProperties, FS_Interval
<1>2. Starts(q) \in SUBSET (1 .. Len(q))
  BY DEF Starts
<1> QED
  BY <1>1, <1>2, FS_Subset, FS_CardinalityType

LEMMA StartsOfAppend ==
  ASSUME NEW q \in Seq(Handlers), NEW h \in Handlers
  PROVE  Cardinality(Starts(Append(q, h)))
           = Cardinality(Starts(q)) + IF h \in {"spawned", "connect"} THEN 1 ELSE 0
<1>1. /\ Len(q) \in Nat
      /\ Len(Append(q, h)) = Len(q) + 1
      /\ \A i \in 1 .. Len(q) : Append(q, h)[i] = q[i]
      /\ Append(q, h)[Len(q) + 1] = h
  BY LenProperties, AppendProperties
<1>2. IsFiniteSet(Starts(q)) /\ Cardinality(Starts(q)) \in Nat
  BY StartsFinite
<1>3. CASE h \in {"spawned", "connect"}
  <2>1. Starts(Append(q, h)) = Starts(q) \cup {Len(q) + 1}
    BY <1>1, <1>3 DEF Starts
  <2>2. Len(q) + 1 \notin Starts(q)
    BY <1>1 DEF Starts
  <2> QED
    BY <1>2, <1>3, <2>1, <2>2, FS_AddElement
<1>4. CASE h \notin {"spawned", "connect"}
  <2>1. Starts(Append(q, h)) = Starts(q)
    BY <1>1, <1>4 DEF Starts
  <2> QED
    BY <1>2, <1>4, <2>1
<1> QED
  BY <1>3, <1>4

LEMMA StartsOfTail ==
  ASSUME NEW q \in Seq(Handlers), q # <<>>
  PROVE  Cardinality(Starts(Tail(q)))
           = Cardinality(Starts(q)) - IF Head(q) \in {"spawned", "connect"} THEN 1 ELSE 0
<1>1. /\ Len(q) \in Nat \ {0}
      /\ Head(q) = q[1]
      /\ Tail(q) \in Seq(Handlers)
      /\ Len(Tail(q)) = Len(q) - 1
      /\ \A i \in 1 .. Len(Tail(q)) : Tail(q)[i] = q[i + 1]
  BY EmptySeq, HeadTailProperties
<1>2. IsFiniteSet(Starts(q)) /\ Cardinality(Starts(q)) \in Nat
  BY StartsFinite
<1>3. IsFiniteSet(Starts(Tail(q)))
  BY <1>1, StartsFinite
<1> DEFINE others == Starts(q) \ {1}
           f == [i \in Starts(Tail(q)) |-> i + 1]
<1>4. \A i \in Starts(Tail(q)) : i \in Nat /\ f[i] = i + 1 /\ f[i] \in others
  BY <1>1 DEF Starts
<1>5. ASSUME NEW j \in others
      PROVE  j - 1 \in Starts(Tail(q)) /\ f[j - 1] = j
  <2>1. j \in 1 .. Len(q) /\ j # 1 /\ q[j] \in {"spawned", "connect"}
    BY DEF Starts
  <2>2. j - 1 \in 1 .. Len(Tail(q)) /\ (j - 1) + 1 = j
    BY <1>1, <2>1
  <2> QED
    BY <1>1, <2>1, <2>2 DEF Starts
<1>6. f \in [Starts(Tail(q)) -> others]
  BY <1>4
<1>7. \A i, j \in Starts(Tail(q)) : f[i] = f[j] => i = j
  BY <1>4
<1>8. \A j \in others : \E i \in Starts(Tail(q)) : f[i] = j
  BY <1>5
<1> HIDE DEF f, others
<1>9. f \in Bijection(Starts(Tail(q)), others)
  BY <1>6, <1>7, <1>8 DEF Bijection, Injection, IsInjective, Surjection
<1>10. Cardinality(others) = Cardinality(Starts(Tail(q)))
  BY <1>3, <1>9, FS_Bijection DEF ExistsBijection
<1>11. Cardinality(others) = IF 1 \in Starts(q) THEN Cardinality(Starts(q)) - 1
                                                ELSE Cardinality(Starts(q))
  BY <1>2, FS_RemoveElement DEF others
<1>12. 1 \in Starts(q) <=> Head(q) \in {"spawned", "connect"}
  BY <1>1 DEF Starts
<1> QED
  BY <1>2, <1>10, <1>11, <1>12

-----------------------------------------------------------------------------
(* QueueInv holds at the start, and each action keeps it.                  *)

(* The types of what the steps read.                                       *)
LEMMA StrandTypes ==
  ASSUME IInv
  PROVE  /\ queue \in [Strands -> Seq(Handlers)]
         /\ batch \in [Strands -> Nat]
         /\ work \in Seq(Jobs)
         /\ pc \in [Clients -> {"away", "arrived", "reading", "read", "pool", "session"}]
         /\ on \in [Clients -> Sessions \cup {NotPosted}]
         /\ wait \in [Sessions -> {"idle", "armed", "ready"}]
         /\ phase \in [Sessions -> Phases]
         /\ "pool" \in Strands /\ Sessions \subseteq Strands /\ "pool" \notin Sessions
BY PoolIsStrand, NamesAssumption DEF IInv, TypeOK, LifeTypeOK, Handlers, Jobs

LEMMA InitQueueInv == Init => QueueInv
<1> SUFFICES ASSUME Init PROVE QueueInv
  OBVIOUS
<1>1. IInv
  BY InitIInv
<1>2. Cardinality(Sessions) \in Nat /\ Cardinality(Sessions) # 0
  BY NamesAssumption, FS_CardinalityType, FS_EmptySet
<1> DEFINE n == Cardinality(Sessions)
<1>3. /\ Len(queue["pool"]) = n
      /\ queue["pool"] # <<>>
      /\ \A i \in 1 .. n : queue["pool"][i] = "spawned"
  <2>1. queue["pool"] = [i \in 1 .. n |-> "spawned"]
    BY PoolIsStrand DEF Init
  <2>2. Len(queue["pool"]) = n
    BY <1>2, <2>1
  <2> QED
    BY <1>2, <2>1, <2>2
<1>4. \A s \in Sessions : queue[s] = <<>>
  BY NamesAssumption, PoolIsStrand DEF Init
<1>5. \A x : Contains(work, x) <=> x \in {"reactor", "pool"}
  BY DEF Init, Contains
<1>6. IsInjective(work)
  BY DEF Init, IsInjective
<1>7. WorkInv
  <2>1. \A st \in Strands : batch[st] = 0
    BY DEF Init
  <2>2. \A st \in Strands : st # "reactor" /\ (queue[st] # <<>> <=> st = "pool")
    BY <1>3, <1>4, NamesAssumption DEF Strands
  <2>3. \A c \in Clients : c \notin {"reactor", "pool"} /\ pc[c] = "away"
    BY NamesAssumption DEF Init
  <2> QED
    BY <1>5, <1>6, <2>1, <2>2, <2>3 DEF WorkInv
<1>8. QueriesPosted
  BY DEF Init, QueriesPosted
<1>9. SessionStrands
  <2>1. \A s \in Sessions : phase[s] = "none" /\ wait[s] = "idle"
    BY DEF Init, LifeInit
  <2> QED
    BY <1>4, <2>1, SingleContains DEF SessionStrands, SessionStrand
<1>10. PoolStrand
  <2>1. ~ Contains(queue["pool"], "start") /\ ~ Contains(queue["pool"], "wait")
    BY <1>3 DEF Contains
  <2>2. Starts(queue["pool"]) = 1 .. n
    BY <1>3 DEF Starts
  <2>3. Cardinality(Starts(queue["pool"])) = n
    BY <1>2, <2>2, FS_Interval
  <2>4. NotStarted = Sessions
    BY DEF NotStarted, Init, LifeInit
  <2> QED
    BY <2>1, <2>3, <2>4 DEF PoolStrand
<1> QED
  BY <1>1, <1>7, <1>8, <1>9, <1>10 DEF QueueInv

(* What is left to show of a step when the operations are right.           *)
QueuesKept == QueriesPosted' /\ SessionStrands' /\ PoolStrand'

(* Nothing happens in the strands, or not even to the operations.          *)
LEMMA QuietQueues ==
  ASSUME QueueInv, UNCHANGED <<queue, wait, phase>>,
         \A c \in Clients : pc'[c] \in {"pool", "session"} => pc'[c] = pc[c] /\ on'[c] = on[c]
  PROVE  QueuesKept
<1>1. QueriesPosted'
  BY DEF QueueInv, QueriesPosted
<1>2. SessionStrands'
  BY DEF QueueInv, SessionStrands, SessionStrand
<1>3. PoolStrand'
  BY DEF QueueInv, PoolStrand, NotStarted
<1> QED
  BY <1>1, <1>2, <1>3 DEF QueuesKept

LEMMA QuietWork ==
  ASSUME QueueInv, UNCHANGED <<work, queue, batch>>,
         \A c \in Clients : /\ pc'[c] = "read" <=> pc[c] = "read"
                            /\ pc[c] = "arrived" => pc'[c] = "arrived"
  PROVE  WorkInv'
BY DEF QueueInv, WorkInv, Arrived

(* The first operation is taken, and none comes.                           *)
LEMMA TakenOne ==
  ASSUME QueueInv, NEW job, Taken(job)
  PROVE  /\ job \in Jobs
         /\ Contains(work, job)
         /\ IsInjective(Tail(work))
         /\ \A x : Contains(Tail(work), x) <=> Contains(work, x) /\ x # job
<1>1. work \in Seq(Jobs) /\ work # <<>> /\ Head(work) = job /\ IsInjective(work)
  BY DEF QueueInv, IInv, TypeOK, Jobs, Taken, WorkInv
<1>2. job \in Jobs
  BY <1>1, HeadTailProperties
<1> QED
  BY <1>1, <1>2, TailContains

LEMMA AcceptQueues ==
  ASSUME QueueInv, NEW c \in Clients, Accept(c)
  PROVE  WorkInv' /\ QueuesKept
<1>1. /\ IsInjective(work')
      /\ \A x : Contains(work', x) <=> Contains(work, x) /\ x # "accept"
  BY TakenOne DEF Accept
<1>2. \A d \in Clients : /\ pc'[d] = "read" <=> pc[d] = "read"
                         /\ pc'[d] \in {"pool", "session"} => pc'[d] = pc[d]
  BY StrandTypes DEF Accept, QueueInv
<1>3. UNCHANGED <<queue, batch, wait, phase, on>>
  BY DEF Accept, lifeVars
<1>4. \A x \in Clients \cup Strands \cup {"reactor"} : x # "accept"
  BY NamesAssumption DEF Strands
<1>5. WorkInv'
  BY <1>1, <1>2, <1>3, <1>4 DEF QueueInv, WorkInv
<1> QED
  BY <1>2, <1>3, <1>5, QuietQueues

LEMMA TakeStrandQueues ==
  ASSUME QueueInv, NEW st \in Strands, TakeStrand(st)
  PROVE  WorkInv' /\ QueuesKept
<1>1. /\ IsInjective(work')
      /\ Contains(work, st)
      /\ \A x : Contains(work', x) <=> Contains(work, x) /\ x # st
  BY TakenOne DEF TakeStrand
<1>2. UNCHANGED <<queue, wait, phase, pc, on>>
  BY DEF TakeStrand, lifeVars, clientVars
<1>3. queue[st] # <<>>
  BY <1>1 DEF QueueInv, WorkInv
<1>4. batch' = [batch EXCEPT ![st] = Len(queue[st])] /\ Len(queue[st]) # 0
  BY <1>3, EmptySeq, StrandTypes DEF TakeStrand, QueueInv
<1>5. \A x \in Strands : batch'[x] = 0 <=> batch[x] = 0 /\ x # st
  <2>1. batch[st] = 0
    BY <1>1 DEF QueueInv, WorkInv
  <2> QED
    BY <1>4, <2>1, StrandTypes DEF QueueInv
<1>6. \A x \in Clients \cup {"reactor", "accept"} : x # st
  BY NamesAssumption DEF Strands
<1>7. WorkInv'
  <2>1. \A x \in Strands : Contains(work', x) <=> queue'[x] # <<>> /\ batch'[x] = 0
    BY <1>1, <1>2, <1>5 DEF QueueInv, WorkInv
  <2> QED
    BY <1>1, <1>2, <1>6, <2>1 DEF QueueInv, WorkInv, Arrived
<1> QED
  BY <1>2, <1>7, QuietQueues

(* A handler ends in the strand of a session.                              *)
LEMMA SessionTurnQueues ==
  ASSUME QueueInv, NEW s \in Sessions, batch[s] > 0, EndTurn(s, Popped(s), <<>>),
         \A c \in Clients : /\ pc'[c] \in {"pool", "session"} =>
                                 pc'[c] = pc[c] /\ on'[c] = on[c] /\ c # Head(queue[s])
                            /\ pc'[c] = "read" <=> pc[c] = "read"
                            /\ pc[c] = "arrived" => pc'[c] = "arrived",
         \A x \in Sessions \ {s} : phase'[x] = phase[x] /\ wait'[x] = wait[x],
         phase'[s] = "started" <=> phase[s] = "started" /\ Head(queue[s]) # "start",
         wait'[s] = "ready" <=> wait[s] = "ready" /\ Head(queue[s]) # "wait",
         wait'[s] # "idle" <=> phase'[s] = "waiting",
         phase'[s] = "none" <=> phase[s] = "none"
  PROVE  WorkInv' /\ QueuesKept
<1>1. /\ queue \in [Strands -> Seq(Handlers)]
      /\ s \in Strands /\ "pool" \in Strands /\ s # "pool"
  BY StrandTypes DEF QueueInv
<1>2. /\ queue[s] # <<>>
      /\ Popped(s) \in [Strands -> Seq(Handlers)]
      /\ Popped(s) = [queue EXCEPT ![s] = Tail(queue[s])]
  BY <1>1, PopKeeps DEF QueueInv
<1>3. queue' = Popped(s)
  BY DEF EndTurn
<1>4. queue'[s] = Tail(queue[s]) /\ \A x \in Strands \ {s} : queue'[x] = queue[x]
  BY <1>1, <1>2, <1>3
<1>5. /\ IsInjective(work')
      /\ \A x \in Strands : Contains(work', x) <=> queue'[x] # <<>> /\ batch'[x] = 0
      /\ \A x : x \notin Strands => (Contains(work', x) <=> Contains(work, x))
  BY <1>1, <1>2, <1>3, <1>4, EndTurnWork DEF QueueInv
<1>6. \A x \in Clients \cup {"reactor", "accept"} : x \notin Strands
  BY NamesAssumption DEF Strands
<1>7. WorkInv'
  BY <1>5, <1>6 DEF QueueInv, WorkInv, Arrived
<1>8. IsInjective(queue[s])
  BY DEF QueueInv, SessionStrands, SessionStrand
<1>9. /\ IsInjective(queue'[s])
      /\ \A x : Contains(queue'[s], x) <=> Contains(queue[s], x) /\ x # Head(queue[s])
  BY <1>1, <1>2, <1>4, <1>8, TailContains
<1>10. QueriesPosted'
  <2> SUFFICES ASSUME NEW c \in Clients, pc'[c] \in {"pool", "session"}
               PROVE  /\ pc'[c] = "pool" => Contains(queue'["pool"], c)
                      /\ pc'[c] = "session" => on'[c] \in Sessions /\ Contains(queue'[on'[c]], c)
    BY DEF QueriesPosted
  <2>1. pc'[c] = pc[c] /\ on'[c] = on[c] /\ c # Head(queue[s])
    OBVIOUS
  <2>2. /\ pc[c] = "pool" => Contains(queue["pool"], c)
        /\ pc[c] = "session" => on[c] \in Sessions /\ Contains(queue[on[c]], c)
    BY DEF QueueInv, QueriesPosted
  <2>3. CASE pc[c] = "pool"
    BY <1>1, <1>4, <2>1, <2>2, <2>3
  <2>4. CASE pc[c] = "session" /\ on[c] = s
    BY <1>9, <2>1, <2>2, <2>4
  <2>5. CASE pc[c] = "session" /\ on[c] # s
    <3>1. on[c] \in Strands \ {s}
      BY <2>2, <2>5, PoolIsStrand
    <3> QED
      BY <1>4, <2>1, <2>2, <2>5, <3>1
  <2> QED
    BY <2>1, <2>3, <2>4, <2>5
<1>11. SessionStrands'
  <2> SUFFICES ASSUME NEW x \in Sessions PROVE SessionStrand(x)'
    BY DEF SessionStrands
  <2>1. SessionStrand(x)
    BY DEF QueueInv, SessionStrands
  <2>2. CASE x = s
    BY <2>1, <2>2, <1>9 DEF SessionStrand
  <2>3. CASE x # s
    BY <2>1, <2>3, <1>4, PoolIsStrand DEF SessionStrand
  <2> QED
    BY <2>2, <2>3
<1>12. PoolStrand'
  <2>1. NotStarted' = NotStarted
    BY DEF NotStarted
  <2> QED
    BY <1>1, <1>4, <2>1 DEF QueueInv, PoolStrand
<1> QED
  BY <1>7, <1>10, <1>11, <1>12 DEF QueuesKept

(* The handler at the head of a session's strand is in it.                 *)
LEMMA HeadIsIn ==
  ASSUME QueueInv, NEW st \in Strands, batch[st] > 0
  PROVE  Contains(queue[st], Head(queue[st]))
BY PopKeeps, StrandTypes, TailContains DEF QueueInv

LEMMA ConnectReturnsQueues ==
  ASSUME QueueInv, NEW s \in Sessions, ConnectReturns(s)
  PROVE  WorkInv' /\ QueuesKept
<1>1. batch[s] > 0 /\ Head(queue[s]) = "start"
  BY DEF ConnectReturns, QueueInv, IInv, ConnectsRun, Runs
<1>2. /\ UNCHANGED <<pc, on>>
      /\ EndTurn(s, Popped(s), <<>>)
      /\ phase[s] = "started"
      /\ \/ phase' = [phase EXCEPT ![s] = "waiting"]
         \/ phase' = [phase EXCEPT ![s] = "ended"]
      /\ wait' = [wait EXCEPT ![s] = IF phase'[s] = "waiting" THEN "armed" ELSE wait[s]]
  BY DEF ConnectReturns, Connect, clientVars
<1>3. wait[s] = "idle"
  BY <1>2 DEF QueueInv, SessionStrands, SessionStrand
<1>4. "start" \notin Clients
  BY NamesAssumption
<1>5. phase \in [Sessions -> Phases] /\ wait \in [Sessions -> {"idle", "armed", "ready"}]
  BY StrandTypes DEF QueueInv
<1>6. phase'[s] \in {"waiting", "ended"} /\ (wait'[s] = IF phase'[s] = "waiting" THEN "armed" ELSE "idle")
  BY <1>2, <1>3, <1>5
<1>7. \A x \in Sessions \ {s} : phase'[x] = phase[x] /\ wait'[x] = wait[x]
  BY <1>2, <1>5
<1> QED
  BY <1>1, <1>2, <1>3, <1>4, <1>6, <1>7, SessionTurnQueues

LEMMA ResumeQueues ==
  ASSUME QueueInv, NEW s \in Sessions, Resume(s)
  PROVE  WorkInv' /\ QueuesKept
<1>1. batch[s] > 0 /\ Head(queue[s]) = "wait"
  BY DEF Resume, Turn
<1>2. wait[s] = "ready" /\ phase[s] = "waiting"
  <2>1. Contains(queue[s], "wait")
    BY <1>1, HeadIsIn, PoolIsStrand
  <2> QED
    BY <2>1 DEF QueueInv, SessionStrands, SessionStrand
<1>3. /\ UNCHANGED <<pc, on>>
      /\ EndTurn(s, Popped(s), <<>>)
      /\ \/ wait' = [wait EXCEPT ![s] = "armed"] /\ phase' = phase
         \/ wait' = [wait EXCEPT ![s] = "idle"] /\ phase' = [phase EXCEPT ![s] = "ended"]
  BY DEF Resume, WaitEnds, clientVars, lifeVars
<1>4. "wait" \notin Clients
  BY NamesAssumption
<1>5. phase \in [Sessions -> Phases] /\ wait \in [Sessions -> {"idle", "armed", "ready"}]
  BY StrandTypes DEF QueueInv
<1>6. \/ wait'[s] = "armed" /\ phase'[s] = "waiting"
      \/ wait'[s] = "idle" /\ phase'[s] = "ended"
  BY <1>2, <1>3, <1>5
<1>7. \A x \in Sessions \ {s} : phase'[x] = phase[x] /\ wait'[x] = wait[x]
  BY <1>3, <1>5
<1> QED
  BY <1>1, <1>2, <1>3, <1>4, <1>6, <1>7, SessionTurnQueues

(* A query has its reply, on the strand of its session.                    *)
LEMMA RepliedQueues ==
  ASSUME QueueInv, NEW c \in Clients, NEW s \in Sessions, batch[s] > 0, Head(queue[s]) = c,
         Reply(c), EndTurn(s, Popped(s), <<>>), UNCHANGED <<phase, wait>>
  PROVE  WorkInv' /\ QueuesKept
<1>1. /\ pc \in [Clients -> {"away", "arrived", "reading", "read", "pool", "session"}]
      /\ on \in [Clients -> Sessions \cup {NotPosted}]
  BY StrandTypes DEF QueueInv
<1>2. /\ pc' = [pc EXCEPT ![c] = "reading"]
      /\ on' = [on EXCEPT ![c] = NotPosted]
  BY DEF Reply
<1>3. pc[c] = "session" /\ c # "start" /\ c # "wait"
  BY PopKeeps, PoolIsStrand, NamesAssumption DEF QueueInv, Belongs
<1>4. wait[s] # "idle" <=> phase[s] = "waiting"
  BY DEF QueueInv, SessionStrands, SessionStrand
<1>5. \A d \in Clients : /\ pc'[d] \in {"pool", "session"} =>
                              pc'[d] = pc[d] /\ on'[d] = on[d] /\ d # c
                         /\ pc'[d] = "read" <=> pc[d] = "read"
                         /\ pc[d] = "arrived" => pc'[d] = "arrived"
  BY <1>1, <1>2, <1>3
<1> QED
  BY <1>3, <1>4, <1>5, SessionTurnQueues

LEMMA QueryBeginQueues ==
  ASSUME QueueInv, NEW c \in Clients, QueryBegin(c)
  PROVE  WorkInv' /\ QueuesKept
<1>1. PICK s \in Sessions :
        /\ Turn(s, c)
        /\ IF link[s] = "open"
           THEN UNCHANGED <<strandVars, clientVars>>
           ELSE Reply(c) /\ EndTurn(s, Popped(s), <<>>)
        /\ UNCHANGED <<lifeVars, wait>>
  BY DEF QueryBegin
<1>2. UNCHANGED <<phase, wait>>
  BY <1>1 DEF lifeVars
<1>3. CASE link[s] = "open"
  BY <1>1, <1>2, <1>3, QuietQueues, QuietWork DEF strandVars, clientVars
<1>4. CASE link[s] # "open"
  BY <1>1, <1>2, <1>4, RepliedQueues DEF Turn
<1> QED
  BY <1>3, <1>4

LEMMA QueryReturnsQueues ==
  ASSUME QueueInv, NEW c \in Clients, QueryReturns(c)
  PROVE  WorkInv' /\ QueuesKept
<1>1. on[c] \in Sessions /\ batch[on[c]] > 0 /\ Head(queue[on[c]]) = c
  BY DEF QueryReturns, QueueInv, IInv, CallersRun, Runs
<1>2. Reply(c) /\ EndTurn(on[c], Popped(on[c]), <<>>) /\ UNCHANGED <<phase, wait>>
  BY DEF QueryReturns, Run
<1> QED
  BY <1>1, <1>2, RepliedQueues

(* The strand of the pool without its head.                                *)
LEMMA PoolPopped ==
  ASSUME QueueInv, batch["pool"] > 0
  PROVE  /\ queue["pool"] # <<>>
         /\ Popped("pool") = [queue EXCEPT !["pool"] = Tail(queue["pool"])]
         /\ Tail(queue["pool"]) \in Seq(Handlers)
         /\ \A c \in Clients : Contains(queue["pool"], c) /\ c # Head(queue["pool"])
                                 => Contains(Tail(queue["pool"]), c)
         /\ ~ Contains(Tail(queue["pool"]), "start") /\ ~ Contains(Tail(queue["pool"]), "wait")
         /\ Cardinality(Starts(Tail(queue["pool"])))
              = Cardinality(NotStarted)
                  - IF Head(queue["pool"]) \in {"spawned", "connect"} THEN 1 ELSE 0
         /\ IsFiniteSet(NotStarted) /\ Cardinality(NotStarted) \in Nat
<1>1. /\ queue["pool"] \in Seq(Handlers)
      /\ queue["pool"] # <<>>
      /\ Popped("pool") = [queue EXCEPT !["pool"] = Tail(queue["pool"])]
  BY PopKeeps, StrandTypes DEF QueueInv
<1>2. /\ Tail(queue["pool"]) \in Seq(Handlers)
      /\ \A x : Contains(Tail(queue["pool"]), x) => Contains(queue["pool"], x)
      /\ \A x : Contains(queue["pool"], x) /\ x # Head(queue["pool"])
                  => Contains(Tail(queue["pool"]), x)
  BY <1>1, TailContains
<1>3. /\ ~ Contains(queue["pool"], "start") /\ ~ Contains(queue["pool"], "wait")
      /\ Cardinality(Starts(queue["pool"])) = Cardinality(NotStarted)
  BY DEF QueueInv, PoolStrand
<1>4. IsFiniteSet(NotStarted) /\ Cardinality(NotStarted) \in Nat
  <2>1. NotStarted \in SUBSET Sessions
    BY DEF NotStarted
  <2> QED
    BY <2>1, NamesAssumption, FS_Subset, FS_CardinalityType
<1> QED
  BY <1>1, <1>2, <1>3, <1>4, StartsOfTail

(* Of the operations there are as many as before a turn of the pool, and   *)
(* the strand it has woken.                                                *)
LEMMA PoolTurnWork ==
  ASSUME QueueInv, batch["pool"] > 0, NEW s \in Strands,
         NEW q \in [Strands -> Seq(Handlers)], NEW woken,
         woken = IF s = "pool" THEN <<>> ELSE Woken(s),
         s # "pool" => q[s] # <<>>,
         \A x \in Strands \ {"pool", s} : q[x] = queue[x],
         EndTurn("pool", q, woken),
         \A c \in Clients : /\ pc'[c] = "read" <=> pc[c] = "read"
                            /\ pc[c] = "arrived" => pc'[c] = "arrived"
  PROVE  WorkInv'
<1>1. /\ IsInjective(work')
      /\ \A x \in Strands : Contains(work', x) <=> queue'[x] # <<>> /\ batch'[x] = 0
      /\ \A x : x \notin Strands => (Contains(work', x) <=> Contains(work, x))
  BY EndTurnWork, PoolIsStrand DEF QueueInv
<1>2. \A x \in Clients \cup {"reactor", "accept"} : x \notin Strands
  BY NamesAssumption DEF Strands
<1> QED
  BY <1>1, <1>2 DEF QueueInv, WorkInv, Arrived

LEMMA PoolPostQueues ==
  ASSUME QueueInv, PoolPost
  PROVE  WorkInv' /\ QueuesKept
<1>1. /\ batch["pool"] > 0
      /\ Head(queue["pool"]) = "spawned"
      /\ UNCHANGED <<pc, on, phase, wait>>
  BY DEF PoolPost, Turn, lifeVars, clientVars
<1> DEFINE rest == Tail(queue["pool"])
           q == [queue EXCEPT !["pool"] = Append(rest, "connect")]
<1>2. /\ rest \in Seq(Handlers)
      /\ \A c \in Clients : Contains(queue["pool"], c) /\ c # Head(queue["pool"])
                              => Contains(rest, c)
      /\ ~ Contains(rest, "start") /\ ~ Contains(rest, "wait")
      /\ Cardinality(Starts(rest)) = Cardinality(NotStarted) - 1
      /\ Cardinality(NotStarted) \in Nat
  BY <1>1, PoolPopped
<1>3. queue \in [Strands -> Seq(Handlers)] /\ "pool" \in Strands /\ "pool" \notin Sessions
  BY StrandTypes DEF QueueInv
<1>4. "connect" \in Handlers
  BY DEF Handlers
<1> HIDE DEF rest
<1>5. /\ Append(rest, "connect") \in Seq(Handlers)
      /\ \A x : Contains(Append(rest, "connect"), x) <=> Contains(rest, x) \/ x = "connect"
      /\ Cardinality(Starts(Append(rest, "connect"))) = Cardinality(Starts(rest)) + 1
  BY <1>2, <1>4, AppendContains, StartsOfAppend
<1>6. /\ q \in [Strands -> Seq(Handlers)]
      /\ q["pool"] = Append(rest, "connect")
      /\ \A x \in Strands \ {"pool"} : q[x] = queue[x]
  BY <1>3, <1>5
<1>7. EndTurn("pool", q, <<>>)
  BY DEF PoolPost, rest
<1> HIDE DEF q
<1>8. queue' = q
  BY <1>7 DEF EndTurn
<1>9. WorkInv'
  BY <1>1, <1>3, <1>6, <1>7, PoolTurnWork
<1>10. \A c \in Clients : c # "spawned"
  BY NamesAssumption
<1>11. QueriesPosted'
  <2>1. \A c \in Clients : Contains(queue["pool"], c) => Contains(queue'["pool"], c)
    <3>1. \A c \in Clients : Contains(queue["pool"], c) => Contains(rest, c)
      BY <1>1, <1>2, <1>10
    <3> QED
      BY <1>5, <1>6, <1>8, <3>1
  <2>2. \A s \in Sessions : queue'[s] = queue[s]
    BY <1>3, <1>6, <1>8, PoolIsStrand
  <2> QED
    BY <1>1, <2>1, <2>2 DEF QueueInv, QueriesPosted
<1>12. SessionStrands'
  <2>1. \A s \in Sessions : queue'[s] = queue[s]
    BY <1>3, <1>6, <1>8, PoolIsStrand
  <2> QED
    BY <1>1, <2>1 DEF QueueInv, SessionStrands, SessionStrand
<1>13. PoolStrand'
  <2>1. NotStarted' = NotStarted
    BY <1>1 DEF NotStarted
  <2>2. ~ Contains(queue'["pool"], "start") /\ ~ Contains(queue'["pool"], "wait")
    BY <1>2, <1>5, <1>6, <1>8
  <2>3. Cardinality(Starts(queue'["pool"])) = Cardinality(NotStarted)
    <3>1. Cardinality(Starts(queue'["pool"])) = Cardinality(Starts(rest)) + 1
      BY <1>5, <1>6, <1>8
    <3>2. Cardinality(Starts(rest)) = Cardinality(NotStarted) - 1
      BY <1>2
    <3> QED
      BY <1>2, <3>1, <3>2
  <2> QED
    BY <2>1, <2>2, <2>3 DEF PoolStrand
<1> QED
  BY <1>9, <1>11, <1>12, <1>13 DEF QueuesKept

(* A handler of the pool's strand ends and posts h to the strand of s.     *)
LEMMA PoolHandsOver ==
  ASSUME QueueInv, batch["pool"] > 0, NEW s \in Sessions, NEW h \in Clients \cup {"start"},
         EndTurn("pool", [Popped("pool") EXCEPT ![s] = Append(@, h)], Woken(s)),
         ~ Contains(queue[s], h),
         \A c \in Clients : /\ pc'[c] = "read" <=> pc[c] = "read"
                            /\ pc[c] = "arrived" => pc'[c] = "arrived"
  PROVE  /\ WorkInv'
         /\ queue'["pool"] = Tail(queue["pool"])
         /\ \A x \in Sessions \ {s} : queue'[x] = queue[x]
         /\ IsInjective(queue'[s])
         /\ \A x : Contains(queue'[s], x) <=> Contains(queue[s], x) \/ x = h
<1> DEFINE q == [Popped("pool") EXCEPT ![s] = Append(Popped("pool")[s], h)]
<1>1. /\ queue \in [Strands -> Seq(Handlers)]
      /\ "pool" \in Strands /\ s \in Strands /\ s # "pool" /\ Sessions \subseteq Strands
      /\ "pool" \notin Sessions
      /\ h \in Handlers
  BY StrandTypes DEF QueueInv, Handlers
<1>2. /\ Popped("pool") = [queue EXCEPT !["pool"] = Tail(queue["pool"])]
      /\ Tail(queue["pool"]) \in Seq(Handlers)
  BY PoolPopped
<1>3. Popped("pool")[s] = queue[s]
  BY <1>1, <1>2
<1>4. IsInjective(queue[s])
  BY DEF QueueInv, SessionStrands, SessionStrand
<1>5. /\ Append(queue[s], h) \in Seq(Handlers)
      /\ Append(queue[s], h) # <<>>
      /\ \A x : Contains(Append(queue[s], h), x) <=> Contains(queue[s], x) \/ x = h
      /\ IsInjective(Append(queue[s], h))
  BY <1>1, <1>4, AppendContains
<1>6. /\ q \in [Strands -> Seq(Handlers)]
      /\ q["pool"] = Tail(queue["pool"])
      /\ q[s] = Append(queue[s], h)
      /\ \A x \in Strands \ {"pool", s} : q[x] = queue[x]
  BY <1>1, <1>2, <1>3, <1>5
<1>7. EndTurn("pool", q, Woken(s))
  OBVIOUS
<1> HIDE DEF q
<1>8. queue' = q
  BY <1>7 DEF EndTurn
<1>9. WorkInv'
  BY <1>1, <1>5, <1>6, <1>7, PoolTurnWork
<1> QED
  BY <1>1, <1>5, <1>6, <1>8, <1>9

LEMMA PoolStartQueues ==
  ASSUME QueueInv, PoolStart
  PROVE  WorkInv' /\ QueuesKept
<1>1. /\ batch["pool"] > 0
      /\ Head(queue["pool"]) = "connect"
      /\ UNCHANGED <<pc, on, wait>>
  BY DEF PoolStart, Turn, clientVars
<1>2. PICK s \in Sessions :
        /\ phase[s] = "none"
        /\ Start(s)
        /\ EndTurn("pool", [Popped("pool") EXCEPT ![s] = Append(@, "start")], Woken(s))
  BY DEF PoolStart
<1>3. \A x \in Sessions : SessionStrand(x)
  BY DEF QueueInv, SessionStrands
<1>4. ~ Contains(queue[s], "start") /\ wait[s] = "idle"
  BY <1>2, <1>3 DEF SessionStrand
<1>5. /\ WorkInv'
      /\ queue'["pool"] = Tail(queue["pool"])
      /\ \A x \in Sessions \ {s} : queue'[x] = queue[x]
      /\ IsInjective(queue'[s])
      /\ \A x : Contains(queue'[s], x) <=> Contains(queue[s], x) \/ x = "start"
  BY <1>1, <1>2, <1>4, PoolHandsOver
<1>6. phase' = [phase EXCEPT ![s] = "started"] /\ phase \in [Sessions -> Phases]
  BY <1>2, StrandTypes DEF Start, QueueInv
<1>7. SessionStrands'
  <2> SUFFICES ASSUME NEW x \in Sessions PROVE SessionStrand(x)'
    BY DEF SessionStrands
  <2>1. CASE x = s
    <3>1. phase'[s] = "started" /\ wait'[s] = "idle"
      BY <1>1, <1>4, <1>6
    <3> QED
      BY <2>1, <3>1, <1>2, <1>3, <1>4, <1>5 DEF SessionStrand
  <2>2. CASE x # s
    <3>1. phase'[x] = phase[x] /\ wait'[x] = wait[x]
      BY <2>2, <1>1, <1>6
    <3> QED
      BY <2>2, <3>1, <1>3, <1>5 DEF SessionStrand
  <2> QED
    BY <2>1, <2>2
<1>8. /\ \A c \in Clients : Contains(queue["pool"], c) /\ c # "connect"
                              => Contains(queue'["pool"], c)
      /\ ~ Contains(queue'["pool"], "start") /\ ~ Contains(queue'["pool"], "wait")
      /\ Cardinality(Starts(queue'["pool"])) = Cardinality(NotStarted) - 1
      /\ IsFiniteSet(NotStarted) /\ Cardinality(NotStarted) \in Nat
  BY <1>1, <1>5, PoolPopped
<1>9. QueriesPosted'
  <2>1. \A c \in Clients : c # "connect"
    BY NamesAssumption
  <2>2. \A c \in Clients, x \in Sessions : Contains(queue[x], c) => Contains(queue'[x], c)
    BY <1>5
  <2> QED
    BY <1>1, <1>8, <2>1, <2>2 DEF QueueInv, QueriesPosted
<1>10. PoolStrand'
  <2>1. NotStarted' = NotStarted \ {s} /\ s \in NotStarted
    BY <1>2, <1>6 DEF NotStarted
  <2>2. Cardinality(NotStarted') = Cardinality(NotStarted) - 1
    BY <1>8, <2>1, FS_RemoveElement
  <2> QED
    BY <1>8, <2>2 DEF PoolStrand
<1> QED
  BY <1>5, <1>7, <1>9, <1>10 DEF QueuesKept

LEMMA PoolQueryQueues ==
  ASSUME QueueInv, NEW c \in Clients, Turn("pool", c), UNCHANGED lifeVars,
         UNCHANGED wait, NoResult(c) \/ PoolLock(c)
  PROVE  WorkInv' /\ QueuesKept
<1>1. /\ batch["pool"] > 0
      /\ Head(queue["pool"]) = c
      /\ UNCHANGED <<phase, wait>>
  BY DEF Turn, lifeVars
<1>2. /\ pc \in [Clients -> {"away", "arrived", "reading", "read", "pool", "session"}]
      /\ on \in [Clients -> Sessions \cup {NotPosted}]
      /\ queue \in [Strands -> Seq(Handlers)]
      /\ "pool" \in Strands /\ "pool" \notin Sessions /\ Sessions \subseteq Strands
  BY StrandTypes DEF QueueInv
<1>3. pc[c] = "pool" /\ c \notin {"spawned", "connect", "start", "wait"}
  BY <1>1, <1>2, PopKeeps, NamesAssumption DEF QueueInv, Belongs
<1>4. \A x \in Sessions : SessionStrand(x)
  BY DEF QueueInv, SessionStrands
<1>5. /\ Popped("pool") = [queue EXCEPT !["pool"] = Tail(queue["pool"])]
      /\ Tail(queue["pool"]) \in Seq(Handlers)
      /\ \A d \in Clients : Contains(queue["pool"], d) /\ d # c
                              => Contains(Tail(queue["pool"]), d)
      /\ ~ Contains(Tail(queue["pool"]), "start") /\ ~ Contains(Tail(queue["pool"]), "wait")
      /\ Cardinality(Starts(Tail(queue["pool"]))) = Cardinality(NotStarted)
  <2>1. Cardinality(NotStarted) \in Nat
    BY <1>1, PoolPopped
  <2> QED
    BY <1>1, <1>3, <2>1, PoolPopped
<1>6. NotStarted' = NotStarted
  BY <1>1 DEF NotStarted
<1>7. ASSUME queue'["pool"] = Tail(queue["pool"]) PROVE PoolStrand'
  BY <1>5, <1>6, <1>7 DEF PoolStrand
<1>8. CASE NoResult(c)
  <2>1. /\ pc' = [pc EXCEPT ![c] = "reading"]
        /\ on' = [on EXCEPT ![c] = NotPosted]
    BY <1>8 DEF NoResult, Reply
  <2>2. \A d \in Clients : /\ pc'[d] = "read" <=> pc[d] = "read"
                           /\ pc[d] = "arrived" => pc'[d] = "arrived"
                           /\ pc'[d] \in {"pool", "session"} =>
                                pc'[d] = pc[d] /\ on'[d] = on[d] /\ d # c
    BY <1>2, <1>3, <2>1
  <2>3. /\ Popped("pool") \in [Strands -> Seq(Handlers)]
        /\ \A x \in Strands \ {"pool"} : Popped("pool")[x] = queue[x]
        /\ Popped("pool")["pool"] = Tail(queue["pool"])
    BY <1>2, <1>5
  <2>4. queue' = Popped("pool") /\ EndTurn("pool", Popped("pool"), <<>>)
    BY <1>8 DEF NoResult, EndTurn
  <2>5. WorkInv'
    BY <1>1, <1>2, <2>2, <2>3, <2>4, PoolTurnWork
  <2>6. \A x \in Sessions : queue'[x] = queue[x]
    BY <1>2, <2>3, <2>4
  <2>7. QueriesPosted'
    BY <1>5, <2>2, <2>3, <2>4, <2>6 DEF QueueInv, QueriesPosted
  <2>8. SessionStrands'
    BY <1>1, <1>4, <2>6 DEF SessionStrands, SessionStrand
  <2> QED
    BY <1>7, <2>3, <2>4, <2>5, <2>7, <2>8 DEF QueuesKept
<1>9. CASE PoolLock(c)
  <2> DEFINE s == weak
  <2>1. s \in Sessions
    BY <1>9 DEF PoolLock, Live
  <2>8. /\ pc' = [pc EXCEPT ![c] = "session"]
        /\ on' = [on EXCEPT ![c] = s]
        /\ EndTurn("pool", [Popped("pool") EXCEPT ![s] = Append(@, c)], Woken(s))
    BY <1>9 DEF PoolLock
  <2> HIDE DEF s
  <2>2. ~ Contains(queue[s], c)
    <3>1. \A i \in 1 .. Len(queue[s]) : queue[s][i] = c => Belongs(c, s, pc, on)
      BY <1>2, <2>1 DEF QueueInv, IInv, Placed, PlacedIn
    <3>2. ~ Belongs(c, s, pc, on)
      BY <1>2, <1>3, <2>1 DEF Belongs
    <3> QED
      BY <3>1, <3>2 DEF Contains
  <2>3. \A d \in Clients : /\ pc'[d] = "read" <=> pc[d] = "read"
                           /\ pc[d] = "arrived" => pc'[d] = "arrived"
                           /\ d # c => pc'[d] = pc[d] /\ on'[d] = on[d]
    BY <1>2, <1>3, <2>8
  <2>4. pc'[c] = "session" /\ on'[c] = s
    BY <1>2, <2>1, <2>8
  <2>5. /\ WorkInv'
        /\ queue'["pool"] = Tail(queue["pool"])
        /\ \A x \in Sessions \ {s} : queue'[x] = queue[x]
        /\ IsInjective(queue'[s])
        /\ \A x : Contains(queue'[s], x) <=> Contains(queue[s], x) \/ x = c
    BY <1>1, <2>1, <2>2, <2>3, <2>8, PoolHandsOver
  <2>6. QueriesPosted'
    <3> SUFFICES ASSUME NEW d \in Clients
                 PROVE  /\ pc'[d] = "pool" => Contains(queue'["pool"], d)
                        /\ pc'[d] = "session" => on'[d] \in Sessions /\ Contains(queue'[on'[d]], d)
      BY DEF QueriesPosted
    <3>1. CASE d = c
      BY <2>1, <2>4, <2>5, <3>1
    <3>2. CASE d # c
      <4>1. pc'[d] = pc[d] /\ on'[d] = on[d]
        BY <2>3, <3>2
      <4>2. /\ pc[d] = "pool" => Contains(queue["pool"], d)
            /\ pc[d] = "session" => on[d] \in Sessions /\ Contains(queue[on[d]], d)
        BY DEF QueueInv, QueriesPosted
      <4>3. \A x \in Sessions : Contains(queue[x], d) => Contains(queue'[x], d)
        BY <2>5
      <4> QED
        BY <1>5, <2>5, <3>2, <4>1, <4>2, <4>3
    <3> QED
      BY <3>1, <3>2
  <2>7. SessionStrands'
    <3> SUFFICES ASSUME NEW x \in Sessions PROVE SessionStrand(x)'
      BY DEF SessionStrands
    <3>1. CASE x = s
      BY <1>1, <1>3, <1>4, <2>5, <3>1 DEF SessionStrand
    <3>2. CASE x # s
      BY <1>1, <1>4, <2>5, <3>2 DEF SessionStrand
    <3> QED
      BY <3>1, <3>2
  <2> QED
    BY <1>7, <2>5, <2>6, <2>7 DEF QueuesKept
<1> QED
  BY <1>8, <1>9

LEMMA PoolQueryStepQueues ==
  ASSUME QueueInv, NEW c \in Clients,
         PoolSelect(c) \/ PoolCheck(c) \/ PoolLock(c) \/ PoolCrash(c)
  PROVE  WorkInv' /\ QueuesKept
<1>1. UNCHANGED lifeVars /\ UNCHANGED wait
  BY DEF PoolSelect, PoolCheck, PoolLock, PoolCrash
<1>2. CASE Turn("pool", c) /\ (NoResult(c) \/ PoolLock(c))
  BY <1>1, <1>2, PoolQueryQueues
<1>3. CASE UNCHANGED <<work, queue, batch, pc, on>>
  BY <1>1, <1>3, QuietQueues, QuietWork DEF lifeVars
<1> QED
  BY <1>2, <1>3
     DEF PoolSelect, PoolCheck, PoolLock, PoolCrash, Choosing, strandVars, clientVars

LEMMA HandleQueues ==
  ASSUME QueueInv, NEW c \in Clients, Handle(c)
  PROVE  WorkInv' /\ QueuesKept
<1>1. Taken(c) /\ pc[c] = "read" /\ UNCHANGED <<batch, phase, wait>>
  BY DEF Handle, lifeVars
<1>2. /\ pc \in [Clients -> {"away", "arrived", "reading", "read", "pool", "session"}]
      /\ on \in [Clients -> Sessions \cup {NotPosted}]
      /\ queue \in [Strands -> Seq(Handlers)]
      /\ "pool" \in Strands /\ "pool" \notin Sessions /\ Sessions \subseteq Strands
  BY StrandTypes DEF QueueInv
<1>3. c \notin Strands \cup {"reactor", "accept", "start", "wait"}
  BY NamesAssumption DEF Strands
<1>4. CASE ~ NeedsDatabase(c)
  <2>1. /\ work' = Tail(work)
        /\ queue' = queue
        /\ pc' = [pc EXCEPT ![c] = "reading"]
        /\ on' = [on EXCEPT ![c] = NotPosted]
    BY <1>4 DEF Handle, Reply
  <2>2. \A d \in Clients : /\ pc'[d] = "read" <=> pc[d] = "read" /\ d # c
                           /\ pc[d] = "arrived" => pc'[d] = "arrived"
                           /\ pc'[d] \in {"pool", "session"} =>
                                pc'[d] = pc[d] /\ on'[d] = on[d]
    BY <1>1, <1>2, <2>1
  <2>3. /\ IsInjective(work')
        /\ \A x : Contains(work', x) <=> Contains(work, x) /\ x # c
    BY <1>1, <2>1, TakenOne
  <2>4. WorkInv'
    BY <1>1, <1>3, <2>1, <2>2, <2>3 DEF QueueInv, WorkInv, Arrived
  <2> QED
    BY <1>1, <2>1, <2>2, <2>4, QuietQueues
<1>5. CASE NeedsDatabase(c)
  <2>1. /\ work' = Tail(work) \o Woken("pool")
        /\ queue' = [queue EXCEPT !["pool"] = Append(queue["pool"], c)]
        /\ pc' = [pc EXCEPT ![c] = "pool"]
        /\ on' = on
    BY <1>5 DEF Handle
  <2>2. \A d \in Clients : /\ pc'[d] = "read" <=> pc[d] = "read" /\ d # c
                           /\ pc[d] = "arrived" => pc'[d] = "arrived"
                           /\ d # c => pc'[d] = pc[d]
    BY <1>1, <1>2, <2>1
  <2>3. /\ Append(queue["pool"], c) \in Seq(Handlers)
        /\ Append(queue["pool"], c) # <<>>
        /\ \A x : Contains(Append(queue["pool"], c), x) <=> Contains(queue["pool"], x) \/ x = c
        /\ Cardinality(Starts(Append(queue["pool"], c))) = Cardinality(Starts(queue["pool"]))
    <3>1. c \in Handlers /\ c \notin {"spawned", "connect"}
      BY NamesAssumption DEF Handlers
    <3>2. Cardinality(Starts(queue["pool"])) \in Nat
      BY <1>2, StartsFinite
    <3> QED
      BY <1>2, <3>1, <3>2, AppendContains, StartsOfAppend
  <2>4. /\ queue'["pool"] = Append(queue["pool"], c)
        /\ \A x \in Sessions : queue'[x] = queue[x]
    BY <1>2, <2>1
  <2>5. /\ Woken("pool") \in Seq(Jobs)
        /\ IsInjective(Woken("pool"))
        /\ \A x : Contains(Woken("pool"), x) <=> x = "pool" /\ queue["pool"] = <<>>
    <3>1. <<"pool">> \in Seq(Jobs) /\ <<>> \in Seq(Jobs)
      BY <1>2 DEF Jobs
    <3>2. CASE queue["pool"] = <<>>
      BY <3>1, <3>2, SingleContains DEF Woken
    <3>3. CASE queue["pool"] # <<>>
      BY <3>1, <3>3, SingleContains DEF Woken
    <3> QED
      BY <3>2, <3>3
  <2>6. \A st \in Strands : Contains(work, st) <=> queue[st] # <<>> /\ batch[st] = 0
    BY DEF QueueInv, WorkInv
  <2>7. /\ IsInjective(work')
        /\ \A x : Contains(work', x) <=> (Contains(work, x) /\ x # c) \/ Contains(Woken("pool"), x)
    BY <1>1, <1>2, <2>1, <2>5, <2>6, TakenWork DEF QueueInv
  <2>8. queue["pool"] = <<>> => batch["pool"] = 0
    BY <1>2, RunHasHandler, StrandTypes DEF QueueInv, IInv
  <2>9. ASSUME NEW x \in Strands
        PROVE  Contains(work', x) <=> queue'[x] # <<>> /\ batch'[x] = 0
    <3>1. CASE x = "pool"
      BY <1>1, <1>2, <1>3, <2>3, <2>4, <2>5, <2>6, <2>7, <2>8, <3>1
    <3>2. CASE x \in Sessions
      BY <1>1, <1>2, <1>3, <2>4, <2>5, <2>6, <2>7, <3>2
    <3> QED
      BY <3>1, <3>2 DEF Strands
  <2>10. WorkInv'
    <3>1. \A x \in Clients \cup {"reactor", "accept"} : x # "pool"
      BY NamesAssumption
    <3> QED
      BY <1>3, <2>2, <2>5, <2>7, <2>9, <3>1 DEF QueueInv, WorkInv, Arrived
  <2>11. QueriesPosted'
    BY <1>2, <2>1, <2>2, <2>3, <2>4 DEF QueueInv, QueriesPosted
  <2>12. SessionStrands'
    BY <1>1, <2>4 DEF QueueInv, SessionStrands, SessionStrand
  <2>13. PoolStrand'
    <3>1. NotStarted' = NotStarted
      BY <1>1 DEF NotStarted
    <3> QED
      BY <1>3, <2>3, <2>4, <3>1 DEF QueueInv, PoolStrand
  <2> QED
    BY <2>10, <2>11, <2>12, <2>13 DEF QueuesKept
<1> QED
  BY <1>4, <1>5

(* Two ways to say that an element is in a sequence.                       *)
LEMMA RangeContains ==
  ASSUME NEW S, NEW q \in Seq(S), NEW x
  PROVE  Contains(q, x) <=> x \in Range(q)
BY DEF Contains, Range

LEMMA ReactorQueues ==
  ASSUME QueueInv, Reactor
  PROVE  WorkInv' /\ QueuesKept
<1>1. PICK seen \in SUBSET {s \in Sessions : Readable(s)} :
        /\ \E order \in SetToSeqs(Asked \cup {s \in seen : queue[s] = <<>>}
               \cup IF Arrived # {} /\ "accept" \notin Range(work) THEN {"accept"} ELSE {}) :
             work' = Tail(work) \o order \o <<"reactor">>
        /\ queue' = [st \in Strands |->
                       IF st \in seen THEN Append(queue[st], "wait") ELSE queue[st]]
        /\ wait' = [s \in Sessions |-> IF s \in seen THEN "ready" ELSE wait[s]]
  BY DEF Reactor
<1> DEFINE ready == Asked \cup {s \in seen : queue[s] = <<>>}
                 \cup IF Arrived # {} /\ "accept" \notin Range(work) THEN {"accept"} ELSE {}
<1>2. PICK order \in SetToSeqs(ready) : work' = Tail(work) \o order \o <<"reactor">>
  BY <1>1
<1>3. /\ UNCHANGED <<batch, phase, on>>
      /\ Taken("reactor")
      /\ \A c \in Clients : pc'[c] = IF c \in Asked THEN "read" ELSE pc[c]
      /\ Arrived' = Arrived
  BY DEF Reactor, lifeVars, Arrived, Asked
<1>4. /\ queue \in [Strands -> Seq(Handlers)]
      /\ work \in Seq(Jobs)
      /\ "pool" \in Strands /\ "pool" \notin Sessions /\ Sessions \subseteq Strands
      /\ wait \in [Sessions -> {"idle", "armed", "ready"}]
  BY StrandTypes DEF QueueInv
<1>5. seen \subseteq Sessions /\ \A s \in seen : wait[s] = "armed"
  BY <1>1 DEF Readable
<1>6. \A x : x \in ready => x \in Asked \/ (x \in seen /\ queue[x] = <<>>)
                              \/ (x = "accept" /\ Arrived # {} /\ "accept" \notin Range(work))
  OBVIOUS
<1>7. /\ \A c \in Asked : c \in ready
      /\ \A s \in seen : queue[s] = <<>> => s \in ready
  OBVIOUS
<1>8. IsFiniteSet(ready) /\ ready \subseteq Jobs
  <2>1. IsFiniteSet(Clients \cup Sessions \cup {"accept"})
    BY NamesAssumption, FS_Union, FS_Singleton
  <2>2. ready \subseteq Clients \cup Sessions \cup {"accept"}
    BY <1>5 DEF Asked
  <2> HIDE DEF ready
  <2> QED
    BY <1>4, <2>1, <2>2, FS_Subset DEF Jobs
<1> HIDE DEF ready
<1>9. /\ order \in Seq(ready)
      /\ \A x : Contains(order, x) <=> x \in ready
      /\ IsInjective(order)
  BY <1>2, <1>8, OrderContains
<1>10. order \in Seq(Jobs)
  BY <1>8, <1>9
<1>11. \A x \in Clients \cup Strands \cup {"accept"} : x # "reactor"
  BY NamesAssumption DEF Strands
<1>12. \A x \in ready : ~ Contains(work, x) /\ x # "reactor"
  <2>1. \A c \in Asked : ~ Contains(work, c) /\ c \in Clients
    BY DEF QueueInv, WorkInv, Asked
  <2>2. \A s \in seen : queue[s] = <<>> => ~ Contains(work, s)
    BY <1>4, <1>5 DEF QueueInv, WorkInv
  <2>3. "accept" \notin Range(work) => ~ Contains(work, "accept")
    BY <1>4, RangeContains
  <2> QED
    BY <1>4, <1>5, <1>6, <1>11, <2>1, <2>2, <2>3
<1>13. /\ Tail(work) \o order \in Seq(Jobs)
       /\ IsInjective(Tail(work) \o order)
       /\ \A x : Contains(Tail(work) \o order, x)
                   <=> (Contains(work, x) /\ x # "reactor") \/ x \in ready
  BY <1>3, <1>9, <1>10, <1>12, TakenWork DEF QueueInv
<1>14. /\ <<"reactor">> \in Seq(Jobs)
       /\ IsInjective(<<"reactor">>)
       /\ \A x : Contains(<<"reactor">>, x) <=> x = "reactor"
  BY SingleContains DEF Jobs
<1>15. /\ IsInjective(work')
       /\ \A x : Contains(work', x)
                   <=> (Contains(work, x) /\ x # "reactor") \/ x \in ready \/ x = "reactor"
  <2> DEFINE front == Tail(work) \o order
             back == <<"reactor">>
  <2> HIDE DEF front, back
  <2>1. /\ front \in Seq(Jobs) /\ IsInjective(front)
        /\ back \in Seq(Jobs) /\ IsInjective(back)
        /\ \A x : Contains(front, x) <=> (Contains(work, x) /\ x # "reactor") \/ x \in ready
        /\ \A x : Contains(back, x) <=> x = "reactor"
    BY <1>13, <1>14 DEF front, back
  <2>2. "reactor" \notin ready
    BY <1>12
  <2>3. \A x : ~ (Contains(front, x) /\ Contains(back, x))
    BY <2>1, <2>2
  <2>4. work' = front \o back
    BY <1>2 DEF front, back
  <2>5. /\ IsInjective(front \o back)
        /\ \A x : Contains(front \o back, x) <=> Contains(front, x) \/ Contains(back, x)
    BY <2>1, <2>3, ConcatContains
  <2> QED
    BY <2>1, <2>4, <2>5
<1>16. ASSUME NEW x \in Strands
       PROVE  /\ x \in seen => queue'[x] = Append(queue[x], "wait")
              /\ x \notin seen => queue'[x] = queue[x]
              /\ Append(queue[x], "wait") # <<>>
              /\ \A y : Contains(Append(queue[x], "wait"), y) <=> Contains(queue[x], y) \/ y = "wait"
              /\ IsInjective(queue[x]) /\ ~ Contains(queue[x], "wait")
                   => IsInjective(Append(queue[x], "wait"))
  <2>1. "wait" \in Handlers
    BY DEF Handlers
  <2>2. /\ x \in seen => queue'[x] = Append(queue[x], "wait")
        /\ x \notin seen => queue'[x] = queue[x]
    BY <1>1
  <2>3. queue[x] \in Seq(Handlers)
    BY <1>4
  <2> QED
    BY <2>1, <2>2, <2>3, AppendContains
<1>17. ASSUME NEW x \in Strands
       PROVE  Contains(work', x) <=> queue'[x] # <<>> /\ batch'[x] = 0
  <2>1. x \in ready <=> x \in seen /\ queue[x] = <<>>
    <3>1. x \notin Clients /\ x # "accept"
      BY NamesAssumption DEF Strands
    <3> QED
      BY <1>6, <1>7, <3>1 DEF Asked
  <2>2. Contains(work, x) <=> queue[x] # <<>> /\ batch[x] = 0
    BY DEF QueueInv, WorkInv
  <2>3. queue[x] = <<>> => batch[x] = 0
    BY <1>4, RunHasHandler, StrandTypes DEF QueueInv, IInv
  <2> QED
    BY <1>3, <1>11, <1>15, <1>16, <2>1, <2>2, <2>3
<1>18. ASSUME NEW c \in Clients
       PROVE  Contains(work', c) <=> pc'[c] = "read"
  <2>1. c \in ready <=> c \in Asked
    <3>1. c \notin Sessions /\ c # "accept"
      BY NamesAssumption
    <3> QED
      BY <1>5, <1>6, <1>7, <3>1
  <2>2. Contains(work, c) <=> pc[c] = "read"
    BY DEF QueueInv, WorkInv
  <2> QED
    BY <1>3, <1>11, <1>15, <2>1, <2>2
<1>19. Contains(work', "accept") => Arrived' # {}
  <2>1. "accept" \in ready => Arrived # {}
    <3>1. "accept" \notin Clients /\ "accept" \notin Sessions
      BY NamesAssumption
    <3> QED
      BY <1>5, <1>6, <3>1 DEF Asked
  <2>2. Contains(work, "accept") => Arrived # {}
    BY DEF QueueInv, WorkInv
  <2> QED
    BY <1>3, <1>15, <2>1, <2>2
<1>20. WorkInv'
  BY <1>15, <1>17, <1>18, <1>19 DEF WorkInv
<1>21. QueriesPosted'
  <2>1. \A c \in Clients : pc'[c] \in {"pool", "session"} => pc'[c] = pc[c] /\ on'[c] = on[c]
    BY <1>3
  <2>2. \A x \in Strands : \A y : Contains(queue[x], y) => Contains(queue'[x], y)
    BY <1>16
  <2> QED
    BY <1>4, <2>1, <2>2 DEF QueueInv, QueriesPosted
<1>22. SessionStrands'
  <2> SUFFICES ASSUME NEW x \in Sessions PROVE SessionStrand(x)'
    BY DEF SessionStrands
  <2>1. SessionStrand(x)
    BY DEF QueueInv, SessionStrands
  <2>2. CASE x \in seen
    <3>1. wait[x] = "armed" /\ wait'[x] = "ready" /\ phase'[x] = phase[x]
      BY <1>1, <1>3, <1>5, <2>2
    <3> QED
      BY <1>4, <1>16, <2>1, <2>2, <3>1 DEF SessionStrand
  <2>3. CASE x \notin seen
    <3>1. wait'[x] = wait[x] /\ phase'[x] = phase[x]
      BY <1>1, <1>3, <2>3
    <3> QED
      BY <1>4, <1>16, <2>1, <2>3, <3>1 DEF SessionStrand
  <2> QED
    BY <2>2, <2>3
<1>23. PoolStrand'
  <2>1. queue'["pool"] = queue["pool"]
    BY <1>4, <1>5, <1>16
  <2>2. NotStarted' = NotStarted
    BY <1>3 DEF NotStarted
  <2> QED
    BY <2>1, <2>2 DEF QueueInv, PoolStrand
<1> QED
  BY <1>20, <1>21, <1>22, <1>23 DEF QueuesKept

LEMMA NextQueueInv ==
  ASSUME QueueInv, [Next]_vars
  PROVE  QueueInv'
<1> DEFINE Rest == WorkInv' /\ QueuesKept
<1>1. IInv'
  BY NextIInv DEF QueueInv
<1>2. ASSUME Reactor PROVE Rest
  BY <1>2, ReactorQueues
<1>3. ASSUME NEW c \in Clients, Accept(c) PROVE Rest
  BY <1>3, AcceptQueues
<1>4. ASSUME NEW c \in Clients, Handle(c) PROVE Rest
  BY <1>4, HandleQueues
<1>5. ASSUME NEW st \in Strands, TakeStrand(st) PROVE Rest
  BY <1>5, TakeStrandQueues
<1>6. ASSUME PoolPost PROVE Rest
  BY <1>6, PoolPostQueues
<1>7. ASSUME PoolStart PROVE Rest
  BY <1>7, PoolStartQueues
<1>8. ASSUME NEW c \in Clients,
             PoolSelect(c) \/ PoolCheck(c) \/ PoolLock(c) \/ PoolCrash(c)
      PROVE  Rest
  BY <1>8, PoolQueryStepQueues
<1>9. ASSUME NEW s \in Sessions, ConnectBegin(s) PROVE Rest
  BY <1>9, QuietQueues, QuietWork DEF ConnectBegin, strandVars, clientVars, lifeVars
<1>10. ASSUME NEW s \in Sessions, ConnectReturns(s) PROVE Rest
  BY <1>10, ConnectReturnsQueues
<1>11. ASSUME NEW s \in Sessions, Resume(s) PROVE Rest
  BY <1>11, ResumeQueues
<1>12. ASSUME NEW c \in Clients, QueryBegin(c) PROVE Rest
  BY <1>12, QueryBeginQueues
<1>13. ASSUME NEW c \in Clients, QueryReturns(c) PROVE Rest
  BY <1>13, QueryReturnsQueues
<1>14. ASSUME NEW s \in Sessions, ServerEof(s) PROVE Rest
  BY <1>14, QuietQueues, QuietWork DEF ServerEof, strandVars, clientVars, lifeVars
<1>15. ASSUME NEW c \in Clients, Arrive(c) PROVE Rest
  <2>1. /\ UNCHANGED <<work, queue, batch, wait, phase, on>>
        /\ pc[c] = "away"
        /\ pc' = [pc EXCEPT ![c] = "arrived"]
    BY <1>15 DEF Arrive, strandVars, lifeVars
  <2>2. \A d \in Clients : /\ pc'[d] = "read" <=> pc[d] = "read"
                           /\ pc[d] = "arrived" => pc'[d] = "arrived"
                           /\ pc'[d] \in {"pool", "session"} => pc'[d] = pc[d]
    BY <2>1, StrandTypes DEF QueueInv
  <2> QED
    BY <2>1, <2>2, QuietQueues, QuietWork
<1>16. ASSUME NEW c \in Clients, Ask(c) PROVE Rest
  BY <1>16, QuietQueues, QuietWork DEF Ask, strandVars, lifeVars
<1>17. ASSUME UNCHANGED vars \/ Down PROVE Rest
  BY <1>17, QuietQueues, QuietWork DEF Down, vars, strandVars, clientVars, lifeVars
<1>18. Rest
  <2> HIDE DEF Rest
  <2> QED
    BY <1>2, <1>3, <1>4, <1>5, <1>6, <1>7, <1>8, <1>9, <1>10, <1>11, <1>12, <1>13,
       <1>14, <1>15, <1>16, <1>17
       DEF Next, RunFirst, PoolTurn, SessionTurn, CallReturns
<1> QED
  BY <1>1, <1>18 DEF QueueInv, QueuesKept

-----------------------------------------------------------------------------
(* What it implies.                                                        *)
LEMMA QueueInvPosted == QueueInv => PostedOnce
<1> SUFFICES ASSUME QueueInv PROVE PostedOnce
  OBVIOUS
<1>1. /\ queue \in [Strands -> Seq(Handlers)]
      /\ "pool" \in Strands /\ Sessions \subseteq Strands /\ "pool" \notin Sessions
  BY StrandTypes DEF QueueInv
<1>2. \A st \in Strands : \A x : Contains(queue[st], x) <=> x \in Range(queue[st])
  BY <1>1, RangeContains
<1>3. ASSUME NEW c \in Clients, NEW st \in Strands
      PROVE  Contains(queue[st], c) <=> Belongs(c, st, pc, on)
  <2>1. Contains(queue[st], c) => Belongs(c, st, pc, on)
    BY DEF QueueInv, IInv, Placed, PlacedIn, Contains
  <2>2. Belongs(c, st, pc, on) => Contains(queue[st], c)
    BY DEF QueueInv, QueriesPosted, Belongs
  <2> QED
    BY <2>1, <2>2
<1>4. \A i, j \in DOMAIN queue["pool"] :
        queue["pool"][i] \in Clients /\ queue["pool"][i] = queue["pool"][j] => i = j
  <2>1. DOMAIN queue["pool"] = 1 .. Len(queue["pool"])
    BY <1>1
  <2> QED
    BY <1>1, <2>1, Zenon DEF QueueInv, IInv, OnceEach, OnceIn, Once
<1>5. \A s \in Sessions :
        /\ IsInjective(queue[s])
        /\ "start" \in Range(queue[s]) <=> phase[s] = "started"
        /\ "wait" \in Range(queue[s]) <=> wait[s] = "ready"
  BY <1>1, <1>2 DEF QueueInv, SessionStrands, SessionStrand
<1> QED
  BY <1>2, <1>3, <1>4, <1>5 DEF PostedOnce, Belongs

LEMMA QueueInvTurns == QueueInv => TurnsGoOn
<1> SUFFICES ASSUME QueueInv PROVE TurnsGoOn
  OBVIOUS
<1>1. /\ queue \in [Strands -> Seq(Handlers)]
      /\ work \in Seq(Jobs)
      /\ "pool" \in Strands /\ Sessions \subseteq Strands /\ "pool" \notin Sessions
  BY StrandTypes DEF QueueInv
<1>2. \A x : Contains(work, x) <=> x \in Range(work)
  BY <1>1, RangeContains
<1>3. /\ "reactor" \in Range(work)
      /\ "accept" \in Range(work) => Arrived # {}
      /\ \A c \in Clients : c \in Range(work) => pc[c] = "read"
  BY <1>2 DEF QueueInv, WorkInv
<1>4. ASSUME NEW st \in Strands, batch[st] > 0
      PROVE  Contains(queue[st], Head(queue[st])) /\ Head(queue[st]) \in Handlers
  <2>1. queue[st] # <<>> /\ queue[st] \in Seq(Handlers)
    BY <1>1, <1>4, PopKeeps DEF QueueInv
  <2> QED
    BY <1>4, <2>1, HeadIsIn, HeadTailProperties
<1>5. batch["pool"] > 0 => Head(queue["pool"]) \in Clients \cup {"spawned", "connect"}
  BY <1>1, <1>4 DEF QueueInv, PoolStrand, Handlers
<1>6. ASSUME Turn("pool", "connect") PROVE \E s \in Sessions : phase[s] = "none"
  <2>1. batch["pool"] > 0 /\ Head(queue["pool"]) = "connect"
    BY <1>6 DEF Turn
  <2>2. Cardinality(NotStarted) \in Nat /\ Cardinality(Starts(Tail(queue["pool"]))) \in Nat
    BY <2>1, PoolPopped, StartsFinite
  <2>3. Cardinality(NotStarted) # 0
    BY <2>1, <2>2, PoolPopped
  <2>4. NotStarted # {}
    BY <2>3, FS_EmptySet
  <2> QED
    BY <2>4 DEF NotStarted
<1>7. ASSUME NEW s \in Sessions
      PROVE  /\ batch[s] > 0 => Head(queue[s]) \in Clients \cup {"start", "wait"}
             /\ s \in calls => phase[s] = "started"
             /\ Turn(s, "wait") => phase[s] = "waiting"
  <2>1. SessionStrand(s)
    BY DEF QueueInv, SessionStrands
  <2>2. batch[s] > 0 => Head(queue[s]) \in Clients \cup {"start", "wait"}
    BY <1>1, <1>4, <2>1 DEF SessionStrand, Handlers
  <2>3. s \in calls => batch[s] > 0 /\ Head(queue[s]) = "start"
    BY DEF QueueInv, IInv, ConnectsRun, Runs
  <2>4. Turn(s, "wait") => wait[s] = "ready"
    BY <1>1, <1>4, <2>1 DEF SessionStrand, Turn
  <2> QED
    BY <1>1, <1>4, <2>1, <2>2, <2>3, <2>4 DEF SessionStrand
<1> QED
  BY <1>3, <1>5, <1>6, <1>7 DEF TurnsGoOn

(* Every reachable state satisfies the invariant of the queues.            *)
THEOREM QueuesInvariance == Spec => []QueueInv
<1>1. Init => QueueInv
  BY InitQueueInv
<1>2. QueueInv /\ [Next]_vars => QueueInv'
  BY NextQueueInv
<1> QED
  BY <1>1, <1>2, PTL DEF Spec

(* Every query and every coroutine of a session is in the one strand that  *)
(* the code has posted it to, and there once, whatever the interleaving of *)
(* reactor, threads and turns (pg_data_base.h:93, 107, pg_session.h:27,    *)
(* 63, 99, pg_session.cpp:30, 60).                                         *)
THEOREM EachIsPostedOnce == Spec => []PostedOnce
BY QueueInvPosted, QueuesInvariance, PTL

(* Every operation that a thread takes and every handler that a strand     *)
(* comes to finds what it needs to go on (pg_data_base.h:173,              *)
(* pg_session.cpp:30, 54, 60).                                             *)
THEOREM TurnsNeverStick == Spec => []TurnsGoOn
BY QueueInvTurns, QueuesInvariance, PTL

-----------------------------------------------------------------------------
(* The threads and the lives of the sessions.                              *)
LEMMA ThreadStepIsLifeStep ==
  ASSUME [Next]_vars
  PROVE  [LifeNext]_lifeVars
<1>1. ASSUME RunFirst PROVE UNCHANGED lifeVars
  BY <1>1 DEF RunFirst, Reactor, Accept, Handle, TakeStrand
<1>2. ASSUME PoolTurn PROVE [LifeNext]_lifeVars
  BY <1>2
     DEF PoolTurn, PoolPost, PoolStart, PoolSelect, PoolCheck, PoolLock, PoolCrash, LifeNext
<1>3. ASSUME NEW s \in Sessions, SessionTurn(s) PROVE [LifeNext]_lifeVars
  BY <1>3 DEF SessionTurn, ConnectBegin, Resume, QueryBegin, LifeNext
<1>4. ASSUME NEW s \in Sessions, CallReturns(s) PROVE [LifeNext]_lifeVars
  <2>1. CASE ConnectReturns(s)
    BY <2>1 DEF ConnectReturns, LifeNext
  <2>2. ASSUME NEW c \in Clients, on[c] = s, QueryReturns(c) PROVE [LifeNext]_lifeVars
    BY <2>2 DEF QueryReturns, LifeNext
  <2> QED
    BY <1>4, <2>1, <2>2 DEF CallReturns
<1>5. ASSUME NEW s \in Sessions, ServerEof(s) PROVE UNCHANGED lifeVars
  BY <1>5 DEF ServerEof
<1>6. ASSUME NEW c \in Clients, Arrive(c) \/ Ask(c) PROVE UNCHANGED lifeVars
  BY <1>6 DEF Arrive, Ask
<1>7. ASSUME UNCHANGED vars PROVE UNCHANGED lifeVars
  BY <1>7 DEF vars
<1>8. ASSUME Down PROVE UNCHANGED lifeVars
  BY <1>8 DEF Down, vars
<1> QED
  BY <1>1, <1>2, <1>3, <1>4, <1>5, <1>6, <1>7, <1>8 DEF Next

(* Whatever the threads do to the sessions, in whatever order they come to *)
(* run, each step is one that PgSessionLife allows (pg_session.cpp:18-89). *)
THEOREM ThreadsImplementLife == Spec => LifeSpec
<1>1. Init => LifeInit
  BY DEF Init
<1>2. [Next]_vars => [LifeNext]_lifeVars
  BY ThreadStepIsLifeStep
<1> QED
  BY <1>1, <1>2, PTL DEF Spec, LifeSpec

=============================================================================
