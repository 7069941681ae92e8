---------------------------- MODULE ServerThreads ----------------------------
(***************************************************************************)
(* The threads of the coroutine server: HttpServerCoro::run starts them,   *)
(* and all that the process does runs on them, the accept loop, the        *)
(* connections of the clients, the strand of the pool and the strands of   *)
(* the database sessions (PgSessionLife).  Connecting to the database and  *)
(* executing a query do not suspend their coroutine, they block the thread *)
(* it is on, without a timeout.                                            *)
(*                                                                         *)
(* Clients ask for what the application has (main_coro.cpp): "hello", the  *)
(* route whose handler queries the database, or "plain", which stands for  *)
(* every request that is answered without it.                              *)
(*                                                                         *)
(* A thread takes the first operation that has completed.  The reactor,    *)
(* which asks the system for more of them, is an operation like the others *)
(* that goes to the end of the queue each time.  A strand is in that queue *)
(* once, however many handlers wait in it; the thread that takes it runs   *)
(* those that are there by then, one after the other.                      *)
(***************************************************************************)
EXTENDS PgSessionLife, SequencesExt, FiniteSets

CONSTANTS
  Clients,
  Threads               \* m_thread_count

ASSUME ThreadsAssumption == Threads \in Nat
ASSUME NamesAssumption ==
  /\ IsFiniteSet(Sessions)
  /\ Sessions # {}
  /\ IsFiniteSet(Clients)
  /\ Clients \cap Sessions = {}
  /\ (Clients \cup Sessions) \cap {"pool", "accept", "reactor", "spawned",
                                   "connect", "start", "wait", "none"} = {}

VARIABLES
  work,                 \* the operations of m_io_context that have completed
  queue,                \* the handlers in each strand, the running one first
  batch,                \* how many of them its thread has still to run
  calls,                \* the coroutines that block a thread in a call to libpq
  wait,                 \* the wait of each session on its socket
  server,               \* the connections, as the database has left them
  pc,                   \* where the coroutine of each client's connection is
  want,                 \* what the client has asked for
  on,                   \* the session its query was posted to
  weak,                 \* session_weak of the coroutine on the pool's strand
  checked,              \* was it found not to have expired: "no" or "yes"
  process               \* "running", or "crashed"

strandVars == <<work, queue, batch>>
clientVars == <<pc, want, on>>
choiceVars == <<weak, checked>>
vars == <<lifeVars, strandVars, calls, wait, server, clientVars, choiceVars, process>>

up == process = "running"

Strands == Sessions \cup {"pool"}
NotPosted == "none"

TypeOK ==
  /\ LifeTypeOK
  /\ work \in Seq(Clients \cup Strands \cup {"accept", "reactor"})
  /\ queue \in [Strands -> Seq(Clients \cup {"spawned", "connect", "start", "wait"})]
  /\ batch \in [Strands -> Nat]
  /\ calls \subseteq Clients \cup Sessions
  /\ wait \in [Sessions -> {"idle", "armed", "ready"}]
  /\ server \in [Sessions -> {"up", "eof"}]
  /\ pc \in [Clients -> {"away", "arrived", "reading", "read", "pool", "session"}]
  /\ want \in [Clients -> {"none", "hello", "plain"}]
  /\ on \in [Clients -> Sessions \cup {NotPosted}]
  /\ weak \in Sessions \cup {NotPosted}
  /\ checked \in {"no", "yes"}
  /\ process \in {"running", "crashed"}

(* The application has made its pool before run(): one call of             *)
(* connect_lazy, or as many as connect_all makes, are on the pool's strand.*)
Init ==
  /\ LifeInit
  /\ work = <<"reactor", "pool">>
  /\ queue = [st \in Strands |->
                IF st = "pool" THEN [i \in 1 .. Cardinality(Sessions) |-> "spawned"]
                               ELSE <<>>]
  /\ batch = [st \in Strands |-> 0]
  /\ calls = {}
  /\ wait = [s \in Sessions |-> "idle"]
  /\ server = [s \in Sessions |-> "up"]
  /\ pc = [c \in Clients |-> "away"]
  /\ want = [c \in Clients |-> "none"]
  /\ on = [c \in Clients |-> NotPosted]
  /\ weak = NotPosted
  /\ checked = "no"
  /\ process = "running"

-----------------------------------------------------------------------------
(* Threads and strands.                                                    *)

(* What keeps a thread busy: a blocking call, or a strand that is run and  *)
(* is not in one.  Everything else a thread does is over at once.          *)
Busy == calls \cup {st \in Strands : batch[st] > 0 /\ Head(queue[st]) \notin calls}

(* A thread of run() is free to take the operation.                        *)
Taken(job) == up /\ Cardinality(Busy) < Threads /\ work # <<>> /\ Head(work) = job

(* A thread is running the strand and has come to this handler.            *)
Turn(st, handler) == up /\ batch[st] > 0 /\ Head(queue[st]) = handler

(* Posting to a strand that has nothing to do schedules it.                *)
Woken(st) == IF queue[st] = <<>> THEN <<st>> ELSE <<>>

Popped(st) == [queue EXCEPT ![st] = Tail(@)]

(* The turn ends and leaves the strands as in q, having woken some.  With  *)
(* the last handler of the batch the thread lets go of the strand, which   *)
(* queues up again if handlers have come meanwhile.                        *)
EndTurn(st, q, woken) ==
  /\ queue' = q
  /\ batch' = [batch EXCEPT ![st] = @ - 1]
  /\ work' = work \o woken \o IF batch[st] = 1 /\ q[st] # <<>> THEN <<st>> ELSE <<>>

TakeStrand(st) ==
  /\ Taken(st)
  /\ work' = Tail(work)
  /\ batch' = [batch EXCEPT ![st] = Len(queue[st])]
  /\ UNCHANGED <<lifeVars, queue, calls, wait, server, clientVars, choiceVars, process>>

-----------------------------------------------------------------------------
(* The reactor.  The socket of a session is readable when an answer comes  *)
(* in, and from the moment the server has ended the connection; the wait   *)
(* on a descriptor that libpq has closed may complete, too.                *)

Readable(s) ==
  /\ wait[s] = "armed"
  /\ server[s] = "eof" \/ link[s] = "broken" \/ \E c \in calls \cap Clients : on[c] = s

Arrived == {c \in Clients : pc[c] = "arrived"}
Asked == {c \in Clients : pc[c] = "reading" /\ want[c] # "none"}

(* Of the sessions some are seen, of the rest all: that libpq has closed a *)
(* descriptor need not be noticed.                                         *)
Reactor ==
  /\ Taken("reactor")
  /\ \E seen \in SUBSET {s \in Sessions : Readable(s)} :
       LET ready == Asked
                    \cup {s \in seen : queue[s] = <<>>}
                    \cup IF Arrived # {} /\ "accept" \notin Range(work) THEN {"accept"} ELSE {}
       IN  /\ \E order \in SetToSeqs(ready) : work' = Tail(work) \o order \o <<"reactor">>
           /\ queue' = [st \in Strands |->
                          IF st \in seen THEN Append(queue[st], "wait") ELSE queue[st]]
           /\ wait' = [s \in Sessions |-> IF s \in seen THEN "ready" ELSE wait[s]]
  /\ pc' = [c \in Clients |-> IF c \in Asked THEN "read" ELSE pc[c]]
  /\ UNCHANGED <<lifeVars, batch, calls, server, want, on, choiceVars, process>>

-----------------------------------------------------------------------------
(* Clients, and the coroutines of their connections.                       *)

Arrive(c) ==
  /\ up
  /\ pc[c] = "away"
  /\ pc' = [pc EXCEPT ![c] = "arrived"]
  /\ UNCHANGED <<lifeVars, strandVars, calls, wait, server, want, on,
                 choiceVars, process>>

Ask(c) ==
  /\ up
  /\ pc[c] = "reading"
  /\ want[c] = "none"
  /\ \E w \in {"hello", "plain"} : want' = [want EXCEPT ![c] = w]
  /\ UNCHANGED <<lifeVars, strandVars, calls, wait, server, pc, on,
                 choiceVars, process>>

(* The accept loop starts the session of a connection and accepts again.   *)
Accept_WhenIdle(c) ==
  /\ Taken("accept")
  /\ pc[c] = "arrived"
  /\ work' = Tail(work)
  /\ IF \E d \in Clients : pc[d] \in {"pool", "session"}
     THEN UNCHANGED pc
     ELSE pc' = [pc EXCEPT ![c] = "reading"]
  /\ UNCHANGED <<lifeVars, queue, batch, calls, wait, server, want, on,
                 choiceVars, process>>

Accept(c) ==
  /\ Taken("accept")
  /\ pc[c] = "arrived"
  /\ work' = Tail(work)
  /\ pc' = [pc EXCEPT ![c] = "reading"]
  /\ UNCHANGED <<lifeVars, queue, batch, calls, wait, server, want, on,
                 choiceVars, process>>

(* The reply is written and the session reads on.  (Writing is the subject *)
(* of HttpConnection; here every client reads what it gets.)               *)
Reply(c) ==
  /\ pc' = [pc EXCEPT ![c] = "reading"]
  /\ want' = [want EXCEPT ![c] = "none"]
  /\ on' = [on EXCEPT ![c] = NotPosted]

NeedsDatabase_Always(c) == TRUE
NeedsDatabase(c) == want[c] = "hello"

(* The request is read and routed.  Either the handler answers at once, or *)
(* it calls async_execute, which posts to the strand of the pool.          *)
Handle(c) ==
  /\ Taken(c)
  /\ pc[c] = "read"
  /\ IF NeedsDatabase(c)
     THEN /\ pc' = [pc EXCEPT ![c] = "pool"]
          /\ queue' = [queue EXCEPT !["pool"] = Append(@, c)]
          /\ work' = Tail(work) \o Woken("pool")
          /\ UNCHANGED <<want, on>>
     ELSE /\ Reply(c)
          /\ work' = Tail(work)
          /\ UNCHANGED queue
  /\ UNCHANGED <<lifeVars, batch, calls, wait, server, choiceVars, process>>

-----------------------------------------------------------------------------
(* The strand of the pool (PgDataBase), on which nothing blocks.           *)

(* start_session, up to its own post to the strand, and from there on.     *)
PoolPost ==
  /\ Turn("pool", "spawned")
  /\ EndTurn("pool", [queue EXCEPT !["pool"] = Append(Tail(@), "connect")], <<>>)
  /\ UNCHANGED <<lifeVars, calls, wait, server, clientVars, choiceVars, process>>

PoolStart ==
  /\ Turn("pool", "connect")
  /\ \E s \in Sessions :
       /\ phase[s] = "none"
       /\ Start(s)
       /\ EndTurn("pool", [Popped("pool") EXCEPT ![s] = Append(@, "start")], Woken(s))
  /\ UNCHANGED <<calls, wait, server, clientVars, choiceVars, process>>

Live == {s \in Sessions : KeepsItself(s) \/ \E c \in Clients : on[c] = s}

(* Pruning leaves the policy's index past the end of the vector only if a  *)
(* query has selected among two sessions and a third is started (what      *)
(* comes of that is in PgDataBase; here, that anything may).               *)
IndexMayBePast == Cardinality(Sessions) > 2

Choosing(c) == Turn("pool", c) /\ weak = NotPosted
NoResult(c) == Reply(c) /\ EndTurn("pool", Popped("pool"), <<>>)

(* async_execute: the policy yields a session that is alive, or none, for  *)
(* which the answer is nullopt.                                            *)
PoolSelect(c) ==
  /\ Choosing(c)
  /\ \/ /\ Live = {} \/ IndexMayBePast
        /\ NoResult(c)
        /\ UNCHANGED weak
     \/ /\ weak' \in Live
        /\ UNCHANGED <<strandVars, clientVars>>
  /\ UNCHANGED <<lifeVars, calls, wait, server, checked, process>>

(* if (session_weak.expired()) co_return.                                  *)
PoolCheck(c) ==
  /\ Turn("pool", c)
  /\ weak # NotPosted
  /\ checked = "no"
  /\ IF weak \in Live
     THEN checked' = "yes" /\ UNCHANGED <<strandVars, clientVars, weak>>
     ELSE NoResult(c) /\ weak' = NotPosted /\ UNCHANGED checked
  /\ UNCHANGED <<lifeVars, calls, wait, server, process>>

(* lock(), and the query is posted to the strand of the session.           *)
PoolLock_Unposted(c) ==
  /\ Turn("pool", c)
  /\ checked = "yes"
  /\ weak \in Live
  /\ pc' = [pc EXCEPT ![c] = "session"]
  /\ on' = [on EXCEPT ![c] = weak]
  /\ weak' = NotPosted
  /\ checked' = "no"
  /\ UNCHANGED <<lifeVars, strandVars, calls, wait, server, want, process>>

PoolLock(c) ==
  /\ Turn("pool", c)
  /\ checked = "yes"
  /\ weak \in Live
  /\ pc' = [pc EXCEPT ![c] = "session"]
  /\ on' = [on EXCEPT ![c] = weak]
  /\ EndTurn("pool", [Popped("pool") EXCEPT ![weak] = Append(@, c)], Woken(weak))
  /\ weak' = NotPosted
  /\ checked' = "no"
  /\ UNCHANGED <<lifeVars, calls, wait, server, want, process>>

(* lock() of a session that has expired since the check, and the call      *)
(* through the null pointer; or the policy reads outside the vector.       *)
PoolCrash(c) ==
  /\ Turn("pool", c)
  /\ IF weak = NotPosted THEN IndexMayBePast ELSE checked = "yes" /\ weak \notin Live
  /\ process' = "crashed"
  /\ UNCHANGED <<lifeVars, strandVars, calls, wait, server, clientVars, choiceVars>>

-----------------------------------------------------------------------------
(* The strand of a session.                                                *)

(* async_connect calls libpq; when the call returns the session waits on   *)
(* its socket, or has failed.                                              *)
ConnectBegin(s) ==
  /\ Turn(s, "start")
  /\ s \notin calls
  /\ calls' = calls \cup {s}
  /\ UNCHANGED <<lifeVars, strandVars, wait, server, clientVars, choiceVars, process>>

ConnectReturns(s) ==
  /\ up
  /\ s \in calls
  /\ Connect(s)
  /\ wait' = [wait EXCEPT ![s] = IF phase'[s] = "waiting" THEN "armed" ELSE @]
  /\ calls' = calls \ {s}
  /\ EndTurn(s, Popped(s), <<>>)
  /\ UNCHANGED <<server, clientVars, choiceVars, process>>

(* async_wait resumes: it waits again, or the session is not open and ends.*)
Resume_ArmsAlways(s) ==
  /\ Turn(s, "wait")
  /\ wait' = [wait EXCEPT ![s] = "armed"]
  /\ IF link[s] = "open" THEN UNCHANGED lifeVars ELSE WaitEnds(s)
  /\ EndTurn(s, Popped(s), <<>>)
  /\ UNCHANGED <<calls, server, clientVars, choiceVars, process>>

Resume(s) ==
  /\ Turn(s, "wait")
  /\ IF link[s] = "open"
     THEN wait' = [wait EXCEPT ![s] = "armed"] /\ UNCHANGED lifeVars
     ELSE wait' = [wait EXCEPT ![s] = "idle"] /\ WaitEnds(s)
  /\ EndTurn(s, Popped(s), <<>>)
  /\ UNCHANGED <<calls, server, clientVars, choiceVars, process>>

(* The query of c has its turn.  If the session is not open the answer is  *)
(* nullopt; the handler's reply is then made right here, on the strand.    *)
QueryBegin_OffStrand(c) ==
  /\ pc[c] = "session"
  /\ link[on[c]] = "open"
  /\ c \notin calls
  /\ calls' = calls \cup {c}
  /\ UNCHANGED <<lifeVars, strandVars, wait, server, clientVars, choiceVars, process>>

QueryBegin_TriesAgain(c) ==
  \E s \in Sessions :
    /\ Turn(s, c)
    /\ c \notin calls
    /\ IF link[s] = "open"
       THEN calls' = calls \cup {c} /\ UNCHANGED strandVars
       ELSE /\ EndTurn(s, [queue EXCEPT ![s] = Append(Tail(@), c)], <<>>)
            /\ UNCHANGED calls
    /\ UNCHANGED <<lifeVars, wait, server, clientVars, choiceVars, process>>

QueryBegin(c) ==
  \E s \in Sessions :
    /\ Turn(s, c)
    /\ c \notin calls
    /\ IF link[s] = "open"
       THEN /\ calls' = calls \cup {c}
            /\ UNCHANGED <<strandVars, clientVars>>
       ELSE /\ Reply(c)
            /\ EndTurn(s, Popped(s), <<>>)
            /\ UNCHANGED calls
    /\ UNCHANGED <<lifeVars, wait, server, choiceVars, process>>

(* libpq returns, always with an error if the server is gone.  The rest of *)
(* async_execute, the handler and the start of the write run on the strand *)
(* of the session, which is let go of only then.                           *)
QueryReturns(c) ==
  /\ up
  /\ c \in calls
  /\ Run(on[c])
  /\ server[on[c]] = "eof" => link'[on[c]] = "broken"
  /\ calls' = calls \ {c}
  /\ Reply(c)
  /\ EndTurn(on[c], Popped(on[c]), <<>>)
  /\ UNCHANGED <<wait, server, choiceVars, process>>

(* The server ends the connection; nobody in the process learns of it.     *)
ServerEof(s) ==
  /\ up
  /\ link[s] = "open"
  /\ server[s] = "up"
  /\ server' = [server EXCEPT ![s] = "eof"]
  /\ UNCHANGED <<lifeVars, strandVars, calls, wait, clientVars, choiceVars, process>>

-----------------------------------------------------------------------------
(* The process has died; nothing happens any more.                         *)
Down == ~ up /\ UNCHANGED vars

RunFirst ==
  \/ Reactor
  \/ \E c \in Clients : Accept(c) \/ Handle(c)
  \/ \E st \in Strands : TakeStrand(st)

PoolTurn ==
  \/ PoolPost \/ PoolStart
  \/ \E c \in Clients : PoolSelect(c) \/ PoolCheck(c) \/ PoolLock(c) \/ PoolCrash(c)

SessionTurn(s) ==
  ConnectBegin(s) \/ Resume(s) \/ \E c \in Clients : on[c] = s /\ QueryBegin(c)

CallReturns(s) ==
  ConnectReturns(s) \/ \E c \in Clients : on[c] = s /\ QueryReturns(c)

Next ==
  \/ RunFirst
  \/ PoolTurn
  \/ \E s \in Sessions : SessionTurn(s) \/ CallReturns(s) \/ ServerEof(s)
  \/ \E c \in Clients : Arrive(c) \/ Ask(c)
  \/ Down

Spec == Init /\ [][Next]_vars

(***************************************************************************)
(* A free thread takes the first operation, and a thread that runs a       *)
(* strand goes on with it.  A call to libpq need not return.               *)
(***************************************************************************)
FairSpec ==
  /\ Spec
  /\ WF_vars(RunFirst)
  /\ WF_vars(PoolTurn)
  /\ \A s \in Sessions : WF_vars(SessionTurn(s))

-----------------------------------------------------------------------------
(***************************************************************************)
(* Properties.                                                             *)
(***************************************************************************)

(* A connection is in one call at a time: queries resume on the strand of  *)
(* the session, not on the thread of the connection that asks              *)
(* (pg_session.h:27, 63, 99).  So no more threads are blocked than there   *)
(* are sessions, however many clients ask.                                 *)
OneCallPerConnection ==
  /\ \A c, d \in calls \cap Clients : on[c] = on[d] => c = d
  /\ \A c \in calls \cap Clients : on[c] \notin calls
  /\ Cardinality(calls) <= Cardinality(Sessions)

(* Every coroutine is in the one strand that the code has posted it to,    *)
(* and there once: a query in that of the pool until a session is chosen,  *)
(* then in that session's until it is answered (pg_data_base.h:93, 107,    *)
(* pg_session.h:27, 63, 99); the coroutine of a session only in the        *)
(* session's own, before it connects, and again just when its socket is    *)
(* ready (pg_session.cpp:30, 60), not twice for two ends of one wait.      *)
PostedOnce ==
  /\ \A c \in Clients, st \in Strands :
       c \in Range(queue[st])
         <=> IF st = "pool" THEN pc[c] = "pool" ELSE pc[c] = "session" /\ on[c] = st
  /\ \A i, j \in DOMAIN queue["pool"] :
       queue["pool"][i] \in Clients /\ queue["pool"][i] = queue["pool"][j] => i = j
  /\ \A s \in Sessions :
       /\ IsInjective(queue[s])
       /\ "start" \in Range(queue[s]) <=> phase[s] = "started"
       /\ "wait" \in Range(queue[s]) <=> wait[s] = "ready"

(* No turn is stuck: whatever a thread comes to, in the queue or in a      *)
(* strand, finds what it needs.  The accept handler has a client, each     *)
(* start_session a session to make (pg_data_base.h:173), and a session     *)
(* resumes from its wait, or returns from connecting, only if it still is  *)
(* in its wait, or in its start (pg_session.cpp:30, 54, 60).               *)
TurnsGoOn ==
  /\ "reactor" \in Range(work)
  /\ "accept" \in Range(work) => Arrived # {}
  /\ \A c \in Clients : c \in Range(work) => pc[c] = "read"
  /\ batch["pool"] > 0 => Head(queue["pool"]) \in Clients \cup {"spawned", "connect"}
  /\ Turn("pool", "connect") => \E s \in Sessions : phase[s] = "none"
  /\ \A s \in Sessions :
       /\ batch[s] > 0 => Head(queue[s]) \in Clients \cup {"start", "wait"}
       /\ s \in calls => phase[s] = "started"
       /\ Turn(s, "wait") => phase[s] = "waiting"

(* With more threads than sessions, what needs no database is answered     *)
(* though every call to the database hangs for ever, and though sessions   *)
(* whose server has gone wait on a socket that is always readable, unless  *)
(* the process dies (pg_session.cpp:65, 81; http_server_coro.cpp:32).      *)
PlainAnswered ==
  Cardinality(Sessions) < Threads
    => \A c \in Clients : (want[c] = "plain") ~> (want[c] = "none" \/ ~ up)

(* Under the same condition the accept loop goes on.                       *)
Accepted ==
  Cardinality(Sessions) < Threads
    => \A c \in Clients : (pc[c] = "arrived") ~> (pc[c] # "arrived" \/ ~ up)

(* If the calls to the database return, in whatever way, each query is     *)
(* answered, though its session loses its server or fails to connect while *)
(* the query waits in a strand (pg_session.h:33-34, pg_data_base.h:95-96); *)
(* unless the session ends between the check and the lock, of which the    *)
(* process dies (pg_data_base.h:101-107).                                  *)
HelloAnswered ==
  (Threads > 0 /\ \A s \in Sessions : WF_vars(CallReturns(s)))
    => \A c \in Clients : (want[c] = "hello") ~> (want[c] = "none" \/ ~ up)

=============================================================================
