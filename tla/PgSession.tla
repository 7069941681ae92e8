----------------------------- MODULE PgSession ------------------------------
(***************************************************************************)
(* One database session (src/src/core/db/pg_session.h, pg_session.cpp).    *)
(*                                                                         *)
(* The coroutines of the session take turns on its strand, in the order in *)
(* which they were posted: the one spawned by start(), which comes back    *)
(* whenever its wait on the socket completes, those spawned by close(),    *)
(* and the queries.  The head of "strand" is the coroutine that runs now.  *)
(* Off the strand are the calls of start() and close(), the callers that   *)
(* post queries, the reactor that watches the socket, and the server.      *)
(***************************************************************************)
EXTENDS Integers, Sequences, FiniteSets

CONSTANTS
  Queries,              \* calls of async_execute and its two siblings
  MaxCloses             \* bound: calls of close() pending at a time

ASSUME QueriesAssumption == Queries \cap {"start", "wait", "close"} = {}
ASSUME MaxClosesAssumption == MaxCloses \in Nat \ {0}

VARIABLES
  strand,               \* m_strand
  phase,                \* the coroutine of start(), as in PgSessionLife
  wait,                 \* its wait on the socket
  conn,                 \* m_connection
  sock,                 \* m_socket.is_open()
  server,               \* the connection as the server has left it
  pc,                   \* where each query is
  kind,                 \* which of the three functions it calls
  rows,                 \* how many rows its statement returned
  answer,               \* what it returned
  ec,                   \* *ec
  effect                \* has the server committed its transaction?

queryVars == <<pc, kind, rows, answer, ec, effect>>
vars == <<strand, phase, wait, conn, sock, server, queryVars>>

Kinds == {"many", "single", "none"}

(***************************************************************************)
(* "bad": libpq found the connection dead and closed its descriptor, which *)
(* m_socket does not notice.  "closed": async_close reset the optional.    *)
(***************************************************************************)
Conns == {"none", "ok", "bad", "closed"}

(* How many rows a statement returns: none, one, or more than one.         *)
RowCounts == 0 .. 2

TypeOK ==
  /\ strand \in Seq(Queries \cup {"start", "wait", "close"})
  /\ phase \in {"none", "started", "waiting", "ended"}
  /\ wait \in {"idle", "armed", "ready", "aborted"}
  /\ conn \in Conns
  /\ sock \in {"open", "closed"}
  /\ server \in {"up", "eof", "reset"}
  /\ pc \in [Queries -> {"idle", "posted", "begun", "executed", "committed"}]
  /\ kind \in [Queries -> Kinds]
  /\ rows \in [Queries -> RowCounts]
  /\ answer \in [Queries -> {"none", "value", "nullopt", "void"}]
  /\ ec \in [Queries -> {"clear", "bad_message", "canceled"}]
  /\ effect \in [Queries -> {"no", "yes"}]

Init ==
  /\ strand = <<>>
  /\ phase = "none"
  /\ wait = "idle"
  /\ conn = "none"
  /\ sock = "closed"
  /\ server = "up"
  /\ pc = [q \in Queries |-> "idle"]
  /\ kind = [q \in Queries |-> "none"]
  /\ rows = [q \in Queries |-> 0]
  /\ answer = [q \in Queries |-> "none"]
  /\ ec = [q \in Queries |-> "clear"]
  /\ effect = [q \in Queries |-> "no"]

OnStrand(job) == strand # <<>> /\ Head(strand) = job
Post(job) == strand' = Append(strand, job)
LeaveStrand == strand' = Tail(strand)
PendingCloses == Cardinality({i \in DOMAIN strand : strand[i] = "close"})

IsOpen == conn = "ok" /\ sock = "open"

-----------------------------------------------------------------------------
(* start(): connect, take over the descriptor, wait on it.                 *)

StartSession ==
  /\ phase = "none"
  /\ phase' = "started"
  /\ Post("start")
  /\ UNCHANGED <<wait, conn, sock, server, queryVars>>

(* async_connect blocks the strand until it succeeds or throws; then       *)
(* assign_socket may throw; then async_wait makes its first wait.          *)
Connect ==
  /\ OnStrand("start")
  /\ \/ /\ phase' = "ended"
        /\ UNCHANGED <<wait, conn, sock>>
     \/ /\ server = "up"
        /\ phase' = "ended"
        /\ conn' = "ok"
        /\ UNCHANGED <<wait, sock>>
     \/ /\ server = "up"
        /\ phase' = "waiting"
        /\ conn' = "ok"
        /\ sock' = "open"
        /\ wait' = "armed"
  /\ LeaveStrand
  /\ UNCHANGED <<server, queryVars>>

(* Bytes of an answer, the end of the stream or a reset make the socket    *)
(* readable: the wait completes without an error.                          *)
WaitReady ==
  /\ wait = "armed"
  /\ IsOpen
  /\ server # "up" \/ \E q \in Queries : pc[q] = "begun"
  /\ wait' = "ready"
  /\ Post("wait")
  /\ UNCHANGED <<phase, conn, sock, server, queryVars>>

(* The wait completes with an error: async_close has closed the socket, or *)
(* libpq the descriptor under it.  Of the latter not every reactor tells;  *)
(* the wait may never be heard of again.                                   *)
WaitFails ==
  /\ wait = "armed"
  /\ sock = "closed" \/ conn = "bad"
  /\ wait' = "aborted"
  /\ Post("wait")
  /\ UNCHANGED <<phase, conn, sock, server, queryVars>>

(* async_wait resumes: it ends on an error, or if the session is no longer *)
(* open when it calls itself again.  The async_close() it calls on an      *)
(* error is never awaited and does nothing.                                *)
Resume ==
  /\ OnStrand("wait")
  /\ IF wait = "aborted" \/ ~ IsOpen
     THEN phase' = "ended" /\ wait' = "idle"
     ELSE wait' = "armed" /\ UNCHANGED phase
  /\ LeaveStrand
  /\ UNCHANGED <<conn, sock, server, queryVars>>

-----------------------------------------------------------------------------
(* close(): spawn async_close.                                             *)

RequestClose ==
  /\ phase # "none"
  /\ PendingCloses < MaxCloses
  /\ Post("close")
  /\ UNCHANGED <<phase, wait, conn, sock, server, queryVars>>

(* async_close leaves a session alone that is not open, or whose peer's    *)
(* address it cannot get because the connection was reset.  Closing the    *)
(* socket cancels the wait.                                                *)
RunClose_OffStrand ==
  /\ \E i \in DOMAIN strand :
       /\ strand[i] = "close"
       /\ strand' = SubSeq(strand, 1, i - 1) \o SubSeq(strand, i + 1, Len(strand))
  /\ IsOpen
  /\ sock' = "closed"
  /\ conn' = "closed"
  /\ UNCHANGED <<phase, wait, server, queryVars>>

RunClose_ForgetsSocket ==
  /\ OnStrand("close")
  /\ conn' = IF IsOpen /\ server # "reset" THEN "closed" ELSE conn
  /\ LeaveStrand
  /\ UNCHANGED <<phase, wait, sock, server, queryVars>>

RunClose ==
  /\ OnStrand("close")
  /\ IF IsOpen /\ server # "reset"
     THEN /\ sock' = "closed"
          /\ conn' = "closed"
     ELSE UNCHANGED <<sock, conn>>
  /\ LeaveStrand
  /\ UNCHANGED <<phase, wait, server, queryVars>>

-----------------------------------------------------------------------------
(* async_execute, async_execute_single_res, async_execute_no_res.          *)

(* ec->clear() on the caller's thread, and the post to the strand.  Only a *)
(* session that was started can be reached.                                *)
Issue(q) ==
  /\ phase # "none"
  /\ pc[q] = "idle"
  /\ pc' = [pc EXCEPT ![q] = "posted"]
  /\ \E k \in Kinds : kind' = [kind EXCEPT ![q] = k]
  /\ rows' = [rows EXCEPT ![q] = 0]
  /\ answer' = [answer EXCEPT ![q] = "none"]
  /\ ec' = [ec EXCEPT ![q] = "clear"]
  /\ effect' = [effect EXCEPT ![q] = "no"]
  /\ Post(q)
  /\ UNCHANGED <<phase, wait, conn, sock, server>>

(* co_return: the value or nullopt, and nothing from async_execute_no_res. *)
Return(q, value, error) ==
  /\ pc' = [pc EXCEPT ![q] = "idle"]
  /\ answer' = [answer EXCEPT ![q] = IF kind[q] = "none" THEN "void" ELSE value]
  /\ ec' = [ec EXCEPT ![q] = error]
  /\ LeaveStrand

Begin_Unchecked(q) ==
  /\ OnStrand(q)
  /\ pc[q] = "posted"
  /\ pc' = [pc EXCEPT ![q] = "begun"]
  /\ UNCHANGED <<strand, phase, wait, conn, sock, server, kind, rows, answer, ec, effect>>

Begin_TriesAgain(q) ==
  /\ OnStrand(q)
  /\ pc[q] = "posted"
  /\ IF IsOpen
     THEN pc' = [pc EXCEPT ![q] = "begun"] /\ UNCHANGED strand
     ELSE strand' = Append(Tail(strand), q) /\ UNCHANGED pc
  /\ UNCHANGED <<phase, wait, conn, sock, server, kind, rows, answer, ec, effect>>

(* nullopt without an error if the session is not open.                    *)
Begin(q) ==
  /\ OnStrand(q)
  /\ pc[q] = "posted"
  /\ IF IsOpen
     THEN pc' = [pc EXCEPT ![q] = "begun"] /\ UNCHANGED <<strand, answer, ec>>
     ELSE Return(q, "nullopt", "clear")
  /\ UNCHANGED <<phase, wait, conn, sock, server, kind, rows, effect>>

(* pqxx::work and exec: rows, an SQL error, or a broken connection.        *)
Exec_CountsHeader(q) ==
  /\ OnStrand(q)
  /\ pc[q] = "begun"
  /\ server = "up"
  /\ pc' = [pc EXCEPT ![q] = "executed"]
  /\ \E n \in RowCounts : rows' = [rows EXCEPT ![q] = n + 1]
  /\ UNCHANGED <<strand, phase, wait, conn, sock, server, kind, answer, ec, effect>>

Exec(q) ==
  /\ OnStrand(q)
  /\ pc[q] = "begun"
  /\ \/ /\ server = "up"
        /\ pc' = [pc EXCEPT ![q] = "executed"]
        /\ \E n \in RowCounts : rows' = [rows EXCEPT ![q] = n]
        /\ UNCHANGED <<strand, conn, answer, ec>>
     \/ /\ server = "up"
        /\ Return(q, "nullopt", "bad_message")
        /\ UNCHANGED <<conn, rows>>
     \/ /\ server # "up"
        /\ Return(q, "nullopt", "canceled")
        /\ conn' = "bad"
        /\ UNCHANGED rows
  /\ UNCHANGED <<phase, wait, sock, server, kind, effect>>

Commit_Forgotten(q) ==
  /\ OnStrand(q)
  /\ pc[q] = "executed"
  /\ pc' = [pc EXCEPT ![q] = "committed"]
  /\ UNCHANGED <<strand, phase, wait, conn, sock, server, kind, rows, answer, ec, effect>>

(* txn.commit(): committed, refused, or the connection breaks and the      *)
(* caller does not learn which of the two it was.                          *)
Commit(q) ==
  /\ OnStrand(q)
  /\ pc[q] = "executed"
  /\ \/ /\ server = "up"
        /\ pc' = [pc EXCEPT ![q] = "committed"]
        /\ effect' = [effect EXCEPT ![q] = "yes"]
        /\ UNCHANGED <<strand, conn, answer, ec>>
     \/ /\ server = "up"
        /\ Return(q, "nullopt", "bad_message")
        /\ UNCHANGED <<conn, effect>>
     \/ /\ server # "up"
        /\ Return(q, "nullopt", "canceled")
        /\ conn' = "bad"
        /\ \E e \in {"no", "yes"} : effect' = [effect EXCEPT ![q] = e]
  /\ UNCHANGED <<phase, wait, sock, server, kind, rows>>

(* The rows become the result.  A row that does not map, or a first row    *)
(* that is not there, throws; more rows than one are an error of           *)
(* async_execute_single_res: all of this after the commit.                 *)
TooManyRows(q) == kind[q] = "single" /\ rows[q] > 1
CanMap(q) == kind[q] = "none" \/ (kind[q] = "single" => rows[q] = 1)
MapMayThrow(q) == kind[q] = "single" \/ (kind[q] = "many" /\ rows[q] > 0)

Map(q) ==
  /\ OnStrand(q)
  /\ pc[q] = "committed"
  /\ \/ /\ CanMap(q)
        /\ Return(q, "value", "clear")
     \/ /\ ~ TooManyRows(q)
        /\ MapMayThrow(q)
        /\ Return(q, "nullopt", "canceled")
     \/ /\ TooManyRows(q)
        /\ Return(q, "nullopt", "bad_message")
  /\ UNCHANGED <<phase, wait, conn, sock, server, kind, rows, effect>>

-----------------------------------------------------------------------------
(* The server ends the connection, or it is reset.                         *)
ServerEof ==
  /\ server = "up"
  /\ server' = "eof"
  /\ UNCHANGED <<strand, phase, wait, conn, sock, queryVars>>

ServerReset ==
  /\ server # "reset"
  /\ server' = "reset"
  /\ UNCHANGED <<strand, phase, wait, conn, sock, queryVars>>

QueryStep(q) == Begin(q) \/ Exec(q) \/ Commit(q) \/ Map(q)
StrandStep == Connect \/ Resume \/ RunClose \/ \E q \in Queries : QueryStep(q)

Next ==
  \/ StartSession \/ RequestClose
  \/ WaitReady \/ WaitFails
  \/ StrandStep
  \/ \E q \in Queries : Issue(q)
  \/ ServerEof \/ ServerReset

Spec == Init /\ [][Next]_vars

(***************************************************************************)
(* The strand is served while it has work, and each blocking call on it    *)
(* returns.  Of the reactor it is only assumed that closing a socket       *)
(* completes the wait on it.                                               *)
(***************************************************************************)
FairSpec ==
  /\ Spec
  /\ WF_vars(StrandStep)
  /\ WF_vars(WaitFails /\ sock = "closed")

-----------------------------------------------------------------------------
(***************************************************************************)
(* Properties.                                                             *)
(***************************************************************************)

(* What a caller may conclude from its answer (pg_session.h:21-124): a     *)
(* value means that the transaction is committed; nullopt without an error *)
(* means that nothing was done; bad_message means that the transaction was *)
(* rolled back, except for async_execute_single_res, which commits and     *)
(* then complains about the number of rows.  Nothing follows from          *)
(* canceled, nor from an async_execute_no_res that reports no error.       *)
AnswerTellsEffect ==
  \A q \in Queries :
    /\ answer[q] = "value" => effect[q] = "yes" /\ ec[q] = "clear"
    /\ answer[q] = "nullopt" /\ ec[q] = "clear" => effect[q] = "no"
    /\ answer[q] # "none" /\ ec[q] = "bad_message" /\ ~ TooManyRows(q) => effect[q] = "no"

(* A transaction owns the connection from begin to commit: async_close     *)
(* does not take it away in between (pg_session.h:37-39).                  *)
TransactionKeepsConnection ==
  [][(\E q \in Queries : pc[q] \in {"begun", "executed"})
       => conn # "closed" /\ conn' # "closed"]_vars

(* Every query that was posted is answered.                                *)
QueryAnswered == \A q \in Queries : (pc[q] = "posted") ~> (pc[q] = "idle")

(* close() ends a session whose server stays up: nothing keeps it alive    *)
(* afterwards (pg_session.cpp:99-144).                                     *)
CloseEnds ==
  [](server = "up") => ((PendingCloses > 0) ~> (phase = "ended"))

(* The session is what the pool takes it for.                              *)
Life == INSTANCE PgSessionLife WITH
  Sessions <- {"me"},
  phase    <- [s \in {"me"} |-> phase],
  link     <- [s \in {"me"} |->
                 CASE conn = "closed" -> "closed"
                   [] conn = "bad" -> "broken"
                   [] IsOpen -> "open"
                   [] OTHER -> "off"],
  closing  <- [s \in {"me"} |-> PendingCloses]

ImplementsLife == Life!LifeSpec

=============================================================================
