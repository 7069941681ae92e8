--------------------------- MODULE PgSessionLife ----------------------------
(***************************************************************************)
(* What the pool relies on of its database sessions: the life of a         *)
(* db::PgSession object as everybody else sees it.  PgDataBase composes    *)
(* these actions with the pool; PgSession describes one session in detail  *)
(* and implements them.                                                    *)
(*                                                                         *)
(* A session's own work runs as coroutines on the session's strand: the    *)
(* one spawned by start(), which connects and then waits on the socket     *)
(* until the end, and those spawned by close().  Each keeps the object     *)
(* alive through a shared_ptr while it is pending or running.              *)
(***************************************************************************)
EXTENDS Integers

CONSTANTS
  Sessions,             \* the session objects that may exist
  MaxCloses             \* bound: calls of close() pending on one session

ASSUME MaxClosesAssumption == MaxCloses \in Nat \ {0}

VARIABLES
  phase,                \* the coroutine spawned by start()
  link,                 \* the database connection, as is_open() sees it
  closing               \* how many coroutines spawned by close() are pending

lifeVars == <<phase, link, closing>>

Phases == {"none", "started", "waiting", "ended"}

(***************************************************************************)
(* "off": never connected; "broken": a query found the connection dead, so *)
(* the pqxx connection is no longer open; "closed": async_close closed it. *)
(***************************************************************************)
Links == {"off", "open", "broken", "closed"}

LifeTypeOK ==
  /\ phase \in [Sessions -> Phases]
  /\ link \in [Sessions -> Links]
  /\ closing \in [Sessions -> 0 .. MaxCloses]

LifeInit ==
  /\ phase = [s \in Sessions |-> "none"]
  /\ link = [s \in Sessions |-> "off"]
  /\ closing = [s \in Sessions |-> 0]

(* A coroutine of the session itself holds a shared_ptr to it.             *)
KeepsItself(s) == phase[s] \in {"started", "waiting"} \/ closing[s] > 0

-----------------------------------------------------------------------------
(* make_shared followed by start(): a new object, its coroutine queued.    *)
Start(s) ==
  /\ ~ KeepsItself(s)
  /\ phase' = [phase EXCEPT ![s] = "started"]
  /\ link' = [link EXCEPT ![s] = "off"]
  /\ UNCHANGED closing

(* The coroutine of start() connects and goes on to wait, or ends because  *)
(* the connection failed or its descriptor could not be assigned.          *)
Connect(s) ==
  /\ phase[s] = "started"
  /\ \/ /\ phase' = [phase EXCEPT ![s] = "waiting"]
        /\ link' = [link EXCEPT ![s] = "open"]
     \/ /\ phase' = [phase EXCEPT ![s] = "ended"]
        /\ UNCHANGED link
  /\ UNCHANGED closing

(* async_wait returns: the session is not open any more, or the wait on    *)
(* the socket reported an error.                                           *)
WaitEnds_IgnoresClose(s) ==
  /\ phase[s] = "waiting"
  /\ link[s] # "closed"
  /\ phase' = [phase EXCEPT ![s] = "ended"]
  /\ UNCHANGED <<link, closing>>

WaitEnds(s) ==
  /\ phase[s] = "waiting"
  /\ phase' = [phase EXCEPT ![s] = "ended"]
  /\ UNCHANGED <<link, closing>>

(* close(): spawn async_close on the session's strand.                     *)
RequestClose(s) ==
  /\ closing[s] < MaxCloses
  /\ closing' = [closing EXCEPT ![s] = @ + 1]
  /\ UNCHANGED <<phase, link>>

(* async_close runs, behind the coroutine of start() in the strand.  It    *)
(* closes an open session, unless asking for the peer's address throws.    *)
Close(s) ==
  /\ closing[s] > 0
  /\ phase[s] # "started"
  /\ closing' = [closing EXCEPT ![s] = @ - 1]
  /\ \/ /\ link[s] = "open"
        /\ link' = [link EXCEPT ![s] = "closed"]
     \/ UNCHANGED link
  /\ UNCHANGED phase

(* async_execute of the session on its strand: nothing is sent over a      *)
(* session that is not open, and a query may find the connection broken.   *)
Run_WaitsForOpen(s) ==
  /\ phase[s] # "started"
  /\ link[s] = "open"
  /\ link' \in {[link EXCEPT ![s] = "broken"], link}
  /\ UNCHANGED <<phase, closing>>

Run(s) ==
  /\ phase[s] # "started"
  /\ \/ /\ link[s] = "open"
        /\ link' = [link EXCEPT ![s] = "broken"]
     \/ UNCHANGED link
  /\ UNCHANGED <<phase, closing>>

LifeNext ==
  \E s \in Sessions :
    Start(s) \/ Connect(s) \/ WaitEnds(s) \/ RequestClose(s) \/ Close(s) \/ Run(s)

LifeSpec == LifeInit /\ [][LifeNext]_lifeVars

=============================================================================
