----------------------------- MODULE PgDataBase -----------------------------
(***************************************************************************)
(* The pool of database sessions (src/src/core/db/pg_data_base.h).         *)
(*                                                                         *)
(* Everything that touches the vector of sessions is meant to run on the   *)
(* pool's strand: the coroutines spawned by connect_all and connect_lazy,  *)
(* which start sessions, and those of the callers of async_execute and its *)
(* two siblings, up to the moment they post to the session they chose.     *)
(* The strand is the sequence "queue": its head is the coroutine that      *)
(* holds the strand now, the rest wait their turn.  Off the strand, and in *)
(* parallel with it, are terminate(), which walks the same vector, and the *)
(* sessions themselves, each on a strand of its own (PgSessionLife).       *)
(*                                                                         *)
(* The vector holds weak pointers.  A session expires when its coroutines  *)
(* have ended and no caller, starter or walker keeps a shared_ptr to it:   *)
(* at any moment, also between two lines of code that hold the strand.     *)
(***************************************************************************)
EXTENDS PgSessionLife, RoundRobinPolicy, FiniteSets, Functions

CONSTANTS
  Starters,             \* coroutines that run start_session
  Callers,              \* coroutines that run async_execute*
  MaxSessions           \* m_connection_max

ASSUME SessionsAssumption == IsFiniteSet(Sessions) /\ NoSession \notin Sessions
ASSUME ActorsAssumption == Starters \cap Callers = {}
ASSUME MaxAssumption == MaxSessions \in Nat

VARIABLES
  m_sessions,           \* the vector of weak pointers
  m_index,              \* m_policy.index
  queue,                \* m_strand
  spc,                  \* where each starter is in start_session
  created,              \* its shared_ptr to the session it has just made
  qpc,                  \* where each caller is in async_execute
  weak,                 \* its session_weak, until it is locked
  held,                 \* its shared_ptr, from then on
  tpc,                  \* where the thread calling terminate() is
  tslot,                \* the iterator of its range-for
  tend,                 \* and the end it was given
  tweak,                \* the session it found alive
  torn,                 \* was the vector written under the walk: "no" or "yes"
  process               \* "running", or "crashed"

starterVars == <<spc, created>>
callerVars  == <<qpc, weak, held>>
walkVars    == <<tpc, tslot, tend, tweak>>
vars == <<lifeVars, m_sessions, m_index, queue, starterVars, callerVars,
          walkVars, torn, process>>

up == process = "running"

-----------------------------------------------------------------------------
(* Some coroutine or local variable outside the vector owns the session.   *)
Owned(s) ==
  \/ KeepsItself(s)
  \/ \E p \in Starters : created[p] = s
  \/ \E c \in Callers : held[c] = s

(* weak_ptr::expired(), and the sessions it is true of.                    *)
Expired == {s \in Sessions : ~ Owned(s)}
Live == Sessions \ Expired

OnStrand(a) == queue # <<>> /\ Head(queue) = a
LeaveStrand == queue' = Tail(queue)

TypeOK ==
  /\ LifeTypeOK
  /\ m_sessions \in Seq(Sessions)
  /\ m_index \in Nat
  /\ queue \in Seq(Starters \cup Callers)
  /\ spc \in [Starters -> {"idle", "spawned", "posted", "pruned", "created"}]
  /\ created \in [Starters -> Sessions \cup {NoSession}]
  /\ qpc \in [Callers -> {"idle", "empty", "queued", "selected", "locking", "posted"}]
  /\ weak \in [Callers -> Sessions \cup {NoSession}]
  /\ held \in [Callers -> Sessions \cup {NoSession}]
  /\ tpc \in {"idle", "walk", "locking"}
  /\ tslot \in Nat \ {0}
  /\ tend \in Nat
  /\ tweak \in Sessions \cup {NoSession}
  /\ torn \in {"no", "yes"}
  /\ process \in {"running", "crashed"}

Init ==
  /\ LifeInit
  /\ m_sessions = <<>>
  /\ m_index = 0
  /\ queue = <<>>
  /\ spc = [p \in Starters |-> "idle"]
  /\ created = [p \in Starters |-> NoSession]
  /\ qpc = [c \in Callers |-> "idle"]
  /\ weak = [c \in Callers |-> NoSession]
  /\ held = [c \in Callers |-> NoSession]
  /\ tpc = "idle"
  /\ tslot = 1
  /\ tend = 0
  /\ tweak = NoSession
  /\ torn = "no"
  /\ process = "running"

-----------------------------------------------------------------------------
(* Starting sessions.                                                      *)

(* connect_lazy, or one round of connect_all: the coroutine is queued.     *)
ConnectSpawn(p) ==
  /\ up
  /\ spc[p] = "idle"
  /\ spc' = [spc EXCEPT ![p] = "spawned"]
  /\ queue' = Append(queue, p)
  /\ UNCHANGED <<lifeVars, m_sessions, m_index, created, callerVars, walkVars, torn, process>>

(* Its first turn ends at the post in start_session, which queues it again *)
(* behind whoever has arrived since.                                       *)
StartPost(p) ==
  /\ up
  /\ OnStrand(p)
  /\ spc[p] = "spawned"
  /\ spc' = [spc EXCEPT ![p] = "posted"]
  /\ queue' = Append(Tail(queue), p)
  /\ UNCHANGED <<lifeVars, m_sessions, m_index, created, callerVars, walkVars, torn, process>>

(* Writing the vector while terminate() walks it is a data race.           *)
TearWalk == torn' = IF tpc = "idle" THEN torn ELSE "yes"

(* The predicate of remove_if, negated.                                    *)
Survives_OwnWork(i) == KeepsItself(m_sessions[i])
Survives_Always(i) == TRUE
Survives(i) == m_sessions[i] \notin Expired

(* The second turn begins: erase(remove_if(expired)) keeps the elements    *)
(* that are alive, in their order.  It writes only if it removes some.     *)
StartPrune(p) ==
  /\ up
  /\ OnStrand(p)
  /\ spc[p] = "posted"
  /\ spc' = [spc EXCEPT ![p] = "pruned"]
  /\ LET kept == {i \in DOMAIN m_sessions : Survives(i)}
     IN  /\ \E f \in [1 .. Cardinality(kept) -> kept] :
              /\ \A i, j \in DOMAIN f : i < j => f[i] < f[j]
              /\ Range(f) = kept
              /\ m_sessions' = [i \in DOMAIN f |-> m_sessions[f[i]]]
         /\ IF kept = DOMAIN m_sessions THEN UNCHANGED torn ELSE TearWalk
  /\ UNCHANGED <<lifeVars, m_index, queue, created, callerVars, walkVars, process>>

Full_OffByOne == Len(m_sessions) > MaxSessions
Full == Len(m_sessions) >= MaxSessions

(* co_return false: the pool is full.                                      *)
StartRefuse(p) ==
  /\ up
  /\ OnStrand(p)
  /\ spc[p] = "pruned"
  /\ Full
  /\ spc' = [spc EXCEPT ![p] = "idle"]
  /\ LeaveStrand
  /\ UNCHANGED <<lifeVars, m_sessions, m_index, created, callerVars, walkVars, torn, process>>

(* Nobody remembers the object s, not even through a weak pointer: its     *)
(* name can be given to a new one.                                         *)
Unused(s) ==
  /\ s \in Expired
  /\ s \notin Range(m_sessions)
  /\ \A c \in Callers : weak[c] # s
  /\ tweak # s

(* make_shared and start(): the new session may run before it is in the    *)
(* vector.                                                                 *)
StartCreate(p) ==
  /\ up
  /\ OnStrand(p)
  /\ spc[p] = "pruned"
  /\ ~ Full
  /\ spc' = [spc EXCEPT ![p] = "created"]
  /\ \E s \in Sessions :
       /\ Unused(s)
       /\ Start(s)
       /\ created' = [created EXCEPT ![p] = s]
  /\ UNCHANGED <<m_sessions, m_index, queue, callerVars, walkVars, torn, process>>

(* emplace_back, and the end of the coroutine.                             *)
StartRegister(p) ==
  /\ up
  /\ OnStrand(p)
  /\ spc[p] = "created"
  /\ spc' = [spc EXCEPT ![p] = "idle"]
  /\ m_sessions' = Append(m_sessions, created[p])
  /\ created' = [created EXCEPT ![p] = NoSession]
  /\ TearWalk
  /\ LeaveStrand
  /\ UNCHANGED <<lifeVars, m_index, callerVars, walkVars, process>>

-----------------------------------------------------------------------------
(* Executing queries: async_execute, async_execute_single_res and          *)
(* async_execute_no_res differ only in what they return.                   *)

Execute(c) ==
  /\ up
  /\ qpc[c] = "idle"
  /\ \E kind \in {"empty", "queued"} : qpc' = [qpc EXCEPT ![c] = kind]
  /\ queue' = Append(queue, c)
  /\ UNCHANGED <<lifeVars, m_sessions, m_index, starterVars, weak, held, walkVars, torn, process>>

(* nullopt at once: an empty query, or no session in the vector.           *)
QueryReject(c) ==
  /\ up
  /\ OnStrand(c)
  /\ qpc[c] = "empty" \/ (qpc[c] = "queued" /\ m_sessions = <<>>)
  /\ qpc' = [qpc EXCEPT ![c] = "idle"]
  /\ LeaveStrand
  /\ UNCHANGED <<lifeVars, m_sessions, m_index, starterVars, weak, held, walkVars, torn, process>>

MaySelect(c) ==
  /\ up
  /\ OnStrand(c)
  /\ qpc[c] = "queued"
  /\ m_sessions # <<>>

(* m_policy.select(m_sessions): a copy of a weak pointer, or an empty one. *)
QuerySelect(c) ==
  /\ MaySelect(c)
  /\ LET chosen == Select(m_sessions, m_index, Expired)
     IN  /\ weak' = [weak EXCEPT ![c] = chosen.session]
         /\ m_index' = chosen.index
  /\ qpc' = [qpc EXCEPT ![c] = "selected"]
  /\ UNCHANGED <<lifeVars, m_sessions, queue, starterVars, held, walkVars, torn, process>>

(* select reads a slot past the end of the vector.  QuerySelect takes what *)
(* is there to look expired; the read may also bring the process down.     *)
QuerySelectCrash(c) ==
  /\ MaySelect(c)
  /\ m_index >= Len(m_sessions)
  /\ process' = "crashed"
  /\ UNCHANGED <<lifeVars, m_sessions, m_index, queue, starterVars, callerVars, walkVars, torn>>

(* if (session_weak.expired()) co_return.                                  *)
QueryCheck(c) ==
  /\ up
  /\ OnStrand(c)
  /\ qpc[c] = "selected"
  /\ IF weak[c] \in Expired \cup {NoSession}
     THEN /\ qpc' = [qpc EXCEPT ![c] = "idle"]
          /\ weak' = [weak EXCEPT ![c] = NoSession]
          /\ LeaveStrand
     ELSE /\ qpc' = [qpc EXCEPT ![c] = "locking"]
          /\ UNCHANGED <<weak, queue>>
  /\ UNCHANGED <<lifeVars, m_sessions, m_index, starterVars, held, walkVars, torn, process>>

(* lock() and the call.  The session's async_execute posts to the strand   *)
(* of the session, which lets go of the pool's strand; if the session has  *)
(* expired since the check, the call goes through a null pointer.          *)
QueryLock(c) ==
  /\ up
  /\ OnStrand(c)
  /\ qpc[c] = "locking"
  /\ IF weak[c] \in Expired
     THEN /\ process' = "crashed"
          /\ UNCHANGED <<callerVars, queue>>
     ELSE /\ qpc' = [qpc EXCEPT ![c] = "posted"]
          /\ held' = [held EXCEPT ![c] = weak[c]]
          /\ weak' = [weak EXCEPT ![c] = NoSession]
          /\ LeaveStrand
          /\ UNCHANGED process
  /\ UNCHANGED <<lifeVars, m_sessions, m_index, starterVars, walkVars, torn>>

(* The session runs the query on its own strand; the result goes back to   *)
(* the caller and the shared_ptr is dropped.                               *)
QueryRun(c) ==
  /\ up
  /\ qpc[c] = "posted"
  /\ Run(held[c])
  /\ qpc' = [qpc EXCEPT ![c] = "idle"]
  /\ held' = [held EXCEPT ![c] = NoSession]
  /\ UNCHANGED <<m_sessions, m_index, queue, starterVars, weak, walkVars, torn, process>>

-----------------------------------------------------------------------------
(* terminate(), called from a thread of the application.                   *)

(* The range-for takes begin() and end() of the vector.                    *)
TerminateBegin ==
  /\ up
  /\ tpc = "idle"
  /\ tpc' = "walk"
  /\ tslot' = 1
  /\ tend' = Len(m_sessions)
  /\ torn' = "no"
  /\ UNCHANGED <<lifeVars, m_sessions, m_index, queue, starterVars, callerVars, tweak, process>>

(* if (!session.expired()).  A slot the vector no longer has looks expired *)
(* here; TerminateCrash is what else may come of it.                       *)
TerminateCheck ==
  /\ up
  /\ tpc = "walk"
  /\ tslot <= tend
  /\ IF tslot <= Len(m_sessions) /\ m_sessions[tslot] \notin Expired
     THEN tpc' = "locking" /\ tweak' = m_sessions[tslot] /\ UNCHANGED tslot
     ELSE tslot' = tslot + 1 /\ UNCHANGED <<tpc, tweak>>
  /\ UNCHANGED <<lifeVars, m_sessions, m_index, queue, starterVars, callerVars, tend, torn, process>>

(* lock() and close(), through a null pointer if the session expired.      *)
TerminateClose ==
  /\ up
  /\ tpc = "locking"
  /\ IF tweak \in Expired
     THEN process' = "crashed" /\ UNCHANGED <<lifeVars, tpc, tslot, tweak>>
     ELSE /\ RequestClose(tweak)
          /\ tpc' = "walk"
          /\ tslot' = tslot + 1
          /\ tweak' = NoSession
          /\ UNCHANGED process
  /\ UNCHANGED <<m_sessions, m_index, queue, starterVars, callerVars, tend, torn>>

TerminateEnd ==
  /\ up
  /\ tpc = "walk"
  /\ tslot > tend
  /\ tpc' = "idle"
  /\ tslot' = 1
  /\ tend' = 0
  /\ torn' = "no"
  /\ UNCHANGED <<lifeVars, m_sessions, m_index, queue, starterVars, callerVars, tweak, process>>

(* The walk goes over a vector that was written meanwhile.                 *)
TerminateCrash ==
  /\ up
  /\ torn = "yes"
  /\ process' = "crashed"
  /\ UNCHANGED <<lifeVars, m_sessions, m_index, queue, starterVars, callerVars, walkVars, torn>>

-----------------------------------------------------------------------------
(* The coroutines of the sessions, on the threads of the io_context.       *)
poolVars == <<m_sessions, m_index, queue, starterVars, callerVars, walkVars, torn, process>>

SessionConnect(s)  == up /\ Connect(s) /\ UNCHANGED poolVars
SessionWaitEnds(s) == up /\ WaitEnds(s) /\ UNCHANGED poolVars
SessionClose(s)    == up /\ Close(s) /\ UNCHANGED poolVars

(* The process has died; nothing happens any more.                         *)
Down == ~ up /\ UNCHANGED vars

StarterStep(p) ==
  \/ StartPost(p) \/ StartPrune(p) \/ StartRefuse(p)
  \/ StartCreate(p) \/ StartRegister(p)

CallerStep(c) ==
  \/ QueryReject(c) \/ QuerySelect(c) \/ QuerySelectCrash(c)
  \/ QueryCheck(c) \/ QueryLock(c) \/ QueryRun(c)

TerminateStep ==
  TerminateCheck \/ TerminateClose \/ TerminateEnd \/ TerminateCrash

Next ==
  \/ \E p \in Starters : ConnectSpawn(p) \/ StarterStep(p)
  \/ \E c \in Callers : Execute(c) \/ CallerStep(c)
  \/ TerminateBegin \/ TerminateStep
  \/ \E s \in Sessions : SessionConnect(s) \/ SessionWaitEnds(s) \/ SessionClose(s)
  \/ Down

Spec == Init /\ [][Next]_vars

(***************************************************************************)
(* The threads in run() serve every strand that has work.  A connection    *)
(* attempt and a query come to an end because the database answers or the  *)
(* connection breaks.  The wait of a session on its socket need not end,   *)
(* except when async_close has closed the socket, which cancels it.        *)
(***************************************************************************)
Fairness ==
  /\ \A p \in Starters : WF_vars(StarterStep(p))
  /\ \A c \in Callers : WF_vars(CallerStep(c))
  /\ WF_vars(TerminateStep)
  /\ \A s \in Sessions :
       /\ WF_vars(SessionConnect(s))
       /\ WF_vars(SessionWaitEnds(s) /\ link[s] = "closed")
       /\ WF_vars(SessionClose(s))

FairSpec == Spec /\ Fairness

-----------------------------------------------------------------------------
(***************************************************************************)
(* Properties.                                                             *)
(***************************************************************************)

(* A session that is alive can be found: it is in the vector, or is the    *)
(* one a starter has made and is about to put there.  Pruning never drops  *)
(* a session somebody still uses (start_session, pg_data_base.h:173).      *)
LiveRegistered ==
  \A s \in Live : s \in Range(m_sessions) \/ \E p \in Starters : created[p] = s

(* Never more database connections than max_sessions, counting those that  *)
(* are being made and those that only a running query keeps alive          *)
(* (pg_data_base.h:177), whatever starters, queries, terminate() and the   *)
(* ends of sessions do in between.                                         *)
PoolBound == Cardinality(Live) <= MaxSessions

(* The policy answers "none" only when every session has died, as its      *)
(* comment says (pg_data_base.h:32).                                       *)
SelectEmptyMeansAllDead ==
  [][\A c \in Callers :
       qpc[c] = "queued" /\ qpc'[c] = "selected" /\ weak'[c] = NoSession
         => Range(m_sessions) \subseteq Expired]_vars

(* What does hold of a selection: it yields a session of the vector that   *)
(* is alive, or none; and none although some is alive only if pruning had  *)
(* left the stored index past the end of the vector.                       *)
SelectSound ==
  [][\A c \in Callers :
       qpc[c] = "queued" /\ qpc'[c] = "selected"
         => IF weak'[c] = NoSession
            THEN Range(m_sessions) \subseteq Expired \/ m_index >= Len(m_sessions)
            ELSE weak'[c] \in Range(m_sessions) \cap Live]_vars

(* Whoever asks gets an answer, or the process has died: no caller waits   *)
(* for ever for the strand, for a session or behind terminate().           *)
QueryAnswered == \A c \in Callers : (qpc[c] # "idle") ~> (qpc[c] = "idle" \/ ~ up)

(* A session that was closed, or whose coroutine has ended, leaves its     *)
(* slot to another, once terminate() is not called again and again, each   *)
(* call with a close of its own to run (pg_session.cpp:99-110), and unless *)
(* from some point on some caller holds it at every moment: the policy     *)
(* goes on selecting it as long as it is held (pg_data_base.h:29).         *)
SlotFreed ==
  \A s \in Sessions :
    (<>[](tpc = "idle") /\ []<>(\A c \in Callers : held[c] # s))
      => ((link[s] = "closed" \/ phase[s] = "ended") ~> (s \in Expired \/ ~ up))

(* connect_all and connect_lazy bring a pool whose sessions have all died  *)
(* back to life: the dead ones do not occupy its slots.                    *)
PoolRevives ==
  \A p \in Starters : (spc[p] = "posted") ~> (Live # {} \/ ~ up)

=============================================================================
