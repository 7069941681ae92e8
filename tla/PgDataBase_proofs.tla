-------------------------- MODULE PgDataBase_proofs -------------------------
(***************************************************************************)
(* Proofs about the pool of database sessions and its selection policy.    *)
(*                                                                         *)
(* The argument for PoolBound.  Only StartCreate makes a session live; all *)
(* the other actions can only make sessions expire, because a weak pointer *)
(* is locked only while the session is alive.  So the live sessions are    *)
(* those of the vector, plus the one a starter has just made and not yet   *)
(* registered.  There is at most one such starter, because between pruning *)
(* and registering a starter does not leave the strand, and it has seen    *)
(* the vector shorter than max_sessions.                                   *)
(***************************************************************************)
EXTENDS PgDataBase, SequenceTheorems, FiniteSetTheorems, FunctionTheorems,
        WellFoundedInduction, TLAPS

-----------------------------------------------------------------------------
(* What RoundRobinPolicy::select returns, for every vector, every stored   *)
(* index and every set of expired sessions.                                *)

LEMMA RemainderRange ==
  ASSUME NEW a \in Nat, NEW n \in Nat \ {0}
  PROVE  a % n \in 0 .. n - 1
  OBVIOUS

LEMMA RemainderBelow ==
  ASSUME NEW n \in Nat \ {0}, NEW k \in 0 .. n - 1
  PROVE  k % n = k
  OBVIOUS

LEMMA RemainderWraps ==
  ASSUME NEW n \in Nat \ {0}, NEW k \in 0 .. n - 1
  PROVE  (k + n) % n = k
  OBVIOUS

LEMMA FirstTryIsTry ==
  ASSUME NEW tries \in SUBSET Nat, tries # {}
  PROVE  FirstTry(tries) \in tries
<1> DEFINE below == {ss \in Nat \X Nat : ss[1] < ss[2]}
<1>1. IsWellFoundedOn(below, Nat)
  BY NatLessThanWellFounded DEF OpToRel
<1> HIDE DEF below
<1>2. PICK i \in tries : \A j \in tries : ~ (<<j, i>> \in below)
  BY <1>1, WFMin
<1>3. ASSUME NEW j \in tries PROVE i <= j
  <2>1. i \in Nat /\ j \in Nat
    OBVIOUS
  <2>2. j < i => <<j, i>> \in below
    BY <2>1 DEF below
  <2> QED
    BY <1>2, <2>1, <2>2
<1> QED
  BY <1>3 DEF FirstTry

LEMMA SlotType ==
  ASSUME NEW n \in Nat \ {0}, NEW index \in Nat, NEW i \in 0 .. n - 1
  PROVE  Slot(index, i, n) \in Nat
  BY RemainderRange DEF Slot

(* With the index inside the vector, the n iterations read every slot.     *)
LEMMA SlotsCovered ==
  ASSUME NEW n \in Nat \ {0}, NEW index \in 0 .. n - 1, NEW k \in 0 .. n - 1
  PROVE  \E i \in 0 .. n - 1 : Slot(index, i, n) = k
<1>1. CASE k >= index
  <2>1. k - index \in 0 .. n - 1 /\ index + (k - index) = k
    BY <1>1
  <2>2. Slot(index, k - index, n) = k
    BY <2>1, RemainderBelow, <1>1 DEF Slot
  <2> QED
    BY <2>1, <2>2
<1>2. CASE k < index
  <2>1. /\ k - index + n \in 0 .. n - 1
        /\ k - index + n # 0
        /\ index + (k - index + n) = k + n
    BY <1>2
  <2>2. Slot(index, k - index + n, n) = k
    BY <2>1, RemainderWraps DEF Slot
  <2> QED
    BY <2>1, <2>2
<1> QED
  BY <1>1, <1>2

(* A selection over a nonempty vector yields a live session of the vector  *)
(* or none, and leaves an index inside the vector; with the index inside   *)
(* the vector beforehand, it yields none only if all sessions are dead     *)
(* (pg_data_base.h:23-33).                                                 *)
THEOREM SelectChooses ==
  ASSUME NEW S, NoSession \notin S, NEW sessions \in Seq(S), sessions # <<>>,
         NEW index \in Nat, NEW expired
  PROVE  LET chosen == Select(sessions, index, expired)
         IN  /\ chosen.index \in 0 .. Len(sessions) - 1
             /\ IF chosen.session = NoSession
                THEN Range(sessions) \subseteq expired \/ index >= Len(sessions)
                ELSE chosen.session \in Range(sessions) \ expired
<1> DEFINE n == Len(sessions)
           tries == LiveTries(sessions, index, expired)
           first == FirstTry(tries)
           chosen == Select(sessions, index, expired)
<1>1. n \in Nat \ {0}
  BY EmptySeq, LenProperties
<1>2. /\ DOMAIN sessions = 1 .. n
      /\ \A k \in 1 .. n : sessions[k] \in S
      /\ Range(sessions) = {sessions[k] : k \in 1 .. n}
  BY LenProperties, ElementOfSeq, RangeEquality
<1>3. tries \subseteq 0 .. n - 1
  BY DEF LiveTries
<1>4. CASE tries = {}
  <2>1. chosen = [session |-> NoSession, index |-> index % n]
    BY <1>1, <1>4 DEF Select
  <2>2. index % n \in 0 .. n - 1
    BY <1>1, RemainderRange
  <2>3. ASSUME index < n, NEW k \in 1 .. n PROVE sessions[k] \in expired
    <3>1. index \in 0 .. n - 1 /\ k - 1 \in 0 .. n - 1
      BY <1>1, <2>3
    <3>2. PICK i \in 0 .. n - 1 : Slot(index, i, n) = k - 1
      BY <1>1, <3>1, SlotsCovered
    <3>3. sessions[Slot(index, i, n) + 1] \in expired
      BY <3>1, <3>2, <1>1, <1>4 DEF LiveTries
    <3> QED
      BY <3>2, <3>3
  <2>4. Range(sessions) \subseteq expired \/ index >= n
    BY <2>3, <1>1, <1>2
  <2>5. chosen.session = NoSession /\ chosen.index \in 0 .. n - 1
    BY <2>1, <2>2
  <2> QED
    BY <2>4, <2>5
<1>5. CASE tries # {}
  <2>1. first \in tries
    BY <1>3, <1>5, FirstTryIsTry
  <2>2. /\ first \in 0 .. n - 1
        /\ Slot(index, first, n) \in 0 .. n - 1
        /\ sessions[Slot(index, first, n) + 1] \notin expired
    <3>1. /\ first \in 0 .. n - 1
          /\ Slot(index, first, n) < n
          /\ sessions[Slot(index, first, n) + 1] \notin expired
      BY <2>1 DEF LiveTries
    <3>2. Slot(index, first, n) \in Nat
      BY <3>1, <1>1, SlotType
    <3> QED
      BY <3>1, <3>2, <1>1
  <2>3. chosen = [session |-> sessions[Slot(index, first, n) + 1],
                  index |-> (index + first + 1) % n]
    BY <1>1, <1>5 DEF Select
  <2>4. (index + first + 1) % n \in 0 .. n - 1
    <3>1. index + first + 1 \in Nat
      BY <2>2
    <3> QED
      BY <3>1, <1>1, RemainderRange
  <2>5. Slot(index, first, n) + 1 \in 1 .. n
    BY <2>2, <1>1
  <2>6. chosen.session \in Range(sessions) \ expired /\ chosen.session # NoSession
    BY <2>2, <2>3, <2>5, <1>2
  <2> QED
    BY <2>3, <2>4, <2>6
<1> QED
  BY <1>4, <1>5

-----------------------------------------------------------------------------

(* Between its two posts and its end a starter holds the strand.           *)
StarterOnStrand ==
  \A p \in Starters : spc[p] \in {"pruned", "created"} => OnStrand(p)

(* A starter owns a session exactly between creating and registering it.   *)
CreatedOwned ==
  \A p \in Starters : (created[p] # NoSession) <=> (spc[p] = "created")

(* The vector never exceeds its bound, and has room for the new session.   *)
VectorBound ==
  /\ Len(m_sessions) <= MaxSessions
  /\ \A p \in Starters : spc[p] = "created" => Len(m_sessions) < MaxSessions

IInv ==
  /\ TypeOK
  /\ StarterOnStrand
  /\ CreatedOwned
  /\ VectorBound
  /\ LiveRegistered

-----------------------------------------------------------------------------
(* Type correctness.                                                       *)

LEMMA InitTypeOK == Init => TypeOK
<1> SUFFICES ASSUME Init PROVE TypeOK
  OBVIOUS
<1>1. LifeTypeOK
  BY MaxClosesAssumption DEF Init, LifeInit, LifeTypeOK, Phases, Links
<1>2. m_sessions \in Seq(Sessions) /\ queue \in Seq(Starters \cup Callers)
  BY EmptySeq DEF Init
<1> QED
  BY <1>1, <1>2 DEF Init, TypeOK

(* The pruned vector is a sequence of sessions again.                      *)
LEMMA PruneType ==
  ASSUME TypeOK, NEW p \in Starters, StartPrune(p)
  PROVE  m_sessions' \in Seq(Sessions)
<1> DEFINE kept == {i \in DOMAIN m_sessions : Survives(i)}
<1>1. PICK f \in [1 .. Cardinality(kept) -> kept] :
        m_sessions' = [i \in DOMAIN f |-> m_sessions[f[i]]]
  BY DEF StartPrune
<1>2. kept \subseteq 1 .. Len(m_sessions) /\ Len(m_sessions) \in Nat
  BY LenProperties DEF TypeOK
<1>3. IsFiniteSet(kept)
  BY <1>2, FS_Interval, FS_Subset
<1>4. Cardinality(kept) \in Nat
  BY <1>3, FS_CardinalityType
<1>5. \A i \in DOMAIN f : m_sessions[f[i]] \in Sessions
  <2> TAKE i \in DOMAIN f
  <2>1. f[i] \in 1 .. Len(m_sessions)
    BY <1>2
  <2> QED
    BY <2>1, ElementOfSeq DEF TypeOK
<1> HIDE DEF kept
<1> QED
  BY <1>1, <1>4, <1>5, IsASeq

LEMMA NextTypeOK ==
  ASSUME TypeOK, CreatedOwned, [Next]_vars
  PROVE  TypeOK'
<1> USE DEF TypeOK, LifeTypeOK, Phases, Links
<1>1. ASSUME NEW p \in Starters, ConnectSpawn(p) PROVE TypeOK'
  BY <1>1, AppendProperties DEF ConnectSpawn, lifeVars, callerVars, walkVars
<1>2. ASSUME NEW p \in Starters, StartPost(p) PROVE TypeOK'
  <2>1. Tail(queue) \in Seq(Starters \cup Callers)
    BY <1>2, HeadTailProperties DEF StartPost, OnStrand
  <2> QED
    BY <1>2, <2>1, AppendProperties DEF StartPost, lifeVars, callerVars, walkVars
<1>3. ASSUME NEW p \in Starters, StartPrune(p) PROVE TypeOK'
  <2>1. m_sessions' \in Seq(Sessions)
    BY <1>3, PruneType
  <2>2. torn' \in {"no", "yes"}
    BY <1>3 DEF StartPrune, TearWalk
  <2>3. UNCHANGED <<lifeVars, m_index, queue, created, callerVars, walkVars, process>>
    BY <1>3 DEF StartPrune
  <2>4. spc' = [spc EXCEPT ![p] = "pruned"]
    BY <1>3 DEF StartPrune
  <2> QED
    BY <2>1, <2>2, <2>3, <2>4 DEF lifeVars, callerVars, walkVars
<1>4. ASSUME NEW p \in Starters, StartRefuse(p) PROVE TypeOK'
  BY <1>4, HeadTailProperties
     DEF StartRefuse, OnStrand, LeaveStrand, lifeVars, callerVars, walkVars
<1>5. ASSUME NEW p \in Starters, StartCreate(p) PROVE TypeOK'
  BY <1>5 DEF StartCreate, Start, callerVars, walkVars
<1>6. ASSUME NEW p \in Starters, StartRegister(p) PROVE TypeOK'
  <2>1. created[p] \in Sessions
    BY <1>6 DEF StartRegister, CreatedOwned
  <2>2. m_sessions' \in Seq(Sessions)
    BY <1>6, <2>1, AppendProperties DEF StartRegister
  <2> QED
    BY <1>6, <2>2, HeadTailProperties
       DEF StartRegister, TearWalk, OnStrand, LeaveStrand, lifeVars, callerVars, walkVars
<1>7. ASSUME NEW c \in Callers, Execute(c) PROVE TypeOK'
  BY <1>7, AppendProperties DEF Execute, lifeVars, starterVars, walkVars
<1>8. ASSUME NEW c \in Callers, QueryReject(c) PROVE TypeOK'
  BY <1>8, HeadTailProperties
     DEF QueryReject, OnStrand, LeaveStrand, lifeVars, starterVars, walkVars
<1>9. ASSUME NEW c \in Callers, QuerySelect(c) PROVE TypeOK'
  <2> DEFINE chosen == Select(m_sessions, m_index, Expired)
  <2>1. chosen.session \in Sessions \cup {NoSession} /\ chosen.index \in Nat
    <3>1. /\ m_sessions \in Seq(Sessions) /\ m_sessions # <<>> /\ m_index \in Nat
          /\ NoSession \notin Sessions
      BY <1>9, SessionsAssumption DEF QuerySelect, MaySelect
    <3>2. /\ chosen.index \in 0 .. Len(m_sessions) - 1
          /\ IF chosen.session = NoSession
             THEN Range(m_sessions) \subseteq Expired \/ m_index >= Len(m_sessions)
             ELSE chosen.session \in Range(m_sessions) \ Expired
      BY <3>1, SelectChooses
    <3>3. Range(m_sessions) \subseteq Sessions /\ Len(m_sessions) \in Nat
      BY <3>1, RangeOfSeq, LenProperties
    <3> HIDE DEF chosen
    <3> QED
      BY <3>2, <3>3
  <2>2. /\ weak' = [weak EXCEPT ![c] = chosen.session]
        /\ m_index' = chosen.index
        /\ qpc' = [qpc EXCEPT ![c] = "selected"]
        /\ UNCHANGED <<lifeVars, m_sessions, queue, starterVars, held, walkVars, torn, process>>
    BY <1>9 DEF QuerySelect
  <2> HIDE DEF chosen
  <2> QED
    BY <2>1, <2>2 DEF lifeVars, starterVars, walkVars
<1>10. ASSUME NEW c \in Callers, QuerySelectCrash(c) PROVE TypeOK'
  BY <1>10 DEF QuerySelectCrash, lifeVars, starterVars, callerVars, walkVars
<1>11. ASSUME NEW c \in Callers, QueryCheck(c) PROVE TypeOK'
  <2>1. /\ queue' \in Seq(Starters \cup Callers)
        /\ \E pc \in {"idle", "locking"} : qpc' = [qpc EXCEPT ![c] = pc]
        /\ weak' = weak \/ weak' = [weak EXCEPT ![c] = NoSession]
    <3>1. queue # <<>> /\ Tail(queue) \in Seq(Starters \cup Callers)
      BY <1>11, HeadTailProperties DEF QueryCheck, OnStrand
    <3>2. CASE weak[c] \in Expired \cup {NoSession}
      BY <1>11, <3>1, <3>2 DEF QueryCheck, LeaveStrand
    <3>3. CASE weak[c] \notin Expired \cup {NoSession}
      BY <1>11, <3>3 DEF QueryCheck
    <3> QED
      BY <3>2, <3>3
  <2>2. /\ UNCHANGED lifeVars
        /\ spc' = spc /\ created' = created /\ m_sessions' = m_sessions /\ m_index' = m_index
        /\ tpc' = tpc /\ tslot' = tslot /\ tend' = tend /\ tweak' = tweak /\ torn' = torn
        /\ held' = held /\ process' = process
    BY <1>11 DEF QueryCheck, starterVars, walkVars
  <2>3. /\ qpc' \in [Callers -> {"idle", "empty", "queued", "selected", "locking", "posted"}]
        /\ weak' \in [Callers -> Sessions \cup {NoSession}]
    <3>1. PICK place \in {"idle", "locking"} : qpc' = [qpc EXCEPT ![c] = place]
      BY <2>1
    <3>2. weak' = weak \/ weak' = [weak EXCEPT ![c] = NoSession]
      BY <2>1
    <3>3. weak' \in [Callers -> Sessions \cup {NoSession}]
      BY <3>2
    <3>4. qpc' \in [Callers -> {"idle", "empty", "queued", "selected", "locking", "posted"}]
      BY <3>1
    <3> QED
      BY <3>3, <3>4
  <2>4. queue' \in Seq(Starters \cup Callers)
    BY <2>1
  <2>5. LifeTypeOK'
    BY <2>2 DEF lifeVars
  <2> QED
    BY <2>2, <2>3, <2>4, <2>5, Zenon
<1>12. ASSUME NEW c \in Callers, QueryLock(c) PROVE TypeOK'
  <2>1. /\ queue' \in Seq(Starters \cup Callers)
        /\ qpc' = qpc \/ qpc' = [qpc EXCEPT ![c] = "posted"]
        /\ weak' = weak \/ weak' = [weak EXCEPT ![c] = NoSession]
        /\ held' = held \/ held' = [held EXCEPT ![c] = weak[c]]
        /\ process' \in {"running", "crashed"}
    <3>1. queue # <<>> /\ Tail(queue) \in Seq(Starters \cup Callers)
      BY <1>12, HeadTailProperties DEF QueryLock, OnStrand
    <3>2. CASE weak[c] \in Expired
      BY <1>12, <3>2 DEF QueryLock, callerVars
    <3>3. CASE weak[c] \notin Expired
      BY <1>12, <3>1, <3>3 DEF QueryLock, LeaveStrand
    <3> QED
      BY <3>2, <3>3
  <2>2. /\ UNCHANGED lifeVars
        /\ spc' = spc /\ created' = created /\ m_sessions' = m_sessions /\ m_index' = m_index
        /\ tpc' = tpc /\ tslot' = tslot /\ tend' = tend /\ tweak' = tweak /\ torn' = torn
    BY <1>12 DEF QueryLock, starterVars, walkVars
  <2>3. /\ qpc' \in [Callers -> {"idle", "empty", "queued", "selected", "locking", "posted"}]
        /\ weak' \in [Callers -> Sessions \cup {NoSession}]
    BY <2>1
  <2>4. held' \in [Callers -> Sessions \cup {NoSession}]
    <3>1. /\ weak[c] \in Sessions \cup {NoSession}
          /\ held \in [Callers -> Sessions \cup {NoSession}]
      OBVIOUS
    <3>2. held' = held \/ held' = [held EXCEPT ![c] = weak[c]]
      BY <2>1
    <3> HIDE DEF TypeOK
    <3> QED
      BY <3>1, <3>2
  <2>5. queue' \in Seq(Starters \cup Callers) /\ process' \in {"running", "crashed"}
    BY <2>1
  <2>6. LifeTypeOK'
    BY <2>2 DEF lifeVars
  <2> QED
    BY <2>2, <2>3, <2>4, <2>5, <2>6, Zenon
<1>13. ASSUME NEW c \in Callers, QueryRun(c) PROVE TypeOK'
  BY <1>13 DEF QueryRun, Run, starterVars, walkVars
<1>14. CASE TerminateBegin
  BY <1>14, LenProperties DEF TerminateBegin, lifeVars, starterVars, callerVars
<1>15. CASE TerminateCheck
  <2>1. /\ tpc' \in {"walk", "locking"}
        /\ tslot' \in Nat \ {0}
        /\ tweak' \in Sessions \cup {NoSession}
    <3>1. CASE tslot <= Len(m_sessions) /\ m_sessions[tslot] \notin Expired
      <4>1. tpc' = "locking" /\ tweak' = m_sessions[tslot] /\ UNCHANGED tslot
        BY <1>15, <3>1 DEF TerminateCheck
      <4>2. m_sessions[tslot] \in Sessions
        BY <3>1, ElementOfSeq, LenProperties
      <4> QED
        BY <4>1, <4>2
    <3>2. CASE ~ (tslot <= Len(m_sessions) /\ m_sessions[tslot] \notin Expired)
      BY <1>15, <3>2 DEF TerminateCheck
    <3> QED
      BY <3>1, <3>2
  <2>2. UNCHANGED <<lifeVars, m_sessions, m_index, queue, starterVars, callerVars, tend, torn, process>>
    BY <1>15 DEF TerminateCheck
  <2> QED
    BY <2>1, <2>2 DEF lifeVars, starterVars, callerVars
<1>16. CASE TerminateClose
  <2>1. /\ \/ closing' = closing
           \/ closing[tweak] < MaxCloses /\ closing' = [closing EXCEPT ![tweak] = @ + 1]
        /\ UNCHANGED <<phase, link>>
        /\ tpc' \in {"walk", "locking"}
        /\ tslot' \in Nat \ {0}
        /\ tweak' \in {tweak, NoSession}
        /\ process' \in {"running", "crashed"}
    BY <1>16 DEF TerminateClose, RequestClose, lifeVars
  <2>2. UNCHANGED <<m_sessions, m_index, queue, starterVars, callerVars, tend, torn>>
    BY <1>16 DEF TerminateClose
  <2>3. closing' \in [Sessions -> 0 .. MaxCloses]
    <3>1. CASE tweak \in Sessions
      <4>1. closing \in [Sessions -> 0 .. MaxCloses] /\ MaxCloses \in Nat
        BY MaxClosesAssumption
      <4>2. closing[tweak] < MaxCloses => closing[tweak] + 1 \in 0 .. MaxCloses
        BY <3>1, <4>1
      <4>3. CASE closing' = closing
        BY <4>1, <4>3
      <4>4. CASE /\ closing[tweak] < MaxCloses
                 /\ closing' = [closing EXCEPT ![tweak] = @ + 1]
        BY <4>1, <4>2, <4>4
      <4> QED
        BY <2>1, <4>3, <4>4
    <3>2. CASE tweak \notin Sessions
      <4>1. [closing EXCEPT ![tweak] = @ + 1] = closing
        BY <3>2
      <4> QED
        BY <2>1, <4>1
    <3> QED
      BY <3>1, <3>2
  <2> QED
    BY <2>1, <2>2, <2>3 DEF starterVars, callerVars
<1>17. CASE TerminateEnd
  BY <1>17 DEF TerminateEnd, lifeVars, starterVars, callerVars
<1>18. CASE TerminateCrash
  BY <1>18 DEF TerminateCrash, lifeVars, starterVars, callerVars, walkVars
<1>19. ASSUME NEW s \in Sessions, SessionConnect(s) PROVE TypeOK'
  BY <1>19 DEF SessionConnect, Connect, poolVars, starterVars, callerVars, walkVars
<1>20. ASSUME NEW s \in Sessions, SessionWaitEnds(s) PROVE TypeOK'
  BY <1>20 DEF SessionWaitEnds, WaitEnds, poolVars, starterVars, callerVars, walkVars
<1>21. ASSUME NEW s \in Sessions, SessionClose(s) PROVE TypeOK'
  <2>1. closing' \in [Sessions -> 0 .. MaxCloses]
    BY <1>21, MaxClosesAssumption DEF SessionClose, Close
  <2>2. UNCHANGED phase /\ (UNCHANGED link \/ link' = [link EXCEPT ![s] = "closed"])
    BY <1>21 DEF SessionClose, Close
  <2> QED
    BY <1>21, <2>1, <2>2 DEF SessionClose, poolVars, starterVars, callerVars, walkVars
<1>22. CASE UNCHANGED vars
  BY <1>22 DEF vars, lifeVars, starterVars, callerVars, walkVars
<1> QED
  BY <1>1, <1>2, <1>3, <1>4, <1>5, <1>6, <1>7, <1>8, <1>9, <1>10, <1>11, <1>12,
     <1>13, <1>14, <1>15, <1>16, <1>17, <1>18, <1>19, <1>20, <1>21, <1>22
     DEF Next, StarterStep, CallerStep, TerminateStep, Down

-----------------------------------------------------------------------------
(* Who is alive.                                                           *)

(* An action that starts no session, makes no new shared_ptr and leaves    *)
(* the sessions' own coroutines alone, or ends them, revives nobody.       *)
LEMMA NobodyRevived ==
  ASSUME \A s \in Sessions : KeepsItself(s)' => s \in Live,
         \A p \in Starters : created'[p] \in Live \cup {created[p], NoSession},
         \A c \in Callers : held'[c] \in Live \cup {held[c], NoSession}
  PROVE  Live' \subseteq Live
<1> SUFFICES ASSUME NEW s \in Sessions, s \in Live' PROVE s \in Live
  BY DEF Live
<1>1. s # NoSession
  BY SessionsAssumption
<1>2. CASE KeepsItself(s)'
  BY <1>2
<1>3. ASSUME NEW p \in Starters, created'[p] = s PROVE s \in Live
  BY <1>1, <1>3 DEF Live, Expired, Owned
<1>4. ASSUME NEW c \in Callers, held'[c] = s PROVE s \in Live
  BY <1>1, <1>4 DEF Live, Expired, Owned
<1> QED
  BY <1>2, <1>3, <1>4 DEF Live, Expired, Owned

LEMMA KeepersLive ==
  ASSUME NEW s \in Sessions, KeepsItself(s)
  PROVE  s \in Live
  BY DEF Live, Expired, Owned

LEMMA HeldLive ==
  ASSUME NEW s \in Sessions, NEW c \in Callers, held[c] = s
  PROVE  s \in Live
  BY DEF Live, Expired, Owned

(* The actions that touch neither the vector nor a session's life.         *)
LEMMA LifeUnchanged ==
  ASSUME UNCHANGED <<lifeVars, created, held>>
  PROVE  Live' = Live
  BY DEF lifeVars, Live, Expired, Owned, KeepsItself

LEMMA LiveShrinks ==
  ASSUME TypeOK, [Next]_vars, \A p \in Starters : ~ StartCreate(p)
  PROVE  Live' \subseteq Live
<1> USE DEF TypeOK, LifeTypeOK, Phases, Links
<1>1. ASSUME UNCHANGED <<lifeVars, created, held>> PROVE Live' \subseteq Live
  BY <1>1, LifeUnchanged
<1>2. ASSUME NEW p \in Starters, StartRegister(p) PROVE Live' \subseteq Live
  <2>1. \A s \in Sessions : KeepsItself(s)' => s \in Live
    BY <1>2, KeepersLive DEF StartRegister, lifeVars, KeepsItself
  <2>2. \A q \in Starters : created'[q] \in {created[q], NoSession}
    BY <1>2 DEF StartRegister
  <2>3. UNCHANGED held
    BY <1>2 DEF StartRegister, callerVars
  <2> QED
    BY <2>1, <2>2, <2>3, NobodyRevived
<1>3. ASSUME NEW c \in Callers, QueryLock(c) PROVE Live' \subseteq Live
  <2>1. CASE weak[c] \in Expired
    BY <1>1, <1>3, <2>1 DEF QueryLock, starterVars, callerVars
  <2>2. CASE weak[c] \notin Expired
    <3>1. \A s \in Sessions : KeepsItself(s)' => s \in Live
      BY <1>3, KeepersLive DEF QueryLock, lifeVars, KeepsItself
    <3>2. weak[c] \in Live \cup {NoSession}
      BY <2>2 DEF Live
    <3>3. held' = [held EXCEPT ![c] = weak[c]]
      BY <1>3, <2>2 DEF QueryLock
    <3>4. \A d \in Callers : held'[d] \in Live \cup {held[d], NoSession}
      BY <3>2, <3>3
    <3>5. UNCHANGED created
      BY <1>3 DEF QueryLock, starterVars
    <3> QED
      BY <3>1, <3>4, <3>5, NobodyRevived
  <2> QED
    BY <2>1, <2>2
<1>4. ASSUME NEW c \in Callers, QueryRun(c) PROVE Live' \subseteq Live
  <2>1. \A s \in Sessions : KeepsItself(s)' => s \in Live
    BY <1>4, KeepersLive DEF QueryRun, Run, KeepsItself
  <2>2. \A d \in Callers : held'[d] \in {held[d], NoSession}
    BY <1>4 DEF QueryRun
  <2>3. UNCHANGED created
    BY <1>4 DEF QueryRun, starterVars
  <2> QED
    BY <2>1, <2>2, <2>3, NobodyRevived
<1>5. ASSUME TerminateClose PROVE Live' \subseteq Live
  <2>1. UNCHANGED <<created, held>>
    BY <1>5 DEF TerminateClose, starterVars, callerVars
  <2>2. CASE tweak \in Expired
    BY <1>1, <1>5, <2>1, <2>2 DEF TerminateClose
  <2>3. CASE tweak \notin Expired
    <3>1. tweak \in Sessions => tweak \in Live
      BY <2>3 DEF Live
    <3>2. UNCHANGED phase /\ closing' = [closing EXCEPT ![tweak] = @ + 1]
      BY <1>5, <2>3 DEF TerminateClose, RequestClose
    <3>3. ASSUME NEW s \in Sessions, s # tweak
          PROVE  KeepsItself(s)' => KeepsItself(s)
      BY <3>2, <3>3 DEF KeepsItself
    <3>4. \A s \in Sessions : KeepsItself(s)' => s \in Live
      BY <3>1, <3>3, KeepersLive
    <3> QED
      BY <2>1, <3>4, NobodyRevived
  <2> QED
    BY <2>2, <2>3
<1>6. ASSUME NEW s \in Sessions, SessionConnect(s) PROVE Live' \subseteq Live
  <2>1. \A t \in Sessions : KeepsItself(t)' => t \in Live
    BY <1>6, KeepersLive DEF SessionConnect, Connect, KeepsItself
  <2>2. UNCHANGED <<created, held>>
    BY <1>6 DEF SessionConnect, poolVars, starterVars, callerVars
  <2> QED
    BY <2>1, <2>2, NobodyRevived
<1>7. ASSUME NEW s \in Sessions, SessionWaitEnds(s) PROVE Live' \subseteq Live
  <2>1. \A t \in Sessions : KeepsItself(t)' => t \in Live
    BY <1>7, KeepersLive DEF SessionWaitEnds, WaitEnds, KeepsItself
  <2>2. UNCHANGED <<created, held>>
    BY <1>7 DEF SessionWaitEnds, poolVars, starterVars, callerVars
  <2> QED
    BY <2>1, <2>2, NobodyRevived
<1>8. ASSUME NEW s \in Sessions, SessionClose(s) PROVE Live' \subseteq Live
  <2>1. \A t \in Sessions : KeepsItself(t)' => t \in Live
    BY <1>8, KeepersLive DEF SessionClose, Close, KeepsItself
  <2>2. UNCHANGED <<created, held>>
    BY <1>8 DEF SessionClose, poolVars, starterVars, callerVars
  <2> QED
    BY <2>1, <2>2, NobodyRevived
<1>9. ASSUME NEW p \in Starters, ConnectSpawn(p) \/ StartPost(p) \/ StartPrune(p) \/ StartRefuse(p)
      PROVE  UNCHANGED <<lifeVars, created, held>>
  BY <1>9 DEF ConnectSpawn, StartPost, StartPrune, StartRefuse, callerVars
<1>10. ASSUME NEW c \in Callers,
              Execute(c) \/ QueryReject(c) \/ QuerySelect(c) \/ QuerySelectCrash(c) \/ QueryCheck(c)
       PROVE  UNCHANGED <<lifeVars, created, held>>
  BY <1>10 DEF Execute, QueryReject, QuerySelect, QuerySelectCrash, QueryCheck,
               starterVars, callerVars
<1>11. ASSUME TerminateBegin \/ TerminateCheck \/ TerminateEnd \/ TerminateCrash
       PROVE  UNCHANGED <<lifeVars, created, held>>
  BY <1>11 DEF TerminateBegin, TerminateCheck, TerminateEnd, TerminateCrash,
               starterVars, callerVars
<1>12. ASSUME UNCHANGED vars PROVE UNCHANGED <<lifeVars, created, held>>
  BY <1>12 DEF vars, starterVars, callerVars
<1> QED
  BY <1>1, <1>2, <1>3, <1>4, <1>5, <1>6, <1>7, <1>8, <1>9, <1>10, <1>11, <1>12
     DEF Next, StarterStep, CallerStep, TerminateStep, Down

-----------------------------------------------------------------------------
(* The strand.                                                             *)

LEMMA OthersOffStrand ==
  ASSUME StarterOnStrand, NEW a, OnStrand(a), NEW q \in Starters, q # a
  PROVE  spc[q] \notin {"pruned", "created"}
  BY DEF StarterOnStrand, OnStrand

LEMMA AppendKeepsHolder ==
  ASSUME queue \in Seq(Starters \cup Callers), NEW a, OnStrand(a),
         NEW b \in Starters \cup Callers, queue' = Append(queue, b)
  PROVE  OnStrand(a)'
  BY HeadTailAppend, AppendProperties DEF OnStrand

LEMMA NextStarterOnStrand ==
  ASSUME TypeOK, StarterOnStrand, [Next]_vars
  PROVE  StarterOnStrand'
<1>1. /\ queue \in Seq(Starters \cup Callers)
      /\ spc \in [Starters -> {"idle", "spawned", "posted", "pruned", "created"}]
  BY DEF TypeOK
<1>2. ASSUME NEW p \in Starters, ConnectSpawn(p) PROVE StarterOnStrand'
  BY <1>1, <1>2, AppendKeepsHolder DEF ConnectSpawn, StarterOnStrand
<1>3. ASSUME NEW p \in Starters, OnStrand(p), NEW pc \in {"posted", "idle"},
             spc' = [spc EXCEPT ![p] = pc]
      PROVE  StarterOnStrand'
  BY <1>1, <1>3, OthersOffStrand DEF StarterOnStrand
<1>4. ASSUME NEW p \in Starters, OnStrand(p), NEW pc \in {"pruned", "created"},
             spc' = [spc EXCEPT ![p] = pc], UNCHANGED queue
      PROVE  StarterOnStrand'
  BY <1>1, <1>4, OthersOffStrand DEF StarterOnStrand, OnStrand
<1>5. ASSUME NEW c \in Callers, OnStrand(c), UNCHANGED spc PROVE StarterOnStrand'
  BY <1>5, OthersOffStrand, ActorsAssumption DEF StarterOnStrand
<1>6. ASSUME NEW c \in Callers, Execute(c) PROVE StarterOnStrand'
  BY <1>1, <1>6, AppendKeepsHolder DEF Execute, StarterOnStrand, starterVars
<1>7. ASSUME UNCHANGED <<queue, spc>> PROVE StarterOnStrand'
  BY <1>7 DEF StarterOnStrand, OnStrand
<1>8. ASSUME NEW p \in Starters, StarterStep(p) PROVE StarterOnStrand'
  BY <1>3, <1>4, <1>8
     DEF StarterStep, StartPost, StartPrune, StartRefuse, StartCreate, StartRegister
<1>9. ASSUME NEW c \in Callers, CallerStep(c) PROVE StarterOnStrand'
  BY <1>5, <1>7, <1>9
     DEF CallerStep, QueryReject, QuerySelect, QuerySelectCrash, MaySelect, QueryCheck,
         QueryLock, QueryRun, starterVars
<1>10. ASSUME TerminateBegin \/ TerminateStep PROVE UNCHANGED <<queue, spc>>
  BY <1>10 DEF TerminateBegin, TerminateStep, TerminateCheck, TerminateClose, TerminateEnd,
               TerminateCrash, starterVars
<1>11. ASSUME NEW s \in Sessions,
              SessionConnect(s) \/ SessionWaitEnds(s) \/ SessionClose(s)
       PROVE  UNCHANGED <<queue, spc>>
  BY <1>11 DEF SessionConnect, SessionWaitEnds, SessionClose, poolVars, starterVars
<1>12. ASSUME UNCHANGED vars PROVE UNCHANGED <<queue, spc>>
  BY <1>12 DEF vars, starterVars
<1> QED
  BY <1>2, <1>6, <1>7, <1>8, <1>9, <1>10, <1>11, <1>12 DEF Next, Down

LEMMA NextCreatedOwned ==
  ASSUME TypeOK, CreatedOwned, [Next]_vars
  PROVE  CreatedOwned'
<1>1. /\ created \in [Starters -> Sessions \cup {NoSession}]
      /\ spc \in [Starters -> {"idle", "spawned", "posted", "pruned", "created"}]
  BY DEF TypeOK
<1>2. ASSUME UNCHANGED <<created, spc>> PROVE CreatedOwned'
  BY <1>2 DEF CreatedOwned
<1>3. ASSUME NEW p \in Starters, spc[p] # "created", UNCHANGED created,
             NEW pc \in {"spawned", "posted", "pruned", "idle"},
             spc' = [spc EXCEPT ![p] = pc]
      PROVE  CreatedOwned'
  BY <1>1, <1>3 DEF CreatedOwned
<1>4. ASSUME NEW p \in Starters, StartCreate(p) PROVE CreatedOwned'
  BY <1>1, <1>4, SessionsAssumption DEF StartCreate, CreatedOwned
<1>5. ASSUME NEW p \in Starters, StartRegister(p) PROVE CreatedOwned'
  BY <1>1, <1>5 DEF StartRegister, CreatedOwned
<1>6. ASSUME NEW p \in Starters, ConnectSpawn(p) PROVE CreatedOwned'
  BY <1>3, <1>6 DEF ConnectSpawn
<1>7. ASSUME NEW p \in Starters, StarterStep(p) PROVE CreatedOwned'
  BY <1>3, <1>4, <1>5, <1>7 DEF StarterStep, StartPost, StartPrune, StartRefuse
<1>8. ASSUME NEW c \in Callers, Execute(c) \/ CallerStep(c) PROVE UNCHANGED <<created, spc>>
  BY <1>8 DEF Execute, CallerStep, QueryReject, QuerySelect, QuerySelectCrash, QueryCheck,
              QueryLock, QueryRun, starterVars
<1>9. ASSUME TerminateBegin \/ TerminateStep PROVE UNCHANGED <<created, spc>>
  BY <1>9 DEF TerminateBegin, TerminateStep, TerminateCheck, TerminateClose, TerminateEnd,
              TerminateCrash, starterVars
<1>10. ASSUME NEW s \in Sessions,
              SessionConnect(s) \/ SessionWaitEnds(s) \/ SessionClose(s)
       PROVE  UNCHANGED <<created, spc>>
  BY <1>10 DEF SessionConnect, SessionWaitEnds, SessionClose, poolVars, starterVars
<1>11. ASSUME UNCHANGED vars PROVE UNCHANGED <<created, spc>>
  BY <1>11 DEF vars, starterVars
<1> QED
  BY <1>2, <1>6, <1>7, <1>8, <1>9, <1>10, <1>11 DEF Next, Down

-----------------------------------------------------------------------------
(* The vector.                                                             *)

(* Pruning makes the vector no longer and keeps whoever is alive.          *)
LEMMA PruneKeeps ==
  ASSUME TypeOK, NEW p \in Starters, StartPrune(p)
  PROVE  /\ Len(m_sessions') <= Len(m_sessions)
         /\ \A s \in Live : s \in Range(m_sessions) => s \in Range(m_sessions')
<1> DEFINE kept == {i \in DOMAIN m_sessions : Survives(i)}
<1>1. PICK f \in [1 .. Cardinality(kept) -> kept] :
        /\ Range(f) = kept
        /\ m_sessions' = [i \in DOMAIN f |-> m_sessions[f[i]]]
  BY DEF StartPrune
<1>2. kept \subseteq 1 .. Len(m_sessions) /\ Len(m_sessions) \in Nat
  BY LenProperties DEF TypeOK
<1>3. IsFiniteSet(1 .. Len(m_sessions)) /\ Cardinality(1 .. Len(m_sessions)) = Len(m_sessions)
  <2> DEFINE len == Len(m_sessions)
  <2>1. 1 \in Int /\ len \in Int
    BY <1>2
  <2>2. IsFiniteSet(1 .. len) /\ Cardinality(1 .. len) = IF 1 > len THEN 0 ELSE len - 1 + 1
    BY <2>1, FS_Interval
  <2> HIDE DEF len
  <2>3. len \in Nat => (IF 1 > len THEN 0 ELSE len - 1 + 1) = len
    OBVIOUS
  <2> QED
    BY <1>2, <2>2, <2>3 DEF len
<1>4. Cardinality(kept) \in Nat /\ Cardinality(kept) <= Len(m_sessions)
  BY <1>2, <1>3, FS_Subset, FS_CardinalityType
<1>5. DOMAIN m_sessions' = 1 .. Cardinality(kept)
  BY <1>1
<1>6. Len(m_sessions') = Cardinality(kept)
  <2>1. m_sessions' \in Seq(Sessions)
    BY PruneType
  <2>2. Len(m_sessions') \in Nat /\ DOMAIN m_sessions' = 1 .. Len(m_sessions')
    BY <2>1, LenProperties
  <2> QED
    BY <1>4, <1>5, <2>2
<1>7. ASSUME NEW s \in Live, s \in Range(m_sessions) PROVE s \in Range(m_sessions')
  <2>1. PICK i \in DOMAIN m_sessions : m_sessions[i] = s
    BY <1>7 DEF Range
  <2>2. i \in kept
    BY <2>1 DEF Survives, Live
  <2>3. PICK k \in DOMAIN f : f[k] = i
    BY <1>1, <2>2 DEF Range
  <2>4. k \in DOMAIN m_sessions' /\ m_sessions'[k] = s
    BY <1>1, <2>1, <2>3
  <2> QED
    BY <2>4 DEF Range
<1> QED
  BY <1>4, <1>6, <1>7

(* Only a starter's last step lengthens the vector.                        *)
LEMMA VectorSteps ==
  ASSUME [Next]_vars
  PROVE  \/ UNCHANGED m_sessions
         \/ \E p \in Starters : StartPrune(p) \/ StartRegister(p)
  BY DEF Next, vars, Down, ConnectSpawn, StarterStep, StartPost, StartRefuse, StartCreate,
         Execute, CallerStep, QueryReject, QuerySelect, QuerySelectCrash, QueryCheck,
         QueryLock, QueryRun, TerminateBegin, TerminateStep, TerminateCheck,
         TerminateClose, TerminateEnd, TerminateCrash, SessionConnect, SessionWaitEnds,
         SessionClose, poolVars

LEMMA CreatedSteps ==
  ASSUME [Next]_vars
  PROVE  \/ UNCHANGED created
         \/ \E p \in Starters : StartCreate(p) \/ StartRegister(p)
  BY DEF Next, vars, starterVars, Down, ConnectSpawn, StarterStep, StartPost, StartRefuse,
         StartPrune, Execute, CallerStep, QueryReject, QuerySelect, QuerySelectCrash,
         QueryCheck, QueryLock, QueryRun, TerminateBegin, TerminateStep, TerminateCheck,
         TerminateClose, TerminateEnd, TerminateCrash, SessionConnect, SessionWaitEnds,
         SessionClose, poolVars

LEMMA RangeOfAppend ==
  ASSUME NEW S, NEW seq \in Seq(S), NEW elt \in S
  PROVE  Range(Append(seq, elt)) = Range(seq) \cup {elt}
<1>1. /\ Len(seq) \in Nat
      /\ Append(seq, elt) \in Seq(S)
      /\ Len(Append(seq, elt)) = Len(seq) + 1
      /\ \A i \in 1 .. Len(seq) : Append(seq, elt)[i] = seq[i]
      /\ Append(seq, elt)[Len(seq) + 1] = elt
  BY LenProperties, AppendProperties
<1> DEFINE n == Len(seq)
           longer == Append(seq, elt)
<1>2. Range(seq) = {seq[i] : i \in 1 .. n}
  BY RangeEquality
<1>3. Range(longer) = {longer[i] : i \in 1 .. n + 1}
  BY <1>1, RangeEquality
<1>4. 1 .. n + 1 = (1 .. n) \cup {n + 1}
  BY <1>1
<1> HIDE DEF n, longer
<1> QED
  BY <1>1, <1>2, <1>3, <1>4 DEF n, longer

LEMMA NextVectorBound ==
  ASSUME IInv, [Next]_vars
  PROVE  VectorBound'
<1>1. /\ TypeOK
      /\ CreatedOwned
      /\ StarterOnStrand
      /\ VectorBound
      /\ Len(m_sessions) \in Nat
      /\ MaxSessions \in Nat
      /\ spc \in [Starters -> {"idle", "spawned", "posted", "pruned", "created"}]
  BY LenProperties, MaxAssumption DEF IInv, TypeOK
<1>2. ASSUME NEW p \in Starters, StartPrune(p) PROVE VectorBound'
  <2>1. m_sessions' \in Seq(Sessions) /\ Len(m_sessions') <= Len(m_sessions)
    BY <1>1, <1>2, PruneType, PruneKeeps
  <2>2. Len(m_sessions') \in Nat
    BY <2>1, LenProperties
  <2>3. \A q \in Starters : spc'[q] # "created"
    BY <1>1, <1>2, OthersOffStrand DEF StartPrune
  <2> QED
    BY <1>1, <2>1, <2>2, <2>3 DEF VectorBound
<1>3. ASSUME NEW p \in Starters, StartRegister(p) PROVE VectorBound'
  <2>1. created[p] \in Sessions
    BY <1>1, <1>3 DEF StartRegister, CreatedOwned, TypeOK
  <2>2. Len(m_sessions') = Len(m_sessions) + 1
    BY <1>1, <1>3, <2>1, AppendProperties DEF StartRegister, TypeOK
  <2>3. Len(m_sessions) < MaxSessions
    BY <1>1, <1>3 DEF StartRegister, VectorBound
  <2>4. \A q \in Starters : spc'[q] # "created"
    BY <1>1, <1>3, OthersOffStrand DEF StartRegister
  <2> QED
    BY <1>1, <2>2, <2>3, <2>4 DEF VectorBound
<1>4. ASSUME NEW p \in Starters, StartCreate(p) PROVE VectorBound'
  BY <1>1, <1>4 DEF StartCreate, Full, VectorBound
<1>5. ASSUME UNCHANGED m_sessions, \A q \in Starters : spc'[q] = "created" => spc[q] = "created"
      PROVE  VectorBound'
  BY <1>1, <1>5 DEF VectorBound
<1>6. ASSUME NEW p \in Starters, ConnectSpawn(p) \/ StartPost(p) \/ StartRefuse(p)
      PROVE  VectorBound'
  BY <1>1, <1>5, <1>6 DEF ConnectSpawn, StartPost, StartRefuse
<1>7. ASSUME NEW c \in Callers, Execute(c) \/ CallerStep(c)
      PROVE  UNCHANGED <<m_sessions, spc>>
  BY <1>7 DEF Execute, CallerStep, QueryReject, QuerySelect, QuerySelectCrash, QueryCheck,
              QueryLock, QueryRun, starterVars
<1>8. ASSUME TerminateBegin \/ TerminateStep PROVE UNCHANGED <<m_sessions, spc>>
  BY <1>8 DEF TerminateBegin, TerminateStep, TerminateCheck, TerminateClose, TerminateEnd,
              TerminateCrash, starterVars
<1>9. ASSUME NEW s \in Sessions,
             SessionConnect(s) \/ SessionWaitEnds(s) \/ SessionClose(s)
      PROVE  UNCHANGED <<m_sessions, spc>>
  BY <1>9 DEF SessionConnect, SessionWaitEnds, SessionClose, poolVars, starterVars
<1>10. ASSUME UNCHANGED vars PROVE UNCHANGED <<m_sessions, spc>>
  BY <1>10 DEF vars, starterVars
<1> QED
  BY <1>2, <1>3, <1>4, <1>5, <1>6, <1>7, <1>8, <1>9, <1>10 DEF Next, StarterStep, Down

-----------------------------------------------------------------------------
(* Live sessions are registered.                                           *)

LEMMA NextLiveRegistered ==
  ASSUME IInv, [Next]_vars
  PROVE  LiveRegistered'
<1>1. TypeOK /\ CreatedOwned /\ LiveRegistered
  BY DEF IInv
<1>2. /\ created \in [Starters -> Sessions \cup {NoSession}]
      /\ m_sessions \in Seq(Sessions)
  BY <1>1 DEF TypeOK
<1>3. ASSUME NEW p \in Starters, StartCreate(p) PROVE LiveRegistered'
  <2>1. PICK s \in Sessions : Start(s) /\ created' = [created EXCEPT ![p] = s]
    BY <1>3 DEF StartCreate
  <2>2. UNCHANGED <<m_sessions, held>>
    BY <1>3 DEF StartCreate, callerVars
  <2>3. created[p] = NoSession
    BY <1>1, <1>3 DEF StartCreate, CreatedOwned
  <2>4. ASSUME NEW t \in Live', t # s
        PROVE  t \in Live
    <3>1. t \in Sessions /\ Owned(t)'
      BY <2>4 DEF Live, Expired
    <3>2. KeepsItself(t)' => KeepsItself(t)
      BY <2>1, <2>4 DEF Start, KeepsItself
    <3>3. \A q \in Starters : created'[q] = t => created[q] = t
      BY <1>2, <2>1, <2>4
    <3> QED
      BY <3>1, <3>2, <3>3, <2>2 DEF Live, Expired, Owned
  <2>5. created'[p] = s
    BY <1>2, <2>1
  <2>6. ASSUME NEW t \in Live', t # s
        PROVE  t \in Range(m_sessions) \/ \E q \in Starters : created'[q] = t
    <3>1. t \in Live /\ t # NoSession
      BY <2>4, <2>6, SessionsAssumption DEF Live
    <3>2. CASE t \in Range(m_sessions)
      BY <3>2
    <3>3. CASE \E q \in Starters : created[q] = t
      BY <1>2, <2>1, <2>3, <3>1, <3>3
    <3> QED
      BY <1>1, <3>1, <3>2, <3>3 DEF LiveRegistered
  <2> QED
    BY <2>2, <2>5, <2>6 DEF LiveRegistered
<1>4. ASSUME NEW p \in Starters, StartRegister(p) PROVE LiveRegistered'
  <2>1. created[p] \in Sessions
    BY <1>1, <1>2, <1>4 DEF StartRegister, CreatedOwned
  <2>2. /\ m_sessions' = Append(m_sessions, created[p])
        /\ created' = [created EXCEPT ![p] = NoSession]
    BY <1>4 DEF StartRegister
  <2>3. \A q \in Starters : ~ StartCreate(q)
    BY <1>4 DEF StartRegister, StartCreate, OnStrand
  <2>4. Live' \subseteq Live
    BY <1>1, <2>3, LiveShrinks
  <2>5. Range(m_sessions') = Range(m_sessions) \cup {created[p]}
    BY <1>2, <2>1, <2>2, RangeOfAppend
  <2> QED
    BY <1>1, <1>2, <2>2, <2>4, <2>5 DEF LiveRegistered
<1>5. ASSUME NEW p \in Starters, StartPrune(p) PROVE LiveRegistered'
  <2>1. UNCHANGED <<lifeVars, created, held>>
    BY <1>5 DEF StartPrune, callerVars
  <2>2. Live' = Live
    BY <2>1, LifeUnchanged
  <2>3. \A s \in Live : s \in Range(m_sessions) => s \in Range(m_sessions')
    BY <1>1, <1>5, PruneKeeps
  <2> QED
    BY <1>1, <2>1, <2>2, <2>3 DEF LiveRegistered
<1>6. ASSUME \A p \in Starters : ~ (StartCreate(p) \/ StartRegister(p) \/ StartPrune(p))
      PROVE  LiveRegistered'
  <2>1. Live' \subseteq Live
    BY <1>1, <1>6, LiveShrinks
  <2>2. UNCHANGED m_sessions
    BY <1>6, VectorSteps
  <2>3. UNCHANGED created
    BY <1>6, CreatedSteps
  <2> QED
    BY <1>1, <2>1, <2>2, <2>3 DEF LiveRegistered
<1> QED
  BY <1>3, <1>4, <1>5, <1>6

-----------------------------------------------------------------------------
(* The bound.                                                              *)

LEMMA SequenceCovers ==
  ASSUME NEW seq \in Seq(Sessions), Live \subseteq Range(seq)
  PROVE  Cardinality(Live) \in Nat /\ Cardinality(Live) <= Len(seq)
<1> DEFINE n == Len(seq)
<1>1. n \in Nat /\ seq \in [1 .. n -> Sessions]
  BY LenProperties
<1>2. seq \in Surjection(1 .. n, Range(seq))
  BY <1>1, Fun_RangeProperties
<1>3. ExistsSurjection(1 .. n, Range(seq))
  BY <1>2 DEF ExistsSurjection
<1>4. Cardinality(Range(seq)) <= n
  BY <1>1, <1>3, FS_SurjCardinalityBound
<1>5. IsFiniteSet(Range(seq))
  BY <1>1, <1>3, FS_NatSurjection
<1>6. /\ IsFiniteSet(Live)
      /\ Cardinality(Live) <= Cardinality(Range(seq))
  BY <1>5, FS_Subset
<1>7. Cardinality(Live) \in Nat /\ Cardinality(Range(seq)) \in Nat
  BY <1>5, <1>6, FS_CardinalityType
<1> QED
  BY <1>1, <1>4, <1>6, <1>7

LEMMA IInvPoolBound == IInv => PoolBound
<1> SUFFICES ASSUME IInv PROVE Cardinality(Live) <= MaxSessions
  BY DEF PoolBound
<1>1. /\ m_sessions \in Seq(Sessions)
      /\ Len(m_sessions) \in Nat
      /\ MaxSessions \in Nat
      /\ \A s \in Live : s # NoSession
  BY LenProperties, MaxAssumption, SessionsAssumption DEF IInv, TypeOK, Live
<1>2. CASE \A p \in Starters : spc[p] # "created"
  <2>1. Live \subseteq Range(m_sessions)
    BY <1>1, <1>2 DEF IInv, CreatedOwned, LiveRegistered
  <2>2. Cardinality(Live) \in Nat /\ Cardinality(Live) <= Len(m_sessions)
    BY <1>1, <2>1, SequenceCovers
  <2> QED
    BY <1>1, <2>2 DEF IInv, VectorBound
<1>3. ASSUME NEW p \in Starters, spc[p] = "created"
      PROVE  Cardinality(Live) <= MaxSessions
  <2>1. \A q \in Starters : q # p => created[q] = NoSession
    BY <1>3, OthersOffStrand DEF IInv, StarterOnStrand, CreatedOwned
  <2>2. created[p] \in Sessions
    BY <1>3 DEF IInv, TypeOK, CreatedOwned
  <2>3. Live \subseteq Range(m_sessions) \cup {created[p]}
    BY <1>1, <2>1 DEF IInv, LiveRegistered
  <2>4. /\ Append(m_sessions, created[p]) \in Seq(Sessions)
        /\ Len(Append(m_sessions, created[p])) = Len(m_sessions) + 1
    BY <1>1, <2>2, AppendProperties
  <2>5. Live \subseteq Range(Append(m_sessions, created[p]))
    BY <1>1, <2>2, <2>3, RangeOfAppend
  <2>6. Cardinality(Live) \in Nat /\ Cardinality(Live) <= Len(m_sessions) + 1
    BY <2>4, <2>5, SequenceCovers
  <2>7. Len(m_sessions) < MaxSessions
    BY <1>3 DEF IInv, VectorBound
  <2> QED
    BY <1>1, <2>6, <2>7
<1> QED
  BY <1>2, <1>3

-----------------------------------------------------------------------------
(* The theorems.                                                           *)

LEMMA InitIInv == Init => IInv
<1> SUFFICES ASSUME Init PROVE IInv
  OBVIOUS
<1>1. TypeOK
  BY InitTypeOK
<1>2. StarterOnStrand /\ CreatedOwned
  BY DEF Init, StarterOnStrand, CreatedOwned
<1>3. VectorBound
  BY MaxAssumption, EmptySeq DEF Init, VectorBound
<1>4. Live = {}
  BY SessionsAssumption DEF Init, LifeInit, Live, Expired, Owned, KeepsItself
<1> QED
  BY <1>1, <1>2, <1>3, <1>4 DEF IInv, LiveRegistered

LEMMA NextIInv == IInv /\ [Next]_vars => IInv'
<1> SUFFICES ASSUME IInv, [Next]_vars PROVE IInv'
  OBVIOUS
<1>1. TypeOK /\ CreatedOwned /\ StarterOnStrand
  BY DEF IInv
<1>2. TypeOK'
  BY <1>1, NextTypeOK
<1>3. StarterOnStrand'
  BY <1>1, NextStarterOnStrand
<1>4. CreatedOwned'
  BY <1>1, NextCreatedOwned
<1>5. VectorBound'
  BY NextVectorBound
<1>6. LiveRegistered'
  BY NextLiveRegistered
<1> QED
  BY <1>2, <1>3, <1>4, <1>5, <1>6 DEF IInv

(* The inductive invariant holds of every behaviour of the pool: the       *)
(* starter that has pruned the vector is the one on the strand, and the    *)
(* vector is within its bound and lists whoever is alive.                  *)
THEOREM PoolInvariant == Spec => []IInv
  BY InitIInv, NextIInv, PTL DEF Spec

(* Every variable of the pool keeps its type, for any number of sessions,  *)
(* starters and callers; the vector holds sessions only, because a starter *)
(* registers what it has created (start_session, pg_data_base.h:164-187).  *)
THEOREM TypeCorrect == Spec => []TypeOK
<1>1. IInv => TypeOK
  BY DEF IInv
<1> QED
  BY <1>1, PoolInvariant, PTL

(* A session somebody still uses is never lost from the vector, whatever   *)
(* the interleaving of pruning, queries and ends of sessions.              *)
THEOREM NobodyLost == Spec => []LiveRegistered
<1>1. IInv => LiveRegistered
  BY DEF IInv
<1> QED
  BY <1>1, PoolInvariant, PTL

(* There are never more live sessions than max_sessions (pg_data_base.h:   *)
(* 177), for any max_sessions and any number of concurrent starters.       *)
THEOREM PoolBounded == Spec => []PoolBound
  BY PoolInvariant, IInvPoolBound, PTL

(* Only QuerySelect brings a caller to "selected".                         *)
LEMMA SelectedBySelect ==
  ASSUME TypeOK, [Next]_vars, NEW c \in Callers, qpc[c] = "queued", qpc'[c] = "selected"
  PROVE  QuerySelect(c)
<1>1. qpc \in [Callers -> {"idle", "empty", "queued", "selected", "locking", "posted"}]
  BY DEF TypeOK
<1>2. ~ UNCHANGED qpc
  OBVIOUS
<1>3. ASSUME NEW d \in Callers, NEW pc \in {"idle", "empty", "queued", "locking", "posted"},
             qpc' = [qpc EXCEPT ![d] = pc]
      PROVE  FALSE
  BY <1>1, <1>3
<1>4. ASSUME NEW p \in Starters, ConnectSpawn(p) \/ StarterStep(p)
      PROVE  UNCHANGED qpc
  BY <1>4 DEF ConnectSpawn, StarterStep, StartPost, StartPrune, StartRefuse, StartCreate,
              StartRegister, callerVars
<1>5. ASSUME NEW d \in Callers, Execute(d) \/ QueryReject(d) \/ QueryRun(d)
      PROVE  FALSE
  BY <1>3, <1>5 DEF Execute, QueryReject, QueryRun
<1>6. ASSUME NEW d \in Callers, QuerySelectCrash(d) \/ QueryCheck(d) \/ QueryLock(d)
      PROVE  FALSE
  <2>1. CASE QuerySelectCrash(d)
    BY <1>2, <2>1 DEF QuerySelectCrash, callerVars
  <2>2. CASE QueryCheck(d)
    BY <1>3, <2>2 DEF QueryCheck
  <2>3. CASE QueryLock(d)
    <3>1. UNCHANGED qpc \/ qpc' = [qpc EXCEPT ![d] = "posted"]
      BY <2>3 DEF QueryLock, callerVars
    <3> QED
      BY <1>2, <1>3, <3>1
  <2> QED
    BY <1>6, <2>1, <2>2, <2>3
<1>7. ASSUME NEW d \in Callers, QuerySelect(d) PROVE d = c
  BY <1>1, <1>7 DEF QuerySelect
<1>8. ASSUME TerminateBegin \/ TerminateStep PROVE UNCHANGED qpc
  BY <1>8 DEF TerminateBegin, TerminateStep, TerminateCheck, TerminateClose, TerminateEnd,
              TerminateCrash, callerVars
<1>9. ASSUME NEW s \in Sessions,
             SessionConnect(s) \/ SessionWaitEnds(s) \/ SessionClose(s)
      PROVE  UNCHANGED qpc
  BY <1>9 DEF SessionConnect, SessionWaitEnds, SessionClose, poolVars, callerVars
<1>10. ASSUME UNCHANGED vars PROVE UNCHANGED qpc
  BY <1>10 DEF vars, callerVars
<1> QED
  BY <1>2, <1>4, <1>5, <1>6, <1>7, <1>8, <1>9, <1>10 DEF Next, CallerStep, Down

(* For any vector, index and pool size, a selection yields a live session  *)
(* of the vector, or none when all are dead or the index is stale (select, *)
(* pg_data_base.h:23-33, as async_execute calls it).                       *)
THEOREM SelectionSound == Spec => SelectSound
<1>1. ASSUME IInv, [Next]_vars, NEW c \in Callers, qpc[c] = "queued", qpc'[c] = "selected"
      PROVE  IF weak'[c] = NoSession
             THEN Range(m_sessions) \subseteq Expired \/ m_index >= Len(m_sessions)
             ELSE weak'[c] \in Range(m_sessions) \cap Live
  <2> DEFINE chosen == Select(m_sessions, m_index, Expired)
  <2>1. TypeOK /\ QuerySelect(c)
    BY <1>1, SelectedBySelect DEF IInv
  <2>2. /\ m_sessions \in Seq(Sessions) /\ m_sessions # <<>> /\ m_index \in Nat
        /\ NoSession \notin Sessions
    BY <2>1, SessionsAssumption DEF QuerySelect, MaySelect, TypeOK
  <2>3. IF chosen.session = NoSession
        THEN Range(m_sessions) \subseteq Expired \/ m_index >= Len(m_sessions)
        ELSE chosen.session \in Range(m_sessions) \ Expired
    BY <2>2, SelectChooses
  <2>4. weak'[c] = chosen.session
    BY <2>1 DEF QuerySelect, TypeOK
  <2>5. Range(m_sessions) \subseteq Sessions
    BY <2>2, RangeOfSeq
  <2> HIDE DEF chosen
  <2> QED
    BY <2>3, <2>4, <2>5 DEF Live
<1>2. IInv /\ [Next]_vars
        => [\A c \in Callers :
              qpc[c] = "queued" /\ qpc'[c] = "selected"
                => IF weak'[c] = NoSession
                   THEN Range(m_sessions) \subseteq Expired \/ m_index >= Len(m_sessions)
                   ELSE weak'[c] \in Range(m_sessions) \cap Live]_vars
  BY <1>1
<1> QED
  BY <1>2, PoolInvariant, PTL DEF Spec, SelectSound

-----------------------------------------------------------------------------
(* The pool and the lives of its sessions.                                 *)

(* Whoever has found a session alive has a session to lock, and whoever    *)
(* has locked one holds it.                                                *)
PointersKnown ==
  /\ \A c \in Callers : /\ qpc[c] = "locking" => weak[c] \in Sessions
                        /\ qpc[c] = "posted" => held[c] \in Sessions
  /\ tpc = "locking" => tweak \in Sessions

LEMMA NextPointersKnown ==
  ASSUME TypeOK, PointersKnown, [Next]_vars
  PROVE  PointersKnown'
<1> USE DEF PointersKnown
<1>1. ASSUME UNCHANGED <<callerVars, walkVars>> PROVE PointersKnown'
  BY <1>1 DEF callerVars, walkVars
<1>2. ASSUME NEW p \in Starters, ConnectSpawn(p) \/ StarterStep(p) PROVE PointersKnown'
  BY <1>1, <1>2 DEF ConnectSpawn, StarterStep, StartPost, StartPrune, StartRefuse,
                    StartCreate, StartRegister
<1>3. ASSUME NEW c \in Callers, Execute(c) \/ QueryReject(c) PROVE PointersKnown'
  BY <1>3 DEF Execute, QueryReject, TypeOK, walkVars
<1>4. ASSUME NEW c \in Callers, QuerySelect(c) PROVE PointersKnown'
  BY <1>4 DEF QuerySelect, TypeOK, walkVars
<1>5. ASSUME NEW c \in Callers, QuerySelectCrash(c) PROVE PointersKnown'
  BY <1>1, <1>5 DEF QuerySelectCrash
<1>6. ASSUME NEW c \in Callers, QueryCheck(c) PROVE PointersKnown'
  <2>1. CASE weak[c] \in Expired \cup {NoSession}
    BY <1>6, <2>1 DEF QueryCheck, TypeOK, walkVars
  <2>2. CASE weak[c] \notin Expired \cup {NoSession}
    BY <1>6, <2>2 DEF QueryCheck, TypeOK, walkVars
  <2> QED
    BY <2>1, <2>2
<1>7. ASSUME NEW c \in Callers, QueryLock(c) PROVE PointersKnown'
  <2>1. CASE weak[c] \in Expired
    BY <1>1, <1>7, <2>1 DEF QueryLock
  <2>2. CASE weak[c] \notin Expired
    BY <1>7, <2>2 DEF QueryLock, TypeOK, walkVars
  <2> QED
    BY <2>1, <2>2
<1>8. ASSUME NEW c \in Callers, QueryRun(c) PROVE PointersKnown'
  BY <1>8 DEF QueryRun, TypeOK, walkVars
<1>9. ASSUME TerminateBegin \/ TerminateEnd \/ TerminateCrash PROVE PointersKnown'
  BY <1>9 DEF TerminateBegin, TerminateEnd, TerminateCrash, callerVars, walkVars
<1>10. ASSUME TerminateCheck PROVE PointersKnown'
  <2>1. UNCHANGED <<qpc, weak, held>>
    BY <1>10 DEF TerminateCheck, callerVars
  <2>2. tpc' = "locking" => tweak' \in Sessions
    <3>1. CASE tslot <= Len(m_sessions) /\ m_sessions[tslot] \notin Expired
      <4>1. m_sessions[tslot] \in Sessions
        BY <3>1, ElementOfSeq DEF TypeOK
      <4> QED
        BY <1>10, <3>1, <4>1 DEF TerminateCheck
    <3>2. CASE ~ (tslot <= Len(m_sessions) /\ m_sessions[tslot] \notin Expired)
      BY <1>10, <3>2 DEF TerminateCheck
    <3> QED
      BY <3>1, <3>2
  <2> QED
    BY <2>1, <2>2
<1>11. ASSUME TerminateClose PROVE PointersKnown'
  BY <1>11 DEF TerminateClose, callerVars
<1>12. ASSUME NEW s \in Sessions, SessionConnect(s) \/ SessionWaitEnds(s) \/ SessionClose(s)
       PROVE  PointersKnown'
  BY <1>1, <1>12 DEF SessionConnect, SessionWaitEnds, SessionClose, poolVars
<1>13. ASSUME UNCHANGED vars PROVE PointersKnown'
  BY <1>1, <1>13 DEF vars
<1> QED
  BY <1>2, <1>3, <1>4, <1>5, <1>6, <1>7, <1>8, <1>9, <1>10, <1>11, <1>12, <1>13
     DEF Next, CallerStep, TerminateStep, Down

LEMMA PoolStepIsLifeStep ==
  ASSUME TypeOK, PointersKnown, [Next]_vars
  PROVE  [LifeNext]_lifeVars
<1>1. ASSUME NEW p \in Starters, ConnectSpawn(p) \/ StarterStep(p) PROVE [LifeNext]_lifeVars
  BY <1>1 DEF ConnectSpawn, StarterStep, StartPost, StartPrune, StartRefuse, StartCreate,
              StartRegister, LifeNext
<1>2. ASSUME NEW c \in Callers, Execute(c) \/ CallerStep(c) PROVE [LifeNext]_lifeVars
  <2>1. CASE QueryRun(c)
    BY <2>1 DEF QueryRun, PointersKnown, LifeNext
  <2>2. CASE ~ QueryRun(c)
    BY <1>2, <2>2 DEF Execute, CallerStep, QueryReject, QuerySelect, QuerySelectCrash,
                      QueryCheck, QueryLock
  <2> QED
    BY <2>1, <2>2
<1>3. ASSUME TerminateBegin \/ TerminateStep PROVE [LifeNext]_lifeVars
  <2>1. CASE TerminateClose
    BY <2>1 DEF TerminateClose, PointersKnown, LifeNext
  <2>2. CASE ~ TerminateClose
    BY <1>3, <2>2 DEF TerminateBegin, TerminateStep, TerminateCheck, TerminateEnd,
                      TerminateCrash
  <2> QED
    BY <2>1, <2>2
<1>4. ASSUME NEW s \in Sessions, SessionConnect(s) \/ SessionWaitEnds(s) \/ SessionClose(s)
      PROVE  [LifeNext]_lifeVars
  BY <1>4 DEF SessionConnect, SessionWaitEnds, SessionClose, LifeNext
<1>5. ASSUME UNCHANGED vars PROVE [LifeNext]_lifeVars
  BY <1>5 DEF vars
<1> QED
  BY <1>1, <1>2, <1>3, <1>4, <1>5 DEF Next, Down

(* Whatever starters, callers and terminate() do to the sessions, each     *)
(* step is one that PgSessionLife allows: a session is started only when   *)
(* nobody keeps it, closed and queried only through a pointer that was     *)
(* found alive, and otherwise goes its own way (pg_data_base.h:84, 101,    *)
(* 181-182).                                                               *)
THEOREM PoolImplementsLife == Spec => LifeSpec
<1>1. Init => LifeInit /\ PointersKnown
  BY DEF Init, PointersKnown
<1>2. TypeOK /\ PointersKnown /\ [Next]_vars => PointersKnown'
  BY NextPointersKnown
<1>3. TypeOK /\ PointersKnown /\ [Next]_vars => [LifeNext]_lifeVars
  BY PoolStepIsLifeStep
<1> QED
  BY <1>1, <1>2, <1>3, TypeCorrect, PTL DEF Spec, LifeSpec

=============================================================================
