--------------------------- MODULE PgSession_proofs ---------------------------
(***************************************************************************)
(* Proofs about one database session: what an answer tells its caller, who *)
(* may touch the connection during a transaction, and that the session is  *)
(* what the pool takes it for, for any set of queries and any number of    *)
(* closes.                                                                 *)
(***************************************************************************)
EXTENDS PgSession, SequenceTheorems, FiniteSetTheorems, FunctionTheorems, TLAPS

Jobs == Queries \cup {"start", "wait", "close"}

(* Only async_close may be in the strand more than once.                   *)
OnceEach ==
  \A i, j \in 1 .. Len(strand) :
    strand[i] = strand[j] /\ strand[i] # "close" => i = j

(* What a job in the strand says of its coroutine.  The coroutine of       *)
(* start() is the first that is posted; a query runs only at the head.     *)
JobsKnown ==
  \A i \in 1 .. Len(strand) :
    /\ strand[i] = "start" => i = 1 /\ phase = "started"
    /\ strand[i] = "wait" => wait \in {"ready", "aborted"} /\ phase = "waiting"
    /\ \A q \in Queries : strand[i] = q => pc[q] # "idle" /\ (i > 1 => pc[q] = "posted")

(* Until start() runs there is no connection, and nothing runs before it.  *)
StartFirst ==
  /\ phase = "none" => strand = <<>>
  /\ phase = "started" => strand # <<>> /\ strand[1] = "start"
  /\ phase \in {"none", "started"} => conn = "none" /\ sock = "closed"
  /\ wait = "armed" => phase = "waiting"

(* A query that has begun holds the strand, and the connection stays open. *)
RunningHolds ==
  \A q \in Queries :
    pc[q] \in {"begun", "executed", "committed"} =>
      /\ strand # <<>> /\ strand[1] = q
      /\ IsOpen

(* What a query has done, before it has answered.                          *)
Unanswered ==
  \A q \in Queries :
    pc[q] # "idle" =>
      /\ answer[q] = "none"
      /\ ec[q] = "clear"
      /\ effect[q] = IF pc[q] = "committed" THEN "yes" ELSE "no"

IInv ==
  /\ TypeOK
  /\ OnceEach
  /\ JobsKnown
  /\ StartFirst
  /\ RunningHolds
  /\ Unanswered
  /\ AnswerTellsEffect

-----------------------------------------------------------------------------
(* The strand, when its head leaves it or a job is posted.                 *)

LEMMA TailShifts ==
  ASSUME NEW S, NEW s \in Seq(S), s # <<>>
  PROVE  /\ Head(s) = s[1]
         /\ Len(s) \in Nat \ {0}
         /\ Tail(s) \in Seq(S)
         /\ Len(Tail(s)) = Len(s) - 1
         /\ \A i \in 1 .. Len(Tail(s)) :
              i + 1 \in 1 .. Len(s) /\ i + 1 > 1 /\ Tail(s)[i] = s[i + 1]
<1>1. Len(s) \in Nat \ {0}
  BY EmptySeq
<1>2. /\ Tail(s) \in Seq(S)
      /\ Len(Tail(s)) = Len(s) - 1
      /\ \A i \in 1 .. Len(Tail(s)) : Tail(s)[i] = s[i + 1]
  BY HeadTailProperties
<1>3. Head(s) = s[1]
  OBVIOUS
<1> QED
  BY <1>1, <1>2, <1>3

LEMMA AppendExtends ==
  ASSUME NEW S, NEW s \in Seq(S), NEW e \in S
  PROVE  /\ Append(s, e) \in Seq(S)
         /\ Len(s) \in Nat
         /\ Len(Append(s, e)) = Len(s) + 1
         /\ \A i \in 1 .. Len(s) : Append(s, e)[i] = s[i]
         /\ Append(s, e)[Len(s) + 1] = e
         /\ Append(s, e) # <<>>
         /\ s # <<>> => Append(s, e)[1] = s[1]
<1>1. Len(s) \in Nat /\ (s # <<>> => Len(s) # 0)
  BY EmptySeq, LenProperties
<1>2. /\ Append(s, e) \in Seq(S)
      /\ Len(Append(s, e)) = Len(s) + 1
      /\ \A i \in 1 .. Len(s) : Append(s, e)[i] = s[i]
      /\ Append(s, e)[Len(s) + 1] = e
  BY AppendProperties
<1>3. Append(s, e) # <<>>
  BY <1>1, <1>2, EmptySeq
<1> QED
  BY <1>1, <1>2, <1>3

(* The head leaves: nothing of it remains unless it was async_close.       *)
LEMMA LeaveKeeps ==
  ASSUME IInv, strand # <<>>, LeaveStrand
  PROVE  /\ strand[1] \in Jobs
         /\ Head(strand) = strand[1]
         /\ strand' \in Seq(Jobs)
         /\ OnceEach'
         /\ \A i \in 1 .. Len(strand') :
              /\ strand'[i] # strand[1] \/ strand'[i] = "close"
              /\ strand'[i] # "start"
              /\ strand'[i] = "wait" => wait \in {"ready", "aborted"} /\ phase = "waiting"
              /\ \A q \in Queries : strand'[i] = q => pc[q] = "posted"
<1>1. strand \in Seq(Jobs)
  BY DEF IInv, TypeOK, Jobs
<1>2. /\ Head(strand) = strand[1]
      /\ Len(strand) \in Nat \ {0}
      /\ strand' \in Seq(Jobs)
      /\ Len(strand') = Len(strand) - 1
      /\ \A i \in 1 .. Len(strand') :
           i + 1 \in 1 .. Len(strand) /\ i + 1 > 1 /\ strand'[i] = strand[i + 1]
  BY <1>1, TailShifts DEF LeaveStrand
<1>3. strand[1] \in Jobs
  BY <1>1, <1>2
<1>4. OnceEach'
  <2> SUFFICES ASSUME NEW i \in 1 .. Len(strand'), NEW j \in 1 .. Len(strand'),
                      strand'[i] = strand'[j], strand'[i] # "close"
               PROVE  i = j
    BY DEF OnceEach
  <2>1. i + 1 = j + 1
    BY <1>2 DEF IInv, OnceEach
  <2> QED
    BY <2>1, <1>2
<1>5. ASSUME NEW i \in 1 .. Len(strand')
      PROVE  /\ strand'[i] # strand[1] \/ strand'[i] = "close"
             /\ strand'[i] # "start"
             /\ strand'[i] = "wait" => wait \in {"ready", "aborted"} /\ phase = "waiting"
             /\ \A q \in Queries : strand'[i] = q => pc[q] = "posted"
  <2>1. /\ i + 1 \in 1 .. Len(strand)
        /\ i + 1 > 1
        /\ i + 1 # 1
        /\ 1 \in 1 .. Len(strand)
        /\ strand'[i] = strand[i + 1]
    BY <1>2
  <2>2. strand'[i] # strand[1] \/ strand'[i] = "close"
    BY <2>1 DEF IInv, OnceEach
  <2>3. /\ strand'[i] # "start"
        /\ strand'[i] = "wait" => wait \in {"ready", "aborted"} /\ phase = "waiting"
        /\ \A q \in Queries : strand'[i] = q => pc[q] = "posted"
    BY <2>1 DEF IInv, JobsKnown
  <2> QED
    BY <2>2, <2>3
<1> QED
  BY <1>2, <1>3, <1>4, <1>5

(* A job is posted that is not in the strand already.                      *)
LEMMA PostKeeps ==
  ASSUME IInv, NEW job \in Jobs, Post(job),
         job # "close" => \A i \in 1 .. Len(strand) : strand[i] # job
  PROVE  /\ strand' \in Seq(Jobs)
         /\ OnceEach'
         /\ strand' # <<>>
         /\ strand # <<>> => strand'[1] = strand[1]
         /\ strand = <<>> => strand'[1] = job
         /\ \A i \in 1 .. Len(strand') :
              \/ i \in 1 .. Len(strand) /\ strand'[i] = strand[i]
              \/ strand'[i] = job /\ (i = 1 => strand = <<>>)
<1>1. strand \in Seq(Jobs)
  BY DEF IInv, TypeOK, Jobs
<1>2. /\ strand' \in Seq(Jobs)
      /\ Len(strand) \in Nat
      /\ Len(strand') = Len(strand) + 1
      /\ \A i \in 1 .. Len(strand) : strand'[i] = strand[i]
      /\ strand'[Len(strand) + 1] = job
      /\ strand' # <<>>
      /\ strand # <<>> => strand'[1] = strand[1]
  BY <1>1, AppendExtends DEF Post
<1>3. strand = <<>> <=> Len(strand) = 0
  BY <1>1, EmptySeq
<1>4. \A i \in 1 .. Len(strand') :
        \/ i \in 1 .. Len(strand) /\ strand'[i] = strand[i]
        \/ i = Len(strand) + 1 /\ strand'[i] = job
  BY <1>2
<1>5. OnceEach'
  BY <1>2, <1>4 DEF IInv, OnceEach
<1>6. strand = <<>> => strand'[1] = job
  BY <1>2, <1>3
<1> QED
  BY <1>2, <1>3, <1>4, <1>5, <1>6

-----------------------------------------------------------------------------
(* The invariant is inductive.                                             *)

LEMMA InitIInv == Init => IInv
<1> SUFFICES ASSUME Init PROVE IInv
  OBVIOUS
<1>1. TypeOK
  BY DEF Init, TypeOK, Conns, Kinds, RowCounts
<1>2. OnceEach /\ JobsKnown
  BY DEF Init, OnceEach, JobsKnown
<1> QED
  BY <1>1, <1>2
     DEF Init, IInv, StartFirst, RunningHolds, Unanswered, AnswerTellsEffect

(* Jobs are known by name: the names of the session's own are no queries.  *)
LEMMA OwnJobs ==
  /\ "start" \in Jobs \ Queries
  /\ "wait" \in Jobs \ Queries
  /\ "close" \in Jobs \ Queries
  /\ Queries \subseteq Jobs
BY QueriesAssumption DEF Jobs

(* While a job of the session's own is at the head no query is running.    *)
LEMMA HeadRuns ==
  ASSUME IInv, strand # <<>>, NEW q \in Queries, strand[1] # q
  PROVE  pc[q] \in {"idle", "posted"}
BY DEF IInv, TypeOK, RunningHolds

LEMMA QueriesQuiet ==
  ASSUME IInv, UNCHANGED queryVars
  PROVE  Unanswered' /\ AnswerTellsEffect'
BY DEF IInv, queryVars, Unanswered, AnswerTellsEffect, TooManyRows

LEMMA StrandQuiet ==
  ASSUME IInv, UNCHANGED <<strand, phase, wait, pc>>
  PROVE  OnceEach' /\ JobsKnown'
BY DEF IInv, OnceEach, JobsKnown

LEMMA ConnectKeeps ==
  ASSUME IInv, Connect
  PROVE  IInv'
<1>1. strand # <<>> /\ LeaveStrand /\ UNCHANGED <<server, queryVars>>
  BY DEF Connect, OnStrand
<1>2. /\ strand[1] = "start"
      /\ strand' \in Seq(Jobs)
      /\ OnceEach'
      /\ \A i \in 1 .. Len(strand') :
           /\ strand'[i] # "start"
           /\ strand'[i] = "wait" => phase = "waiting"
           /\ \A q \in Queries : strand'[i] = q => pc[q] = "posted"
  BY <1>1, LeaveKeeps DEF Connect, OnStrand
<1>3. phase = "started" /\ conn = "none" /\ sock = "closed"
  <2>1. 1 \in 1 .. Len(strand)
    BY <1>1, TailShifts DEF IInv, TypeOK
  <2> QED
    BY <1>2, <2>1 DEF IInv, JobsKnown, StartFirst
<1>4. TypeOK'
  BY <1>1, <1>2 DEF Connect, IInv, TypeOK, queryVars, Conns, Jobs
<1>5. JobsKnown'
  BY <1>1, <1>2, <1>3 DEF JobsKnown, queryVars
<1>6. StartFirst'
  BY <1>3 DEF Connect, IInv, StartFirst
<1>7. RunningHolds'
  BY <1>1, <1>2, HeadRuns, OwnJobs DEF RunningHolds, queryVars
<1> QED
  BY <1>1, <1>2, <1>4, <1>5, <1>6, <1>7, QueriesQuiet DEF IInv

LEMMA ResumeKeeps ==
  ASSUME IInv, Resume
  PROVE  IInv'
<1>1. strand # <<>> /\ LeaveStrand /\ UNCHANGED <<conn, sock, server, queryVars>>
  BY DEF Resume, OnStrand
<1>2. /\ strand[1] = "wait"
      /\ strand' \in Seq(Jobs)
      /\ OnceEach'
      /\ \A i \in 1 .. Len(strand') :
           /\ strand'[i] # "start"
           /\ strand'[i] # "wait"
           /\ \A q \in Queries : strand'[i] = q => pc[q] = "posted"
  BY <1>1, LeaveKeeps DEF Resume, OnStrand
<1>3. phase = "waiting"
  <2>1. 1 \in 1 .. Len(strand)
    BY <1>1, TailShifts DEF IInv, TypeOK
  <2> QED
    BY <1>2, <2>1 DEF IInv, JobsKnown
<1>4. TypeOK'
  BY <1>1, <1>2 DEF Resume, IInv, TypeOK, queryVars, Jobs
<1>5. JobsKnown'
  BY <1>1, <1>2 DEF JobsKnown, queryVars
<1>6. StartFirst'
  BY <1>3 DEF Resume, IInv, StartFirst
<1>7. RunningHolds'
  BY <1>1, <1>2, HeadRuns, OwnJobs DEF RunningHolds, queryVars
<1> QED
  BY <1>1, <1>2, <1>4, <1>5, <1>6, <1>7, QueriesQuiet DEF IInv

LEMMA RunCloseKeeps ==
  ASSUME IInv, RunClose
  PROVE  IInv'
<1>1. strand # <<>> /\ LeaveStrand /\ UNCHANGED <<phase, wait, server, queryVars>>
  BY DEF RunClose, OnStrand
<1>2. /\ strand[1] = "close"
      /\ strand' \in Seq(Jobs)
      /\ OnceEach'
      /\ \A i \in 1 .. Len(strand') :
           /\ strand'[i] # "start"
           /\ strand'[i] = "wait" => wait \in {"ready", "aborted"} /\ phase = "waiting"
           /\ \A q \in Queries : strand'[i] = q => pc[q] = "posted"
  BY <1>1, LeaveKeeps DEF RunClose, OnStrand
<1>3. phase \notin {"none", "started"}
  BY <1>1, <1>2 DEF IInv, StartFirst
<1>4. TypeOK'
  BY <1>1, <1>2 DEF RunClose, IInv, TypeOK, queryVars, Conns, Jobs
<1>5. JobsKnown'
  BY <1>1, <1>2 DEF JobsKnown, queryVars
<1>6. StartFirst'
  BY <1>1, <1>3 DEF IInv, StartFirst
<1>7. RunningHolds'
  BY <1>1, <1>2, HeadRuns, OwnJobs DEF RunningHolds, queryVars
<1> QED
  BY <1>1, <1>2, <1>4, <1>5, <1>6, <1>7, QueriesQuiet DEF IInv

(* A job of the session's own is posted.                                   *)
LEMMA PostOwnKeeps ==
  ASSUME IInv, NEW job \in Jobs \ Queries, Post(job), UNCHANGED <<conn, sock, server, queryVars>>,
         job # "close" => \A i \in 1 .. Len(strand) : strand[i] # job,
         strand = <<>> \/ (phase' = phase /\ phase # "none")
  PROVE  /\ strand' \in Seq(Jobs)
         /\ OnceEach'
         /\ RunningHolds'
         /\ Unanswered'
         /\ AnswerTellsEffect'
<1>1. /\ strand' \in Seq(Jobs)
      /\ OnceEach'
      /\ strand' # <<>>
      /\ strand # <<>> => strand'[1] = strand[1]
  BY PostKeeps
<1>2. RunningHolds'
  BY <1>1 DEF IInv, RunningHolds, queryVars, IsOpen
<1> QED
  BY <1>1, <1>2, QueriesQuiet

LEMMA StartSessionKeeps ==
  ASSUME IInv, StartSession
  PROVE  IInv'
<1>1. phase = "none" /\ strand = <<>> /\ conn = "none" /\ sock = "closed"
  BY DEF StartSession, IInv, StartFirst
<1>2. /\ strand' \in Seq(Jobs)
      /\ OnceEach' /\ RunningHolds' /\ Unanswered' /\ AnswerTellsEffect'
  BY <1>1, PostOwnKeeps, OwnJobs DEF StartSession
<1>3. /\ strand' # <<>>
      /\ strand'[1] = "start"
      /\ \A i \in 1 .. Len(strand') : strand'[i] = "start" /\ i = 1
  <2>1. strand' = <<"start">>
    BY <1>1 DEF StartSession, Post
  <2> QED
    BY <2>1
<1>4. TypeOK'
  BY <1>2 DEF StartSession, IInv, TypeOK, queryVars, Jobs
<1>5. JobsKnown'
  BY <1>3, OwnJobs DEF StartSession, JobsKnown
<1>6. StartFirst'
  BY <1>1, <1>3 DEF StartSession, IInv, StartFirst
<1> QED
  BY <1>2, <1>4, <1>5, <1>6 DEF IInv

LEMMA WaitEndsKeeps ==
  ASSUME IInv, WaitReady \/ WaitFails
  PROVE  IInv'
<1>1. /\ wait = "armed"
      /\ wait' \in {"ready", "aborted"}
      /\ Post("wait")
      /\ UNCHANGED <<phase, conn, sock, server, queryVars>>
  BY DEF WaitReady, WaitFails
<1>2. phase = "waiting"
  BY <1>1 DEF IInv, StartFirst
<1>3. \A i \in 1 .. Len(strand) : strand[i] # "wait"
  BY <1>1 DEF IInv, JobsKnown
<1>4. /\ strand' \in Seq(Jobs)
      /\ OnceEach' /\ RunningHolds' /\ Unanswered' /\ AnswerTellsEffect'
  BY <1>1, <1>2, <1>3, PostOwnKeeps, OwnJobs
<1>5. \A i \in 1 .. Len(strand') :
        \/ i \in 1 .. Len(strand) /\ strand'[i] = strand[i]
        \/ strand'[i] = "wait"
  BY <1>1, <1>3, PostKeeps, OwnJobs
<1>6. TypeOK'
  BY <1>1, <1>4 DEF IInv, TypeOK, queryVars, Jobs
<1>7. JobsKnown'
  BY <1>1, <1>2, <1>5, OwnJobs DEF IInv, JobsKnown, queryVars
<1>8. StartFirst'
  BY <1>1, <1>2 DEF IInv, StartFirst
<1> QED
  BY <1>4, <1>6, <1>7, <1>8 DEF IInv

LEMMA RequestCloseKeeps ==
  ASSUME IInv, RequestClose
  PROVE  IInv'
<1>1. phase # "none" /\ Post("close") /\ UNCHANGED <<phase, wait, conn, sock, server, queryVars>>
  BY DEF RequestClose
<1>2. /\ strand' \in Seq(Jobs)
      /\ OnceEach' /\ RunningHolds' /\ Unanswered' /\ AnswerTellsEffect'
  BY <1>1, PostOwnKeeps, OwnJobs
<1>3. /\ strand' # <<>>
      /\ strand # <<>> => strand'[1] = strand[1]
      /\ \A i \in 1 .. Len(strand') :
           \/ i \in 1 .. Len(strand) /\ strand'[i] = strand[i]
           \/ strand'[i] = "close"
  BY <1>1, PostKeeps, OwnJobs
<1>4. TypeOK'
  BY <1>1, <1>2 DEF IInv, TypeOK, queryVars, Jobs
<1>5. JobsKnown'
  BY <1>1, <1>3, OwnJobs DEF IInv, JobsKnown, queryVars
<1>6. StartFirst'
  BY <1>1, <1>3 DEF IInv, StartFirst
<1> QED
  BY <1>2, <1>4, <1>5, <1>6 DEF IInv

LEMMA IssueKeeps ==
  ASSUME IInv, NEW q \in Queries, Issue(q)
  PROVE  IInv'
<1>1. /\ phase # "none" /\ pc[q] = "idle"
      /\ Post(q)
      /\ UNCHANGED <<phase, wait, conn, sock, server>>
      /\ pc' = [pc EXCEPT ![q] = "posted"]
      /\ rows' = [rows EXCEPT ![q] = 0]
      /\ answer' = [answer EXCEPT ![q] = "none"]
      /\ ec' = [ec EXCEPT ![q] = "clear"]
      /\ effect' = [effect EXCEPT ![q] = "no"]
  BY DEF Issue
<1>2. PICK k \in Kinds : kind' = [kind EXCEPT ![q] = k]
  BY DEF Issue
<1>3. \A i \in 1 .. Len(strand) : strand[i] # q
  BY <1>1 DEF IInv, JobsKnown
<1>4. /\ strand' \in Seq(Jobs)
      /\ OnceEach'
      /\ strand' # <<>>
      /\ strand # <<>> => strand'[1] = strand[1]
      /\ \A i \in 1 .. Len(strand') :
           \/ i \in 1 .. Len(strand) /\ strand'[i] = strand[i]
           \/ strand'[i] = q
  BY <1>1, <1>3, PostKeeps, OwnJobs
<1>5. TypeOK'
  BY <1>1, <1>2, <1>4 DEF IInv, TypeOK, Jobs, RowCounts
<1>6. /\ pc'[q] = "posted" /\ answer'[q] = "none" /\ ec'[q] = "clear" /\ effect'[q] = "no"
      /\ \A x \in Queries \ {q} : /\ pc'[x] = pc[x] /\ answer'[x] = answer[x]
                                  /\ ec'[x] = ec[x] /\ effect'[x] = effect[x]
                                  /\ kind'[x] = kind[x] /\ rows'[x] = rows[x]
  BY <1>1, <1>2 DEF IInv, TypeOK
<1>7. JobsKnown'
  BY <1>1, <1>4, <1>6, OwnJobs DEF IInv, JobsKnown
<1>8. StartFirst'
  BY <1>1, <1>4 DEF IInv, StartFirst
<1>9. RunningHolds'
  BY <1>1, <1>4, <1>6 DEF IInv, RunningHolds, IsOpen
<1>10. Unanswered' /\ AnswerTellsEffect'
  BY <1>6 DEF IInv, Unanswered, AnswerTellsEffect, TooManyRows
<1> QED
  BY <1>4, <1>5, <1>7, <1>8, <1>9, <1>10 DEF IInv

(* The query at the head of the strand.                                    *)
LEMMA HeadQuery ==
  ASSUME IInv, NEW q \in Queries, OnStrand(q)
  PROVE  /\ strand # <<>> /\ strand[1] = q
         /\ pc[q] # "idle"
         /\ phase \notin {"none", "started"}
         /\ \A x \in Queries \ {q} : pc[x] \in {"idle", "posted"}
<1>1. strand # <<>> /\ strand[1] = q /\ 1 \in 1 .. Len(strand)
  BY TailShifts DEF IInv, TypeOK, OnStrand
<1>2. pc[q] # "idle"
  BY <1>1 DEF IInv, JobsKnown
<1>3. phase \notin {"none", "started"}
  BY <1>1, OwnJobs DEF IInv, StartFirst
<1> QED
  BY <1>1, <1>2, <1>3, HeadRuns

(* A query goes on at the head of the strand.                              *)
LEMMA QueryGoesOn ==
  ASSUME IInv, NEW q \in Queries, OnStrand(q),
         NEW place \in {"begun", "executed", "committed"},
         pc' = [pc EXCEPT ![q] = place], IsOpen,
         UNCHANGED <<strand, phase, wait, conn, sock>>
  PROVE  OnceEach' /\ JobsKnown' /\ StartFirst' /\ RunningHolds'
<1>1. /\ strand # <<>> /\ strand[1] = q
      /\ \A x \in Queries \ {q} : pc[x] \in {"idle", "posted"}
  BY HeadQuery
<1>2. pc'[q] = place /\ \A x \in Queries \ {q} : pc'[x] = pc[x]
  BY DEF IInv, TypeOK
<1>3. OnceEach' /\ StartFirst'
  BY DEF IInv, OnceEach, StartFirst
<1>4. \A i \in 1 .. Len(strand) : strand[i] = q => i = 1
  <2>1. 1 \in 1 .. Len(strand)
    BY <1>1, TailShifts DEF IInv, TypeOK
  <2> QED
    BY <1>1, <2>1, OwnJobs DEF IInv, OnceEach
<1>5. JobsKnown'
  BY <1>2, <1>4 DEF IInv, JobsKnown
<1>6. RunningHolds'
  BY <1>1, <1>2 DEF RunningHolds, IsOpen
<1> QED
  BY <1>3, <1>5, <1>6

(* A query returns, and its place in the strand is free.                   *)
LEMMA QueryEnds ==
  ASSUME IInv, NEW q \in Queries, OnStrand(q), NEW value, NEW error,
         Return(q, value, error), UNCHANGED <<phase, wait, sock>>
  PROVE  /\ strand' \in Seq(Jobs)
         /\ OnceEach' /\ JobsKnown' /\ StartFirst' /\ RunningHolds'
         /\ pc'[q] = "idle" /\ ec'[q] = error
         /\ answer'[q] = IF kind[q] = "none" THEN "void" ELSE value
         /\ \A x \in Queries \ {q} : /\ pc'[x] = pc[x]
                                     /\ answer'[x] = answer[x]
                                     /\ ec'[x] = ec[x]
<1>1. /\ strand # <<>> /\ strand[1] = q
      /\ phase \notin {"none", "started"}
      /\ \A x \in Queries \ {q} : pc[x] \in {"idle", "posted"}
  BY HeadQuery
<1>2. /\ LeaveStrand
      /\ pc' = [pc EXCEPT ![q] = "idle"]
      /\ answer' = [answer EXCEPT ![q] = IF kind[q] = "none" THEN "void" ELSE value]
      /\ ec' = [ec EXCEPT ![q] = error]
  BY DEF Return
<1>3. /\ pc'[q] = "idle" /\ ec'[q] = error
      /\ answer'[q] = IF kind[q] = "none" THEN "void" ELSE value
      /\ \A x \in Queries \ {q} : /\ pc'[x] = pc[x]
                                  /\ answer'[x] = answer[x]
                                  /\ ec'[x] = ec[x]
  BY <1>2 DEF IInv, TypeOK
<1>4. /\ strand' \in Seq(Jobs)
      /\ OnceEach'
      /\ \A i \in 1 .. Len(strand') :
           /\ strand'[i] # q
           /\ strand'[i] # "start"
           /\ strand'[i] = "wait" => wait \in {"ready", "aborted"} /\ phase = "waiting"
           /\ \A x \in Queries : strand'[i] = x => pc[x] = "posted"
  BY <1>1, <1>2, LeaveKeeps, OwnJobs
<1>5. JobsKnown'
  BY <1>3, <1>4 DEF JobsKnown
<1>6. StartFirst'
  BY <1>1 DEF IInv, StartFirst
<1>7. RunningHolds'
  BY <1>1, <1>3 DEF RunningHolds
<1> QED
  BY <1>3, <1>4, <1>5, <1>6, <1>7

LEMMA BeginKeeps ==
  ASSUME IInv, NEW q \in Queries, Begin(q)
  PROVE  IInv'
<1>1. /\ OnStrand(q) /\ pc[q] = "posted"
      /\ UNCHANGED <<phase, wait, conn, sock, server, kind, rows, effect>>
  BY DEF Begin
<1>2. answer[q] = "none" /\ ec[q] = "clear" /\ effect[q] = "no"
  BY <1>1 DEF IInv, Unanswered
<1>3. CASE IsOpen
  <2>1. pc' = [pc EXCEPT ![q] = "begun"] /\ UNCHANGED <<strand, answer, ec>>
    BY <1>3 DEF Begin
  <2>2. OnceEach' /\ JobsKnown' /\ StartFirst' /\ RunningHolds'
    BY <1>1, <1>3, <2>1, QueryGoesOn
  <2>3. TypeOK'
    BY <1>1, <2>1 DEF IInv, TypeOK
  <2>4. Unanswered' /\ AnswerTellsEffect'
    BY <1>1, <1>2, <2>1 DEF IInv, TypeOK, Unanswered, AnswerTellsEffect, TooManyRows
  <2> QED
    BY <2>2, <2>3, <2>4 DEF IInv
<1>4. CASE ~ IsOpen
  <2>1. Return(q, "nullopt", "clear")
    BY <1>4 DEF Begin
  <2>2. /\ strand' \in Seq(Jobs)
        /\ OnceEach' /\ JobsKnown' /\ StartFirst' /\ RunningHolds'
        /\ pc'[q] = "idle" /\ ec'[q] = "clear" /\ answer'[q] \in {"void", "nullopt"}
        /\ \A x \in Queries \ {q} : pc'[x] = pc[x] /\ answer'[x] = answer[x] /\ ec'[x] = ec[x]
    BY <1>1, <2>1, QueryEnds
  <2>3. TypeOK'
    BY <1>1, <2>1, <2>2 DEF IInv, TypeOK, Return, Jobs
  <2>4. Unanswered'
    BY <1>1, <2>2 DEF IInv, Unanswered
  <2>5. AnswerTellsEffect'
    BY <1>1, <1>2, <2>2 DEF IInv, AnswerTellsEffect, TooManyRows
  <2> QED
    BY <2>2, <2>3, <2>4, <2>5 DEF IInv
<1> QED
  BY <1>3, <1>4

(* What a query that has begun knows of the connection.                    *)
LEMMA BegunOpen ==
  ASSUME IInv, NEW q \in Queries, pc[q] \in {"begun", "executed", "committed"}
  PROVE  /\ IsOpen
         /\ answer[q] = "none" /\ ec[q] = "clear"
         /\ effect[q] = IF pc[q] = "committed" THEN "yes" ELSE "no"
BY DEF IInv, RunningHolds, Unanswered

LEMMA ExecKeeps ==
  ASSUME IInv, NEW q \in Queries, Exec(q)
  PROVE  IInv'
<1>1. /\ OnStrand(q) /\ pc[q] = "begun"
      /\ UNCHANGED <<phase, wait, sock, server, kind, effect>>
  BY DEF Exec
<1>2. IsOpen /\ answer[q] = "none" /\ ec[q] = "clear" /\ effect[q] = "no"
  BY <1>1, BegunOpen
<1>3. ASSUME NEW n \in RowCounts,
             pc' = [pc EXCEPT ![q] = "executed"], rows' = [rows EXCEPT ![q] = n],
             UNCHANGED <<strand, conn, answer, ec>>
      PROVE  IInv'
  <2>1. OnceEach' /\ JobsKnown' /\ StartFirst' /\ RunningHolds'
    BY <1>1, <1>2, <1>3, QueryGoesOn
  <2>2. TypeOK'
    BY <1>1, <1>3 DEF IInv, TypeOK
  <2>3. Unanswered' /\ AnswerTellsEffect'
    BY <1>1, <1>2, <1>3 DEF IInv, TypeOK, Unanswered, AnswerTellsEffect, TooManyRows
  <2> QED
    BY <2>1, <2>2, <2>3 DEF IInv
<1>4. ASSUME NEW error \in {"bad_message", "canceled"}, Return(q, "nullopt", error),
             UNCHANGED rows, conn' \in {conn, "bad"}
      PROVE  IInv'
  <2>1. /\ strand' \in Seq(Jobs)
        /\ OnceEach' /\ JobsKnown' /\ StartFirst' /\ RunningHolds'
        /\ pc'[q] = "idle" /\ ec'[q] = error /\ answer'[q] \in {"void", "nullopt"}
        /\ \A x \in Queries \ {q} : pc'[x] = pc[x] /\ answer'[x] = answer[x] /\ ec'[x] = ec[x]
    BY <1>1, <1>4, QueryEnds
  <2>2. TypeOK'
    BY <1>1, <1>4, <2>1 DEF IInv, TypeOK, Return, Jobs, Conns
  <2>3. Unanswered'
    BY <1>1, <2>1 DEF IInv, Unanswered
  <2>4. AnswerTellsEffect'
    BY <1>1, <1>2, <1>4, <2>1 DEF IInv, AnswerTellsEffect, TooManyRows
  <2> QED
    BY <2>1, <2>2, <2>3, <2>4 DEF IInv
<1> QED
  BY <1>3, <1>4 DEF Exec

LEMMA CommitKeeps ==
  ASSUME IInv, NEW q \in Queries, Commit(q)
  PROVE  IInv'
<1>1. /\ OnStrand(q) /\ pc[q] = "executed"
      /\ UNCHANGED <<phase, wait, sock, server, kind, rows>>
  BY DEF Commit
<1>2. IsOpen /\ answer[q] = "none" /\ ec[q] = "clear" /\ effect[q] = "no"
  BY <1>1, BegunOpen
<1>3. ASSUME pc' = [pc EXCEPT ![q] = "committed"], effect' = [effect EXCEPT ![q] = "yes"],
             UNCHANGED <<strand, conn, answer, ec>>
      PROVE  IInv'
  <2>1. OnceEach' /\ JobsKnown' /\ StartFirst' /\ RunningHolds'
    BY <1>1, <1>2, <1>3, QueryGoesOn
  <2>2. TypeOK'
    BY <1>1, <1>3 DEF IInv, TypeOK
  <2>3. Unanswered' /\ AnswerTellsEffect'
    BY <1>1, <1>2, <1>3 DEF IInv, TypeOK, Unanswered, AnswerTellsEffect, TooManyRows
  <2> QED
    BY <2>1, <2>2, <2>3 DEF IInv
<1>4. ASSUME NEW error \in {"bad_message", "canceled"}, Return(q, "nullopt", error),
             conn' \in {conn, "bad"}, NEW e \in {"no", "yes"},
             effect' = [effect EXCEPT ![q] = e], error = "bad_message" => e = "no"
      PROVE  IInv'
  <2>1. /\ strand' \in Seq(Jobs)
        /\ OnceEach' /\ JobsKnown' /\ StartFirst' /\ RunningHolds'
        /\ pc'[q] = "idle" /\ ec'[q] = error /\ answer'[q] \in {"void", "nullopt"}
        /\ \A x \in Queries \ {q} : pc'[x] = pc[x] /\ answer'[x] = answer[x] /\ ec'[x] = ec[x]
    BY <1>1, <1>4, QueryEnds
  <2>2. effect'[q] = e /\ \A x \in Queries \ {q} : effect'[x] = effect[x]
    BY <1>4 DEF IInv, TypeOK
  <2>3. TypeOK'
    BY <1>1, <1>4, <2>1 DEF IInv, TypeOK, Return, Jobs, Conns
  <2>4. Unanswered'
    BY <1>1, <2>1, <2>2 DEF IInv, Unanswered
  <2>5. AnswerTellsEffect'
    BY <1>1, <1>2, <1>4, <2>1, <2>2 DEF IInv, AnswerTellsEffect, TooManyRows
  <2> QED
    BY <2>1, <2>3, <2>4, <2>5 DEF IInv
<1>5. UNCHANGED effect => effect' = [effect EXCEPT ![q] = "no"]
  BY <1>2 DEF IInv, TypeOK
<1> QED
  BY <1>3, <1>4, <1>5 DEF Commit

LEMMA MapKeeps ==
  ASSUME IInv, NEW q \in Queries, Map(q)
  PROVE  IInv'
<1>1. /\ OnStrand(q) /\ pc[q] = "committed"
      /\ UNCHANGED <<phase, wait, conn, sock, server, kind, rows, effect>>
  BY DEF Map
<1>2. effect[q] = "yes"
  BY <1>1, BegunOpen
<1>3. ASSUME NEW value \in {"value", "nullopt"},
             NEW error \in {"clear", "bad_message", "canceled"},
             Return(q, value, error),
             value = "value" <=> error = "clear",
             error = "bad_message" => TooManyRows(q)
      PROVE  IInv'
  <2>1. /\ strand' \in Seq(Jobs)
        /\ OnceEach' /\ JobsKnown' /\ StartFirst' /\ RunningHolds'
        /\ pc'[q] = "idle" /\ ec'[q] = error /\ answer'[q] \in {"void", value}
        /\ \A x \in Queries \ {q} : pc'[x] = pc[x] /\ answer'[x] = answer[x] /\ ec'[x] = ec[x]
    BY <1>1, <1>3, QueryEnds
  <2>2. TypeOK'
    BY <1>1, <1>3, <2>1 DEF IInv, TypeOK, Return, Jobs
  <2>3. Unanswered'
    BY <1>1, <2>1 DEF IInv, Unanswered
  <2>4. AnswerTellsEffect'
    BY <1>1, <1>2, <1>3, <2>1 DEF IInv, AnswerTellsEffect, TooManyRows
  <2> QED
    BY <2>1, <2>2, <2>3, <2>4 DEF IInv
<1> QED
  BY <1>3 DEF Map

LEMMA QuietKeeps ==
  ASSUME IInv, UNCHANGED <<strand, phase, wait, conn, sock, queryVars>>,
         server' \in {"up", "eof", "reset"}
  PROVE  IInv'
<1>1. TypeOK'
  BY DEF IInv, TypeOK, queryVars
<1>2. OnceEach' /\ JobsKnown'
  BY StrandQuiet DEF queryVars
<1>3. StartFirst' /\ RunningHolds'
  BY DEF IInv, StartFirst, RunningHolds, IsOpen, queryVars
<1> QED
  BY <1>1, <1>2, <1>3, QueriesQuiet DEF IInv

LEMMA NextIInv ==
  ASSUME IInv, [Next]_vars
  PROVE  IInv'
<1>1. ASSUME StartSession PROVE IInv'
  BY <1>1, StartSessionKeeps
<1>2. ASSUME RequestClose PROVE IInv'
  BY <1>2, RequestCloseKeeps
<1>3. ASSUME WaitReady \/ WaitFails PROVE IInv'
  BY <1>3, WaitEndsKeeps
<1>4. ASSUME Connect PROVE IInv'
  BY <1>4, ConnectKeeps
<1>5. ASSUME Resume PROVE IInv'
  BY <1>5, ResumeKeeps
<1>6. ASSUME RunClose PROVE IInv'
  BY <1>6, RunCloseKeeps
<1>7. ASSUME NEW q \in Queries, Issue(q) PROVE IInv'
  BY <1>7, IssueKeeps
<1>8. ASSUME NEW q \in Queries, Begin(q) PROVE IInv'
  BY <1>8, BeginKeeps
<1>9. ASSUME NEW q \in Queries, Exec(q) PROVE IInv'
  BY <1>9, ExecKeeps
<1>10. ASSUME NEW q \in Queries, Commit(q) PROVE IInv'
  BY <1>10, CommitKeeps
<1>11. ASSUME NEW q \in Queries, Map(q) PROVE IInv'
  BY <1>11, MapKeeps
<1>12. ASSUME ServerEof \/ ServerReset PROVE IInv'
  BY <1>12, QuietKeeps DEF ServerEof, ServerReset
<1>13. ASSUME UNCHANGED vars PROVE IInv'
  BY <1>13, QuietKeeps DEF vars, IInv, TypeOK
<1> QED
  BY <1>1, <1>2, <1>3, <1>4, <1>5, <1>6, <1>7, <1>8, <1>9, <1>10, <1>11, <1>12, <1>13
     DEF Next, StrandStep, QueryStep

-----------------------------------------------------------------------------
(* Every reachable state satisfies the inductive invariant.                *)
THEOREM Invariance == Spec => []IInv
BY InitIInv, NextIInv, PTL DEF Spec

(* Type correctness of the session, its strand and its queries.            *)
THEOREM TypeCorrect == Spec => []TypeOK
<1>1. IInv => TypeOK
  BY DEF IInv
<1> QED
  BY <1>1, Invariance, PTL

(* A caller may conclude from its answer what AnswerTellsEffect says of    *)
(* the transaction (pg_session.h:21-124).                                  *)
THEOREM AnswersAreTrue == Spec => []AnswerTellsEffect
<1>1. IInv => AnswerTellsEffect
  BY DEF IInv
<1> QED
  BY <1>1, Invariance, PTL

(* No step takes the connection from a transaction between begin and       *)
(* commit (pg_session.h:37-39): the transaction holds the strand, and what *)
(* closes the connection runs on the strand.                               *)
THEOREM TransactionsKeepConnection == Spec => TransactionKeepsConnection
<1>1. ASSUME IInv, [Next]_vars, NEW q \in Queries, pc[q] \in {"begun", "executed"}
      PROVE  conn # "closed" /\ conn' # "closed"
  <2>1. conn = "ok" /\ strand # <<>> /\ Head(strand) = q /\ q # "close"
    <3>1. strand # <<>> /\ strand[1] = q /\ IsOpen
      BY <1>1 DEF IInv, RunningHolds
    <3>2. Head(strand) = strand[1]
      BY <3>1, TailShifts DEF IInv, TypeOK
    <3> QED
      BY <3>1, <3>2, OwnJobs DEF IsOpen
  <2>2. ~ RunClose
    BY <2>1 DEF RunClose, OnStrand
  <2>3. conn' \in {"ok", "bad"}
    BY <1>1, <2>1, <2>2
       DEF Next, StrandStep, QueryStep, vars, queryVars, StartSession, RequestClose, WaitReady,
           WaitFails, Connect, Resume, Issue, Begin, Exec, Commit, Map, ServerEof, ServerReset
  <2> QED
    BY <2>1, <2>3
<1>2. IInv /\ [Next]_vars
        => [(\E q \in Queries : pc[q] \in {"begun", "executed"})
              => conn # "closed" /\ conn' # "closed"]_vars
  BY <1>1
<1> QED
  BY <1>2, Invariance, PTL DEF Spec, TransactionKeepsConnection

-----------------------------------------------------------------------------
(* How many closes wait in a strand.                                       *)

Closes(s) == {i \in 1 .. Len(s) : s[i] = "close"}

LEMMA ClosesFinite ==
  ASSUME NEW s \in Seq(Jobs)
  PROVE  IsFiniteSet(Closes(s)) /\ Cardinality(Closes(s)) \in Nat
<1>1. Len(s) \in Nat
  BY LenProperties
<1>2. IsFiniteSet(1 .. Len(s))
  BY <1>1, FS_Interval
<1>3. Closes(s) \in SUBSET (1 .. Len(s))
  BY DEF Closes
<1> QED
  BY <1>2, <1>3, FS_Subset, FS_CardinalityType

LEMMA ClosesOfAppend ==
  ASSUME NEW s \in Seq(Jobs), NEW e \in Jobs
  PROVE  Cardinality(Closes(Append(s, e)))
           = Cardinality(Closes(s)) + IF e = "close" THEN 1 ELSE 0
<1>1. /\ Len(s) \in Nat
      /\ Len(Append(s, e)) = Len(s) + 1
      /\ \A i \in 1 .. Len(s) : Append(s, e)[i] = s[i]
      /\ Append(s, e)[Len(s) + 1] = e
  BY AppendExtends
<1>2. IsFiniteSet(Closes(s)) /\ Cardinality(Closes(s)) \in Nat
  BY ClosesFinite
<1>3. CASE e = "close"
  <2>1. Closes(Append(s, e)) = Closes(s) \cup {Len(s) + 1}
    BY <1>1, <1>3 DEF Closes
  <2>2. Len(s) + 1 \notin Closes(s)
    BY <1>1 DEF Closes
  <2> QED
    BY <1>2, <1>3, <2>1, <2>2, FS_AddElement
<1>4. CASE e # "close"
  <2>1. Closes(Append(s, e)) = Closes(s)
    BY <1>1, <1>4 DEF Closes
  <2> QED
    BY <1>2, <1>4, <2>1
<1> QED
  BY <1>3, <1>4

LEMMA ClosesOfTail ==
  ASSUME NEW s \in Seq(Jobs), s # <<>>
  PROVE  Cardinality(Closes(Tail(s)))
           = Cardinality(Closes(s)) - IF s[1] = "close" THEN 1 ELSE 0
<1>1. /\ Len(s) \in Nat \ {0}
      /\ Tail(s) \in Seq(Jobs)
      /\ Len(Tail(s)) = Len(s) - 1
      /\ \A i \in 1 .. Len(Tail(s)) : Tail(s)[i] = s[i + 1]
  BY TailShifts
<1>2. IsFiniteSet(Closes(s)) /\ Cardinality(Closes(s)) \in Nat
  BY ClosesFinite
<1>3. IsFiniteSet(Closes(Tail(s)))
  BY <1>1, ClosesFinite
<1> DEFINE rest == Closes(s) \ {1}
           f == [i \in Closes(Tail(s)) |-> i + 1]
<1>4. \A i \in Closes(Tail(s)) : i \in Nat /\ f[i] = i + 1 /\ f[i] \in rest
  BY <1>1 DEF Closes
<1>5. \A j \in rest : j - 1 \in Closes(Tail(s)) /\ f[j - 1] = j
  <2> SUFFICES ASSUME NEW j \in rest PROVE j - 1 \in Closes(Tail(s)) /\ f[j - 1] = j
    OBVIOUS
  <2>1. j \in 1 .. Len(s) /\ j # 1 /\ s[j] = "close"
    BY DEF Closes
  <2>2. j - 1 \in 1 .. Len(Tail(s)) /\ (j - 1) + 1 = j
    BY <1>1, <2>1
  <2> QED
    BY <1>1, <2>1, <2>2 DEF Closes
<1>6. f \in [Closes(Tail(s)) -> rest]
  BY <1>4
<1>7. \A i, j \in Closes(Tail(s)) : f[i] = f[j] => i = j
  BY <1>4
<1>8. \A j \in rest : \E i \in Closes(Tail(s)) : f[i] = j
  BY <1>5
<1> HIDE DEF f, rest
<1>9. f \in Bijection(Closes(Tail(s)), rest)
  BY <1>6, <1>7, <1>8 DEF Bijection, Injection, IsInjective, Surjection
<1>10. Cardinality(rest) = Cardinality(Closes(Tail(s)))
  BY <1>3, <1>9, FS_Bijection DEF ExistsBijection
<1>11. Cardinality(rest) = IF 1 \in Closes(s) THEN Cardinality(Closes(s)) - 1
                                              ELSE Cardinality(Closes(s))
  BY <1>2, FS_RemoveElement DEF rest
<1>12. 1 \in Closes(s) <=> s[1] = "close"
  BY <1>1 DEF Closes
<1> QED
  BY <1>2, <1>10, <1>11, <1>12

(* PendingCloses, as the strand changes.                                   *)
LEMMA PendingChanges ==
  ASSUME IInv, IInv'
  PROVE  /\ PendingCloses \in Nat
         /\ strand = <<>> => PendingCloses = 0
         /\ strand' = strand => PendingCloses' = PendingCloses
         /\ \A job \in Jobs : Post(job) =>
              PendingCloses' = PendingCloses + IF job = "close" THEN 1 ELSE 0
         /\ strand # <<>> /\ LeaveStrand =>
              PendingCloses' = PendingCloses - IF Head(strand) = "close" THEN 1 ELSE 0
<1>1. strand \in Seq(Jobs) /\ strand' \in Seq(Jobs)
  BY DEF IInv, TypeOK, Jobs
<1>2. DOMAIN strand = 1 .. Len(strand) /\ DOMAIN strand' = 1 .. Len(strand')
  BY <1>1
<1>3. PendingCloses = Cardinality(Closes(strand)) /\ PendingCloses' = Cardinality(Closes(strand'))
  BY <1>2 DEF PendingCloses, Closes
<1>4. PendingCloses \in Nat
  BY <1>1, <1>3, ClosesFinite
<1>5. strand = <<>> => PendingCloses = 0
  <2>1. strand = <<>> => Closes(strand) = {}
    BY DEF Closes
  <2> QED
    BY <1>3, <2>1, FS_EmptySet
<1>6. ASSUME NEW job \in Jobs, Post(job)
      PROVE  PendingCloses' = PendingCloses + IF job = "close" THEN 1 ELSE 0
  BY <1>1, <1>3, <1>6, ClosesOfAppend DEF Post
<1>7. ASSUME strand # <<>>, LeaveStrand
      PROVE  PendingCloses' = PendingCloses - IF Head(strand) = "close" THEN 1 ELSE 0
  <2>1. Head(strand) = strand[1]
    BY <1>1, <1>7, TailShifts
  <2> QED
    BY <1>1, <1>3, <1>7, <2>1, ClosesOfTail DEF LeaveStrand
<1> QED
  BY <1>3, <1>4, <1>5, <1>6, <1>7

-----------------------------------------------------------------------------
(* The session implements what the pool takes it for.                      *)

(* The connection as the mapping sees it.                                  *)
Link ==
  CASE conn = "closed" -> "closed"
    [] conn = "bad" -> "broken"
    [] IsOpen -> "open"
    [] OTHER -> "off"

LEMMA LinkSeen ==
  /\ conn = "closed" <=> Link = "closed"
  /\ conn = "bad" <=> Link = "broken"
  /\ IsOpen <=> Link = "open"
BY DEF Link, IsOpen

LEMMA LinkSeenNext ==
  /\ conn' = "closed" => Link' = "closed"
  /\ conn' = "bad" => Link' = "broken"
  /\ IsOpen' => Link' = "open"
  /\ conn' \notin {"closed", "bad"} /\ ~ IsOpen' => Link' = "off"
BY DEF Link, IsOpen

(* A step of the abstract session, in terms of the detailed one.           *)
LEMMA LifeQuiet ==
  ASSUME phase' = phase, Link' = Link, PendingCloses' = PendingCloses
  PROVE  UNCHANGED Life!lifeVars
BY DEF Life!lifeVars, Link

LEMMA LifeStart ==
  ASSUME phase \notin {"started", "waiting"}, PendingCloses = 0,
         phase' = "started", Link' = "off", PendingCloses' = PendingCloses
  PROVE  Life!LifeNext
<1>1. Life!Start("me")
  <2>1. ~ Life!KeepsItself("me")
    BY DEF Life!KeepsItself
  <2> QED
    BY <2>1 DEF Life!Start, Link
<1> QED
  BY <1>1 DEF Life!LifeNext

LEMMA LifeConnect ==
  ASSUME phase = "started", PendingCloses' = PendingCloses,
         \/ phase' = "waiting" /\ Link' = "open"
         \/ phase' = "ended" /\ Link' = Link
  PROVE  Life!LifeNext
<1>1. Life!Connect("me")
  BY DEF Life!Connect, Link
<1> QED
  BY <1>1 DEF Life!LifeNext

LEMMA LifeWaitEnds ==
  ASSUME phase = "waiting", phase' = "ended", Link' = Link, PendingCloses' = PendingCloses
  PROVE  Life!LifeNext
<1>1. Life!WaitEnds("me")
  BY DEF Life!WaitEnds, Link
<1> QED
  BY <1>1 DEF Life!LifeNext

LEMMA LifeRequestClose ==
  ASSUME PendingCloses < MaxCloses, PendingCloses' = PendingCloses + 1,
         phase' = phase, Link' = Link
  PROVE  Life!LifeNext
<1>1. Life!RequestClose("me")
  BY DEF Life!RequestClose, Link
<1> QED
  BY <1>1 DEF Life!LifeNext

LEMMA LifeClose ==
  ASSUME PendingCloses > 0, PendingCloses' = PendingCloses - 1,
         phase # "started", phase' = phase,
         Link' = Link \/ (Link = "open" /\ Link' = "closed")
  PROVE  Life!LifeNext
<1>1. Life!Close("me")
  BY DEF Life!Close, Link
<1> QED
  BY <1>1 DEF Life!LifeNext

LEMMA LifeRun ==
  ASSUME phase # "started", phase' = phase, PendingCloses' = PendingCloses,
         Link = "open", Link' = "broken"
  PROVE  Life!LifeNext
<1>1. Life!Run("me")
  BY DEF Life!Run, Link
<1> QED
  BY <1>1 DEF Life!LifeNext

(* What a step does to the mapped variables.                               *)
LEMMA StepImplements ==
  ASSUME IInv, IInv', [Next]_vars
  PROVE  Life!LifeNext \/ UNCHANGED Life!lifeVars
<1>1. ASSUME StartSession PROVE Life!LifeNext
  <2>1. /\ phase = "none" /\ phase' = "started" /\ strand = <<>> /\ Post("start")
        /\ conn' = "none" /\ sock' = "closed"
    BY <1>1 DEF StartSession, IInv, StartFirst
  <2>2. PendingCloses = 0 /\ PendingCloses' = PendingCloses
    BY <2>1, PendingChanges, OwnJobs
  <2>3. Link' = "off"
    BY <2>1, LinkSeenNext DEF IsOpen
  <2> QED
    BY <2>1, <2>2, <2>3, LifeStart
<1>2. ASSUME RequestClose PROVE Life!LifeNext
  <2>1. PendingCloses' = PendingCloses + 1
    BY <1>2, PendingChanges, OwnJobs DEF RequestClose
  <2>2. Link' = Link
    BY <1>2 DEF RequestClose, Link, IsOpen
  <2> QED
    BY <1>2, <2>1, <2>2, LifeRequestClose DEF RequestClose
<1>3. ASSUME WaitReady \/ WaitFails PROVE UNCHANGED Life!lifeVars
  <2>1. PendingCloses' = PendingCloses
    BY <1>3, PendingChanges, OwnJobs DEF WaitReady, WaitFails
  <2>2. Link' = Link /\ phase' = phase
    BY <1>3 DEF WaitReady, WaitFails, Link, IsOpen
  <2> QED
    BY <2>1, <2>2, LifeQuiet
<1>4. ASSUME Connect PROVE Life!LifeNext
  <2>1. strand # <<>> /\ Head(strand) = "start" /\ LeaveStrand
    BY <1>4 DEF Connect, OnStrand
  <2>2. PendingCloses' = PendingCloses
    BY <2>1, PendingChanges
  <2>3. phase = "started" /\ conn = "none" /\ sock = "closed"
    <3>1. strand[1] = "start" /\ 1 \in 1 .. Len(strand)
      BY <2>1, TailShifts DEF IInv, TypeOK
    <3> QED
      BY <3>1 DEF IInv, JobsKnown, StartFirst
  <2>4. Link = "off"
    BY <2>3 DEF Link, IsOpen
  <2>5. \/ phase' = "waiting" /\ Link' = "open"
        \/ phase' = "ended" /\ Link' = "off"
    BY <1>4, <2>3, LinkSeenNext DEF Connect, IsOpen
  <2> QED
    BY <2>2, <2>3, <2>4, <2>5, LifeConnect
<1>5. ASSUME Resume PROVE Life!LifeNext \/ UNCHANGED Life!lifeVars
  <2>1. strand # <<>> /\ Head(strand) = "wait" /\ LeaveStrand
    BY <1>5 DEF Resume, OnStrand
  <2>2. PendingCloses' = PendingCloses
    BY <2>1, PendingChanges
  <2>3. phase = "waiting"
    <3>1. strand[1] = "wait" /\ 1 \in 1 .. Len(strand)
      BY <2>1, TailShifts DEF IInv, TypeOK
    <3> QED
      BY <3>1 DEF IInv, JobsKnown
  <2>4. Link' = Link
    BY <1>5 DEF Resume, Link, IsOpen
  <2>5. phase' \in {"ended", phase}
    BY <1>5 DEF Resume
  <2> QED
    BY <2>2, <2>3, <2>4, <2>5, LifeWaitEnds, LifeQuiet
<1>6. ASSUME RunClose PROVE Life!LifeNext
  <2>1. strand # <<>> /\ Head(strand) = "close" /\ LeaveStrand /\ phase' = phase
    BY <1>6 DEF RunClose, OnStrand
  <2>2. PendingCloses' = PendingCloses - 1 /\ PendingCloses \in Nat
    BY <2>1, PendingChanges
  <2>3. PendingCloses' \in Nat
    <3>1. strand' \in Seq(Jobs)
      BY DEF IInv, TypeOK, Jobs
    <3>2. DOMAIN strand' = 1 .. Len(strand')
      BY <3>1
    <3>3. PendingCloses' = Cardinality(Closes(strand'))
      BY <3>2 DEF PendingCloses, Closes
    <3> QED
      BY <3>1, <3>3, ClosesFinite
  <2>4. phase # "started"
    <3>1. strand[1] = "close"
      BY <2>1, TailShifts DEF IInv, TypeOK
    <3> QED
      BY <3>1 DEF IInv, StartFirst
  <2>5. Link' = Link \/ (Link = "open" /\ Link' = "closed")
    <3>1. CASE IsOpen /\ server # "reset"
      BY <1>6, <3>1, LinkSeen, LinkSeenNext DEF RunClose
    <3>2. CASE ~ (IsOpen /\ server # "reset")
      BY <1>6, <3>2 DEF RunClose, Link, IsOpen
    <3> QED
      BY <3>1, <3>2
  <2> QED
    BY <2>1, <2>2, <2>3, <2>4, <2>5, LifeClose
<1>7. ASSUME NEW q \in Queries, Issue(q) PROVE UNCHANGED Life!lifeVars
  <2>1. PendingCloses' = PendingCloses
    BY <1>7, PendingChanges, OwnJobs DEF Issue
  <2>2. Link' = Link /\ phase' = phase
    BY <1>7 DEF Issue, Link, IsOpen
  <2> QED
    BY <2>1, <2>2, LifeQuiet
<1>8. ASSUME NEW q \in Queries, QueryStep(q) PROVE Life!LifeNext \/ UNCHANGED Life!lifeVars
  <2>1. /\ strand # <<>> /\ Head(strand) = q /\ q # "close" /\ q # "start"
        /\ phase' = phase /\ sock' = sock
        /\ strand' = strand \/ LeaveStrand
    BY <1>8, OwnJobs DEF QueryStep, Begin, Exec, Commit, Map, Return, OnStrand
  <2>2. PendingCloses' = PendingCloses
    BY <2>1, PendingChanges
  <2>3. phase # "started"
    <3>1. strand[1] = q
      BY <2>1, TailShifts DEF IInv, TypeOK
    <3> QED
      BY <2>1, <3>1 DEF IInv, StartFirst
  <2>4. CASE conn' = conn
    <3>1. Link' = Link
      BY <2>1, <2>4 DEF Link, IsOpen
    <3> QED
      BY <2>1, <2>2, <3>1, LifeQuiet
  <2>5. CASE conn' # conn
    <3>1. pc[q] \in {"begun", "executed"} /\ conn' = "bad"
      BY <1>8, <2>5 DEF QueryStep, Begin, Exec, Commit, Map
    <3>2. Link = "open" /\ Link' = "broken"
      BY <3>1, BegunOpen, LinkSeen, LinkSeenNext
    <3> QED
      BY <2>1, <2>2, <2>3, <3>2, LifeRun
  <2> QED
    BY <2>4, <2>5
<1>9. ASSUME ServerEof \/ ServerReset \/ UNCHANGED vars PROVE UNCHANGED Life!lifeVars
  <2>1. strand' = strand /\ conn' = conn /\ sock' = sock /\ phase' = phase
    BY <1>9 DEF ServerEof, ServerReset, vars
  <2>2. PendingCloses' = PendingCloses
    BY <2>1, PendingChanges
  <2>3. Link' = Link
    BY <2>1 DEF Link, IsOpen
  <2> QED
    BY <2>1, <2>2, <2>3, LifeQuiet
<1> QED
  BY <1>1, <1>2, <1>3, <1>4, <1>5, <1>6, <1>7, <1>8, <1>9 DEF Next, StrandStep

LEMMA InitImplements ==
  ASSUME Init
  PROVE  Life!LifeInit
<1>1. strand = <<>>
  BY DEF Init
<1>2. PendingCloses = 0
  BY <1>1, FS_EmptySet DEF PendingCloses
<1>3. Link = "off"
  BY DEF Init, Link, IsOpen
<1> QED
  BY <1>2, <1>3 DEF Init, Life!LifeInit, Link

(* Seen from outside, a session lives as the pool assumes it does: what    *)
(* PgDataBase composes is what PgSession does.                             *)
THEOREM SessionImplementsLife == Spec => ImplementsLife
<1>1. Init => Life!LifeInit
  BY InitImplements
<1>2. IInv /\ IInv' /\ [Next]_vars => [Life!LifeNext]_(Life!lifeVars)
  BY StepImplements
<1> QED
  BY <1>1, <1>2, Invariance, PTL DEF Spec, ImplementsLife, Life!LifeSpec

=============================================================================
