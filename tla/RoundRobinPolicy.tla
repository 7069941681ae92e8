-------------------------- MODULE RoundRobinPolicy --------------------------
(***************************************************************************)
(* The session selection policy of the database pool                       *)
(* (src/src/core/db/pg_data_base.h, struct RoundRobinPolicy).              *)
(*                                                                         *)
(* The policy keeps one number, the slot at which the next selection       *)
(* starts.  The vector of sessions belongs to the pool, which shrinks and  *)
(* grows it without telling the policy, so the number may lie past the end *)
(* of the vector it is applied to.  Slots count from 0 as in the code, and *)
(* slot i of the vector is element i + 1 of the sequence.                  *)
(***************************************************************************)
EXTENDS Integers, Sequences

CONSTANT NoSession      \* the empty weak_ptr

(***************************************************************************)
(* The slot read by iteration i of the loop in select.  The first          *)
(* iteration uses the stored index as it is; every later one uses an index *)
(* that was reduced modulo the size of the vector.                         *)
(***************************************************************************)
Slot(index, i, n) == IF i = 0 THEN index ELSE (index + i) % n

(***************************************************************************)
(* The iterations that read a slot of the vector and find a session that   *)
(* has not expired.                                                        *)
(***************************************************************************)
LiveTries_SkipsLast(sessions, index, expired) ==
  LET n == Len(sessions)
  IN  {i \in 0 .. n - 2 : /\ Slot(index, i, n) < n
                          /\ sessions[Slot(index, i, n) + 1] \notin expired}

LiveTries(sessions, index, expired) ==
  LET n == Len(sessions)
  IN  {i \in 0 .. n - 1 : /\ Slot(index, i, n) < n
                          /\ sessions[Slot(index, i, n) + 1] \notin expired}

FirstTry(tries) == CHOOSE i \in tries : \A j \in tries : i <= j

(***************************************************************************)
(* select(sessions): the first live session from the stored index on, and  *)
(* the index stored for the next selection.  A slot past the end is taken  *)
(* to look expired; the other outcomes of that read belong to the pool.    *)
(***************************************************************************)
Select(sessions, index, expired) ==
  LET n     == Len(sessions)
      tries == LiveTries(sessions, index, expired)
      i     == FirstTry(tries)
  IN  IF n = 0
      THEN [session |-> NoSession, index |-> index]
      ELSE IF tries = {}
           THEN [session |-> NoSession, index |-> index % n]
           ELSE [session |-> sessions[Slot(index, i, n) + 1],
                 index   |-> (index + i + 1) % n]

=============================================================================
