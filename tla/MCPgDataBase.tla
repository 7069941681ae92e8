---------------------------- MODULE MCPgDataBase ----------------------------
(***************************************************************************)
(* Small instances of PgDataBase for TLC.                                  *)
(***************************************************************************)
EXTENDS PgDataBase, TLC

(* Actors and sessions are told apart only by name.                        *)
Symmetry ==
  Permutations(Sessions) \cup Permutations(Starters) \cup Permutations(Callers)

=============================================================================
