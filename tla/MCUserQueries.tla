----------------------------- MODULE MCUserQueries -----------------------------
(***************************************************************************)
(* Three queries, a history of two and one death: a query is evicted while *)
(* another is generated, saved or diagnosed.  No symmetry: a run checks    *)
(* liveness.                                                               *)
(***************************************************************************)
EXTENDS UserQueries
=============================================================================
