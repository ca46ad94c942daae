--------------------------- MODULE MCOrchestrator ---------------------------
(***************************************************************************)
(* Small instances of Orchestrator.  Sessions, questions and the request   *)
(* goroutines are interchangeable, so safety runs use them as symmetry     *)
(* sets; the background loops are fixed strings and are not permuted.      *)
(***************************************************************************)
EXTENDS Orchestrator, TLC

Symmetry == Permutations(Sessions) \cup Permutations(Requests) \cup Permutations(Questions)
=============================================================================
