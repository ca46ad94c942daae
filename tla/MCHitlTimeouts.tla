--------------------------- MODULE MCHitlTimeouts ---------------------------
(***************************************************************************)
(* Small instances of HitlTimeouts: all questions are of one session, and  *)
(* questions as well as replicas are interchangeable.                      *)
(***************************************************************************)
EXTENDS HitlTimeouts, TLC

(* What the CHECK of migration 000005 admits; 000007 does not widen it.    *)
MigratedStatuses == QuestionStatuses \ {"escalated"}

AllOfOneSession == [q \in Questions |-> CHOOSE s \in Sessions : TRUE]

Symmetry == Permutations(Replicas) \cup Permutations(Questions)
=============================================================================
