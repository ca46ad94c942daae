------------------------------ MODULE MCBoard ------------------------------
(* Two projects; the tasks of the first were created in one transaction,   *)
(* so they share created_at.                                               *)
EXTENDS Board

MCFirstProjects == 11 :> [name |-> "n", born |-> 0] @@ 12 :> [name |-> "m", born |-> 0]
MCFirstTasks ==
  [id \in {1, 2} |-> [project |-> 11, priority |-> 0, status |-> "backlog", link |-> "none", born |-> 0]]
MCSymmetry == Permutations(Callers)
=============================================================================
