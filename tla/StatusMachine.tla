--------------------------- MODULE StatusMachine ---------------------------
(***************************************************************************)
(* What the domain packages promise of a row with a status: it starts in   *)
(* its initial status and moves along the edges of its life cycle, one at  *)
(* a time, whoever asks for the move.                                      *)
(***************************************************************************)
CONSTANTS
  Rows,      \* rows of tables with a status column
  Statuses,  \* the values of these columns
  Edges,     \* their life cycles, a set of pairs of statuses
  Initial    \* the status each row is created with

VARIABLE status

Init == status = [r \in Rows |-> Initial[r]]

Move(r, to) ==
  /\ <<status[r], to>> \in Edges
  /\ status' = [status EXCEPT ![r] = to]

Next == \E r \in Rows, to \in Statuses : Move(r, to)

Spec == Init /\ [][Next]_status
=============================================================================
