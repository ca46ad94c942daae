----------------------------- MODULE Lifecycle -----------------------------
(***************************************************************************)
(* The life cycles of the persisted entities that carry a status: kanban   *)
(* tasks, agent sessions, human-in-the-loop (HITL) questions and decision  *)
(* records (ADRs).                                                         *)
(* A life cycle is a set of edges <<from, to>>; the Go code keeps it as a  *)
(* map from a status to the list of its successors.                        *)
(***************************************************************************)

(* internal/domain/task: the columns of the kanban board.                  *)
TaskStatuses == {"backlog", "in_progress", "review", "done"}

TaskEdges ==
  { <<"backlog", "in_progress">>,
    <<"in_progress", "review">>,
    <<"in_progress", "backlog">>,
    <<"review", "done">>,
    <<"review", "in_progress">>,
    <<"review", "backlog">> }

(* internal/domain/agent: one agent execution against a task.              *)
SessionStatuses ==
  {"pending", "running", "waiting_hitl", "completed", "failed", "cancelled"}

SessionEdges ==
  { <<"pending", "running">>,
    <<"running", "waiting_hitl">>,
    <<"running", "completed">>,
    <<"running", "failed">>,
    <<"running", "cancelled">>,
    <<"waiting_hitl", "running">>,
    <<"waiting_hitl", "cancelled">> }

SessionEnded == {"completed", "failed", "cancelled"}

(* internal/domain/hitl: a question an agent put to a human.               *)
QuestionStatuses == {"pending", "escalated", "answered", "timeout", "cancelled"}

(* internal/domain/adr: a decision record.                                 *)
AdrStatuses == {"draft", "proposed", "accepted", "rejected", "deprecated"}

AdrEdges ==
  { <<"draft", "proposed">>,
    <<"proposed", "accepted">>,
    <<"proposed", "rejected">>,
    <<"accepted", "deprecated">> }

(* CanTransitionTo, of tasks, sessions and ADRs: a status outside the   *)
(* table has no successor, so a terminal status allows nothing.            *)
CanTransition(edges, from, to) == <<from, to>> \in edges
=============================================================================
