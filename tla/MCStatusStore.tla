---------------------------- MODULE MCStatusStore ----------------------------
(* A row of each table.  Two goroutines move the task, another pair the    *)
(* session, and one decides on the decision record.                        *)
EXTENDS StatusStore, TLC

MCTypeOf == "task" :> TaskStatuses @@ "session" :> SessionStatuses @@ "adr" :> AdrStatuses
MCStatuses == TaskStatuses \cup SessionStatuses \cup AdrStatuses
MCEdges == TaskEdges \cup SessionEdges \cup AdrEdges
MCInitial == "task" :> "backlog" @@ "session" :> "pending" @@ "adr" :> "draft"
MCCallers == "task" :> {"w1", "w2"} @@ "session" :> {"w2", "w3"} @@ "adr" :> {"w3"}
=============================================================================
