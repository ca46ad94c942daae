SPECIFICATION Spec
CONSTANTS
  Rows = {"task", "session", "adr"}
  Statuses <- MCStatuses
  Edges <- MCEdges
  Initial <- MCInitial
  TypeOf <- MCTypeOf
  Writers = {"w1", "w2", "w3"}
  Callers <- MCCallers
PROPERTIES SettledRowsStay ImplementsMachine
