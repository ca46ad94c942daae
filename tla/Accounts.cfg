SPECIFICATION Spec
CONSTANTS
  Users = {u1, u2, u3}
  Emails = {"a", "A", "b"}
  Fold <- MCFold
  AdminEmail = "a"
  Identities = {"x"}
  Callers = {"c1", "c2"}
  Replicas = {"r1", "r2"}
  ServedBy <- MCServedBy
  None = None
  RequestsPerMinute = 1
  MaxRequests = 2
  MaxMinute = 1
  FirstUsers <- MCFirstUsers
  MaxRestarts = 1
SYMMETRY MCSymmetry
INVARIANTS LimitHolds CountersExpire ToldLinked RegisteredLogsIn
PROPERTY ReadyHasAdmin
CHECK_DEADLOCK FALSE
