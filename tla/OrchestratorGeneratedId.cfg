SPECIFICATION Spec
CONSTANTS
  Tasks = {t1}
  Sessions = {s1, s2}
  Questions = {}
  None = None
  Requests = {p1}
  Background = {}
  MaxAttempts = 0
  UserTargets = {}
  CallsMayFail = FALSE
  StoreKeepsID = FALSE
  MaxCrashes = 0
INVARIANTS
  DispatchedHasRow
