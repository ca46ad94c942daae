SPECIFICATION Spec
CONSTANTS
  Tasks = {t1}
  Sessions = {s1, s2, s3}
  Questions = {}
  None = None
  Requests = {p1}
  Background = {"staller", "retrier"}
  MaxAttempts = 1
  UserTargets = {"in_progress"}
  CallsMayFail = TRUE
  StoreKeepsID = TRUE
  MaxCrashes = 1
SYMMETRY Symmetry
INVARIANTS
  NoOrphanBackend
  InProgressIsOwned
  RetryBudget
