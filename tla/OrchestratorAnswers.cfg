SPECIFICATION FairSpec
CONSTANTS
  Tasks = {t1}
  Sessions = {s1}
  Questions = {q1}
  None = None
  Requests = {p1, p2}
  Background = {"staller"}
  MaxAttempts = 0
  UserTargets = {}
  CallsMayFail = TRUE
  StoreKeepsID = TRUE
  MaxCrashes = 0
INVARIANTS
  AnswerOnce
PROPERTIES
  AnsweredForGood
  ImplementsLife
  StoppedIsCollected
