SPECIFICATION FairSpec
CONSTANTS
  Questions = {"q1"}
  Sessions = {"s1"}
  Replicas = {r1}
  None = None
  SessionOf <- AllOfOneSession
  StoredStatuses <- QuestionStatuses
  Endings = {"completed", "failed", "cancelled"}
  MaxCrashes = 2
PROPERTIES
  TimeoutEndsSession
  TimeoutIsAnnounced
