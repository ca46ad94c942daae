SPECIFICATION FairSpec
CONSTANTS
  Questions = {"q1"}
  Sessions = {"s1"}
  Replicas = {r1}
  None = None
  SessionOf <- AllOfOneSession
  StoredStatuses <- MigratedStatuses
  Endings = {}
  MaxCrashes = 0
PROPERTIES
  SilenceEndsSession
