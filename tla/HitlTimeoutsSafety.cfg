SPECIFICATION Spec
CONSTANTS
  Questions = {q1, q2}
  Sessions = {"s1"}
  Replicas = {r1, r2}
  None = None
  SessionOf <- AllOfOneSession
  StoredStatuses <- QuestionStatuses
  Endings = {"cancelled"}
  MaxCrashes = 1
SYMMETRY Symmetry
INVARIANTS
  CancelsForATimeout
  AnnouncedAfterTheEnd
  OneNotifier
PROPERTIES
  ExtensionIsGranted
  ImplementsLife
