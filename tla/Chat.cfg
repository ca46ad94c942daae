SPECIFICATION Spec
CONSTANTS
  Sessions = {s1, s2}
  Questions = {q1, q2}
  Threads = {"t1", "t2", "t3"}
  Platform <- MCPlatform
  Goroutines = {g1, g2}
  None = None
  MaxPosts = 2
  MaxDeliveries = 4
  MaxRestarts = 1
SYMMETRY MCSymmetry
INVARIANTS AskedInThread AnswersStand AnswerNotLost
PROPERTIES AmbiguousIgnored ImplementsLife
CHECK_DEADLOCK FALSE
