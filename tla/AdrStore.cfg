SPECIFICATION Spec
CONSTANTS
  Projects = {"p"}
  Sessions = {"a", "b"}
  PageSize = 2
  Decisions = {"v", "w", "x", "z"}
  ProjectOf <- MCProjectOf
  ToolCalls <- MCToolCalls
  Texts <- MCTexts
INVARIANTS
  Gapless
  ToldIsRecorded
  ListingIsComplete
PROPERTIES
  ImplementsTimeline
  CallsReturn
CHECK_DEADLOCK FALSE
