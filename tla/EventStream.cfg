SPECIFICATION MCSpec
CONSTANTS
  Publishers = {"handler", "cancel"}
  Script <- MCScript
  Unstored = {"waiting"}
  Clients = {"ana", "ben"}
  BufferSize = 1
  PageSize = 1
  MaxSubs = 3
  MaxBreaks = 1
INVARIANTS
  LiveIsStored
  OneSubscriptionPerTopic
  NoDuplicates
  PublisherOrder
  ReplayIsComplete
CHECK_DEADLOCK FALSE
PROPERTIES
  SlowClientsHarmNoOther
