SPECIFICATION FairSpec
CONSTANTS
  theme = theme  network = network
  Topics <- MCTopics
  SinkCapacity = 1
  BroadcastCapacity = 1
  ClientQueue = 2
  MaxPushes = 2
INVARIANTS FeedInv
PROPERTIES ClientCatchesUp
