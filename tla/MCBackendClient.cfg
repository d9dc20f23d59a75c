SPECIFICATION FairSpec
CONSTANTS
  theme = theme  network = network
  Topics <- MCTopics
  Volatile = {network}
  BackoffMin = 1
  BackoffMax = 2
  MaxRefs = 2
  MaxCalls = 2
  MaxWire = 2
INVARIANTS RequestsInv NoMemoryShownAsState
PROPERTIES CallIsAnswered Reconnects
