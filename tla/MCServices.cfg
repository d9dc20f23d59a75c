SPECIFICATION ServicesSpec
CONSTANTS
  MaxInflight = 2
  ClientQueue = 2
  SocketBuffer = 1
  MaxRequests = 3
  None = none
  Event = event
  network = network  bogus = bogus
  Conns = {c1, c2}
  Topics = {network}
  AlwaysOn = {}
  Fragile = {}
  BadNames = {bogus}
  Requests <- SmallRequests
  Daemon = daemon
  RestartMin = 1
  RestartMax = 3
  Calls = {call1, call2}
  Themes = {plain, dynamic}
  Dynamic = dynamic
  First = plain
  Walls = {w1}
  Feeds = {"network", "removable", "privacy", "brightness", "weather"}
  Values = {v1, v2}
  Absent = absent
  Never = never
  MaxChanges = 3
  MaxCalls = 1
  Contents = {x, y, secret}
  Secrets = {secret}
  MaxUser = 3
  PipeSize = 1
  MaxOutput = 2
INVARIANTS ConnectionInv OrderlyEndDelivers
INVARIANTS WatcherSelectionIsServed ChildOutputIsWhole
PROPERTIES EndsWhenLost HubSubscribedGetsStream HubDisconnectFreesSlot
PROPERTIES HubFailingLoopSlowsDown
PROPERTIES ThemeEveryCallEnds DeviceLoopsCatchUp
PROPERTIES WatcherComesToRest ChildEveryRunEnds
CHECK_DEADLOCK FALSE
