SPECIFICATION ModulesSpec
CONSTANTS
  Runner = runner
  Clients = {client}
  Contents = {photo, broken, blank}
  Unfit = {blank}
  Images = {photo, broken}
  Decodable = {photo}
  MaxHistory = 1
  MaxPinned = 1
  MaxId = 2
  MaxCrashes = 2
  None = none
  Calls = {call1, call2}
  Themes = {plain, dynamic}
  Dynamic = dynamic
  First = plain
  Walls = {w1, w2}
  Servers = {nl, us}
  Slots = {1, 2}
  MaxChanges = 1
  MaxCalls = 2
  dp = dp  hdmi = hdmi
  Monitors <- TwoMonitors
  Settings <- SmallSettings
  Base <- SideBySide
  FirstYear = 1970
  FirstDay = 0
  LastYear = 2110
  Seconds = {0, 3600, 86399}
  Offsets <- FiveOffsets
  Panels = {1, 7, 15, 255, 960}
  Deltas <- SmallDeltas
  Asked = {0, 1, 33, 50, 100}
INVARIANTS StoreInv PinnedIsSafe RestartIsInvisible FeedIsCurrent
INVARIANTS ThemeChangesDoNotMix VpnTunnelIsNetworkManagers
INVARIANTS LayoutScreenStaysUsable TimeDatesAreRight PanelPressMoves
PROPERTY ThemeRecordedWasApplied
CHECK_DEADLOCK FALSE
