SPECIFICATION ShellSpec
CONSTANTS
  MaxSleeps = 2
  MaxRequests = 1
  MaxFaults = 1
  FeedCapacity = 2
  Apps = {mail, chat}
  Resident = {chat}
  historyLimit = 2
  MaxNotices = 3
  MaxRestarts = 1
INVARIANTS LockInv SleepsLocked
INVARIANTS CentreInv
PROPERTIES RelockHolds
