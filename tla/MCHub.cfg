SPECIFICATION Spec
CONSTANTS
  c1 = c1  c2 = c2
  clipboard = clipboard  network = network  bogus = bogus
  Daemon = daemon
  Conns <- MCConns
  Topics <- MCTopics
  AlwaysOn = {clipboard}
  Fragile = {network}
  BadNames = {bogus}
  Requests <- MCRequests
  RestartMin = 1
  RestartMax = 2
SYMMETRY MCSymmetry
INVARIANTS IInv
PROPERTIES ImplementsLazyTopics
