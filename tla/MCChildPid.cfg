SPECIFICATION Spec
CONSTANTS
  PipeSize = 1
  MaxOutput = 1
INVARIANT KillsItsOwn
CHECK_DEADLOCK FALSE
