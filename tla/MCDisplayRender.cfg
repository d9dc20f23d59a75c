SPECIFICATION Spec
CONSTANTS
  base = base  wide = wide
  Layouts <- MCLayouts
  Base = base
  Torn = torn
  None = none
  MaxTokens = 2
INVARIANTS ConfigIsStored
