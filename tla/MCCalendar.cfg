SPECIFICATION Spec
CONSTANTS
  Logins = {l1, l2}
  Calendars = {c1}
  Selected = {c1}
  Askers = {"background"}
  MaxWaiting = 1
  None = none
INVARIANT AccountConsistent
PROPERTY AccountKeeps
PROPERTY ScreenSettles
