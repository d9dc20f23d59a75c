SPECIFICATION Spec
CONSTANTS
  Logins = {l1}
  Calendars = {c1}
  Selected = {c1}
  Askers = {"background", "refresh"}
  MaxWaiting = 1
  None = none
INVARIANT SignedInHasToken
