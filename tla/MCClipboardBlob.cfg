SPECIFICATION Spec
CONSTANTS
  text = text  photo = photo  broken = broken  blank = blank
  Runner = runner
  Clients = {client}
  Contents = {text, photo, broken, blank}
  Unfit = {blank}
  Images = {photo, broken}
  Decodable = {photo}
  MaxHistory = 1
  MaxPinned = 1
  MaxId = 2
  MaxCrashes = 2
  None = none
INVARIANTS BlobIsItsContent
