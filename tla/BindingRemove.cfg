SPECIFICATION Spec
CONSTANTS
  Claims = {c1, c2}
  Nodes = {n1}
  Old = {}
  Adoptable = {n1}
  NoID = NoID
  Pending = Pending
  NoClaim = NoClaim
  Matches <- OneSKU
  Stamps = {TRUE}
  Collects = FALSE
  MaxClock = 1
  MaxFaults = 0
PROPERTY RemoveSparesOthers
