SPECIFICATION FairSpec
CONSTANTS
  Claims = {c1, c2}
  Nodes = {n1}
  Old = {}
  Adoptable = {n1}
  NoID = NoID
  Pending = Pending
  NoClaim = NoClaim
  Matches <- OneSKU
  Stamps = {TRUE}
  Collects = FALSE
  MaxClock = 1
  MaxFaults = 1
PROPERTY NodeOwned
