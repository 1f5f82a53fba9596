SPECIFICATION FairSpec
CONSTANTS
  Claims = {c1}
  Nodes = {n1}
  Old = {}
  Adoptable = {n1}
  NoID = NoID
  Pending = Pending
  NoClaim = NoClaim
  Matches <- OneSKU
  Stamps = {FALSE}
  Collects = FALSE
  MaxClock = 1
  MaxFaults = 0
PROPERTY SkippedNodeIsBound
