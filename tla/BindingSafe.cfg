SPECIFICATION Spec
CONSTANTS
  Claims = {c1, c2}
  Nodes = {n1, n2}
  Old = {n1}
  Adoptable = {n1, n2}
  NoID = NoID
  Pending = Pending
  NoClaim = NoClaim
  Matches <- OneSKU
  Stamps = {TRUE}
  Collects = TRUE
  MaxClock = 1
  MaxFaults = 0
SYMMETRY ClaimSymmetry
INVARIANTS TypeOK OneScaleOutPerNode OneAdoptionPerNode MachineNotRobbed
PROPERTIES DeletingKeepsID CollectionSparesNodes
