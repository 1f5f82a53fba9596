\* A claim, two running nodes, a class edited three times, any two faults.
SPECIFICATION FairSpec
CONSTANTS
  n1 = n1
  n2 = n2
  Claims = {c1}
  Nodes = {n1, n2}
  None = None
  Bad = Bad
  ClassName = "class"
  DefaultZone = "default"
  Specs <- EditedSpecs
  Pools <- PoolTemplates
  Demands <- PodDemands
  Labels <- RunningNodes
  ZoneLabels <- RunningZones
  MaxEdits = 3
  MaxFaults = 2
INVARIANTS TypeOK ReadyClassConverts SkuIdentifiesNode
PROPERTIES NodeZoneKept ReadyConverges AdoptionSettles
CHECK_DEADLOCK FALSE
