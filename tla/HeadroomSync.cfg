SPECIFICATION FairSpec
CONSTANTS
    p1 = p1
    p2 = p2
    Absent = Absent
    Pools = {p1, p2}
    ConfigMaps <- Policies
    Alloc <- NodeSizes
    MaxReplicas = 4
    MaxReady = 1
    MaxChanges = 2
    MaxFaults = 2
INVARIANTS TypeOK
PROPERTIES BrokenPolicyKeepsBuffer SettledStays BufferConverges
