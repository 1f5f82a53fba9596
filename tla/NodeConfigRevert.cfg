SPECIFICATION FairSpec
CONSTANTS
    p1 = p1
    p2 = p2
    c1 = c1
    c2 = c2
    r1 = r1
    r2 = r2
    r3 = r3
    r4 = r4
    r5 = r5
    None = None
    Renderings = {r1, r2, r3, r4, r5}
    Pools = {p1, p2}
    Classes = {c1, c2}
    Rows <- Catalogs
    Unversioned = {r3}
    Undecodable = {r5}
    Returns = TRUE
    MaxEdits = 3
    MaxFaults = 2
PROPERTIES CatalogReaches
