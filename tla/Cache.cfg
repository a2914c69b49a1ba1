SPECIFICATION RecencySpec

CONSTANTS
    n1 = n1
    n2 = n2
    v1 = v1
    v2 = v2
    v3 = v3
    m1 = m1
    c1 = c1
    t1 = t1
    m1b = m1b
    c1b = c1b
    t1b = t1b
    m2 = m2
    c2 = c2
    t2 = t2
    m3 = m3
    c3 = c3
    t3 = t3
    p = p
    NoProv = NoProv
    Names <- MCNames
    Versions <- MCVersions
    Digests <- MCDigests
    Artifacts <- MCArtifacts
    MaxBytes = 6

INVARIANTS
    TypeOK
    NoDuplicates
    IndexCoherent
    Reachable
    SizeExact
    WithinBudget
    HoldsMostRecentlyUsed

PROPERTIES
    EvictsOnlyTheOldest
    ImplementsDerivedCache
