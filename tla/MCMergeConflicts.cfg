SPECIFICATION BSpec
CONSTANTS
    System = System
    b1 = b1
    b2 = b2
    s1 = s1
    s2 = s2
    o1 = o1
    o2 = o2
    d1 = d1
    Branches = {b1, b2}
    Sessions = {s1}
    Objects = {o1, d1}
    Statuses = {"unresolved", "deferred"}
    Ids = {0, 1, 2, 3, 4, 5, 6, 7}
    MaxTime = 2
    Bases <- MCBases
    SessionOrder <- MCSessionOrder
    NamedObjects = {o1}
CONSTRAINT Interesting
SYMMETRY Symmetry
INVARIANTS UpToDateIsReplay RepairableIsReported OnlyConcurrentResolutionsClash
CHECK_DEADLOCK FALSE
