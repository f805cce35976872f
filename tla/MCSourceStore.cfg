CONSTANTS
    v1 = v1  v2 = v2  v3 = v3  xml = xml  text = text
    u1 = u1  u2 = u2
    Procs = {p1, p2}
    Docs = {v1, v2, v3}
    Strategies = {xml, text}
    UnitsOf <- MCUnitsOf
    Nobody = Nobody
    Loads <- MCLoads
SYMMETRY Symmetry
SPECIFICATION Spec
INVARIANTS AuditedIsWhole QuietIsConsistent ImpactReachesBack
PROPERTIES LinkedUnitsStay
CHECK_DEADLOCK FALSE
