CONSTANTS
    d0 = d0  d1 = d1  d2 = d2  a1 = a1  e1 = e1  e2 = e2  s1 = s1  r1 = r1  r2 = r2  r3 = r3  r4 = r4
    Meta <- MCMeta
    DomainRules <- MCDomainRules
    Projects <- MCProjects
    Depths = {2}
    Expiries = {1, 1000}
    MaxApprovals = 2
    MaxTime = 2
SPECIFICATION Spec
CHECK_DEADLOCK FALSE
INVARIANTS InvalidationIsGrounded
PROPERTIES AdoptedAsJudged FallsAsJudged
