SPECIFICATION PSpec
CONSTANTS
    s1 = s1
    s2 = s2
    d1 = d1
    d2 = d2
    p1 = p1
    p2 = p2
    e1 = e1
    Sessions = {s1, s2}
    Decisions = {d1, d2}
    Proposals = {p1}
    Evidence = {e1}
    Blocking = {d1}
    None = None
    Title <- MCTitle
    Domain <- MCDomain
    Risky = {d2}
    Scaffolded = {}
    Repository = {d1}
SYMMETRY Symmetry
INVARIANTS PlanStaysTrue ActionsStayGrounded ReadyMeansDecided
