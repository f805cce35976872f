SPECIFICATION FairISpec
CONSTANTS
    s1 = s1
    s2 = s2
    d1 = d1
    d2 = d2
    p1 = p1
    p2 = p2
    e1 = e1
    OneTitle = OneTitle
    Sessions = {s1, s2}
    Interviewed = {s1}
    Decisions = {d1, d2}
    Proposals = {p1, p2}
    Evidence = {e1}
    Blocking = {d1, d2}
    None = None
    DecisionTitle <- SameTitle
    WorkTitle <- SameWorkTitle
    MaxAuto = 1
    MaxOthers = 2
CHECK_DEADLOCK FALSE
INVARIANTS ProposedIsAnswerable OrphanIsMoot
PROPERTIES RepliesAreFresh RepliesAreFinal ImplementsLifecycle TurnsEnd
