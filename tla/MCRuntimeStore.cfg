SPECIFICATION FairSpec
CONSTANTS
    System = System
    p1 = p1
    p2 = p2
    s1 = s1
    s2 = s2
    Procs = {p1, p2}
    Nobody = Nobody
    Sessions = {s1}
    Objects = {o1}
    Statuses = {"unresolved"}
    Ids = {1, 2, 3, 4}
    MaxTime = 3
    MaxCrashes = 2
INVARIANTS WriteAhead AckedNeverLost AcceptedIsWhole IncrementalIsReplay
PROPERTIES ImplementsLedger RebuildRecovers LockReleased
CHECK_DEADLOCK FALSE
