SPECIFICATION RSpec
CONSTANTS
    System = System
    p1 = p1
    p2 = p2
    s1 = s1
    s2 = s2
    r1 = r1
    Procs = {p1}
    Readers = {r1}
    Nobody = Nobody
    Sessions = {s1}
    Objects = {o1}
    Statuses = {"unresolved"}
    Ids = {1, 2, 3}
    MaxTime = 2
    MaxCrashes = 1
INVARIANTS ReadIsFresh ReadIsCommitted
CHECK_DEADLOCK FALSE
