CONSTANTS
    x = x  y = y
    Procs = {p1, p2}
    Drafts = {x, y}
    Sessions = {s1, s2}
    Eligible <- Low
    Requested <- LowInOrder
    Payloads <- FreshOrCopied
    MayCrash = TRUE
    Ops = {"single", "bulk", "reconcile"}
    MaxHead = 2
    Nobody = Nobody  Other = Other  NoFile = NoFile  Empty = Empty
    Garbled = Garbled  Cut = Cut  Unparsable = Unparsable
SYMMETRY Symmetry
SPECIFICATION Spec
INVARIANTS SidecarNeverAhead PromotedOnce OpenProposalIsAsked SettledIsExact
CHECK_DEADLOCK FALSE
