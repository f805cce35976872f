SPECIFICATION MCSpec
CONSTANTS
    a = a
    b = b
    c = c
    d = d
    MaxLinks = 4
    Nodes <- MCNodes
    Graphs <- MCGraphs
    Depths <- MCDepths
INVARIANTS WalkIsComplete PathsLeadFromTheRoot VisitsWhatIsReachable
CHECK_DEADLOCK FALSE
