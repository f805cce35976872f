SPECIFICATION NSpec
CONSTANTS
    b1 = b1
    b2 = b2
    b3 = b3
    d1 = d1
    d2 = d2
    d3 = d3
    Worktrees = {b1, b2, b3}
    Decisions = {d1, d2, d3}
SYMMETRY Symmetry
INVARIANTS SharedMeansParallel
