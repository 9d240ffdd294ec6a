SPECIFICATION Spec
CONSTANTS
    a = a
    b = b
    Videos = {a, b}
    Sources = {1}
    Names = {n1}
    Listings <- RepeatListings
    Workers = {w1, w2}
    Faults = {"download"}
    MaxRuns = 3
SYMMETRY Symmetry
INVARIANT CopiesBound
PROPERTY OrderKept
CHECK_DEADLOCK FALSE
