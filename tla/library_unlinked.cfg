SPECIFICATION Spec
CONSTANTS
    a = a
    b = b
    Videos = {a, b}
    Sources = {1, 2}
    Names = {n1}
    Listings <- OneListings
    Workers = {w1, w2}
    Faults = {}
    MaxRuns = 2
INVARIANT ImportedIsLinked
CHECK_DEADLOCK FALSE
