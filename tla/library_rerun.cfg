SPECIFICATION Spec
CONSTANTS
    a = a
    b = b
    Videos = {a, b}
    Sources = {1}
    Names = {n1, n2}
    Listings <- RepeatListings
    Workers = {w1}
    Faults = {"stop"}
    MaxRuns = 4
INVARIANT RerunHeals
CHECK_DEADLOCK FALSE
