SPECIFICATION Spec
CONSTANTS
    a = a
    b = b
    Videos = {a, b}
    Sources = {1}
    Names = {n1}
    Listings <- PairListings
    Workers = {w1, w2}
    Faults = {"stop", "dbError", "download"}
    MaxRuns = 2
SYMMETRY Symmetry
INVARIANTS TypeOK StreamsPlay ItemTruth OkRunIsComplete
PROPERTIES LibraryRefinement RunsAdvance
CHECK_DEADLOCK FALSE
