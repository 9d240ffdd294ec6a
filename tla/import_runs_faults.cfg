SPECIFICATION Spec
CONSTANTS
    Sources = {1, 2}
    Requests = {r1, r2}
    Scheduler = scheduler
    Faults = {"crash", "cancel", "dbError"}
    MaxRuns = 3
SYMMETRY Symmetry
INVARIANTS TypeOK RunOwnership
PROPERTY LedgerRefinement
CHECK_DEADLOCK FALSE
