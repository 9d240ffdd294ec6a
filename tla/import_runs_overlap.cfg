SPECIFICATION Spec
CONSTANTS
    Sources = {1}
    Requests = {r1, r2}
    Scheduler = scheduler
    Faults = {"crash", "cancel"}
    MaxRuns = 5
SYMMETRY Symmetry
INVARIANT OverlapBound
PROPERTY WedgedStaysWedged
CHECK_DEADLOCK FALSE
