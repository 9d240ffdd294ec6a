SPECIFICATION Spec
CONSTANTS
    Sources = {1}
    Requests = {r1}
    Scheduler = scheduler
    Faults = {"crash"}
    MaxRuns = 3
INVARIANT RunningMeansInFlight
CHECK_DEADLOCK FALSE
