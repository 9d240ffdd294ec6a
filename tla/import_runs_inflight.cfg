SPECIFICATION Spec
CONSTANTS
    Sources = {1}
    Requests = {r1}
    Scheduler = scheduler
    Faults = {}
    MaxRuns = 3
PROPERTY SchedulerSkipsInFlight
CHECK_DEADLOCK FALSE
