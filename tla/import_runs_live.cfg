SPECIFICATION LiveSpec
CONSTANTS
    Sources = {1, 2}
    Requests = {r1}
    Scheduler = scheduler
    Faults = {}
    MaxRuns = 3
PROPERTIES RunsFinish OverdueIsServed
CHECK_DEADLOCK FALSE
