SPECIFICATION FairSpec
CONSTANTS
    Stations = {1, 2}
    Times = {1, 2}
    Keep = 1
    Show = 1
    Notifiers = {n1, n2}
    Sources = {1, 2}
    Mounts = {"m1", "m2"}
    MountOf <- MCMountOf
    DefaultMount <- MCDefaultMount
    Covers <- MCCovers
    Counts = {3, 4}
    Viewers = {v1, v2}
    Watches <- MCWatches
    Faults = {"dbError", "stop", "leave"}
    MaxEvents = 3
INVARIANTS
    TypeOK
    PageShowsNewest
    CountWasReported
PROPERTIES
    ListenersSettle
    SettledStays
CHECK_DEADLOCK FALSE
