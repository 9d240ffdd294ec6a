SPECIFICATION FairSpec
CONSTANTS
    a = a
    b = b
    Videos = {a, b}
    Stations = {1}
    Playlists <- TwoPlaylists
    Callers = {w1, w2, w3}
    Limit = 8
    Faults = {"busy", "stop"}
    MaxCalls = 4
INVARIANTS TypeOK InTurn UpNextIsAhead NoDeadlock
PROPERTIES RotationRefinement CallsAnswered
CHECK_DEADLOCK FALSE
