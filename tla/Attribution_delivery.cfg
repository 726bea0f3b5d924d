SPECIFICATION Spec
CONSTANTS
    Grace = 2
    Lag = 1
    ChunkSize = 2
    MaxTime = 2
    MaxEvents = 3
    MaxActions = 1
    Pids = {p1, p2}
    Outside = outside
PROPERTIES
    DispatchedInOrder
