SPECIFICATION Spec
CONSTANTS
    Grace = 2
    Lag = 1
    ChunkSize = 2
    MaxTime = 3
    MaxEvents = 1
    MaxActions = 2
    Pids = {p1, p2}
    Outside = outside
PROPERTIES
    EndReturnsReceipt
