SPECIFICATION MCSpec
CONSTANTS
    Pids <- MCPids
    Containers = {c1, c2}
    Host = host
    Gone = gone
    Unknown = unknown
    MaxDepth = 2
    MaxReused = 1
    MaxEvents = 3
    MaxInFlight = 2
SYMMETRY Symmetry
INVARIANTS
    TypeOK
    RightUnlessInDoubt
PROPERTIES
    FamilyIsKept
CHECK_DEADLOCK FALSE
