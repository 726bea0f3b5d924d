SPECIFICATION MCSpec
CONSTANTS
    Pids <- MCPids
    Comms = {sh, npm}
    First = sh
    Counts <- MCCounts
    Threshold = 2
    MaxEdges = 3
CHECK_DEADLOCK FALSE
INVARIANTS
    TypeOK
    MergedByBusyEdges
    TreesHaveRoots
PROPERTY
    Finishes
