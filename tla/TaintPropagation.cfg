SPECIFICATION Spec
CONSTANTS
    Pids <- MCPids
    Channels = {"fork", "file"}
    Scores <- MCScores
    Threshold = 2
    Full = 4
    Attenuate <- MCAttenuate
    MaxEdges = 3
INVARIANTS
    TypeOK
    NewlyTaintedExact
PROPERTIES
    AtOnce
    Termination
CHECK_DEADLOCK FALSE
