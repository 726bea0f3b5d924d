SPECIFICATION Spec
CONSTANTS
    Pids <- MCPair
    Channels = {"fork", "file", "queue"}
    Scores <- MCScores
    Threshold = 2
    Full = 3
    Attenuate <- MCAttenuate
    Files = {"data", "lib"}
    Infrastructure = {"lib"}
    Queues = {"mq"}
    MaxActions = 1
    Sustained = 1
INVARIANTS
    SnapshotIsComplete
CHECK_DEADLOCK FALSE
