SPECIFICATION MCSpec
CONSTANTS
    Pids <- MCPids
    Channels = {"fork", "file", "queue"}
    Scores <- MCScores
    Threshold = 2
    Full = 3
    Attenuate <- MCAttenuate
    Files = {"data", "lib"}
    Infrastructure = {"lib"}
    Queues = {"mq"}
    MaxActions = 2
    Sustained = 1
INVARIANTS
    TypeOK
    TaintHasOrigin
    ReceiptsSpreadTaint
PROPERTIES
    ActionsFollowLifecycle
    
CHECK_DEADLOCK FALSE
