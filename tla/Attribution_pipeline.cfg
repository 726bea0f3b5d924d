SPECIFICATION MCSpec
CONSTANTS
    Grace = 2
    Lag = 2
    ChunkSize = 2
    MaxTime = 3
    MaxEvents = 3
    MaxActions = 2
    Pids = {p1, p2}
    Outside = outside
SYMMETRY Symmetry
INVARIANTS
    TypeOK
    RecordedOnce
    ForkInheritance
    OnlyLifecycleStrays
    OnlyLifecycleDropped
    Numbered
    WindowsSequential
    
    RootCausality
PROPERTIES
    ActionsFollowLifecycle
    CompletedOnlyGrows
