SPECIFICATION MCSpec
CONSTANTS
    Pids = {p1, p2}
    Fds <- MCFds
    Files = {file}
    Queues = {mq}
    Other = other
    Nothing = nothing
    MaxUses = 2
SYMMETRY Symmetry
INVARIANTS
    TypeOK
    
    
