SPECIFICATION Spec
CONSTANTS
    MaxSerial = 4
    Aux = {"SOCKADDR"}
    Sockaddr = "SOCKADDR"
    Threshold = 1
    Window = 2
    Spread = 2
    MaxLost = 3
INVARIANTS
    TypeOK
    GroupsIntact
    DeliveredExactly
    OnlyLossLeaks
PROPERTIES
    GcBounds
CHECK_DEADLOCK FALSE
