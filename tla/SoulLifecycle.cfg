CONSTANTS
    MaxRequests = 2
    MaxEvents = 2
SPECIFICATION Spec
INVARIANTS
    TypeOK
    PendingIsKept
    HealthyIsTrue
PROPERTIES
    SetUpAtLast
CHECK_DEADLOCK FALSE
