SPECIFICATION Spec
CONSTANTS
    Deliveries = {d1, d2}
    N = 2
    MaxFaults = 3
CHECK_DEADLOCK FALSE
INVARIANTS
    TypeOK
    ProcessedIsComplete
    QueuedOnce
PROPERTY
    DeliveryIsHandled
