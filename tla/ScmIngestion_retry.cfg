SPECIFICATION Spec
CONSTANTS
    Deliveries = {d1, d2}
    N = 2
    MaxFaults = 1
CHECK_DEADLOCK FALSE
PROPERTY
    SurvivesOneFault
