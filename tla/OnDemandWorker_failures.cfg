CONSTANTS
    Jobs = {j1, x1}
    ExternalJobs = {x1}
    Workers = {w1, w2, w3, w4}
    NoWorker = NoWorker
    CheckSlots = {c1, c2}
    MaxAttempts = 2
    MaxFaults = 1
    MaxRunFailures = 1
SPECIFICATION Spec
SYMMETRY Symmetry
INVARIANTS WakeFindsLiveWorker
\* every job processed and the worker closed is where the system rests
CHECK_DEADLOCK FALSE
