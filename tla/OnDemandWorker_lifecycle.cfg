CONSTANTS
    Jobs = {j1, x1}
    ExternalJobs = {x1}
    Workers = {w1, w2}
    NoWorker = NoWorker
    CheckSlots = {c1}
    MaxAttempts = 2
    MaxFaults = 2
    MaxRunFailures = 0
SPECIFICATION FairSpec
INVARIANTS TypeOK OneWorkerPerQueue NoStrandedJob ShutdownLeavesNoWorker
PROPERTIES NoCloseOverWork JobsAreProcessed IdleWorkerCloses
\* every job processed and the worker closed is where the system rests
CHECK_DEADLOCK FALSE
