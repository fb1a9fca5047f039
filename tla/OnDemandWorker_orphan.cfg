CONSTANTS
    Jobs = {j1}
    ExternalJobs = {}
    Workers = {w1, w2, w3}
    NoWorker = NoWorker
    CheckSlots = {c1}
    MaxAttempts = 2
    MaxFaults = 0
    MaxRunFailures = 1
SPECIFICATION Spec
INVARIANT OneWorkerPerQueue
CHECK_DEADLOCK FALSE
