CONSTANTS
    q1 = q1  q2 = q2
    None = None
    PushJobs = {p1, p2}
    PushKey = PushKey
    Members = {m1, m2}
    Mailed = {m1}
    Hooks = {h}
    MaxAttempts = 2
    MaxFaults = 1
    RunJobs <- MCRunJobs
    PlainKeys <- MCPlainKeys
    Cases <- MCCases
    PassedBefore = {"a"}
    Outcomes = {"pass", "fail", "blocked"}
    Requests <- MCRequests
    EndJob <- MCEndJob
    RegressJob <- MCRegressJob
SPECIFICATION MCSpec
INVARIANTS TypeOK CopiesNeedFaults NoUnderCount FinishedWhenClosed
PROPERTIES EndIsTold
CHECK_DEADLOCK FALSE
