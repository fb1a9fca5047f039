CONSTANTS
    s1 = s1  s2 = s2
    x1 = x1  x2 = x2
    None = None
    Sends = {s1, s2}
    Extractions = {x1, x2}
    Plans <- MCPlans
    Limit <- MCLimit
    Budget = 1
    LastMonth = 1
    LastDay = 1
    MaxChanges = 1
    MaxFaults = 1
SPECIFICATION Spec
SYMMETRY Symmetry
INVARIANTS CreditPerReply
PROPERTIES WithinLimits
\* every request answered is where the system rests
CHECK_DEADLOCK FALSE
