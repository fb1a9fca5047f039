CONSTANTS
    a = a  b = b  c = c  d1 = d1  d2 = d2  d3 = d3
    NoBatch = NoBatch
    Groups <- MCGroups
    Verdict <- MCVerdict
    Deliveries <- MCDeliveries
    Chunk <- MCChunk
    ReportSize <- MCReportSize
    MaxAttempts = 2
    MaxFaults = 2
SPECIFICATION FairSpec
INVARIANTS TypeOK AtMostOneNotification CompleteNamesEveryGroup
PROPERTIES ReportIsNotified ImplementsNotification
\* a report that was notified, or never sent, is where the system rests
CHECK_DEADLOCK FALSE
