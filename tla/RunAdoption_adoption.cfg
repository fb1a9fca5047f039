CONSTANTS
    j1 = j1  j2 = j2  s1 = s1
    None = None
    Reports <- MCReports
    RunOf <- MCRunOf
    Attempts <- MCAttempts
    Keys <- MCKeys
    Bare <- MCBare
    Contents <- MCContents
    OldCases <- MCOldCases
    MaxVersion = 1
    MaxFaults = 1
SPECIFICATION MCSpec
INVARIANTS TypeOK RowsOfOneReport
PROPERTIES SnapshotKept ReportIsSaved
CHECK_DEADLOCK FALSE
