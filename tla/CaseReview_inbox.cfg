SPECIFICATION Spec
CONSTANTS
    Pushes <- MCPushes
    Run = Run
    Reviewers = {r1, r2}
    None = None
    MaxPresses = 2
SYMMETRY MCSymmetry
CONSTRAINT Quieter
INVARIANTS TypeOK NoWaitCycle NoPublishConflict NothingOverwrittenUnseen NewestPushWins
PROPERTIES DecidedStaysDecided PublishesOncePerPress
