SPECIFICATION FairSpec
CONSTANTS
    Handlers = {h1, h2}
    Rows = {r1, r2}
    Line <- MCLine
    Connections = 2
    Permits = 1
    Batch = 1
    MaxPanics = 1
INVARIANTS TypeOK WakeNotLost OrderlyStopFinishesJobs
PROPERTIES HandlersServed OutboxKeepsClaiming ShutdownEnds
CHECK_DEADLOCK FALSE
