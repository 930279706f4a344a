SPECIFICATION FairSpec
CONSTANTS
    Amount = 1
    AppWebhook = TRUE
    Watches = {1}
    Totals = {1}
    Workers = {w1, w2}
    MaxEvents = 4
    MaxWorkerFaults = 1
    MaxAppFaults = 1
    MaxGiveUps = 1
    MaxOperator = 1
INVARIANTS InOrder AppLearnsVerdict
PROPERTY EventsReachApp
CHECK_DEADLOCK FALSE
