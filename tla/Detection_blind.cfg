SPECIFICATION Spec
CONSTANTS
    Amount = 2
    AppWebhook = FALSE
    Watches = {1}
    Totals = {1, 2}
    Workers = {w1}
    Handlers = {}
    Delivered = {}
    Reconcilers = {p1}
    MaxOnchain = 2
    MaxWorkerFaults = 1
    MaxActorFaults = 0
    MaxIndexerFaults = 0
    MaxOperator = 0
INVARIANT CompletedNotExpired
CHECK_DEADLOCK FALSE
