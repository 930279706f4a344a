SPECIFICATION FairSpec
CONSTANTS
    Amount = 2
    AppWebhook = FALSE
    Watches = {1}
    Totals = {2}
    Workers = {w1, w2}
    Handlers = {}
    Reconcilers = {p1}
    MAX_AUTO_RETRIES = 1
    Deployments = {"settled"}
    MaxWorkerFaults = 1
    MaxActorFaults = 0
    MaxEngineFaults = 1
    MaxOperator = 1
    MaxRequeues = 1
PROPERTY PaidIsResolved
CHECK_DEADLOCK FALSE
