SPECIFICATION Spec
CONSTANTS
    Amount = 2
    AppWebhook = FALSE
    Watches = {1}
    Totals = {2}
    Workers = {w1}
    Handlers = {h1}
    Reconcilers = {p1}
    MAX_AUTO_RETRIES = 3
    Deployments = {"settled"}
    MaxWorkerFaults = 0
    MaxActorFaults = 0
    MaxEngineFaults = 1
    MaxOperator = 0
    MaxRequeues = 0
INVARIANT SettledNotFailed
CHECK_DEADLOCK FALSE
