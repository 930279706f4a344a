SPECIFICATION Spec
CONSTANTS
    Amount = 2
    AppWebhook = FALSE
    Watches = {1}
    Totals = {2}
    Workers = {w1}
    Handlers = {h1}
    Reconcilers = {p1}
    MAX_AUTO_RETRIES = 1
    Deployments = {"settled", "recovered"}
    MaxWorkerFaults = 1
    MaxActorFaults = 1
    MaxEngineFaults = 1
    MaxOperator = 0
    MaxRequeues = 0
INVARIANTS PaidHasDriver VerdictIsTrue RetryIsNewJob
CHECK_DEADLOCK FALSE
