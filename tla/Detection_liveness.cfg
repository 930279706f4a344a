SPECIFICATION FairSpec
CONSTANTS
    Amount = 1
    AppWebhook = FALSE
    Watches = {1, 2, 3, 4}
    Totals = {1}
    Workers = {w1}
    Handlers = {h1}
    Delivered = {"payment.pending"}
    Reconcilers = {p1}
    MaxOnchain = 1
    MaxWorkerFaults = 1
    MaxActorFaults = 1
    MaxIndexerFaults = 1
    MaxOperator = 0
PROPERTY FundedIsNoticed
CHECK_DEADLOCK FALSE
