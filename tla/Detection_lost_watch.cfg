SPECIFICATION Spec
CONSTANTS
    Amount = 2
    AppWebhook = FALSE
    Watches = {1, 2}
    Totals = {1, 2}
    Workers = {w1}
    Handlers = {h1}
    Delivered = {"payment.confirmed", "payment.orphaned", "threshold.reached", "watch.expired"}
    Reconcilers = {p1}
    MaxOnchain = 2
    MaxWorkerFaults = 0
    MaxActorFaults = 0
    MaxIndexerFaults = 1
    MaxOperator = 1
INVARIANTS TypeOK OpenIsWatched PaidIsFunded ExpiredAfterExpiry
INVARIANTS StatusMatchesTimeline RowsHaveCauses
PROPERTY ImplementsLifecycle
CHECK_DEADLOCK FALSE
