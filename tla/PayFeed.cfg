SPECIFICATION FairSpec
CONSTANTS
    Amount = 1
    AppWebhook = FALSE
    Watches = {1}
    Totals = {1}
    Readers = {r1}
    CAPACITY = 2
    MaxEvents = 4
    MaxOthers = 2
    MaxDrops = 2
INVARIANTS NoMissedChange AnswersAreConsistent
PROPERTY HeldIsAnswered
CHECK_DEADLOCK FALSE
