SPECIFICATION FairSpec
CONSTANTS
    Replicas = {a1}
    Requests = {q1, q2}
    Sessions = {s1}
    Bodies = {1, 2}
    MaxKeys = 2
    MaxPrunes = 1
    MaxFaults = 2
INVARIANTS TypeOK OneDepositPerKey
PROPERTIES RotatedKeyDies OwnerGetsRow
CHECK_DEADLOCK FALSE
