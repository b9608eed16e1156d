SPECIFICATION FairSpec
CONSTANTS
    e1 = e1
    e2 = e2
    r1 = r1
    r2 = r2
    Events = {e1, e2}
    Invalid = {e2}
    Replicas = {r1, r2}
    Concurrency = 1
    MaxDeliveries = 2
    DeadLetters = TRUE
    Batch = 1
    MaxStops = 1
    MaxDisruptions = 2
INVARIANTS AtLeastOnce HonestDeadLetters
PROPERTY EveryEventSettles
CHECK_DEADLOCK FALSE
