SPECIFICATION FairSpec
CONSTANTS
    e1 = e1
    e2 = e2
    r1 = r1
    r2 = r2
    Events = {e1, e2}
    Replicas = {r1, r2}
    Services <- TwoServices
    MaxDisruptions = 2
INVARIANTS AtLeastOnce BoundedInvocations HonestDeadLetters
PROPERTY EveryEventLeaves
