SPECIFICATION Spec
CONSTANTS
    c1 = c1
    c2 = c2
    c3 = c3
    r1 = r1
    r2 = r2
    Commands = {c1, c2, c3}
    Replicas = {r1}
    Kind <- Mixed
    Concurrency = 2
    MaxDisruptions = 1
INVARIANTS NothingLost
