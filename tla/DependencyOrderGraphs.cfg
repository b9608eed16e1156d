SPECIFICATION OrderSpec
CONSTANTS
    p1 = p1
    p2 = p2
    p3 = p3
    q = q
    Nodes = {p1, p2, p3}
    Others = {q}
INVARIANTS DependenciesFirst HonestCycle Complete
CHECK_DEADLOCK FALSE
