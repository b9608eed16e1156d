SPECIFICATION Spec
CONSTANTS
    a = a
    b = b
    c = c
    Types = {a, b, c}
    Configs <- Applications
INVARIANTS LastInFirstOut DependentsGoFirst
CHECK_DEADLOCK FALSE
