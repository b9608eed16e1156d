SPECIFICATION Spec
CONSTANTS
    r1 = r1
    r2 = r2
    path = path
    auth = auth
    role = role
    trace = trace
    timeout = timeout
    Requests = {r1, r2}
    Declarations <- SomeDeclarations
    Bodies <- SomeBodies
    BodyLimit = 2
    Destinations = {path}
    NoFile = NoFile
SYMMETRY Same
INVARIANTS OnlyAdmittedRequestsRun StagedFilesAreOwned PersistedFilesStay ListenIsTruthful
CHECK_DEADLOCK FALSE
