\* caelix new, generate, update and run --watch.
SPECIFICATION Spec
CONSTANTS
    users = users
    Features = {users}
    MaxVersion = 2
    MaxCommands = 5
    MaxChanges = 3
CHECK_DEADLOCK FALSE
INVARIANTS
    FeaturesHoldTogether
    OneApplication
PROPERTIES
    ReportsAreTrue
    ChangesAreRun
