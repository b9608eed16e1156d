SPECIFICATION FairSpec
CONSTANTS
    a1 = a1
    Adapters = {"actix", "axum"}
    Apps = {a1}
    MaxSize = 2
    QueueLimit = 2
    MaxFrames = 3
    MaxCalls = 1
INVARIANTS MessagesInOrder AcceptedFramesArrive OnCloseIsTruthful
PROPERTY ConnectionEnds
CHECK_DEADLOCK FALSE
