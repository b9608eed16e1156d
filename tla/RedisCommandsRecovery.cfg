SPECIFICATION FairSpec
CONSTANTS
    c1 = c1
    c2 = c2
    c3 = c3
    r1 = r1
    r2 = r2
    Commands = {c1}
    Replicas = {r1, r2}
    Kind <- OneValid
    Concurrency = 1
    MaxDisruptions = 2
INVARIANTS PaidInvocations TruthfulReply NoReplyMissed
PROPERTIES ImplementsContract EveryCommandLeaves
