SPECIFICATION FairSpec
CONSTANTS
    c1 = c1
    c2 = c2
    c3 = c3
    s1 = s1
    s2 = s2
    r1 = r1
    Commands = {c1, c2, c3}
    Subjects = {s1, s2}
    Subject <- OneApart
    Invalid = {c3}
    Unanswerable = {c2}
    Replicas = {r1}
    Concurrency = 2
    MaxDisruptions = 1
INVARIANTS GracefulShutdown TakenIsAnswered TruthfulReply
PROPERTY RunReturns
