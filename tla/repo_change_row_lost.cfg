CONSTANTS
    w1 = w1
    w2 = w2
    p1 = p1
    p2 = p2
    c1 = c1
    Writers <- OneWriter
    Payloads <- MCPayloads
    Changes <- MCChanges
    NullChanges <- NoNullChanges
    MaxCommits = 3
    MaxCrashes = 0
    MaxStmtFailures = 1
SPECIFICATION Spec
INVARIANT
    ReachableCommitsVerify
CHECK_DEADLOCK FALSE
