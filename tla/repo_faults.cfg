\* Two concurrent writers, one crash and one failing statement.
CONSTANTS
    w1 = w1
    w2 = w2
    p1 = p1
    p2 = p2
    c1 = c1
    Writers <- TwoWriters
    Payloads <- MCPayloads
    Changes <- MCChanges
    NullChanges <- NoNullChanges
    MaxCommits = 3
    MaxCrashes = 1
    MaxStmtFailures = 1
SPECIFICATION Spec
INVARIANTS
    ParentLinksValid
    
CHECK_DEADLOCK FALSE
