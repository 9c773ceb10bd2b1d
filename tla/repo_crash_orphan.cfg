\* One writer, one kill between statements and one failing statement: the
\* shortest counterexample is a failed set_head after store_commit; a kill
\* at the same point, and a failed HEAD read, each violate it on their own.
CONSTANTS
    w1 = w1
    w2 = w2
    p1 = p1
    p2 = p2
    c1 = c1
    Writers <- OneWriter
    Payloads <- MCPayloads
    Changes <- MCChanges
    NullChanges <- NoNullChanges
    MaxCommits = 3
    MaxCrashes = 1
    MaxStmtFailures = 1
SPECIFICATION Spec
INVARIANT
    HistoryIsCreationOrder
CHECK_DEADLOCK FALSE
