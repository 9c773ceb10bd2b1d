\* Two audit rows committed in any order, two connection faults, one failing SQLite statement.
CONSTANTS
    wt = wt
    p1 = p1
    p2 = p2
    c0 = c0
    Watcher = wt
    NullChange = c0
    Payloads <- MCPayloads
    Changes <- MCChanges
    Batch = 1
    RowExtras = {0}
    MaxRows = 2
    MaxConnFaults = 2
    MaxCommits = 6
    MaxStmtFailures = 1
SPECIFICATION Spec
INVARIANT
    TypeOK
PROPERTIES
    EveryRowEventuallyMarked
    StopLeadsToExit
\* After a stop request the loop exits and the process ends: a terminal state.
CHECK_DEADLOCK FALSE
