\* A batch smaller than the LIMIT, with a row committed between SELECT and
\* UPDATE, and one failing SQLite statement for the callback to drop.
CONSTANTS
    wt = wt
    p1 = p1
    p2 = p2
    c0 = c0
    Watcher = wt
    NullChange = c0
    Payloads <- MCPayloads
    Changes <- MCChanges
    Batch = 2
    RowExtras = {0}
    MaxRows = 2
    MaxConnFaults = 0
    MaxCommits = 4
    MaxStmtFailures = 1
SPECIFICATION Spec
INVARIANT
    MarkedRowsCommitted
\* After a stop request the loop exits and the process ends: a terminal state.
CHECK_DEADLOCK FALSE
