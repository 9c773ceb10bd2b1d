\* One writer that may be killed twice between statements; no statement fails.
CONSTANTS
    w1 = w1
    w2 = w2
    p1 = p1
    p2 = p2
    c1 = c1
    Writers <- OneWriter
    Payloads <- MCPayloads
    Changes <- MCChanges
    NullChanges <- NoNullChanges
    MaxCommits = 3
    MaxCrashes = 2
    MaxStmtFailures = 0
SPECIFICATION Spec
INVARIANT
    ReachableCommitsVerify
PROPERTY
    RefinesCommitLog
\* The CLI is a finite sequence of invocations: once MaxCommits commands
\* have run the repository is quiescent, which is a legal final state.
CHECK_DEADLOCK FALSE
