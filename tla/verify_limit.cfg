\* Three commits, two failing statements (one to corrupt a commit, one in the
\* verify run), and a walk limit of two standing for the 1000 of cmd_verify.
CONSTANTS
    w1 = w1
    p1 = p1
    p2 = p2
    c1 = c1
    Writers <- OneWriter
    Payloads <- MCPayloads
    Changes <- MCChanges
    NullChanges <- NoNullChanges
    MaxCommits = 3
    MaxCrashes = 0
    MaxStmtFailures = 2
    VerifyLimit = 2
SPECIFICATION VerifySpec
INVARIANT
    VerifyVerdictMatchesChain
\* The CLI is a finite sequence of invocations.
CHECK_DEADLOCK FALSE
