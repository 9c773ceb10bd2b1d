\* Two processes storing one digest (paths of distinct digests never meet),
\* two failing I/O calls and one power loss.
CONSTANTS
    q1 = q1
    q2 = q2
    h1 = h1
    h2 = h2
    Procs <- MCProcs
    Hashes <- OneHash
    MaxIoFailures = 2
    MaxCrashes = 1
SPECIFICATION Spec
INVARIANTS
    ObjectsIntactWithoutCrash
    StrayTmpOnlyAfterCrash
    
SYMMETRY ProcSymmetry
