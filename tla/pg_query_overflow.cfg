\* The poll query over up to two audit rows whose row images are NULL or a
\* row of 200, 3700 or 9000 chars.
CONSTANTS
    NameLen <- MCNameLen
    CellShapes <- MCCellShapes
    MaxRows = 2
    InitialSize = 4096
SPECIFICATION Spec
INVARIANT
    WritesWithinBuffer
\* scribe_pg_query returns; the finished call is a legal final state.
CHECK_DEADLOCK FALSE
