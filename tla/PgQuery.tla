------------------------------- MODULE PgQuery -------------------------------
(***************************************************************************)
(* scribe_pg_query (postgres/pg_client.c): run a query and copy its result *)
(* set into a malloc'd JSON text, [{"col":"value",...},...].  The copy     *)
(* loop checks the space left once per column and doubles the buffer at    *)
(* most once when short; separators, braces and the escape backslashes     *)
(* are written without a check.                                            *)
(*                                                                         *)
(* A cell is abstracted to what the buffer arithmetic sees: whether it is  *)
(* NULL, strlen of its text and how many of its chars are '"' or '\\'      *)
(* (each copied with a backslash before it).  Column names are the ones    *)
(* of the poll query of pg_trigger.c, by length.                           *)
(***************************************************************************)
EXTENDS Naturals, Sequences

CONSTANTS
    NameLen,     \* strlen(PQfname(result, c)) for each column c, a sequence
    CellShapes,  \* column c -> the cells that column can hold
    MaxRows,     \* bound: rows of the result set
    InitialSize  \* the first malloc (4096)

VARIABLES
    phase,     \* where the function is: exec, row, col, close, returned
    nrows,     \* PQntuples(result)
    row,       \* the row being copied
    col,       \* the column being copied
    pos,       \* the next byte of json to write
    bufSize,   \* bytes allocated for json
    written,   \* bytes of json written so far, the last index + 1 (ghost)
    result     \* what the call returns: none yet, NULL, "[]" or the text

vars == <<phase, nrows, row, col, pos, bufSize, written, result>>

NCols == Len(NameLen)

Max2(a, b) == IF a >= b THEN a ELSE b

\* Bytes a cell adds: sprintf "\"%s\":" (name + 3), then "null" for a NULL
\* cell or the value in quotes with one backslash per '"' or '\\'.
CellBytes(c, v) ==
    NameLen[c] + 3 + (IF v.null THEN 4 ELSE 2 + v.len + v.escapes)

\* The bytes a cell's writes touch: sprintf also stores a '\0' after
\* "null", past the cell's last char (the one after the name is
\* overwritten by the next char).
CellExtent(c, v) == CellBytes(c, v) + (IF v.null THEN 1 ELSE 0)

\* `needed`: PQgetvalue returns "" for a NULL cell, so strlen is 0 there.
Needed(c, v) == NameLen[c] + (IF v.null THEN 0 ELSE v.len) + 20

\* PQexec and PQresultStatus: a failed or non-tuple result returns NULL, an
\* empty one strdup("[]"); otherwise malloc(4096), which may fail, and '['.
Exec ==
    /\ phase = "exec"
    /\ \/ /\ result' = "null"
          /\ UNCHANGED <<nrows, pos, bufSize, written>>
       \/ \E n \in 0..MaxRows :
            /\ nrows' = n
            /\ \/ /\ n = 0
                  /\ result' = "empty"
                  /\ UNCHANGED <<pos, bufSize, written>>
               \/ /\ n > 0
                  /\ result' = "null"
                  /\ UNCHANGED <<pos, bufSize, written>>
               \/ /\ n > 0
                  /\ bufSize' = InitialSize
                  /\ pos' = 1
                  /\ written' = 1
                  /\ UNCHANGED result
    /\ phase' = IF result' = "none" THEN "row" ELSE "returned"
    /\ UNCHANGED <<row, col>>

\* Start of a row: ',' after the first row, then '{', both unchecked.
RowStart ==
    /\ phase = "row"
    /\ LET n == (IF row > 0 THEN 1 ELSE 0) + 1
       IN  /\ pos' = pos + n
           /\ written' = Max2(written, pos + n)
    /\ col' = 1
    /\ phase' = "col"
    /\ UNCHANGED <<nrows, row, bufSize, result>>

\* One column: ',' after the first (unchecked), then "Ensure buffer space":
\* if pos + needed >= buf_size, buf_size doubles once (realloc failing
\* returns NULL); then the name and the escaped value are written.
Column ==
    /\ phase = "col"
    /\ col <= NCols
    /\ \E v \in CellShapes[col] :
         LET p0   == pos + (IF col > 1 THEN 1 ELSE 0)
             grow == p0 + Needed(col, v) >= bufSize
         IN  \/ /\ grow
                /\ result' = "null"
                /\ phase' = "returned"
                /\ UNCHANGED <<pos, bufSize, written, col>>
             \/ /\ bufSize' = IF grow THEN 2 * bufSize ELSE bufSize
                /\ pos' = p0 + CellBytes(col, v)
                /\ written' = Max2(written, p0 + CellExtent(col, v))
                /\ col' = col + 1
                /\ UNCHANGED <<phase, result>>
    /\ UNCHANGED <<nrows, row>>

\* '}' closes the row (unchecked).
RowEnd ==
    /\ phase = "col"
    /\ col > NCols
    /\ pos' = pos + 1
    /\ written' = Max2(written, pos + 1)
    /\ row' = row + 1
    /\ phase' = IF row + 1 < nrows THEN "row" ELSE "close"
    /\ UNCHANGED <<nrows, col, bufSize, result>>

\* ']' and the terminating '\0', unchecked; the text is returned.
Close ==
    /\ phase = "close"
    /\ pos' = pos + 1
    /\ written' = Max2(written, pos + 2)
    /\ result' = "json"
    /\ phase' = "returned"
    /\ UNCHANGED <<nrows, row, col, bufSize>>

Init ==
    /\ phase = "exec"
    /\ nrows = 0
    /\ row = 0
    /\ col = 0
    /\ pos = 0
    /\ bufSize = 0
    /\ written = 0
    /\ result = "none"

Next == Exec \/ RowStart \/ Column \/ RowEnd \/ Close

Spec == Init /\ [][Next]_vars

\* The code's own comment, "Ensure buffer space", before each column: every
\* byte the copy loop writes, the separators, braces, escapes and the final
\* '\0' included, lies inside the buffer malloc/realloc gave it.
WritesWithinBuffer == written <= bufSize

=============================================================================
