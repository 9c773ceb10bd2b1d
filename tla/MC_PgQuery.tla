----------------------------- MODULE MC_PgQuery -----------------------------
(* Model-checking instance of PgQuery for the poll query of pg_trigger.c: *)
(* SELECT id, table_name, operation, row_pk::text, old_data::text,        *)
(* new_data::text, transaction_id.  The row images are JSON texts, so     *)
(* their quotes are escaped; one in 10 chars is a quote, as in a row of   *)
(* short string columns.                                                  *)
EXTENDS PgQuery

\* strlen of each column name, in SELECT order.
MCNameLen == <<2, 10, 9, 6, 8, 8, 14>>

NullCell      == [null |-> TRUE, len |-> 0, escapes |-> 0]
Plain(n)      == [null |-> FALSE, len |-> n, escapes |-> 0]
JsonText(n)   == [null |-> FALSE, len |-> n, escapes |-> n \div 10]

\* id, table_name, operation, row_pk ({"id": 1}), old_data and new_data
\* (NULL for INSERT / DELETE, else a row of 200 chars, one just under the
\* first buffer, or one over twice its size), transaction_id.
RowImages == {NullCell, JsonText(200), JsonText(3700), JsonText(9000)}

MCCellShapes ==
    <<{Plain(3)}, {Plain(8)}, {Plain(6)}, {[null |-> FALSE, len |-> 9, escapes |-> 2]},
      RowImages, RowImages, {Plain(6)}>>
=============================================================================
