--------------------------- MODULE MC_ScribeRepo ---------------------------
(* Model-checking instance of ScribeRepo: model values for writers,       *)
(* payloads and changes, and the bounds each run uses.                    *)
EXTENDS ScribeRepo

CONSTANTS w1, w2, p1, p2, c1

MCPayloads == {p1, p2}
MCChanges  == {c1}
\* cmd_commit passes --table, --operation and --pk (default "{}") as given.
NoNullChanges == {}
OneWriter  == {w1}
TwoWriters == {w1, w2}
=============================================================================
