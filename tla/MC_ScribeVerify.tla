--------------------------- MODULE MC_ScribeVerify ---------------------------
(* Model-checking instance of ScribeVerify.                               *)
EXTENDS ScribeVerify

CONSTANTS w1, p1, p2, c1

MCPayloads == {p1, p2}
MCChanges  == {c1}
OneWriter  == {w1}
\* cmd_commit passes --table, --operation and --pk (default "{}") as given.
NoNullChanges == {}
=============================================================================
