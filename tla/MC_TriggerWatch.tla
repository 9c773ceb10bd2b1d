--------------------------- MODULE MC_TriggerWatch ---------------------------
(* Model-checking instance of TriggerWatch.                               *)
EXTENDS TriggerWatch

CONSTANTS wt, p1, p2, c0

MCPayloads == {p1, p2}
MCChanges  == {c0}
=============================================================================
