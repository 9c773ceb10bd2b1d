--------------------------- MODULE MC_ObjectStore ---------------------------
(* Model-checking instance of ObjectStore: two processes, two digests.    *)
EXTENDS ObjectStore, TLC

CONSTANTS q1, q2, h1, h2

MCProcs  == {q1, q2}
MCHashes == {h1, h2}
OneHash  == {h1}

\* Processes differ only by pid.
ProcSymmetry == Permutations(MCProcs)
=============================================================================
