------------------------------ MODULE CommitLog ------------------------------
(***************************************************************************)
(* What a Scribe repository promises its readers (spec 3, 4.7, 5): the     *)
(* history is an append-only list of envelopes in which each envelope's    *)
(* parent is the commit id of the one before it, the first having the     *)
(* zero parent.  A commit either appears at the end of the list in one     *)
(* step or not at all.                                                     *)
(***************************************************************************)
EXTENDS Naturals, Sequences

VARIABLE log   \* envelopes [parent, payload, changes], oldest first

Zero == <<>>

\* The commit id of an envelope (an injective stand-in for SHA-256 over
\* its canonical serialization, as in ScribeRepo).
CommitId(e) == <<e.parent, e.payload, e.changes>>

LastId == IF log = <<>> THEN Zero ELSE CommitId(log[Len(log)])

\* One commit is appended, parented to the last.
AppendCommit ==
    /\ Len(log') = Len(log) + 1
    /\ SubSeq(log', 1, Len(log)) = log
    /\ log'[Len(log')].parent = LastId

Init == log = <<>>

Spec == Init /\ [][AppendCommit]_log

=============================================================================
