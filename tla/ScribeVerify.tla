---------------------------- MODULE ScribeVerify ----------------------------
(***************************************************************************)
(* `scribe verify [COMMIT]` (commands/cmd_verify.c) run against the        *)
(* repository of ScribeRepo while writers commit.  The command resolves    *)
(* its start (the COMMIT argument, else HEAD), walks get_history(start,    *)
(* 1000), runs verify_commit on each id and exits 0 when none failed.  It  *)
(* only reads, so one run of it is one step; the writers' statements       *)
(* interleave between runs.                                                *)
(***************************************************************************)
EXTENDS ScribeRepo

CONSTANT VerifyLimit   \* the limit cmd_verify passes to get_history (1000)

VARIABLE verdict       \* the last run: its exit status, and (ghost) whether
                       \* every commit reachable from its start verifies

verifyVars == <<vars, verdict>>

NoVerdict == [exit |-> 0, intact |-> TRUE]

\* The commits reachable from id, whatever the limit.
FullChain(id) == Walk(id, 0, MaxCommits + 1)

\* scribe_db_get_history: a parent query that fails to prepare ends the walk
\* with `break`, and one whose step fails zeroes `current`; either way the
\* walk stops after the id it just appended and the list is returned.
WalkOutcomes(h, o) ==
    IF o = "ok" THEN {h} ELSE {SubSeq(h, 1, k) : k \in 1..Len(h)}

\* Statements of one command that failed.
FailCount(os) == Cardinality({i \in DOMAIN os : os[i] = "fail"})

\* verify_commit(id) when one of its reads fails: the commit row's query
\* makes load_commit return NULL ("not found"); the change query ends early
\* and load_commit returns the envelope with only the rows read so far;
\* the parent's load fails ("missing parent").
VerifyCommitReadFails(id) ==
    {FALSE}
    \cup {/\ id \in DOMAIN commits
          /\ EnvelopeVerify([LoadCommit(id) EXCEPT !.changes = SubSeq(@, 1, k)], id)
          /\ commits[id].parent # Zero => commits[id].parent \in DOMAIN commits
          : k \in 0..Len(LoadCommit(id).changes)}
    \cup {VerifyCommit(id) /\ commits[id].parent = Zero}

\* verify_commit on each listed id; with ov = "fail" one of those calls
\* meets a failing statement.
VerifyResults(checked, ov) ==
    LET r == [i \in 1..Len(checked) |-> VerifyCommit(checked[i])]
    IN  IF ov = "ok" THEN {r}
        ELSE UNION {{[r EXCEPT ![j] = b] : b \in VerifyCommitReadFails(checked[j])}
                    : j \in 1..Len(checked)}

\* cmd_verify.  A COMMIT argument names the start (a stored id here; Zero
\* stands for no argument); else HEAD is read and its error ignored, leaving
\* start zero.  A zero start prints "Repository is empty" and exits 0.
\* Otherwise it exits 1 when any verify_commit failed.
CmdVerify ==
    /\ \E target \in {Zero} \cup DOMAIN commits, o, ow, ov \in StmtOutcomes :
         /\ o = "fail" => target = Zero
         /\ LET intended == IF target = Zero THEN head ELSE target
                start    == IF o = "ok" THEN intended ELSE Zero
                full     == IF start = Zero THEN <<>>
                            ELSE GetHistory(start, VerifyLimit)
            IN  /\ ow = "fail" => full # <<>>
                /\ \E checked \in WalkOutcomes(full, ow) :
                     /\ ov = "fail" => checked # <<>>
                     /\ \E res \in VerifyResults(checked, ov) :
                          verdict' =
                            [exit   |-> IF \A i \in DOMAIN res : res[i] THEN 0 ELSE 1,
                             intact |-> \A i \in 1..Len(FullChain(intended)) :
                                           VerifyCommit(FullChain(intended)[i])]
         /\ stmtFailures' = stmtFailures + FailCount(<<o, ow, ov>>)
         /\ stmtFailures' <= MaxStmtFailures
    /\ UNCHANGED <<commits, changeRows, head, pc, env, idx, started, crashes, order>>

VerifyInit == Init /\ verdict = NoVerdict

VerifyNext == (Next /\ UNCHANGED verdict) \/ CmdVerify

VerifySpec == VerifyInit /\ [][VerifyNext]_verifyVars

\* What `scribe verify` prints is true of the chain it was asked about:
\* "Verification successful!  All parent links valid, all commit hashes
\* match" (exit 0) exactly when every commit reachable from the start
\* loads, re-hashes to its id and has its parent stored; "Verification
\* failed" (exit 1) only when one of them does not.
VerifyVerdictMatchesChain == (verdict.exit = 0) = verdict.intact

=============================================================================
