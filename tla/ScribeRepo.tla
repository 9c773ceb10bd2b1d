----------------------------- MODULE ScribeRepo -----------------------------
(***************************************************************************)
(* The commit store (storage/database.c), the HEAD reference and the      *)
(* writer pipeline of `scribe commit` (commands/cmd_commit.c).            *)
(*                                                                         *)
(* A writer reads HEAD, builds and finalizes an envelope in memory, then   *)
(* issues the SQLite statements of scribe_db_store_commit (one INSERT for  *)
(* the commit row, one INSERT per change) and finally scribe_db_set_ref.  *)
(* No BEGIN/COMMIT surrounds them: every statement is its own autocommit   *)
(* transaction, so a process that dies between two statements leaves the  *)
(* earlier ones durable.  Any statement may fail (SQLITE_BUSY, IOERR,      *)
(* FULL, NOMEM); how the code reacts to each failure is part of the model. *)
(*                                                                         *)
(* Digests are abstracted by an injective constructor: the commit id of an *)
(* envelope is the tuple of everything its canonical serialization         *)
(* contains (SHA-256 is assumed collision free).  The zero digest is <<>>. *)
(***************************************************************************)
EXTENDS Naturals, Sequences, SequencesExt, TLC

CONSTANTS
    Writers,          \* concurrent scribe processes writing to one repository
    Payloads,         \* author/process/message/timestamp of an envelope
    Changes,          \* one row change (table, operation, pk, digests)
    NullChanges,      \* changes whose table, operation or pk is NULL
    MaxCommits,       \* bound: number of commit pipelines started
    MaxCrashes,       \* bound: processes killed in the middle of a pipeline
    MaxStmtFailures   \* bound: SQLite statements that return an error

VARIABLES
    commits,      \* commits table: commit id -> [parent, payload]
    changeRows,   \* changes table, in AUTOINCREMENT id order
    head,         \* the refs row named HEAD
    pc,           \* per writer: the next statement of its pipeline
    env,          \* per writer: the finalized in-memory envelope
    idx,          \* per writer: index of the next change row to insert
    started,      \* pipelines started so far (bound)
    crashes,      \* crashes so far (bound)
    stmtFailures, \* failed statements so far (bound)
    order         \* ghost: commit ids in the order their rows were inserted

vars == <<commits, changeRows, head, pc, env, idx, started, crashes,
          stmtFailures, order>>

(***************************************************************************)
(* Digests and envelopes                                                   *)
(***************************************************************************)
Zero == <<>>

\* cmd_commit adds at most one change (--table/--operation given or not).
ChangeLists == {<<>>} \cup {<<c>> : c \in Changes}

NoEnv == [parent |-> Zero, payload |-> Zero, changes |-> <<>>]

\* scribe_envelope_finalize: commit_id := SHA256(canonical JSON of every
\* field but commit_id); tree_hash is itself a function of the changes.
CommitId(e) == <<e.parent, e.payload, e.changes>>

\* scribe_envelope_verify: zero commit_id on a clone, re-serialize, compare.
EnvelopeVerify(e, id) == CommitId(e) = id

(***************************************************************************)
(* Reads of the commit store                                               *)
(***************************************************************************)
\* scribe_db_get_ref("HEAD"): '' (the schema's initial value) reads as zero.
GetHead == head

ParentOf(id) == IF id \in DOMAIN commits THEN commits[id].parent ELSE Zero

\* Mutant: the change query lacks its WHERE commit_hash = ? clause.
LoadCommitAllRows(id) ==
    [parent  |-> commits[id].parent,
     payload |-> commits[id].payload,
     changes |-> [i \in 1..Len(changeRows) |-> changeRows[i].change]]

\* scribe_db_load_commit: the commit row plus its change rows, in rowid
\* order; a missing row loads as nothing.
LoadCommit(id) ==
    LET rows == SelectSeq(changeRows, LAMBDA r : r.commit = id)
    IN  [parent  |-> commits[id].parent,
         payload |-> commits[id].payload,
         changes |-> [i \in 1..Len(rows) |-> rows[i].change]]

\* scribe_db_get_history: walk parent links from `from` (HEAD when zero),
\* at most `limit` ids (100 when 0), stopping at a zero or unknown parent.
\* Mutant: the walk stops one id early (count + 1 < limit).
RECURSIVE WalkStopsEarly(_, _, _)
WalkStopsEarly(cur, n, limit) ==
    IF n + 1 >= limit \/ cur = Zero THEN <<>>
    ELSE <<cur>> \o WalkStopsEarly(ParentOf(cur), n + 1, limit)

RECURSIVE Walk(_, _, _)
Walk(cur, n, limit) ==
    IF n >= limit \/ cur = Zero THEN <<>>
    ELSE <<cur>> \o Walk(ParentOf(cur), n + 1, limit)

GetHistory(from, limit) ==
    Walk(IF from # Zero THEN from ELSE GetHead,
         0, IF limit = 0 THEN 100 ELSE limit)

\* cmd_verify.c verify_commit: the commit loads, re-hashes to its id, and
\* its parent (if any) loads.
VerifyCommit(id) ==
    /\ id \in DOMAIN commits
    /\ EnvelopeVerify(LoadCommit(id), id)
    /\ commits[id].parent # Zero => commits[id].parent \in DOMAIN commits

(***************************************************************************)
(* Writer pipeline                                                         *)
(***************************************************************************)
StmtOutcomes == {"ok"} \cup (IF stmtFailures < MaxStmtFailures
                             THEN {"fail"} ELSE {})

CountFailure(o) == stmtFailures' = stmtFailures + (IF o = "fail" THEN 1 ELSE 0)

Finish(w) ==
    /\ pc'  = [pc  EXCEPT ![w] = "idle"]
    /\ env' = [env EXCEPT ![w] = NoEnv]
    /\ idx' = [idx EXCEPT ![w] = 0]

\* Up to finalize: build the envelope with changes cs, read HEAD as its
\* parent.  A failed HEAD read is not an error: the parent is simply left
\* zero.  Shared by cmd_commit and the watch callback on_change.
BeginPipeline(w, cs) ==
    /\ pc[w] = "idle"
    /\ started < MaxCommits
    /\ \E p \in Payloads, o \in StmtOutcomes :
         /\ env' = [env EXCEPT ![w] = [parent  |-> IF o = "ok" THEN GetHead ELSE Zero,
                                       payload |-> p,
                                       changes |-> cs]]
         /\ CountFailure(o)
    /\ pc' = [pc EXCEPT ![w] = "store_commit"]
    /\ started' = started + 1
    /\ UNCHANGED <<commits, changeRows, head, idx, crashes, order>>

\* cmd_commit: at most one change, from --table/--operation/--pk.
CmdCommitStart(w) == \E cs \in ChangeLists : BeginPipeline(w, cs)

\* scribe_db_store_commit, INSERT INTO commits succeeds.
StoreCommitRow(w) ==
    LET id == CommitId(env[w]) IN
    /\ pc[w] = "store_commit"
    /\ id \notin DOMAIN commits
    /\ "ok" \in StmtOutcomes
    /\ commits' = commits @@ (id :> [parent  |-> env[w].parent,
                                     payload |-> env[w].payload])
    /\ order' = Append(order, id)
    /\ pc' = [pc EXCEPT ![w] = IF env[w].changes = <<>> THEN "set_head"
                                                        ELSE "store_change"]
    /\ idx' = [idx EXCEPT ![w] = 1]
    /\ UNCHANGED <<changeRows, head, env, started, crashes, stmtFailures>>

\* Mutant: the caller ignores store_commit's error and updates HEAD anyway.
StoreCommitRowFailsIgnored(w) ==
    LET id == CommitId(env[w]) IN
    /\ pc[w] = "store_commit"
    /\ \E o \in StmtOutcomes :
         /\ o = "fail" \/ id \in DOMAIN commits
         /\ CountFailure(o)
    /\ pc' = [pc EXCEPT ![w] = "set_head"]
    /\ UNCHANGED <<commits, changeRows, head, env, idx, started, crashes, order>>

StoreCommitRowFails(w) ==
    LET id == CommitId(env[w]) IN
    /\ pc[w] = "store_commit"
    /\ \E o \in StmtOutcomes :
         /\ o = "fail" \/ id \in DOMAIN commits
         /\ CountFailure(o)
    /\ Finish(w)
    /\ UNCHANGED <<commits, changeRows, head, started, crashes, order>>

\* Mutant: the change row is bound to the parent's hex instead of the commit's.
StoreChangeRowParentHash(w) ==
    /\ pc[w] = "store_change"
    /\ \E o \in StmtOutcomes :
         /\ changeRows' = IF o = "ok" /\ env[w].changes[idx[w]] \notin NullChanges
                          THEN Append(changeRows,
                                      [commit |-> env[w].parent,
                                       change |-> env[w].changes[idx[w]]])
                          ELSE changeRows
         /\ CountFailure(o)
    /\ idx' = [idx EXCEPT ![w] = @ + 1]
    /\ pc' = [pc EXCEPT ![w] = IF idx[w] = Len(env[w].changes) THEN "set_head"
                                                               ELSE "store_change"]
    /\ UNCHANGED <<commits, head, env, started, crashes, order>>

\* One INSERT INTO changes.  A failing prepare is skipped with `continue`
\* and the result of sqlite3_step is never looked at: store_commit still
\* returns SCRIBE_OK after the loop.  A change with a NULL table, operation
\* or primary key fails the NOT NULL constraints of its step, unnoticed.
StoreChangeRow(w) ==
    /\ pc[w] = "store_change"
    /\ \E o \in StmtOutcomes :
         /\ changeRows' = IF o = "ok" /\ env[w].changes[idx[w]] \notin NullChanges
                          THEN Append(changeRows,
                                      [commit |-> CommitId(env[w]),
                                       change |-> env[w].changes[idx[w]]])
                          ELSE changeRows
         /\ CountFailure(o)
    /\ idx' = [idx EXCEPT ![w] = @ + 1]
    /\ pc' = [pc EXCEPT ![w] = IF idx[w] = Len(env[w].changes) THEN "set_head"
                                                               ELSE "store_change"]
    /\ UNCHANGED <<commits, head, env, started, crashes, order>>

\* cmd_commit "Update HEAD": INSERT OR REPLACE INTO refs; on failure the
\* command reports the error and exits 1, the commit row stays.
SetHead(w) ==
    /\ pc[w] = "set_head"
    /\ \E o \in StmtOutcomes :
         /\ head' = IF o = "ok" THEN CommitId(env[w]) ELSE head
         /\ CountFailure(o)
    /\ Finish(w)
    /\ UNCHANGED <<commits, changeRows, started, crashes, order>>

\* The process is killed between two statements; autocommit has made every
\* earlier statement durable.
Crash(w) ==
    /\ pc[w] # "idle"
    /\ crashes < MaxCrashes
    /\ crashes' = crashes + 1
    /\ Finish(w)
    /\ UNCHANGED <<commits, changeRows, head, started, stmtFailures, order>>

(***************************************************************************)
(* Specification                                                           *)
(***************************************************************************)
\* scribe_repo_init + SCHEMA_SQL: empty tables, HEAD = ''.
Init ==
    /\ commits = <<>>
    /\ changeRows = <<>>
    /\ head = Zero
    /\ pc = [w \in Writers |-> "idle"]
    /\ env = [w \in Writers |-> NoEnv]
    /\ idx = [w \in Writers |-> 0]
    /\ started = 0
    /\ crashes = 0
    /\ stmtFailures = 0
    /\ order = <<>>

Next ==
    \E w \in Writers :
        \/ CmdCommitStart(w)
        \/ StoreCommitRow(w)
        \/ StoreCommitRowFails(w)
        \/ StoreChangeRow(w)
        \/ SetHead(w)
        \/ Crash(w)

Spec == Init /\ [][Next]_vars

(***************************************************************************)
(* Properties                                                              *)
(***************************************************************************)
Idle == \A w \in Writers : pc[w] = "idle"

TypeOK ==
    /\ pc \in [Writers -> {"idle", "store_commit", "store_change", "set_head"}]
    /\ \A id \in DOMAIN commits : commits[id].payload \in Payloads
    /\ \A i \in 1..Len(changeRows) : changeRows[i].change \in Changes
    /\ head = Zero \/ Len(head) = 3
    /\ idx \in [Writers -> Nat]
    /\ started \in 0..MaxCommits
    /\ order \in Seq(DOMAIN commits)

\* Referential integrity, what `scribe verify` reports as "All parent links
\* valid": HEAD names a stored commit, and every stored commit's parent is
\* stored.  HEAD is written only after store_commit succeeded and a parent
\* is only ever read from HEAD, across any interleaving of writers, crashes
\* and failed statements.
ParentLinksValid ==
    /\ head # Zero => head \in DOMAIN commits
    /\ \A id \in DOMAIN commits :
         commits[id].parent # Zero => commits[id].parent \in DOMAIN commits

HistoryIsCreationOrder ==
    Idle =>
      /\ GetHistory(Zero, Len(order)) = Reverse(order)
      /\ GetHistory(Zero, Len(order) + 1) = Reverse(order)

\* Every commit reachable from HEAD passes `scribe verify`: its stored rows
\* re-hash to its commit id.
ReachableCommitsVerify ==
    \A i \in 1..Len(GetHistory(Zero, Len(order) + 1)) :
        VerifyCommit(GetHistory(Zero, Len(order) + 1)[i])

\* The repository as a reader sees it: the envelopes loaded along the chain
\* HEAD leads to, oldest first, read with get_history(HEAD, n) for the n
\* commits stored so far, the smallest limit that must return all of it.
ChainLog ==
    LET ids == Reverse(GetHistory(Zero, Len(order)))
    IN  [i \in 1..Len(ids) |-> LoadCommit(ids[i])]

Log == INSTANCE CommitLog WITH log <- ChainLog

\* The store, HEAD and the writer pipeline implement the append-only,
\* hash-chained commit log: every step either leaves the visible history
\* alone or appends one envelope whose parent is the id of the last.
RefinesCommitLog == Log!Spec

=============================================================================
