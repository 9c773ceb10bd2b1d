---------------------------- MODULE TriggerWatch ----------------------------
(***************************************************************************)
(* `scribe watch --mode trigger`: the monitor loop of pg_monitor.c, the    *)
(* audit-table poll of pg_trigger.c and the on_change callback of          *)
(* cmd_watch.c, composed with the commit pipeline of ScribeRepo.           *)
(*                                                                         *)
(* Upstream, the audit trigger inserts one scribe_audit row per row change *)
(* of a watched table.  Its BIGSERIAL id is drawn when the INSERT runs,    *)
(* but the row becomes visible only when the user's transaction commits,  *)
(* so rows become visible in any order.  The monitor, on its own           *)
(* connection in autocommit mode, SELECTs the first Batch unprocessed rows *)
(* by id, then in a separate statement UPDATEs the first Batch unprocessed *)
(* rows (re-evaluated) to processed, then calls on_change once per counted *)
(* row, then sleeps.  on_change runs the writer pipeline of a commit.      *)
(***************************************************************************)
EXTENDS Naturals, Sequences, SequencesExt

CONSTANTS
    Watcher,          \* the watch process, as a writer of the repository
    Payloads, Changes, MaxCommits, MaxStmtFailures,   \* see ScribeRepo
    NullChange,       \* the change on_change receives (see Poll below)
    Batch,            \* LIMIT of the poll's SELECT and UPDATE (100)
    RowExtras,        \* extra '{' a row's text adds to the poll's count
    MaxRows,          \* bound: audit rows inserted upstream
    MaxConnFaults     \* bound: dropped links and failed connects

VARIABLES
    commits, changeRows, head, pc, env, idx, started, crashes,
    stmtFailures, order,          \* the repository (ScribeRepo)
    rows,         \* scribe_audit: id -> [vis, processed, extra]
    mon,          \* where the monitor thread is in its loop
    running,      \* monitor->running
    connState,    \* conn->state as the client records it
    link,         \* whether the server session actually works
    returned,     \* ids the current poll's SELECT returned
    toDeliver,    \* callbacks left in the current batch
    connFaults    \* connection faults so far (bound)

repoVars == <<commits, changeRows, head, pc, env, idx, started, crashes,
              stmtFailures, order>>
watchVars == <<rows, mon, running, connState, link, returned, toDeliver,
               connFaults>>
vars == <<repoVars, watchVars>>

R == INSTANCE ScribeRepo WITH Writers <- {Watcher}, MaxCrashes <- 0,
                              NullChanges <- {NullChange}

(***************************************************************************)
(* The audit table                                                         *)
(***************************************************************************)
\* Ids of visible unprocessed rows, ORDER BY id.
Unprocessed ==
    SelectSeq([i \in 1..Len(rows) |-> i],
              LAMBDA i : rows[i].vis /\ ~rows[i].processed)

FirstBatch == SubSeq(Unprocessed, 1, Min({Batch, Len(Unprocessed)}))

\* scribe_audit_trigger(): INSERT INTO scribe_audit, id from the sequence.
UpstreamInsert ==
    /\ Len(rows) < MaxRows
    /\ \E x \in RowExtras :
         rows' = Append(rows, [vis |-> FALSE, processed |-> FALSE, extra |-> x])
    /\ UNCHANGED <<repoVars, mon, running, connState, link, returned,
                   toDeliver, connFaults>>

\* The user's transaction that fired the trigger commits.
UpstreamCommit ==
    /\ \E i \in 1..Len(rows) :
         /\ ~rows[i].vis
         /\ rows' = [rows EXCEPT ![i].vis = TRUE]
    /\ UNCHANGED <<repoVars, mon, running, connState, link, returned,
                   toDeliver, connFaults>>

\* The server session breaks; the client notices only on its next query.
DropLink ==
    /\ link
    /\ connFaults < MaxConnFaults
    /\ link' = FALSE
    /\ connFaults' = connFaults + 1
    /\ UNCHANGED <<repoVars, rows, mon, running, connState, returned,
                   toDeliver>>

(***************************************************************************)
(* The monitor loop                                                        *)
(***************************************************************************)
ConnectOutcomes == {"ok"} \cup (IF connFaults < MaxConnFaults THEN {"fail"} ELSE {})

\* scribe_pg_monitor_poll: not CONNECTED, so scribe_pg_connect first; on
\* failure the poll returns SCRIBE_ERR_PG_CONNECT.
PollConnect ==
    /\ mon = "poll"
    /\ connState = "disconnected"
    /\ \E o \in ConnectOutcomes :
         /\ connState' = IF o = "ok" THEN "connected" ELSE "disconnected"
         /\ link' = (o = "ok")
         /\ mon' = IF o = "ok" THEN "poll" ELSE "backoff"
         /\ connFaults' = connFaults + (IF o = "ok" THEN 0 ELSE 1)
    /\ UNCHANGED <<repoVars, rows, running, returned, toDeliver>>

\* The SELECT fails on a broken session: SCRIBE_ERR_PG_QUERY.
PollSelectFails ==
    /\ mon = "poll"
    /\ connState = "connected"
    /\ ~link
    /\ mon' = "backoff"
    /\ UNCHANGED <<repoVars, rows, running, connState, link, returned,
                   toDeliver, connFaults>>

\* Mutant: the SELECT has no LIMIT.
PollSelectNoLimit ==
    /\ mon = "poll"
    /\ connState = "connected"
    /\ link
    /\ returned' = Unprocessed
    /\ mon' = IF Unprocessed = <<>> THEN "sleep" ELSE "mark"
    /\ UNCHANGED <<repoVars, rows, running, connState, link, toDeliver,
                   connFaults>>

\* SELECT ... WHERE NOT processed ORDER BY id LIMIT 100.  "[]" returns
\* with no changes; otherwise the poll goes on to mark them.
PollSelect ==
    /\ mon = "poll"
    /\ connState = "connected"
    /\ link
    /\ returned' = FirstBatch
    /\ mon' = IF FirstBatch = <<>> THEN "sleep" ELSE "mark"
    /\ UNCHANGED <<repoVars, rows, running, connState, link, toDeliver,
                   connFaults>>

\* The rest of scribe_pg_trigger_poll.  count is the number of '{' that
\* follow '[' or ',' in the result text: one per row, plus any a row's own
\* JSON contributes.  The changes are calloc'd and never filled in.  The
\* UPDATE marks the first 100 unprocessed rows as they are NOW, not the
\* returned ids, and its result is ignored.
PollMark ==
    /\ mon = "mark"
    /\ rows' = IF link
               THEN [i \in 1..Len(rows) |->
                       IF i \in ToSet(FirstBatch)
                       THEN [rows[i] EXCEPT !.processed = TRUE] ELSE rows[i]]
               ELSE rows
    /\ toDeliver' = FoldLeft(LAMBDA n, i : n + 1 + rows[i].extra, 0, returned)
    /\ mon' = "deliver"
    /\ UNCHANGED <<repoVars, running, connState, link, returned, connFaults>>

\* on_change for changes[i]: a one-change envelope parented to HEAD, then
\* store_commit and set_head; every failure is dropped silently.  The
\* change is the poll's calloc'd record, so its table, operation and key
\* are NULL: the commit row goes in, its change row never does.
OnChange ==
    /\ mon = "deliver"
    /\ toDeliver > 0
    /\ R!BeginPipeline(Watcher, <<NullChange>>)
    /\ toDeliver' = toDeliver - 1
    /\ UNCHANGED <<rows, mon, running, connState, link, returned, connFaults>>

\* The pipeline of the current on_change runs to its end.
CallbackStep ==
    \/ R!StoreCommitRow(Watcher)
    \/ R!StoreCommitRowFails(Watcher)
    \/ R!StoreChangeRow(Watcher)
    \/ R!SetHead(Watcher)

Pipeline == CallbackStep /\ UNCHANGED watchVars

\* Last callback returned: scribe_pg_changes_free, then usleep.
DeliverDone ==
    /\ mon = "deliver"
    /\ toDeliver = 0
    /\ pc[Watcher] = "idle"
    /\ mon' = "sleep"
    /\ returned' = <<>>
    /\ UNCHANGED <<repoVars, rows, running, connState, link, toDeliver,
                   connFaults>>

\* Mutant: the loop goes round again without testing monitor->running.
SleepIgnoresStop ==
    /\ mon = "sleep"
    /\ mon' = "poll"
    /\ UNCHANGED <<repoVars, rows, running, connState, link, returned,
                   toDeliver, connFaults>>

\* End of the iteration: `while (monitor->running)`.
Sleep ==
    /\ mon = "sleep"
    /\ mon' = IF running THEN "poll" ELSE "exited"
    /\ UNCHANGED <<repoVars, rows, running, connState, link, returned,
                   toDeliver, connFaults>>

\* Mutant: a poll error ends the loop (break instead of continue).
BackoffExits ==
    /\ mon = "backoff"
    /\ connState' = "disconnected"
    /\ link' = FALSE
    /\ mon' = "exited"
    /\ UNCHANGED <<repoVars, rows, running, returned, toDeliver, connFaults>>

\* Poll error: scribe_pg_disconnect, sleep(1), scribe_pg_connect (result
\* ignored), continue.
Backoff ==
    /\ mon = "backoff"
    /\ \E o \in ConnectOutcomes :
         /\ connState' = IF o = "ok" THEN "connected" ELSE "disconnected"
         /\ link' = (o = "ok")
         /\ connFaults' = connFaults + (IF o = "ok" THEN 0 ELSE 1)
    /\ mon' = IF running THEN "poll" ELSE "exited"
    /\ UNCHANGED <<repoVars, rows, running, returned, toDeliver>>

\* SIGINT/SIGTERM: signal_handler calls scribe_pg_monitor_stop.
Stop ==
    /\ running
    /\ running' = FALSE
    /\ UNCHANGED <<repoVars, rows, mon, connState, link, returned, toDeliver,
                   connFaults>>

(***************************************************************************)
(* Specification                                                           *)
(***************************************************************************)
\* An initialized repository; cmd_watch connected (it exits otherwise) and
\* scribe_pg_monitor_start set running.
\* scribe_pg_monitor_setup in trigger mode: scribe_pg_connect, then
\* CREATE TABLE IF NOT EXISTS scribe_audit, which keeps the committed rows
\* an earlier watch left unprocessed.
MonitorSetup ==
    /\ connState = "connected"
    /\ link = TRUE
    /\ \E k \in 0..MaxRows, x \in RowExtras :
         rows = [i \in 1..k |-> [vis |-> TRUE, processed |-> FALSE, extra |-> x]]

Init ==
    /\ R!Init
    /\ MonitorSetup
    /\ mon = "poll"
    /\ running = TRUE
    /\ returned = <<>>
    /\ toDeliver = 0
    /\ connFaults = 0

MonitorStep ==
    \/ PollConnect \/ PollSelectFails \/ PollSelect \/ PollMark
    \/ OnChange \/ DeliverDone \/ Sleep \/ Backoff

Next ==
    \/ UpstreamInsert \/ UpstreamCommit \/ DropLink \/ Stop
    \/ MonitorStep
    \/ Pipeline

\* The monitor is one thread that keeps running its loop: each of its steps
\* and each statement of the callback's pipeline is weakly fair.  Upstream
\* transactions and signals need not happen.
Fairness ==
    /\ WF_vars(MonitorStep)
    /\ WF_vars(Pipeline)

Spec == Init /\ [][Next]_vars /\ Fairness

(***************************************************************************)
(* Properties                                                              *)
(***************************************************************************)
TypeOK ==
    /\ R!TypeOK
    /\ rows \in Seq([vis : BOOLEAN, processed : BOOLEAN, extra : RowExtras])
    /\ Len(rows) <= MaxRows
    /\ mon \in {"poll", "mark", "deliver", "sleep", "backoff", "exited"}
    /\ connState \in {"connected", "disconnected"}
    /\ returned \in Seq(1..Len(rows)) /\ Len(returned) <= Batch
    /\ toDeliver \in Nat

\* Every audit row that becomes visible is eventually marked processed,
\* unless the monitor was told to stop: the loop keeps polling through
\* connection errors and each successful UPDATE consumes the first batch.
EveryRowEventuallyMarked ==
    \A i \in 1..MaxRows :
        (IF i <= Len(rows) THEN rows[i].vis ELSE FALSE)
            ~> ((IF i <= Len(rows) THEN rows[i].processed ELSE FALSE) \/ ~running)

\* scribe_pg_monitor_stop: once running is cleared, the loop ends after the
\* current batch.
StopLeadsToExit == ~running ~> mon = "exited"

\* Spec 4.8: "idempotence relies on the upstream marker being updated only
\* on successful processing".  Whenever the monitor is between batches, the
\* chain from HEAD holds a commit for every audit row marked processed: no
\* row is marked whose change did not become part of the history.  The poll
\* marks before on_change runs, and on_change drops a failed store_commit,
\* set_head or HEAD read.
MarkedRowsCommitted ==
    mon \in {"poll", "sleep", "exited"} =>
        Cardinality({i \in 1..Len(rows) : rows[i].processed})
            <= Len(R!GetHistory(R!Zero, MaxCommits + 1))

=============================================================================
