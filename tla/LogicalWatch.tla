---------------------------- MODULE LogicalWatch ----------------------------
(***************************************************************************)
(* `scribe watch --mode logical`: the monitor loop of pg_monitor.c with    *)
(* scribe_pg_logical_get_changes (postgres/pg_logical.c) as its poll.      *)
(* The poll peeks at up to 100 changes of the replication slot, and if any *)
(* came back it advances the slot with a second, separate call to          *)
(* pg_logical_slot_get_changes(slot, NULL, 100).  The peeked text is never *)
(* parsed: the poll returns no changes, so the callback is never called.   *)
(* The peek passes no plugin options: it returns rows only from a slot     *)
(* whose plugin emits text; on the pgoutput slot create_slot makes it      *)
(* fails, and the loop backs off and polls again.  Other connection errors *)
(* and the stop flag follow TriggerWatch and are left out here.            *)
(***************************************************************************)
EXTENDS Naturals, Sequences, FiniteSets

CONSTANTS
    Batch,      \* upto_nchanges of both calls (100)
    MaxWal      \* bound: changes decoded into the slot

VARIABLES
    slot,       \* changes the slot still holds, oldest first (ids)
    plugin,     \* the slot's output plugin
    nextId,     \* id of the next decoded change
    mon,        \* where the monitor is in its loop
    peeked,     \* ghost: ids any peek returned
    consumed,   \* ghost: ids the slot has released
    delivered   \* ghost: ids passed to on_change

vars == <<slot, plugin, nextId, mon, peeked, consumed, delivered>>

Take(s, n) == SubSeq(s, 1, IF Len(s) < n THEN Len(s) ELSE n)

Ids(s) == {s[i] : i \in 1..Len(s)}

\* A committed transaction's row change is decoded into the slot.
WalAppend ==
    /\ nextId <= MaxWal
    /\ slot' = Append(slot, nextId)
    /\ nextId' = nextId + 1
    /\ UNCHANGED <<plugin, mon, peeked, consumed, delivered>>

\* pg_logical_slot_peek_changes(slot, NULL, 100): "[]" returns with no
\* changes; otherwise the result is dropped unparsed and the slot advanced.
\* pgoutput refuses to start without proto_version and publication_names:
\* scribe_pg_query returns NULL and the poll SCRIBE_ERR_PG_QUERY.
Peek ==
    /\ mon = "peek"
    /\ \/ /\ plugin = "text"
          /\ peeked' = peeked \cup Ids(Take(slot, Batch))
          /\ mon' = IF slot = <<>> THEN "sleep" ELSE "advance"
       \/ /\ plugin = "pgoutput"
          /\ mon' = "backoff"
          /\ UNCHANGED peeked
    /\ UNCHANGED <<slot, plugin, nextId, consumed, delivered>>

\* Poll error: disconnect, sleep(1), connect, continue.
Backoff ==
    /\ mon = "backoff"
    /\ mon' = "peek"
    /\ UNCHANGED <<slot, plugin, nextId, peeked, consumed, delivered>>

\* pg_logical_slot_get_changes(slot, NULL, 100) through scribe_pg_execute,
\* result ignored: consumes up to 100 changes as the slot holds them now.
Advance ==
    /\ mon = "advance"
    /\ consumed' = consumed \cup Ids(Take(slot, Batch))
    /\ slot' = SubSeq(slot, Len(Take(slot, Batch)) + 1, Len(slot))
    /\ mon' = "sleep"
    /\ UNCHANGED <<plugin, nextId, peeked, delivered>>

\* count is 0: no callback; usleep, then poll again.
Sleep ==
    /\ mon = "sleep"
    /\ mon' = "peek"
    /\ UNCHANGED <<slot, plugin, nextId, peeked, consumed, delivered>>

\* scribe_pg_logical_create_slot: a new slot is created with 'pgoutput' and
\* starts empty; an existing one ("Already exists"), of whatever plugin it
\* was made with, still holds what was decoded while nobody consumed it.
CreateSlot ==
    \/ /\ slot = <<>>
       /\ plugin = "pgoutput"
       /\ nextId = 1
    \/ \E k \in 0..MaxWal, pl \in {"pgoutput", "text"} :
         /\ slot = [i \in 1..k |-> i]
         /\ plugin = pl
         /\ nextId = k + 1

Init ==
    /\ CreateSlot
    /\ mon = "peek"
    /\ peeked = {}
    /\ consumed = {}
    /\ delivered = {}

MonitorStep == Peek \/ Advance \/ Sleep \/ Backoff

Next == WalAppend \/ MonitorStep

\* The monitor thread keeps running its loop.
Spec == Init /\ [][Next]_vars /\ WF_vars(MonitorStep)

(***************************************************************************)
(* Properties                                                              *)
(***************************************************************************)
TypeOK ==
    /\ slot \in Seq(1..MaxWal)
    /\ plugin \in {"pgoutput", "text"}
    /\ mon \in {"peek", "advance", "sleep", "backoff"}
    /\ consumed \cup Ids(slot) = 1..(nextId - 1)
    /\ consumed \cap Ids(slot) = {}

\* Spec 4.8: each change the adapter takes from upstream becomes a commit:
\* no change is released by the slot without going to on_change.
ConsumedChangesDelivered == consumed \subseteq delivered

=============================================================================
