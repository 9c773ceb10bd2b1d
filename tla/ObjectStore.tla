---------------------------- MODULE ObjectStore ----------------------------
(***************************************************************************)
(* The content-addressed object store of storage/objects.c, used by        *)
(* several processes at once.  scribe_objects_store checks whether the     *)
(* object's file exists, writes the content to <path>.tmp.<pid> (fopen     *)
(* "wb", fwrite, fclose) and renames it over <path>; it never fsyncs.      *)
(*                                                                         *)
(* A path holds no file, a partial one (being written, or torn) or the    *)
(* full content.  Neither the file nor its directory is ever fsynced, so   *)
(* what a power loss leaves at a path is only what the kernel has written  *)
(* back: its last written-back state, or its current name with the data   *)
(* there or torn.  A rename or unlink that returned may be undone.         *)
(*                                                                         *)
(* Nothing in the repository calls these functions yet (no header declares *)
(* them); the model is of the functions as a library would use them.       *)
(***************************************************************************)
EXTENDS Naturals, FiniteSets

CONSTANTS
    Procs,          \* processes using the store, each with its own pid
    Hashes,         \* object digests
    MaxIoFailures,  \* bound: failing fwrite/fclose/rename calls
    MaxCrashes      \* bound: machine crashes

VARIABLES
    files,          \* path -> what is there now: NoFile, "partial", "full"
    synced,         \* path -> what the kernel has written back to disk
    pc,             \* per process: where its current store call is
    arg,            \* per process: the digest it is storing
    ioFailures,     \* (bound)
    crashes,        \* (bound)
    loaded,         \* per process: its last scribe_objects_load, NoLoad if none
    stored          \* ghost: digests whose store call returned SCRIBE_OK and
                    \* that no delete has removed since

vars == <<files, synced, pc, arg, ioFailures, crashes, loaded, stored>>

NoFile == "none"
NoArg == "none"
NoLoad == [h |-> NoArg, r |-> "none", afterStore |-> FALSE]

\* get_object_path: objects/<hex[0:2]>/<hex[2:]>, one file per digest.
ObjPath(h) == <<"obj", h>>

\* Mutant: the temporary name lacks the pid, so processes share it.
TmpPathNoPid(h, p) == <<"tmp", h>>

\* snprintf(tmp_path, "%s.tmp.%d", path, getpid()).
TmpPath(h, p) == <<"tmp", h, p>>

Paths == {ObjPath(h) : h \in Hashes} \cup {TmpPath(h, p) : h \in Hashes, p \in Procs}

IoOutcomes == {"ok"} \cup (IF ioFailures < MaxIoFailures THEN {"fail"} ELSE {})

CountIo(o) == ioFailures' = ioFailures + (IF o = "fail" THEN 1 ELSE 0)

\* scribe_objects_store, up to fopen: an existing object returns SCRIBE_OK
\* at once; otherwise mkdir the fan-out directory and create (or truncate)
\* the temporary file.  A failing fopen returns SCRIBE_ERR_IO, no file made.
StoreOpen(p, h) ==
    /\ pc[p] = "idle"
    /\ files[ObjPath(h)] = NoFile
    /\ \E o \in IoOutcomes :
         /\ files' = IF o = "ok"
                     THEN [files EXCEPT ![TmpPath(h, p)] = "partial"]
                     ELSE files
         /\ pc' = [pc EXCEPT ![p] = IF o = "ok" THEN "opened" ELSE "idle"]
         /\ arg' = [arg EXCEPT ![p] = IF o = "ok" THEN h ELSE NoArg]
         /\ CountIo(o)
    /\ UNCHANGED <<synced, crashes, loaded, stored>>

\* Mutant: a failed fwrite or fclose returns without unlinking.
StoreWriteNoUnlink(p) ==
    LET tmp == TmpPath(arg[p], p) IN
    /\ pc[p] = "opened"
    /\ \E o \in IoOutcomes :
         /\ files' = IF o = "ok" THEN [files EXCEPT ![tmp] = "full"] ELSE files
         /\ pc' = [pc EXCEPT ![p] = IF o = "ok" THEN "written" ELSE "idle"]
         /\ arg' = [arg EXCEPT ![p] = IF o = "ok" THEN @ ELSE NoArg]
         /\ CountIo(o)
    /\ UNCHANGED <<synced, crashes, loaded, stored>>

\* fwrite then fclose; if either fails the temporary file is unlinked and
\* SCRIBE_ERR_IO returned.
StoreWrite(p) ==
    LET tmp == TmpPath(arg[p], p) IN
    /\ pc[p] = "opened"
    /\ \E o \in IoOutcomes :
         /\ files' = IF o = "ok" THEN [files EXCEPT ![tmp] = "full"]
                                 ELSE [files EXCEPT ![tmp] = NoFile]
         /\ pc' = [pc EXCEPT ![p] = IF o = "ok" THEN "written" ELSE "idle"]
         /\ arg' = [arg EXCEPT ![p] = IF o = "ok" THEN @ ELSE NoArg]
         /\ CountIo(o)
    /\ UNCHANGED <<synced, crashes, loaded, stored>>

\* The store call of p returned SCRIBE_OK exactly when o = "ok".
Stored(p, o) == stored' = IF o = "ok" THEN stored \cup {arg[p]} ELSE stored

StoreRename(p) ==
    LET tmp == TmpPath(arg[p], p)
        obj == ObjPath(arg[p])
    IN
    /\ pc[p] = "written"
    /\ \E o \in IoOutcomes :
         /\ files' = IF o = "ok" THEN [files EXCEPT ![obj] = files[tmp], ![tmp] = NoFile]
                                 ELSE [files EXCEPT ![tmp] = NoFile]
         /\ CountIo(o)
         /\ Stored(p, o)
    /\ pc' = [pc EXCEPT ![p] = "idle"]
    /\ arg' = [arg EXCEPT ![p] = NoArg]
    /\ UNCHANGED <<synced, crashes, loaded>>

\* scribe_objects_store when the object's file already exists: SCRIBE_OK
\* at once, nothing written.
StoreExisting(p, h) ==
    /\ pc[p] = "idle"
    /\ files[ObjPath(h)] # NoFile
    /\ stored' = stored \cup {h}
    /\ UNCHANGED <<files, synced, pc, arg, ioFailures, crashes, loaded>>

\* scribe_objects_delete: unlink(path).
Delete(p, h) ==
    /\ pc[p] = "idle"
    /\ files[ObjPath(h)] # NoFile
    /\ files' = [files EXCEPT ![ObjPath(h)] = NoFile]
    /\ stored' = stored \ {h}
    /\ UNCHANGED <<synced, pc, arg, ioFailures, crashes, loaded>>

\* scribe_objects_load: fopen(path) fails with OBJECT_MISSING when there is
\* no file; otherwise the stream is bound to the file then at the path
\* (a later rename replaces the name, not the open file) and its size and
\* bytes are read, a short read returning SCRIBE_ERR_IO.  Nothing but a
\* crash, which kills the reader too, changes an open file's data, so the
\* call is one step.  afterStore records (ghost) whether a store of h had
\* returned SCRIBE_OK, undeleted, when the load ran.
Load(p, h) ==
    /\ pc[p] = "idle"
    /\ \E o \in IoOutcomes :
         /\ loaded' = [loaded EXCEPT ![p] =
                          [h |-> h,
                           r |-> IF files[ObjPath(h)] = NoFile THEN "missing"
                                 ELSE IF o = "fail" THEN "io"
                                 ELSE files[ObjPath(h)],
                           afterStore |-> h \in stored]]
         /\ CountIo(IF files[ObjPath(h)] = NoFile THEN "ok" ELSE o)
    /\ UNCHANGED <<files, synced, pc, arg, crashes, stored>>

\* The kernel writes a path's name and data back to disk.
Writeback(f) ==
    /\ synced[f] # files[f]
    /\ synced' = [synced EXCEPT ![f] = files[f]]
    /\ UNCHANGED <<files, pc, arg, ioFailures, crashes, loaded, stored>>

\* What a power loss may leave at f: with no fsync of the file or of its
\* directory, anything not written back is there, gone, or torn.
AfterPowerLoss(f) ==
    IF files[f] = synced[f] THEN {files[f]}
    ELSE {synced[f], files[f]} \cup (IF files[f] # NoFile THEN {"partial"} ELSE {})

\* Power loss: every process dies and each path keeps one of the states
\* above; no store call that returned before it is promised anything.
Crash ==
    /\ crashes < MaxCrashes
    /\ \E after \in [Paths -> {NoFile, "partial", "full"}] :
         /\ \A f \in Paths : after[f] \in AfterPowerLoss(f)
         /\ files' = after
         /\ synced' = after
    /\ pc' = [p \in Procs |-> "idle"]
    /\ arg' = [p \in Procs |-> NoArg]
    /\ crashes' = crashes + 1
    /\ stored' = {}
    /\ UNCHANGED <<ioFailures, loaded>>

Init ==
    /\ files = [f \in Paths |-> NoFile]
    /\ synced = [f \in Paths |-> NoFile]
    /\ pc = [p \in Procs |-> "idle"]
    /\ arg = [p \in Procs |-> NoArg]
    /\ ioFailures = 0
    /\ crashes = 0
    /\ loaded = [p \in Procs |-> NoLoad]
    /\ stored = {}

Next ==
    \/ \E p \in Procs, h \in Hashes :
         StoreOpen(p, h) \/ StoreExisting(p, h) \/ Delete(p, h) \/ Load(p, h)
    \/ \E p \in Procs : StoreWrite(p) \/ StoreRename(p)
    \/ \E f \in Paths : Writeback(f)
    \/ Crash

Spec == Init /\ [][Next]_vars

(***************************************************************************)
(* Properties                                                              *)
(***************************************************************************)
\* Content addressing: a file at an object's path always holds that
\* object's complete content, across any interleaving of store calls on
\* the same digest (spec 4.5: writes are atomic).
ObjectsIntact ==
    \A h \in Hashes :
        files[ObjPath(h)] # NoFile => files[ObjPath(h)] = "full"

\* The same, for runs of the store with no power loss: two processes
\* storing one digest at once never expose each other's half-written file.
ObjectsIntactWithoutCrash == crashes = 0 => ObjectsIntact

\* Spec 5: temporary files are removed when a write fails.  A *.tmp.<pid>
\* file that no store call of that process is working on can only be left
\* by a process that died, never by a failed fwrite, fclose or rename.
StrayTmpOnlyAfterCrash ==
    \A h \in Hashes, p \in Procs :
        (files[TmpPath(h, p)] # NoFile /\ arg[p] # h) => crashes > 0

=============================================================================
