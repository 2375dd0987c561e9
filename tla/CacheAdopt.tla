------------------------------ MODULE CacheAdopt ------------------------------
(***************************************************************************)
(* The start of an archive pipeline (archive.rs, start): opening the disk     *)
(* cache and adopting the cache an older install left behind (cache.rs,       *)
(* SqliteCache::adopt), by a rename when the new cache is empty and the two   *)
(* are on one mount, or else by copying rows.  The process may die between    *)
(* any two effects on the disk and is then started again.                     *)
(*                                                                         *)
(* While the daemon runs, the pipeline's outages and drains are reduced to     *)
(* appending a new frame to the cache and sending its oldest one.             *)
(*                                                                         *)
(* Frames are numbered in capture order: 1..Legacy are the older install's.   *)
(***************************************************************************)
EXTENDS Integers, Sequences, Functions

CONSTANTS
    Legacy,      \* frames in the cache the older install left
    AdoptBatch,  \* ADOPT_BATCH: rows copied per transaction
    OneMount,    \* whether a rename from the old path to the new one can work
    MaxFrames,   \* bound: number of the last frame captured
    MaxFaults    \* bound: errors and crashes

ASSUME AdoptAssumption ==
    /\ Legacy \in Nat /\ AdoptBatch \in Nat \ {0} /\ OneMount \in BOOLEAN
    /\ MaxFrames \in Nat /\ MaxFaults \in Nat

VARIABLES
    pc,      \* "down", a step of adopt, or "run"
    old,     \* the rows of the old cache file, oldest first
    exists,  \* the old file is there
    new,     \* the rows of the cache file
    rows,    \* SqliteCache.rows of the new cache
    moved,   \* the old cache's row count, as it was opened
    usable,  \* the new cache's connection has a table
    sent,    \* frames the gateway has stored
    lost,    \* frames captured while the cache was not usable
    next,    \* the frame captured next
    failed,  \* history: an adoption has ended in an error
    faults   \* errors and crashes so far

world == <<sent, lost, next>>
vars == <<pc, old, exists, new, rows, moved, usable, world, failed, faults>>

Fault == faults < MaxFaults /\ faults' = faults + 1

Init ==
    /\ pc = "down"
    /\ old = [i \in 1..Legacy |-> i] /\ exists = TRUE
    /\ new = <<>> /\ rows = 0 /\ moved = 0 /\ usable = TRUE
    /\ sent = {} /\ lost = {} /\ next = Legacy + 1
    /\ failed = FALSE /\ faults = 0

(* start: open the new cache, which counts its rows. *)
Open ==
    /\ pc = "down"
    /\ rows' = Len(new) /\ usable' = TRUE
    /\ pc' = "adopt"
    /\ UNCHANGED <<old, exists, new, moved, world, failed, faults>>

(* adopt: open the old cache, if there is one, and choose the way to take it. *)
OpenOldIgnoringRest ==
    /\ pc = "adopt"
    /\ moved' = Len(old)
    /\ pc' = IF ~exists \/ rows # 0 THEN "run" ELSE IF old = <<>> THEN "delete" ELSE "takeover"
    /\ UNCHANGED <<old, exists, new, rows, usable, world, failed, faults>>
OpenOld ==
    /\ pc = "adopt"
    /\ moved' = IF exists THEN Len(old) ELSE 0
    /\ pc' = IF ~exists THEN "run"
             ELSE IF moved' = 0 THEN "delete"
             ELSE IF rows = 0 THEN "takeover"
             ELSE "read"
    /\ UNCHANGED <<old, exists, new, rows, usable, world, failed, faults>>

(* take_over closes both caches; the new one's connection is the in-memory       *)
(* placeholder from here on.                                                    *)
CloseBoth ==
    /\ pc = "takeover"
    /\ usable' = FALSE
    /\ pc' = "rename"
    /\ UNCHANGED <<old, exists, new, rows, moved, world, failed, faults>>

(* take_over: the rename replaces the file at once. *)
MoveByCopy == new' = old /\ UNCHANGED <<old, exists>>
MoveFile == new' = old /\ old' = <<>> /\ exists' = FALSE

(* A rename that fails, as it must across mounts, leaves both files and is no   *)
(* error.                                                                      *)
Rename ==
    /\ pc = "rename"
    /\ \/ OneMount /\ MoveFile /\ pc' = "moved" /\ UNCHANGED faults
       \/ /\ (IF OneMount THEN Fault ELSE UNCHANGED faults)
          /\ pc' = "unmoved" /\ UNCHANGED <<old, exists, new>>
    /\ UNCHANGED <<rows, moved, usable, world, failed>>

(* take_over: the count comes with the file that was moved. *)
CountKept == UNCHANGED rows
CountMoved == rows' = IF pc = "moved" THEN moved ELSE 0

(* take_over: open the file in its place, whichever it is.  adopt is done, or    *)
(* goes on to copy.                                                            *)
Reopen ==
    /\ pc \in {"moved", "unmoved"}
    /\ CountMoved /\ usable' = TRUE
    /\ pc' = IF pc = "moved" THEN "run" ELSE "read"
    /\ UNCHANGED <<old, exists, new, moved, world, failed, faults>>

(* A step of adopt up to the reopening fails: start logs it and carries on with  *)
(* the connection as it is.                                                    *)
TakeOverFails ==
    /\ pc \in {"adopt", "takeover", "moved", "unmoved"} /\ Fault
    /\ pc = "adopt" => exists
    /\ pc' = "run" /\ failed' = TRUE
    /\ UNCHANGED <<old, exists, new, rows, moved, usable, world>>

Batch == SubSeq(old, 1, IF Len(old) < AdoptBatch THEN Len(old) ELSE AdoptBatch)

(* adopt's loop: append a batch, then remove it from the old file; two         *)
(* transactions on two files.                                                  *)
CopyBatch ==
    /\ pc = "read" /\ old # <<>>
    /\ new' = new \o Batch /\ rows' = rows + Len(Batch)
    /\ pc' = "remove"
    /\ UNCHANGED <<old, exists, moved, usable, world, failed, faults>>

RemoveAll == old' = <<>>
RemoveBatch == old' = SubSeq(old, Len(Batch) + 1, Len(old))

RemoveCopied ==
    /\ pc = "remove"
    /\ RemoveBatch
    /\ pc' = IF old' = <<>> THEN "delete" ELSE "read"
    /\ UNCHANGED <<exists, new, rows, moved, usable, world, failed, faults>>

(* The second opening of the old cache, a read, an append, a remove or the       *)
(* delete fails: start logs it, leaves the old file alone and carries on.        *)
(* unlink may have removed the database before it failed on a sidecar.           *)
AdoptFails ==
    /\ pc \in {"read", "remove", "delete"} /\ Fault
    /\ exists' \in (IF pc = "delete" THEN BOOLEAN ELSE {exists})
    /\ pc' = "run" /\ failed' = TRUE
    /\ UNCHANGED <<old, new, rows, moved, usable, world>>

(* delete: the old file goes, its rows having gone before. *)
DeleteOld ==
    /\ pc = "delete"
    /\ exists' = FALSE /\ old' = <<>>
    /\ pc' = "run"
    /\ UNCHANGED <<new, rows, moved, usable, world, failed, faults>>

(* A frame captured during an outage. *)
Capture ==
    /\ pc = "run" /\ next <= MaxFrames
    /\ next' = next + 1
    /\ IF usable
       THEN new' = Append(new, next) /\ rows' = rows + 1 /\ UNCHANGED lost
       ELSE lost' = lost \cup {next} /\ UNCHANGED <<new, rows>>
    /\ UNCHANGED <<pc, old, exists, moved, usable, sent, failed, faults>>

(* The drain, which runs only on a row count above zero, sends the oldest row   *)
(* and removes it.                                                             *)
Drain ==
    /\ pc = "run" /\ usable /\ rows > 0 /\ new # <<>>
    /\ sent' = sent \cup {Head(new)}
    /\ new' = Tail(new)
    /\ rows' = rows - 1  \* saturating_sub; rows > 0 here
    /\ UNCHANGED <<pc, old, exists, moved, usable, lost, next, failed, faults>>

(* The process dies. *)
Crash ==
    /\ pc # "down" /\ Fault
    /\ pc' = "down"
    /\ UNCHANGED <<old, exists, new, rows, moved, usable, world, failed>>

(* It stops and is started again later. *)
Stop ==
    /\ pc = "run"
    /\ pc' = "down"
    /\ UNCHANGED <<old, exists, new, rows, moved, usable, world, failed, faults>>

Adopt ==
    \/ Open \/ OpenOld \/ CloseBoth \/ Rename \/ Reopen
    \/ CopyBatch \/ RemoveCopied \/ DeleteOld

Next == Adopt \/ TakeOverFails \/ AdoptFails \/ Capture \/ Drain \/ Crash \/ Stop

Spec == Init /\ [][Next]_vars

(* The daemon is stopped and started again every now and then, as by upgrades    *)
(* and reboots: an adoption that failed is tried again only at a start.  While   *)
(* it runs its gateway is there again and again.                               *)
LiveSpec == Spec /\ WF_vars(Adopt) /\ WF_vars(Stop) /\ SF_vars(Drain)
-----------------------------------------------------------------------------
(* No frame is stranded by an interrupted or failed adoption: it is still in    *)
(* one of the two files, or was sent, or came while the cache was unusable.    *)
NothingStranded == 1..(next - 1) \subseteq Range(old) \cup Range(new) \cup sent \cup lost

(* After any way through adopt the tracked row count is the table's, so the    *)
(* drain does not overlook the adopted rows.                                   *)
AdoptedRowsCounted == pc = "run" /\ usable => rows = Len(new)

(* adopt runs before a frame is enqueued, "the ordering the drain exists to     *)
(* keep": no frame is sent for the first time ahead of an older one in either  *)
(* file, however often adoption was interrupted, unless it failed with an      *)
(* error once and the daemon carried on without the old rows.                  *)
AdoptedInOrder ==
    [][ \A f \in sent' \ sent :
          failed \/ \A g \in Range(old) \cup Range(new) : g < f => g \in sent' ]_vars

(* What an interruption can duplicate is one batch: at most ADOPT_BATCH frames,  *)
(* the oldest of the old file, are ever in both files, however often a copy was  *)
(* interrupted and tried again.                                                *)
OverlapIsOneBatch == Range(old) \cap Range(new) \subseteq Range(Batch)

(* cache.rs says of adopt: "an interruption resumes rather than duplicating".  *)
ResumesWithoutDuplicates == \A i, j \in DOMAIN new : new[i] = new[j] => i = j

(* cache.rs says of a daemon that is up with a cache it cannot write: "That is  *)
(* precisely the state `pipeline.rs` refuses to start in".                     *)
RunsWithCache == pc = "run" => usable

(* What the older install had cached reaches the gateway in the end. *)
LegacyDelivered == \A f \in 1..Legacy : <>(f \in sent)
=============================================================================
