------------------------------- MODULE Batcher -------------------------------
(***************************************************************************)
(* One archive pipeline of the capture daemon (crates/wiretap-server):      *)
(* the bounded queue the readers feed (archive.rs, Archive), the worker      *)
(* that batches it towards the gateway (archive.rs, Batcher) and the disk    *)
(* cache that stands in for the gateway (cache.rs, SqliteCache).             *)
(*                                                                         *)
(* The worker is one task.  A step of it here ends where the code awaits,    *)
(* or where a crash would leave a different disk behind.  Readers, the stop  *)
(* signal and a crash of the process interleave between its steps.           *)
(*                                                                         *)
(* The sink is what the BatchSink trait lets the worker see of it: a write   *)
(* says how much of the batch was acknowledged, which may be less than what  *)
(* the far end has stored, since an acknowledgement can be lost.             *)
(*                                                                         *)
(* Frames are numbered in the order the readers offer them.                  *)
(***************************************************************************)
EXTENDS Integers, Sequences, Functions

CONSTANTS
    QueueSize,  \* [forward] queue_size: capacity of the queue
    BatchSize,  \* [forward] batch_size: frames per write and per cache append
    FlushPct,   \* [forward] queue_flush_pct: occupancy that spills to disk, 0 = never
    CacheMax,   \* [forward] cache_max_mb, in frames
    MaxFrames,  \* bound: frames ever offered
    MaxFaults   \* bound: cache errors and crashes

ASSUME SizesAssumption ==
    /\ QueueSize \in Nat \ {0}
    /\ BatchSize \in Nat \ {0}
    /\ FlushPct \in Nat
    /\ CacheMax \in Nat
    /\ MaxFrames \in Nat
    /\ MaxFaults \in Nat

VARIABLES
    queue,      \* the mpsc channel's contents
    closed,     \* the receiver has closed the channel
    stop,       \* the watch: "none", "sent", or "seen" by stop.changed()
    pc,         \* where the worker is
    ret,        \* where it goes once `hand` has been cached
    cause,      \* how the drain's write ended, while its rows are removed
    connected,  \* Batcher.connected
    draining,   \* Batcher.draining_cache
    batch,      \* the frames being written
    hand,       \* frames off the queue on their way to the cache
    cache,      \* the rows of the cache file, oldest first
    rows,       \* SqliteCache.rows: the row count it tracks
    pages,      \* size_bytes: the database with its -wal and -shm, up to the limit
    usable,     \* the cache's connection has a table
    count       \* Counters: enqueued, written, cached, recovered, dropped

(* History and bounds: nothing above depends on these but `next` and `faults`. *)
VARIABLES
    next,       \* the frame offered next
    accepted,   \* frames the queue took
    stored,     \* frames the far end has stored, or is past stopping from storing
    discarded,  \* accepted frames that cache_batch dropped
    crashed,    \* accepted frames that were only in memory at a crash
    unsure,     \* frames stored without the daemon's disk saying so
    skipped,    \* this pass of the loop could not read the cache
    faults      \* cache errors and crashes so far

queueVars == <<queue, closed, stop>>
workVars == <<pc, ret, cause, connected, draining, batch, hand>>
cacheVars == <<cache, rows, pages, usable>>
histVars == <<next, accepted, stored, discarded, crashed, unsure, skipped, faults>>
vars == <<queueVars, workVars, cacheVars, count, histVars>>

(* No frames. *)
Nil == <<>>

(* A sink call's result: Ok, SinkError::Failed or SinkError::Closed. *)
Results == {"ok", "failed", "closed"}

(* The first `batch_size` of a sequence of frames, and what is behind them. *)
ChunkTakesAll(s) == s
Chunk(s) == IF Len(s) <= BatchSize THEN s ELSE SubSeq(s, 1, BatchSize)
Rest(s) == IF Len(s) <= BatchSize THEN Nil ELSE SubSeq(s, BatchSize + 1, Len(s))

Zero == [enqueued |-> 0, written |-> 0, cached |-> 0, recovered |-> 0, dropped |-> 0]

(* Accepted frames that only memory holds. *)
Held == Range(queue) \cup Range(hand) \cup (IF pc = "write" THEN Range(batch) ELSE {})

Fault == faults < MaxFaults /\ faults' = faults + 1

(* queue_finished *)
QueueFinished == closed /\ queue = Nil

(* Counters.dropped counts frames. *)
CountBatchDropped(n) == [count EXCEPT !.dropped = @ + 1]
CountDropped(n) == [count EXCEPT !.dropped = @ + n]

(* written(), and what drain_cache adds to it. *)
CountWritten(n) == [count EXCEPT !.written = @ + n]
CountRecovered(n) == [CountWritten(n) EXCEPT !.recovered = @ + n]
-----------------------------------------------------------------------------
Init ==
    /\ queue = Nil /\ closed = FALSE /\ stop = "none"
    /\ pc = "top" /\ ret = "top" /\ cause = "ok"
    /\ connected = FALSE /\ draining = FALSE
    /\ batch = Nil /\ hand = Nil
    /\ cache = Nil /\ rows = 0 /\ pages = 0 /\ usable = TRUE
    /\ count = Zero
    /\ next = 1 /\ accepted = {} /\ stored = {} /\ discarded = {} /\ crashed = {}
    /\ unsure = {} /\ skipped = FALSE /\ faults = 0

(* Archive::enqueue: try_send, whose three outcomes the queue decides. *)
Enqueue ==
    /\ pc # "down" /\ next <= MaxFrames
    /\ next' = next + 1
    /\ \/ /\ ~closed /\ Len(queue) < QueueSize
          /\ queue' = Append(queue, next)
          /\ accepted' = accepted \cup {next}
          /\ count' = [count EXCEPT !.enqueued = @ + 1]
       \/ /\ ~closed /\ Len(queue) >= QueueSize
          /\ count' = CountDropped(1)
          /\ UNCHANGED <<queue, accepted>>
       \/ closed /\ UNCHANGED <<queue, accepted, count>>
    /\ UNCHANGED <<closed, stop, workVars, cacheVars, stored, discarded, crashed,
                   unsure, skipped, faults>>

(* Running::shutdown. *)
Shutdown ==
    /\ pc \notin {"down", "done"} /\ stop = "none"
    /\ stop' = "sent"
    /\ UNCHANGED <<queue, closed, workVars, cacheVars, count, histVars>>

(* take_queued, then cache_batch on each chunk of it: the worker goes to       *)
(* "keep" with the frames in hand and on to `then` when they have all gone.    *)
KeepQueue(then) ==
    /\ hand' = queue /\ queue' = Nil
    /\ pc' = "keep" /\ ret' = then

(* The head of the loop: spill_if_queue_filling. *)
Top ==
    /\ pc = "top"
    /\ skipped' = FALSE
    /\ IF FlushPct > 0 /\ Len(queue) * 100 >= QueueSize * FlushPct
       THEN KeepQueue("dial")
       ELSE pc' = "dial" /\ UNCHANGED <<queue, hand, ret>>
    /\ UNCHANGED <<closed, stop, cause, connected, draining, batch, cacheVars, count,
                   next, accepted, stored, discarded, crashed, unsure, faults>>

(* What one cache_batch call takes: the flush at shutdown hands everything    *)
(* over at once, every other caller at most `batch_size`.                      *)
Taken == IF ret = "done" THEN hand ELSE Chunk(hand)
Left == IF ret = "done" THEN Nil ELSE Rest(hand)

(* What a transaction on n rows, an append or a DELETE, does to the size: it     *)
(* writes to the -wal and may enlarge the database, or finds room in both, which *)
(* SQLite never makes smaller.  Only sizes up to the limit are told apart.       *)
UpToLimit(p) == IF p < CacheMax THEN p ELSE CacheMax
GrowFile(n) ==
    /\ pages' \in pages..UpToLimit(pages + n)
    /\ pages' >= UpToLimit(Len(cache'))

(* SqliteCache::append: one transaction. *)
AppendInFront(frames) ==
    cache' = frames \o cache /\ rows' = rows + Len(frames) /\ GrowFile(Len(frames)) /\ UNCHANGED usable
AppendUncounted(frames) ==
    cache' = cache \o frames /\ GrowFile(Len(frames)) /\ UNCHANGED <<rows, usable>>
AppendRows(frames) ==
    cache' = cache \o frames /\ rows' = rows + Len(frames) /\ GrowFile(Len(frames)) /\ UNCHANGED usable

(* A transaction that fails may have written to the -wal. *)
WriteFails(n) == UNCHANGED <<cache, rows, usable>> /\ GrowFile(n)

(* SqliteCache::is_full *)
IsFull == pages >= CacheMax

(* cache_batch: append, or count the frames dropped when the file has reached  *)
(* its limit or the append fails.  It always fails on a connection a broken     *)
(* reset left without a table.                                                 *)
CacheBatch ==
    /\ pc = "keep" /\ hand # Nil
    /\ hand' = Left
    /\ \/ /\ ~IsFull /\ usable
          /\ AppendRows(Taken)
          /\ count' = [count EXCEPT !.cached = @ + Len(Taken)]
          /\ UNCHANGED <<discarded, faults>>
       \/ /\ IF IsFull \/ ~usable
             THEN UNCHANGED <<cacheVars, faults>>
             ELSE Fault /\ WriteFails(Len(Taken))
          /\ discarded' = discarded \cup Range(Taken)
          /\ count' = CountDropped(Len(Taken))
    /\ UNCHANGED <<queueVars, pc, ret, cause, connected, draining, batch,
                   next, accepted, stored, crashed, unsure, skipped>>

Kept ==
    /\ pc = "keep" /\ hand = Nil
    /\ pc' = ret /\ ret' = "top"
    /\ UNCHANGED <<queueVars, cause, connected, draining, batch, hand, cacheVars,
                   count, histVars>>

(* fail(): close the sink, cache what was not acknowledged, then either        *)
(* reconnect at once (a session the far end closed) or empty the queue onto    *)
(* disk and wait.                                                              *)
FailAndRetry(e, unacked) ==
    connected' = FALSE /\ hand' = unacked /\ pc' = "keep" /\ ret' = "top"
FailStillUp(e, unacked) ==
    UNCHANGED connected /\ hand' = unacked /\ pc' = "keep" /\ ret' = "drainqueue"
Fail(e, unacked) ==
    /\ connected' = FALSE
    /\ hand' = unacked
    /\ pc' = "keep"
    /\ ret' = IF e = "closed" THEN "top" ELSE "drainqueue"

(* drain_queue_to_cache, inside fail(). *)
DrainQueue ==
    /\ pc = "drainqueue"
    /\ KeepQueue("wait")
    /\ UNCHANGED <<closed, stop, cause, connected, draining, batch, cacheVars, count, histVars>>

(* The loop's connect. *)
Dial(r) ==
    /\ pc = "dial"
    /\ IF connected \/ r = "ok"
       THEN connected' = TRUE /\ pc' = "drain" /\ UNCHANGED <<hand, ret>>
       ELSE Fail(r, Nil)
    /\ UNCHANGED <<queueVars, cause, draining, batch, cacheVars, count, histVars>>

(* drain_cache when the tracked count says there is nothing to drain. *)
DrainUnlessDraining ==
    /\ pc = "drain" /\ ~draining
    /\ pc' = "next"
    /\ UNCHANGED <<queueVars, ret, cause, connected, draining, batch, hand, cacheVars,
                   count, histVars>>
DrainNothing ==
    /\ pc = "drain" /\ ~draining /\ rows = 0
    /\ pc' = "next"
    /\ UNCHANGED <<queueVars, ret, cause, connected, draining, batch, hand, cacheVars,
                   count, histVars>>

(* drain_cache when oldest() fails: live frames keep flowing. *)
DrainUnreadable ==
    /\ pc = "drain" /\ (draining \/ rows # 0)
    /\ Fault
    /\ pc' = "next" /\ skipped' = TRUE
    /\ UNCHANGED <<queueVars, ret, cause, connected, draining, batch, hand, cacheVars, count,
                   next, accepted, stored, discarded, crashed, unsure>>

(* drain_cache at the end of a drain: reset() closes the file, unlinks it and  *)
(* opens a fresh one.  A failure at the first of these changes nothing; at the  *)
(* unlink or the open it leaves the in-memory placeholder, which has no table,  *)
(* and whatever of the files was not unlinked.                                 *)
ResetInPlace == usable' = TRUE /\ rows' = 0 /\ UNCHANGED <<pages, faults>>
ResetFile == usable' = TRUE /\ rows' = 0 /\ pages' = 0 /\ UNCHANGED faults
DrainFinished ==
    /\ pc = "drain" /\ draining /\ usable /\ cache = Nil
    /\ draining' = FALSE
    /\ pc' = "next"
    /\ \/ ResetFile
       \/ Fault /\ usable' \in BOOLEAN /\ rows' = rows
          /\ pages' \in (IF usable' THEN {pages} ELSE 0..pages)
    /\ UNCHANGED <<queueVars, ret, cause, connected, batch, hand, cache, count,
                   next, accepted, stored, discarded, crashed, unsure, skipped>>

(* drain_cache: read the oldest rows, to be written next. *)
DrainRead ==
    /\ pc = "drain" /\ (draining \/ rows # 0) /\ usable /\ cache # Nil
    /\ draining' = TRUE
    /\ batch' = Chunk(cache)
    /\ pc' = "drainwrite"
    /\ UNCHANGED <<queueVars, ret, cause, connected, hand, cacheVars, count, histVars>>

(* BatchSink::write_batch.  The far end takes the first `kept` frames and the  *)
(* daemon learns of the first `acked`.  A far end that is still writing when   *)
(* the daemon gives up counts as having taken them, if that write succeeds.    *)
SinkWrites(r, acked, kept) ==
    /\ 0 <= acked /\ acked <= kept /\ kept <= Len(batch)
    /\ (r = "ok") <=> (acked = Len(batch))
    /\ stored' = stored \cup Range(SubSeq(batch, 1, kept))

(* drain_cache's write.  `batch` becomes the acknowledged rows, to remove. *)
DrainWrite(r, acked, kept) ==
    /\ pc = "drainwrite"
    /\ SinkWrites(r, acked, kept)
    /\ unsure' = unsure \cup Range(SubSeq(batch, acked + 1, kept))
    /\ batch' = SubSeq(batch, 1, acked)
    /\ cause' = r
    /\ pc' = "drainremove"
    /\ UNCHANGED <<queueVars, ret, connected, draining, hand, cacheVars, count,
                   next, accepted, discarded, crashed, skipped, faults>>

(* SqliteCache::remove of the rows just written: the oldest Len(batch) of them. *)
RemoveAllRead ==
    /\ cache' = Rest(cache)
    /\ rows' = Len(cache')
    /\ GrowFile(Len(batch)) /\ UNCHANGED usable
Remove ==
    /\ cache' = SubSeq(cache, Len(batch) + 1, Len(cache))
    /\ rows' = IF rows >= Len(batch) THEN rows - Len(batch) ELSE 0
    /\ GrowFile(Len(batch)) /\ UNCHANGED usable

(* The rest of drain_cache.  A failed remove is logged: the rows stay and are  *)
(* sent again.                                                                 *)
DrainRemove ==
    /\ pc = "drainremove"
    /\ \/ Remove /\ UNCHANGED <<unsure, faults>>
       \/ /\ batch # Nil /\ Fault
          /\ unsure' = unsure \cup Range(batch)
          /\ WriteFails(Len(batch))
    /\ count' = CountRecovered(Len(batch))
    /\ batch' = Nil /\ cause' = "ok"
    /\ IF cause = "ok"
       THEN pc' = "top" /\ UNCHANGED <<connected, hand, ret>>
       ELSE Fail(cause, Nil)
    /\ UNCHANGED <<queueVars, draining, next, accepted, stored, discarded, crashed, skipped>>

(* next_batch: the stop signal first, which closes the queue; then what is     *)
(* queued, or nothing when the flush interval passes or the queue has ended.   *)
NextBatch ==
    /\ pc = "next"
    /\ closed' = (closed \/ stop = "sent")
    /\ stop' = IF stop = "sent" THEN "seen" ELSE stop
    /\ batch' = Chunk(queue) /\ queue' = Rest(queue)
    /\ pc' = IF queue = Nil THEN "idle" ELSE "write"
    /\ UNCHANGED <<ret, cause, connected, draining, hand, cacheVars, count, histVars>>

(* An empty batch: the end of the loop, or keep_alive. *)
Idle(r) ==
    /\ pc = "idle"
    /\ IF QueueFinished
       THEN pc' = "flush" /\ UNCHANGED <<connected, hand, ret>>
       ELSE IF r = "ok"
            THEN pc' = "top" /\ UNCHANGED <<connected, hand, ret>>
            ELSE Fail(r, Nil)
    /\ UNCHANGED <<queueVars, cause, draining, batch, cacheVars, count, histVars>>

(* What a failed write leaves to send again: batch.split_off(delivered). *)
UnackedAll(acked) == batch
Unacked(acked) == SubSeq(batch, acked + 1, Len(batch))

(* The loop's write of a live batch.  On a failure the unacknowledged rest     *)
(* goes to the cache.                                                          *)
Write(r, acked, kept) ==
    /\ pc = "write"
    /\ SinkWrites(r, acked, kept)
    /\ count' = CountWritten(acked)
    /\ unsure' = unsure \cup Range(SubSeq(batch, acked + 1, kept))
    /\ batch' = Nil
    /\ IF r = "ok"
       THEN pc' = "top" /\ UNCHANGED <<connected, hand, ret>>
       ELSE Fail(r, Unacked(acked))
    /\ UNCHANGED <<queueVars, cause, draining, cacheVars, next, accepted, discarded, crashed,
                   skipped, faults>>

(* wait_to_retry: give up when the queue has ended, or on the stop signal,     *)
(* which closes it; otherwise sleep out the backoff.                           *)
WaitToRetry ==
    /\ pc = "wait"
    /\ IF ~QueueFinished /\ stop = "sent"
       THEN stop' = "seen" /\ closed' = TRUE
       ELSE UNCHANGED <<stop, closed>>
    /\ pc' = IF QueueFinished \/ stop = "sent" THEN "flush" ELSE "top"
    /\ UNCHANGED <<queue, ret, cause, connected, draining, batch, hand, cacheVars, count, histVars>>

(* shutdown_flush.  Its write to a connected sink is never taken, since the    *)
(* queue is empty by then (FlushOffline); what is queued goes to the cache.    *)
ShutdownFlush ==
    /\ pc = "flush"
    /\ KeepQueue("done")
    /\ UNCHANGED <<closed, stop, cause, connected, draining, batch, cacheVars, count, histVars>>

(* The memory of a process that has just started: a new channel and worker. *)
Forget ==
    /\ queue' = Nil /\ closed' = FALSE /\ stop' = "none"
    /\ ret' = "top" /\ cause' = "ok"
    /\ connected' = FALSE /\ draining' = FALSE
    /\ batch' = Nil /\ hand' = Nil
    /\ count' = Zero /\ skipped' = FALSE

(* The process dies, or its STOP_GRACE runs out: memory goes, the file stays.  *)
Crash ==
    /\ pc \notin {"down", "done"}
    /\ Fault
    /\ crashed' = crashed \cup Held
    /\ unsure' = unsure \cup (IF pc = "drainremove" THEN Range(batch) ELSE {})
    /\ pc' = "down"
    /\ Forget
    /\ UNCHANGED <<cacheVars, next, accepted, stored, discarded>>

(* start(): SqliteCache::open counts the rows it finds; channel() makes a new  *)
(* queue and a new worker.  The connection that closed last may have taken the *)
(* -wal with it.                                                               *)
Restart ==
    /\ pc \in {"down", "done"}
    /\ rows' = Len(cache) /\ usable' = TRUE
    /\ pages' \in UpToLimit(Len(cache))..pages
    /\ pc' = "top"
    /\ Forget
    /\ UNCHANGED <<cache, next, accepted, stored, discarded, crashed, unsure, faults>>

(* The worker's steps whose result the sink does not decide. *)
Local ==
    \/ Top \/ CacheBatch \/ Kept \/ DrainQueue
    \/ DrainNothing \/ DrainUnreadable \/ DrainFinished \/ DrainRead \/ DrainRemove
    \/ NextBatch \/ WaitToRetry \/ ShutdownFlush

(* The worker's calls on the sink. *)
SinkCall(r) ==
    \/ Dial(r) \/ Idle(r)
    \/ \E acked, kept \in 0..Len(batch) : DrainWrite(r, acked, kept) \/ Write(r, acked, kept)

Worker == Local \/ \E r \in Results : SinkCall(r)

Next == Enqueue \/ Shutdown \/ Crash \/ Restart \/ Worker

Spec == Init /\ [][Next]_vars
-----------------------------------------------------------------------------
(* Fairness.  The worker is a task of a live runtime, so it keeps taking       *)
(* steps.  A sink call that is made again and again does not end with the far  *)
(* end closing the session every time.                                         *)
StopFairness ==
    /\ WF_vars(Worker)
    /\ SF_vars(Dial("ok") \/ Dial("failed"))
    /\ SF_vars(Idle("ok") \/ Idle("failed"))
    /\ SF_vars(\E r \in {"ok", "failed"} : \E acked, kept \in 0..Len(batch) : Write(r, acked, kept))
    /\ SF_vars(\E r \in {"ok", "failed"} : \E acked, kept \in 0..Len(batch) : DrainWrite(r, acked, kept))

StopSpec == Spec /\ StopFairness

(* For delivery, the gateway also has to be there now and then: a connect and  *)
(* a write that are tried again and again succeed again and again.  The unit   *)
(* restarts the daemon.                                                        *)
DeliverySpec ==
    /\ Spec
    /\ WF_vars(Worker) /\ WF_vars(Restart)
    /\ SF_vars(Dial("ok"))
    /\ SF_vars(\E acked, kept \in 0..Len(batch) : Write("ok", acked, kept))
    /\ SF_vars(\E acked, kept \in 0..Len(batch) : DrainWrite("ok", acked, kept))
-----------------------------------------------------------------------------
Frames == 1..MaxFrames

PCs == {"top", "keep", "dial", "drainqueue", "drain", "drainwrite", "drainremove", "next",
        "idle", "write", "wait", "flush", "done", "down"}

TypeQueue == queue \in Seq(Nat) /\ Len(queue) <= QueueSize

TypeControl ==
    /\ pc \in PCs /\ ret \in {"top", "dial", "drainqueue", "wait", "done"}
    /\ cause \in Results /\ stop \in {"none", "sent", "seen"}
    /\ closed \in BOOLEAN /\ connected \in BOOLEAN /\ draining \in BOOLEAN
    /\ usable \in BOOLEAN /\ skipped \in BOOLEAN

TypeHands ==
    /\ batch \in Seq(Nat) /\ Len(batch) <= BatchSize
    /\ hand \in Seq(Nat)

TypeCache == cache \in Seq(Nat) /\ rows \in Nat /\ pages \in Nat

TypeCount ==
    count \in [enqueued : Nat, written : Nat, cached : Nat, recovered : Nat, dropped : Nat]

TypeHist ==
    /\ next \in Nat \ {0}
    /\ accepted \subseteq Nat /\ stored \subseteq Nat /\ discarded \subseteq Nat
    /\ crashed \subseteq Nat /\ unsure \subseteq Nat
    /\ faults \in 0..MaxFaults

(* Every variable stays in its type: a queue within its capacity, a batch      *)
(* within batch_size, counters that are naturals.                              *)
TypeOK == TypeQueue /\ TypeControl /\ TypeHands /\ TypeCache /\ TypeCount /\ TypeHist

(* No frame vanishes: whatever the queue accepted is still waiting in memory   *)
(* or on disk, is stored at the far end, or is in one of the two named losses  *)
(* (dropped by cache_batch, or only in memory at a crash).  Any interleaving   *)
(* of outages, lost acknowledgements, cache errors, stops and restarts.        *)
NoSilentLoss == accepted \subseteq Held \cup Range(cache) \cup stored \cup discarded \cup crashed

(* What the worker's position says of its hands: frames are in `hand` only     *)
(* while they are being cached, a drain writes a copy of the oldest rows, and  *)
(* it removes only rows the far end has stored.                                *)
HandIdle == pc # "keep" => hand = Nil
BatchIdle == pc \notin {"drainwrite", "drainremove", "write"} => batch = Nil
BatchIsCopy ==
    pc \in {"drainwrite", "drainremove"} =>
      Len(batch) <= Len(cache) /\ \A i \in 1..Len(batch) : batch[i] = cache[i]
AckedIsStored == pc = "drainremove" => Range(batch) \subseteq stored

(* Frames come from nowhere but the queue, and the next one offered is new. *)
Genuine ==
    /\ Held \cup Range(cache) \cup stored \cup discarded \cup crashed \subseteq accepted
    /\ \A f \in accepted : f < next

Ascending(s) == \A i, j \in DOMAIN s : i < j => s[i] < s[j]

Live == IF pc = "write" THEN batch ELSE Nil

(* The frames on their way form one line in capture order: the cache, then     *)
(* what the worker has in hand or is writing, then the queue.  Every path from *)
(* the queue to the disk keeps it, so a drain meets the oldest frame first.    *)
OneLine == Ascending(cache \o hand \o Live \o queue)

(* A frame reaches the far end for the first time only when no older frame is  *)
(* still waiting behind it, on disk or in memory, unless the cache could not   *)
(* be read in that pass (drain_cache lets live frames past it then).           *)
InOrder ==
    [][ \A f \in stored' \ stored :
          skipped \/ \A g \in Held \cup Range(cache) : g < f => g \in stored' ]_vars

(* A frame that will be sent again although the far end has it is one the      *)
(* daemon could not know about: its acknowledgement was lost, its rows could   *)
(* not be removed, or the process died between the write and the remove.       *)
ResendsExplained ==
    LET acked == IF pc = "drainremove" THEN Range(batch) ELSE {}
    IN  (Held \cup (Range(cache) \ acked)) \cap stored \subseteq unsure

(* The row count the cache tracks instead of asking SQLite is the number of    *)
(* rows.  A count of zero beside rows would leave them undrained for good.     *)
RowsTracked == pc # "down" => rows = Len(cache)

(* Past drain_cache in a pass that could read the cache, the cache is empty. *)
CaughtUp == pc \in {"next", "idle", "write"} /\ ~skipped => cache = Nil

(* The worker ends only after its queue was closed and emptied. *)
Ended ==
    /\ pc = "flush" => closed
    /\ pc = "done" \/ (pc = "keep" /\ ret = "done") => closed /\ queue = Nil
    /\ pc = "down" => queue = Nil

(* The inductive invariant: with it, no step can lose a frame or reorder two.  *)
(* NoSilentLoss, OneLine and RowsTracked are parts of it; InOrder and Delivers *)
(* are what its steps may do.                                                  *)
IndInv ==
    /\ TypeOK
    /\ HandIdle /\ BatchIdle /\ BatchIsCopy /\ AckedIsStored
    /\ Ended /\ RowsTracked /\ CaughtUp
    /\ OneLine /\ Genuine /\ NoSilentLoss

(* shutdown_flush has something to send only when the sink is down: its write  *)
(* past whatever the cache holds is never taken.                               *)
FlushOffline == pc = "flush" /\ queue # Nil => ~connected

(* Every frame counted in is accounted for by the other counters: queued, in   *)
(* the worker's hands, written without a detour, cached, or dropped.           *)
CountersAccount ==
    pc # "down" =>
      count.enqueued <= Len(queue) + Len(hand) + Len(Live)
                        + (count.written - count.recovered) + count.cached + count.dropped

(* What archive.rs says of Archive::enqueue, "the only lossy step in the       *)
(* archive path": no frame that the queue accepted is dropped later on.        *)
EnqueueIsTheOnlyLoss == discarded = {}

(* A stop is carried through, whatever the sink and the cache do meanwhile.    *)
StopTerminates == (stop = "sent") ~> (pc \in {"done", "down"})

(* An accepted frame is eventually stored, or is one of the named losses.      *)
EventuallyDelivered ==
    \A f \in Frames : (f \in accepted) ~> (f \in stored \cup discarded \cup crashed)

(* A cache at its limit takes frames again: its rows are delivered and its file  *)
(* is deleted, which is the only way to make it smaller.  A fault on the way, a  *)
(* crash behind the last removal or a reset that fails, may leave it full with   *)
(* no row to start a drain, and then nothing resets it.                         *)
CacheFreed ==
    \A n \in 0..MaxFaults :
      (IsFull /\ cache # Nil /\ faults = n) ~> (~IsFull \/ faults > n)

(* The pipeline implements the promise of module Delivery. *)
Promise == INSTANCE Delivery WITH
    Frame <- Frames,
    pending <- Held \cup Range(cache),
    lost <- discarded \cup crashed

Delivers == Promise!DSpec
=============================================================================
