# WireTAP-Server in TLA+

Models, model-checking runs and proofs for the WireTAP capture daemon
(`crates/wiretap-server`) and its gateway (`crates/wiretap-backend`).
`PROJECT.json` lists the components, the runs, the source lines each definition
stands for, the hazards and the theorems.

## The system

A **capture daemon** runs beside one or more buses. Readers (SocketCAN, serial
taps, Modbus, devices that push frames over TCP) hand every frame to an
**archive pipeline** per database: a bounded queue, a worker that batches the
queue towards the gateway, and an SQLite **disk cache** that takes over while
the gateway is away. The **gateway link** sends chunks and waits for their
acknowledgement. The **gateway** stores what it acknowledges in PostgreSQL,
keeps schemas current, holds or buffers frames while a database migrates or is
imported, hands out catalogues and serves queries over HTTP. Settings come in
layers, and a change made in the UI makes the daemon execute itself again.

### Inventory

| part | source | state |
|---|---|---|
| archive pipeline | `archive.rs` | modelled: `Batcher` |
| disk cache | `cache.rs` | modelled inside `Batcher`; adoption of an older cache: `CacheAdopt` |
| gateway link | `forward.rs` | modelled: `Link`; its catalogue pulls and reports: `Assign` |
| device ingest | `ingest.rs` | planned |
| readers, transmit, start and stop | `pipeline.rs`, `source/` | planned |
| GVRET server | `gvret.rs` | planned |
| catalogues on the daemon | `catalogues.rs` | modelled: `Assign` |
| control socket, settings | `control.rs`, `settings.rs`, `ui.rs` | planned |
| gateway ingest and writer | `ingest/mod.rs`, `ingest/writer.rs` | sessions modelled: `Link`, `Assign`; buffering planned |
| gateway databases | `db.rs`, `schema.rs` | planned |
| gateway import and export | `archive.rs` (backend) | planned |
| gateway catalogues | `catalogs.rs` | assignment and reports modelled: `Assign`; listings left out |
| keys and secrets | `keys.rs`, `secrets.rs` | planned |
| HTTP interface | `http/mod.rs` | running queries planned; routing left out |
| SQL text, configuration, shared data types, web pages, packaging | | no state worth modelling |

## Modules

- `Delivery`: what a pipeline promises. Frames are pending, stored or lost;
  at-least-once, and nothing stops being pending without being stored or lost by
  name.
- `Batcher`: one archive pipeline. One action per step of the worker.
- `MCBatcher`: `Batcher` for TLC.
- `BatcherTypes`, `BatcherProofs`: theorems about `Batcher`, for all constants.
- `CacheAdopt`: how a start takes over the cache of an older install, by rename
  or batch by batch, with crashes and errors at every step.
- `Link`: one forwarding link, with the client of `forward.rs` on one side and
  the gateway's sessions on the other. It implements `Delivery` too.
- `Assign`: the catalogue a serial line frames with, from its assignment at the
  gateway to the daemon's state directory and back as a report.
- `MCCacheAdopt`, `MCLink`, `MCAssign`: these for TLC.

### `Batcher` and the code

| model | code |
|---|---|
| `queue`, `closed` | the `mpsc` channel between `Archive` and `Batcher` |
| `stop` | the `watch` that `Running::shutdown` sets; "seen" once `changed()` returned |
| `pc`, `ret` | where `run` and the functions it calls are |
| `connected`, `draining` | `Batcher.connected`, `Batcher.draining_cache` |
| `batch`, `hand` | the vector being written; the frames on their way into `cache_batch` |
| `cache`, `rows`, `pages`, `usable` | the table, the row count kept beside it, what `size_bytes` measures, whether the connection has the table |
| `count` | `Counters` |
| `next`, `accepted`, `stored`, `discarded`, `crashed`, `unsure`, `skipped`, `faults` | history and bounds |

A step of the worker ends where the code awaits, or between two effects on the
disk, so that readers, the stop signal and a crash come in between.

| action | code |
|---|---|
| `Enqueue` | `Archive::enqueue` |
| `Shutdown` | `Running::shutdown` |
| `Top` | head of `run`: `spill_if_queue_filling` |
| `CacheBatch`, `Kept` | `cache_batch` on one chunk; the return to the caller |
| `DrainQueue` | `drain_queue_to_cache` in `fail` |
| `Dial`, `Idle`, `Write` | connect, `keep_alive` and the live write in `run`, with `fail` |
| `DrainNothing`, `DrainUnreadable`, `DrainFinished`, `DrainRead`, `DrainWrite`, `DrainRemove` | the outcomes and the steps of `drain_cache` |
| `NextBatch` | `next_batch` |
| `WaitToRetry` | `wait_to_retry` |
| `ShutdownFlush` | `shutdown_flush` |
| `Crash`, `Restart` | the process dies or outlives `STOP_GRACE`; `start` |

Points worth knowing:

- Frames are numbers in the order the readers offer them; nothing else about a
  frame matters here.
- A write is what the `BatchSink` trait says of it: the far end stores the first
  `kept` frames, the daemon learns of the first `acked`, and `acked <= kept`,
  since an acknowledgement may be lost.
- `pages` is the size of the database with its `-wal` and `-shm`, in rows and up to
  the limit. A transaction, an append as well as a drain's `DELETE`, and also one
  that fails, may enlarge it by up to the rows it touches (`GrowFile`). Only
  `reset`, or a restart, which checkpoints the log, makes it smaller. So a drain
  may itself fill the cache, and `is_full` says nothing of the rows.
- `reset` closes the connection before it unlinks and reopens the file. A
  failure in between leaves an in-memory connection with no table (`usable`
  false): every later append fails and its frames are dropped, until a restart.
- `shutdown_flush` has a branch that writes to a connected sink. It is never
  taken, since the worker reaches it with a connected sink only after the queue
  has ended; `FlushOffline` checks that, and only the other branch is an action.
- `take_queued` is one step. Frames that arrive while it runs are taken or stay,
  as if they had arrived before or after it.
- Left out: the log lines, `report`, `maybe_log_stats`, the threshold warnings
  (display only); a `Running` dropped without `shutdown`; a power cut that takes
  back committed cache transactions, which `synchronous = NORMAL` accepts.

### `CacheAdopt`, `Link` and `Assign` and the code

`CacheAdopt` has the rows of the old and the new file, the row count kept beside
the table, the count of the old cache as it was opened (`moved`), and the step
adoption has reached. `Open` opens the new cache; `OpenOld` opens the old one and
chooses between the rename (`CloseBoth`, `Rename`, `Reopen`) and the copy
(`CopyBatch`, `RemoveCopied`). `CloseBoth` replaces the connection by the one in
memory, so from there on the cache is not usable; `Rename` moves the file or
leaves both; `Reopen` opens what is there and takes the count that was carried
(`CountMoved`). Each of these is a step of its own, since a crash or an error may
come after it: an error before `CloseBoth` leaves a usable cache, a failed rename
is none, and a failed reopening, after either, leaves the connection in memory.
Adoption is over before the worker starts, so `Capture` and `Drain` come after it.

`Link` has one record per TCP connection: the session's state at the gateway and
the messages on their way in both directions. A connection the client gives up
goes on at the gateway until what was sent is served (`ServeEof`), so that a
batch can be stored after it was sent again elsewhere. The client's steps are
what lies between two awaits on the socket. `WriteRows` and `ServeAck` are
apart: a commit and its acknowledgement. `Poison` are frames that PostgreSQL
refuses for good. `todo` stands for the pipeline above: `Batcher` shows that it
offers the oldest waiting frames first and offers again what was not
acknowledged, which is what `todo` does. The protocol crate (`ServerSession`) is
external and modelled as `serve` uses it; which batches it refuses by itself is
left open (`ServeNack`, one of the faults).

`Assign` has one line, the sinks whose `HELLO` names it, and one owner among
them, whose pull decides. On the gateway, `Change` is the committed transaction
of `assign` or `clear` and `Reassign` the call that follows it; in
`ChangeUnanswered` the commit is applied but reported as failed, and the call does
not follow. `ReadAssignment`
and `OpenSession` are the two halves of `handle_hello`. On the daemon, `Apply`
is `Catalogues::apply` up to its write of `assignments.json`, which
`SaveAssignments` does. `Catalogues.assigned` is `held`, and the file is
`remembered`. A restart may find some blobs gone or damaged, as after a power cut,
and then takes the fallback of `remembered_rules`. The history variables `unread`,
`raced`, `silent`, `damaged`, `forgot` and `muddled` record the events that the
properties name as exceptions. `Drop` clears what belongs to a connection that is
gone, whichever end finds out. A change
that conflicts (`guard`) or repeats the assignment changes nothing and is no
step.

## Runs

| run | sizes: queue, batch, spill %, cache, frames, faults | shows |
|---|---|---|
| `outage` | 3, 2, 60, 2, 4, 1 | safety with batches, partial acknowledgements and a cache at its limit; the inductive invariant; refinement of `Delivery` |
| `stop` | 2, 1, 100, 1, 2, 2 | a stop ends the worker |
| `delivery` | 1, 1, 0, 2, 2, 2 | accepted frames get through; a full cache gets its room back |
| `only_loss` | 2, 2, 0, 1, 4, 0 | disagreement: `enqueue` is not the only lossy step |

For `CacheAdopt`, `Link` and `Assign`:

| run | shows |
|---|---|
| `adopt` | nothing is stranded, miscounted or overtaken, and no more than a batch is in both files, with crashes and errors at every step; every frame of the older install gets through |
| `adopt_resume` | disagreement: an interrupted copy can duplicate |
| `adopt_unusable` | disagreement: after a failed reopening the daemon runs with a cache it cannot use |
| `link` | nothing is passed that is not stored or set aside; order; answers are never mixed up; every frame gets through, to a gateway of either version |
| `link_close` | disagreement: a `CLOSE` during a fetch ends as an outage |
| `assign` | restarts frame as before; no session is left on an old assignment, three causes apart; assignments reach the line, and reports the gateway |
| `assign_race` | disagreement: a session that is opening misses a change |
| `assign_keep` | disagreement: a failing meta database clears the line's catalogue |

`Link` has two connections, so that an abandoned one competes with its
successor; a `SeqMod` of 2, so that `seq` wraps; a frame that is refused between
two that are not. `Assign` has two sinks (an owner and another) and
two changes, so that a change can overtake another on its way to the line;
with every change made and reported the system is quiet, and its runs do not
check for deadlock.

In `Batcher`, the bounds are chosen so that a batch holds several frames and a write can be
acknowledged in part; the queue holds more than a batch, so that a chunk leaves
a rest; the cache reaches its limit while frames remain to be offered; a fault
can hit the steps that follow a fault (two faults in `stop` and
`delivery`). A third fault repeats one of the first two at the same place.

What the safety properties say:

- `NoSilentLoss`, `Delivers`: an accepted frame is waiting in memory or on disk,
  stored, dropped by `cache_batch`, or was only in memory at a crash.
- `OneLine`: cache, hands and queue form one ascending line.
- `InOrder`: no frame is stored for the first time ahead of an older frame that
  waits, unless the cache could not be read in that pass.
- `ResendsExplained`: a stored frame is sent again only for a reason: lost
  acknowledgement, failed removal, or a crash between write and removal.
- `RowsTracked`: the row count kept beside the table is right.
- `CountersAccount`: what was counted in is accounted for by the other counters.
- `FlushOffline`: see above.
- `NothingStranded`, `AdoptedRowsCounted`, `AdoptedInOrder`: no frame of the
  older install is left where no start will look; the row count is right after
  either way of adopting; older frames go first.
- `OverlapIsOneBatch`: whatever interrupts a copy, and however often, at most the
  oldest batch of the old file is in the new one too.
- `AckedIsKept`, `NoGaps`: what `write_batch` has passed is stored or a dead
  letter, and frames are first stored in order although an abandoned connection
  may store late.
- `RepliesMatch`: an answer is never taken for another one's.
- `RememberedHeld`, `FramesAsBefore`: wherever the daemon dies,
  `assignments.json` names only blobs that were kept, and the next start frames
  with what the last one did, unless the file could not be written or the disk
  lost the blob. A failed write is not tried again while the assignment stays the
  same, so that exception lasts.
- `StaleIsTold`: a live session on an old assignment will be told, unless it was
  opening during the change, could not read the assignments, or missed a change
  whose commit was applied but reported as failed. Such a session stays on the
  old assignment until it reconnects for another reason; a retry of the change
  finds nothing to do and tells nobody.

`CacheFreed` is a liveness property: a full cache that holds rows has room again
in the end, as its drain finishes with `reset`, unless another fault comes in
between. That exception is real: after a crash between the last removal and the
reset, or a reset that fails, the file may stay at its limit with no rows, and
nothing drains or resets it. `CountersAccount` and `IndInv` hold on in that state
and with an unusable cache, since what is dropped there is counted and named; no
property says that such a cache recovers, because before a restart it does not.

### Fairness

`StopTerminates` assumes that the worker keeps running (a task of a live tokio
runtime, `WF` on its steps) and that a sink call made again and again does not
end with "closed by the far end" every time (`SF`). The second is needed: `fail`
on a closed session reconnects at once and looks at neither the backoff nor the
stop signal, so a gateway that accepts and closes forever would keep the worker
from stopping. `STOP_GRACE` bounds that in practice. A drain does not look at the
stop signal either. It ends here because frames are finite; producers that spill
faster than the drain sends would prolong it, again until `STOP_GRACE`.

`EventuallyDelivered` and `CacheFreed` assume that a connect and a write tried again and again
succeed again and again (the gateway comes back), and that the service manager
restarts the daemon.

`LegacyDelivered` assumes more: that the daemon is stopped and started again and
again (`WF` on `Stop`), as upgrades and reboots do over time, and that while it runs
its drain gets through (`SF`). An adoption that failed, or left the cache
unusable, is tried again only at a start, so without restarts the rows would stay
in the old file.

`AllSent` assumes that the worker and the gateway's sessions keep running.
`CatalogueArrives` and `StatusConverges` assume that of the task of each sink and of
each session at the gateway, that a commit that was answered is followed by its `reassign`, and that
a sink notices a session that has ended, which
its `PING` makes it do.

## Disagreements between code and documentation

- `archive.rs` says that dropping in `enqueue` is "the only lossy step in the
  archive path". `cache_batch` drops accepted frames when the cache is full.
- `cache.rs` says that an interrupted adoption "resumes rather than duplicating".
  The append and the removal are transactions on two files; a crash in between
  copies a batch twice.
- `cache.rs` says of an error of `take_over` that "this cache is not usable", and
  `start` goes on with that cache: the rename is done, the reopening fails, and
  every append goes to a connection without a table.
- `ingest-protocol.md` says that a `CLOSE` is not an outage. One that arrives
  during a catalogue fetch is taken for a failed fetch, and the end of the
  connection then for an outage.
- `ingest-protocol.md` says that a change closes every session that named the
  interface. A session that has read its assignments and is not yet among the
  live ones is missed.
- `ingest/mod.rs` says that a daemon keeps its catalogues when the meta database
  fails at a `HELLO`. It clears them, since no assignment is what a cleared one
  looks like.

## Proofs

All theorems hold for every `QueueSize`, `BatchSize > 0` and every `FlushPct`,
`CacheMax`, `MaxFrames`, `MaxFaults` (`SizesAssumption`).

`BatcherTypes` proves `TypeCorrect`, one group of variables at a time.

`BatcherProofs` proves the inductive invariant `IndInv`. `NoSilentLoss` alone is
not inductive. A drain writes a copy of the oldest rows (`BatchIsCopy`) and
removes only what was acknowledged, hence stored (`AckedIsStored`); frames are
in hand only while they are being cached (`HandIdle`, `BatchIdle`); a worker
that has ended leaves no frame in its queue (`Ended`). For the order, `OneLine`
needs that every waiting frame is older than the next one offered (`Genuine`),
and `InOrder` needs that the cache is empty when live frames go (`CaughtUp`),
which in turn needs the row count (`RowsTracked`), since the drain trusts it.

The argument: whatever the control flow, a step moves frames in one of ten ways
(`Moved`, lemma `Moves`). Each keeps the line ascending (`LineStep`) and is an
arrival, a delivery or a named loss (`FlowStep`). From there follow
`NothingVanishes`, `LineKept`, `RowCountRight`, `DeliveredInOrder`, and
`PipelineDelivers`, the refinement of `Delivery`.

Only model-checked: `StopTerminates`, `EventuallyDelivered` and `CacheFreed`
(liveness is out of the prover's reach), `ResendsExplained`, `FlushOffline` and
`CountersAccount`; everything about `CacheAdopt`, `Link` and `Assign`.

## Plan

1. Done: `Batcher`, `Delivery` and their proofs; `CacheAdopt`; `Link`; `Assign`.
2. Gateway databases: schema state, held and buffered writes, drain of the
   buffer and the refresh it owes, import by swap; no acknowledged row lost or
   stored twice. Theorem: routing of rows never loses one.
3. Device ingest and the acknowledgements it gives; its composition with the
   archive's queue.
4. Readers, transmit, start and stop of the daemon; GVRET clients on a channel
   that lags.
5. Control socket, layered settings and restart; keys and their rotation;
   running queries and their cancellation; export.
6. Theorems: `AckedIsKept`, `NoGaps` and `Delivers` for `Link`; `RememberedHeld`,
   `FramesAsBefore` and `StaleIsTold` for `Assign`; `NothingStranded` for
   `CacheAdopt`; `CountersAccount` for `Batcher`.
