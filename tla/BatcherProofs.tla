---------------------------- MODULE BatcherProofs ----------------------------
(***************************************************************************)
(* Proofs about the archive pipeline, for every queue, batch and cache size: *)
(* the inductive invariant, order of delivery, and that the pipeline          *)
(* implements module Delivery.                                               *)
(***************************************************************************)
EXTENDS BatcherTypes

USE DEF queueVars, workVars, cacheVars, histVars, vars

(***************************************************************************)
(* What is in the worker's hands.                                            *)
(***************************************************************************)
LEMMA HandIdleStep == HandIdle /\ [Next]_vars => HandIdle'
  <1> SUFFICES ASSUME HandIdle, [Next]_vars PROVE HandIdle'
    OBVIOUS
  <1> USE DEF HandIdle
  <1>1. CASE Crash \/ Restart
    BY <1>1, Zenon DEF Crash, Restart, Forget
  <1>2. CASE Top \/ DrainQueue \/ ShutdownFlush \/ Kept \/ CacheBatch
    BY <1>2, Zenon DEF Top, DrainQueue, ShutdownFlush, KeepQueue, Kept, CacheBatch
  <1>3. CASE DrainNothing \/ DrainUnreadable \/ DrainFinished \/ DrainRead \/ NextBatch \/ WaitToRetry
    BY <1>3, SMT DEF DrainNothing, DrainUnreadable, DrainFinished, DrainRead, NextBatch, WaitToRetry
  <1>4. CASE DrainRemove
    BY <1>4, SMT DEF DrainRemove, Fail
  <1>5. ASSUME NEW r \in Results, Dial(r) \/ Idle(r) PROVE HandIdle'
    BY <1>5, SMT DEF Dial, Idle, Fail
  <1>6. ASSUME NEW r \in Results, NEW acked \in 0..Len(batch), NEW kept \in 0..Len(batch),
               DrainWrite(r, acked, kept) \/ Write(r, acked, kept)
        PROVE  HandIdle'
    BY <1>6, SMT DEF DrainWrite, Write, Fail
  <1>7. CASE UNCHANGED <<pc, hand>>
    BY <1>7
  <1> QED
    BY <1>1, <1>2, <1>3, <1>4, <1>5, <1>6, <1>7
       DEF Next, Worker, Local, SinkCall, Enqueue, Shutdown

LEMMA BatchIdleStep == BatchIdle /\ TypeOK /\ [Next]_vars => BatchIdle'
  <1> SUFFICES ASSUME BatchIdle, TypeOK, [Next]_vars PROVE BatchIdle'
    OBVIOUS
  <1> USE DEF BatchIdle
  <1>1. CASE Crash \/ Restart
    BY <1>1, Zenon DEF Crash, Restart, Forget
  <1>2. CASE Top \/ DrainQueue \/ ShutdownFlush \/ Kept \/ CacheBatch
    <2>1. batch' = batch /\ pc \notin {"drainwrite", "drainremove", "write"}
      BY <1>2, SMT DEF Top, DrainQueue, ShutdownFlush, KeepQueue, Kept, CacheBatch
    <2> QED BY <2>1
  <1>3. CASE DrainNothing \/ DrainUnreadable \/ DrainFinished \/ WaitToRetry
    <2>1. batch' = batch /\ pc \notin {"drainwrite", "drainremove", "write"}
      BY <1>3, SMT DEF DrainNothing, DrainUnreadable, DrainFinished, WaitToRetry
    <2> QED BY <2>1
  <1>4. CASE DrainRead
    BY <1>4, SMT DEF DrainRead
  <1>5. CASE NextBatch
    <2>1. queue \in Seq(Nat)
      BY DEF TypeOK, TypeQueue
    <2>2. CASE queue = Nil
      BY <1>5, <2>1, <2>2, ChunkRest DEF NextBatch
    <2>3. CASE queue # Nil
      BY <1>5, <2>3 DEF NextBatch
    <2> QED BY <2>2, <2>3
  <1>6. CASE DrainRemove
    BY <1>6, Zenon DEF DrainRemove
  <1>7. ASSUME NEW r \in Results, Dial(r) \/ Idle(r) PROVE BatchIdle'
    <2>1. batch' = batch /\ pc \notin {"drainwrite", "drainremove", "write"}
      BY <1>7, SMT DEF Dial, Idle
    <2> QED BY <2>1
  <1>8. ASSUME NEW r \in Results, NEW acked \in 0..Len(batch), NEW kept \in 0..Len(batch),
               DrainWrite(r, acked, kept) \/ Write(r, acked, kept)
        PROVE  BatchIdle'
    BY <1>8, SMT DEF DrainWrite, Write
  <1>9. CASE UNCHANGED <<pc, batch>>
    BY <1>9
  <1> QED
    BY <1>1, <1>2, <1>3, <1>4, <1>5, <1>6, <1>7, <1>8, <1>9
       DEF Next, Worker, Local, SinkCall, Enqueue, Shutdown

(* Only DrainRead and DrainWrite lead to a state in which the drain holds rows. *)
LEMMA DrainEntry ==
    ASSUME TypeOK, [Next]_vars, pc' \in {"drainwrite", "drainremove"}
    PROVE  \/ DrainRead
           \/ \E r \in Results : \E acked, kept \in 0..Len(batch) : DrainWrite(r, acked, kept)
           \/ UNCHANGED <<pc, batch, cache, stored>>
  <1>1. Local => DrainRead
    <2>1. CacheBatch => pc' = "keep"
      BY DEF CacheBatch
    <2>2. Kept \/ DrainRemove => pc' \notin {"drainwrite", "drainremove"}
      BY DEF Kept, DrainRemove, Fail, TypeOK, TypeControl
    <2>3. Top \/ DrainQueue \/ NextBatch \/ WaitToRetry \/ ShutdownFlush
             => pc' \notin {"drainwrite", "drainremove"}
      BY DEF Top, DrainQueue, NextBatch, WaitToRetry, ShutdownFlush, KeepQueue
    <2>4. DrainNothing \/ DrainUnreadable \/ DrainFinished => pc' \notin {"drainwrite", "drainremove"}
      BY DEF DrainNothing, DrainUnreadable, DrainFinished
    <2> QED BY <2>1, <2>2, <2>3, <2>4 DEF Local
  <1>2. ASSUME NEW r \in Results PROVE ~Dial(r) /\ ~Idle(r)
    BY DEF Dial, Idle, Fail
  <1>3. ASSUME NEW r \in Results, NEW acked \in 0..Len(batch), NEW kept \in 0..Len(batch)
        PROVE  ~Write(r, acked, kept)
    BY DEF Write, Fail
  <1>4. ~Crash /\ ~Restart
    BY DEF Crash, Restart
  <1>5. Enqueue \/ Shutdown => UNCHANGED <<pc, batch, cache, stored>>
    BY DEF Enqueue, Shutdown
  <1> QED BY <1>1, <1>2, <1>3, <1>4, <1>5 DEF Next, Worker, SinkCall

LEMMA BatchIsCopyStep == BatchIsCopy /\ TypeOK /\ [Next]_vars => BatchIsCopy'
  <1> SUFFICES ASSUME BatchIsCopy, TypeOK, [Next]_vars, pc' \in {"drainwrite", "drainremove"}
               PROVE  BatchIsCopy'
    BY DEF BatchIsCopy
  <1>0. batch \in Seq(Nat) /\ cache \in Seq(Nat)
    BY DEF TypeOK, TypeHands, TypeCache
  <1>1. CASE DrainRead
    <2>1. batch' = Chunk(cache) /\ cache' = cache
      BY <1>1 DEF DrainRead
    <2> QED BY <1>0, <2>1, ChunkRest DEF BatchIsCopy
  <1>2. ASSUME NEW r \in Results, NEW acked \in 0..Len(batch), NEW kept \in 0..Len(batch),
               DrainWrite(r, acked, kept)
        PROVE  BatchIsCopy'
    <2>1. batch' = SubSeq(batch, 1, acked) /\ cache' = cache /\ pc = "drainwrite"
      BY <1>2 DEF DrainWrite
    <2>2. Len(batch') = acked /\ \A i \in 1..acked : batch'[i] = batch[i]
      BY <1>0, <2>1, Cut
    <2> QED BY <1>0, <2>1, <2>2 DEF BatchIsCopy
  <1>3. CASE UNCHANGED <<pc, batch, cache, stored>>
    BY <1>3 DEF BatchIsCopy
  <1> QED BY <1>1, <1>2, <1>3, DrainEntry

(* A shorter prefix has no other frames than a longer one. *)
LEMMA PrefixRange ==
    ASSUME NEW s \in Seq(Nat), NEW m \in 0..Len(s), NEW n \in 0..Len(s), m <= n
    PROVE  Range(SubSeq(s, 1, m)) \subseteq Range(SubSeq(s, 1, n))
  <1> DEFINE a == SubSeq(s, 1, m)
             b == SubSeq(s, 1, n)
  <1>1. a \in Seq(Nat) /\ Len(a) = m /\ \A i \in 1..m : a[i] = s[i]
    BY Cut
  <1>2. b \in Seq(Nat) /\ Len(b) = n /\ \A i \in 1..n : b[i] = s[i]
    BY Cut
  <1> HIDE DEF a, b
  <1>3. ASSUME NEW x \in Range(a) PROVE x \in Range(b)
    <2>1. PICK i \in 1..Len(a) : a[i] = x
      BY <1>1, <1>3, InRange
    <2>2. i \in 1..m /\ i \in 1..n
      BY <2>1, <1>1
    <2>3. b[i] = s[i] /\ s[i] = x
      BY <2>1, <2>2, <1>1, <1>2
    <2> QED BY <2>2, <2>3, <1>2, InRange, Zenon
  <1> QED BY <1>3 DEF a, b

LEMMA AckedIsStoredStep == AckedIsStored /\ TypeOK /\ [Next]_vars => AckedIsStored'
  <1> SUFFICES ASSUME AckedIsStored, TypeOK, [Next]_vars, pc' = "drainremove"
               PROVE  AckedIsStored'
    BY DEF AckedIsStored
  <1>0. batch \in Seq(Nat)
    BY DEF TypeOK, TypeHands
  <1>1. ~DrainRead
    BY DEF DrainRead
  <1>2. ASSUME NEW r \in Results, NEW acked \in 0..Len(batch), NEW kept \in 0..Len(batch),
               DrainWrite(r, acked, kept)
        PROVE  AckedIsStored'
    <2>1. /\ batch' = SubSeq(batch, 1, acked) /\ acked <= kept
          /\ stored' = stored \cup Range(SubSeq(batch, 1, kept))
      BY <1>2 DEF DrainWrite, SinkWrites
    <2>2. Range(SubSeq(batch, 1, acked)) \subseteq Range(SubSeq(batch, 1, kept))
      BY <1>0, <2>1, PrefixRange
    <2> QED BY <2>1, <2>2 DEF AckedIsStored
  <1>3. CASE UNCHANGED <<pc, batch, cache, stored>>
    BY <1>3 DEF AckedIsStored
  <1> QED BY <1>1, <1>2, <1>3, DrainEntry

(***************************************************************************)
(* The cache's row count, and the cache being empty when live frames go.      *)
(***************************************************************************)
LEMMA RowsTrackedStep == RowsTracked /\ TypeOK /\ BatchIsCopy /\ [Next]_vars => RowsTracked'
  <1> SUFFICES ASSUME RowsTracked, TypeOK, BatchIsCopy, [Next]_vars PROVE RowsTracked'
    OBVIOUS
  <1>0. /\ batch \in Seq(Nat) /\ hand \in Seq(Nat) /\ cache \in Seq(Nat) /\ rows \in Nat
    BY DEF TypeOK, TypeHands, TypeCache
  <1> USE DEF RowsTracked
  <1>1. CASE CacheBatch
    <2>1. Taken \in Seq(Nat)
      BY <1>0, TakenLeft
    <2>2. /\ pc = "keep"
          /\ \/ cache' = cache /\ rows' = rows
             \/ cache' = cache \o Taken /\ rows' = rows + Len(Taken)
      BY <1>1, Zenon DEF CacheBatch, AppendRows, WriteFails
    <2>3. Len(cache \o Taken) = Len(cache) + Len(Taken)
      BY <1>0, <2>1
    <2> QED BY <1>0, <2>1, <2>2, <2>3
  <1>2. CASE DrainRemove
    <2>1. /\ pc = "drainremove"
          /\ \/ cache' = cache /\ rows' = rows
             \/ Remove
      BY <1>2, Zenon DEF DrainRemove, WriteFails
    <2>2. Len(batch) \in 0..Len(cache)
      BY <1>0, <2>1 DEF BatchIsCopy
    <2>3. CASE Remove
      <3>1. rows = Len(cache)
        BY <2>1
      <3>2. Len(cache') = Len(cache) - Len(batch)
        BY <1>0, <2>2, <2>3, Cut DEF Remove
      <3>3. rows' = Len(cache) - Len(batch)
        BY <1>0, <2>2, <2>3, <3>1 DEF Remove
      <3> QED BY <3>2, <3>3
    <2>4. CASE cache' = cache /\ rows' = rows
      BY <2>1, <2>4
    <2> QED BY <2>1, <2>3, <2>4
  <1>3. CASE DrainFinished
    <2>1. /\ pc = "drain" /\ cache = Nil /\ cache' = cache
          /\ rows' = 0 \/ rows' = rows
      BY <1>3, Zenon DEF DrainFinished, ResetFile
    <2> QED BY <2>1, NilFacts
  <1>4. CASE Restart
    BY <1>4 DEF Restart
  <1>5. CASE Crash
    BY <1>5 DEF Crash
  <1>6. CASE UNCHANGED <<cache, rows>> /\ pc # "down"
    BY <1>6
  <1>7. CASE UNCHANGED <<cache, rows, pc>>
    BY <1>7, SMTT(60)
  <1>8. Top \/ Kept \/ DrainQueue \/ DrainNothing \/ DrainUnreadable \/ DrainRead \/ NextBatch
          \/ WaitToRetry \/ ShutdownFlush => UNCHANGED <<cache, rows>> /\ pc # "down"
    BY DEF Top, Kept, DrainQueue, DrainNothing, DrainUnreadable, DrainRead, NextBatch,
           WaitToRetry, ShutdownFlush
  <1>9. ASSUME NEW r \in Results, SinkCall(r) PROVE UNCHANGED <<cache, rows>> /\ pc # "down"
    BY <1>9 DEF SinkCall, Dial, Idle, DrainWrite, Write
  <1>10. Enqueue \/ Shutdown => UNCHANGED <<cache, rows, pc>>
    BY DEF Enqueue, Shutdown
  <1> QED
    BY <1>1, <1>2, <1>3, <1>4, <1>5, <1>6, <1>7, <1>8, <1>9, <1>10 DEF Next, Worker, Local

LEMMA CaughtUpStep ==
    CaughtUp /\ RowsTracked /\ TypeOK /\ [Next]_vars => CaughtUp'
  <1> SUFFICES ASSUME CaughtUp, RowsTracked, TypeOK, [Next]_vars,
                      pc' \in {"next", "idle", "write"}, ~skipped'
               PROVE  cache' = Nil
    BY DEF CaughtUp
  <1>0. cache \in Seq(Nat) /\ ret \notin {"next", "idle", "write"}
    BY DEF TypeOK, TypeCache, TypeControl
  <1>1. CASE DrainNothing
    <2>1. pc = "drain" /\ rows = 0 /\ cache' = cache
      BY <1>1 DEF DrainNothing
    <2>2. Len(cache) = 0
      BY <2>1 DEF RowsTracked
    <2> QED BY <1>0, <2>1, <2>2, NilFacts
  <1>2. CASE DrainFinished
    BY <1>2 DEF DrainFinished
  <1>3. CASE NextBatch
    BY <1>3 DEF NextBatch, CaughtUp
  <1>4. ~DrainUnreadable
    BY DEF DrainUnreadable
  <1>5. ~Top /\ ~DrainQueue /\ ~WaitToRetry /\ ~ShutdownFlush /\ ~DrainRead
    BY DEF Top, DrainQueue, WaitToRetry, ShutdownFlush, KeepQueue, DrainRead
  <1>6. ~Kept /\ ~CacheBatch /\ ~DrainRemove
    BY <1>0 DEF Kept, CacheBatch, DrainRemove, Fail
  <1>7. ASSUME NEW r \in Results PROVE ~SinkCall(r)
    BY DEF SinkCall, Dial, Idle, DrainWrite, Write, Fail
  <1>8. ~Crash /\ ~Restart
    BY DEF Crash, Restart
  <1>9. Enqueue \/ Shutdown \/ UNCHANGED vars => UNCHANGED <<pc, cache, skipped>>
    BY DEF Enqueue, Shutdown
  <1>10. CASE UNCHANGED <<pc, cache, skipped>>
    BY <1>10, SMTT(60) DEF CaughtUp
  <1> QED
    BY <1>1, <1>2, <1>3, <1>4, <1>5, <1>6, <1>7, <1>8, <1>9, <1>10 DEF Next, Worker, Local

LEMMA EndedStep == Ended /\ TypeOK /\ [Next]_vars => Ended'
  <1> SUFFICES ASSUME Ended, TypeOK, [Next]_vars PROVE Ended'
    OBVIOUS
  <1> USE DEF Ended
  <1>1. CASE Enqueue
    BY <1>1 DEF Enqueue
  <1>2. CASE Shutdown \/ UNCHANGED vars
    BY <1>2 DEF Shutdown
  <1>3. CASE Crash \/ Restart
    BY <1>3 DEF Crash, Restart, Forget
  <1>4. CASE Top \/ DrainQueue \/ ShutdownFlush
    BY <1>4 DEF Top, DrainQueue, ShutdownFlush, KeepQueue
  <1>5. CASE CacheBatch
    BY <1>5 DEF CacheBatch
  <1>6. CASE Kept
    BY <1>6 DEF Kept, TypeOK, TypeControl
  <1>7. CASE DrainNothing \/ DrainUnreadable \/ DrainFinished \/ DrainRead
    BY <1>7 DEF DrainNothing, DrainUnreadable, DrainFinished, DrainRead
  <1>8. CASE DrainRemove
    BY <1>8 DEF DrainRemove, Fail
  <1>9. CASE NextBatch
    BY <1>9 DEF NextBatch
  <1>10. CASE WaitToRetry
    BY <1>10 DEF WaitToRetry, QueueFinished, TypeOK, TypeControl
  <1>11. ASSUME NEW r \in Results, SinkCall(r) PROVE Ended'
    BY <1>11 DEF SinkCall, Dial, Idle, DrainWrite, Write, Fail, QueueFinished
  <1> QED
    BY <1>1, <1>2, <1>3, <1>4, <1>5, <1>6, <1>7, <1>8, <1>9, <1>10, <1>11
    DEF Next, Worker, Local

(***************************************************************************)
(* What a step does to the frames.  Whatever the worker's control flow, a    *)
(* step moves frames in one of ten ways.                                     *)
(***************************************************************************)
Rejected == /\ next' \in {next, next + 1}
            /\ UNCHANGED <<cache, hand, Live, queue, accepted, stored, discarded, crashed>>

Accepted == /\ next <= MaxFrames /\ next' = next + 1
            /\ queue' = Append(queue, next) /\ accepted' = accepted \cup {next}
            /\ UNCHANGED <<cache, hand, Live, stored, discarded, crashed>>

PickedUp == /\ hand = Nil /\ Live = Nil /\ Live' = Nil
            /\ hand' = queue /\ queue' = Nil
            /\ UNCHANGED <<cache, next, accepted, stored, discarded, crashed>>

Cached == /\ Live = Nil /\ Live' = Nil
          /\ hand' = Left /\ cache' = cache \o Taken
          /\ UNCHANGED <<queue, next, accepted, stored, discarded, crashed>>

Dropped == /\ Live = Nil /\ Live' = Nil
           /\ hand' = Left /\ discarded' = discarded \cup Range(Taken)
           /\ UNCHANGED <<cache, queue, next, accepted, stored, crashed>>

Drained(kept) ==
    /\ pc = "drainwrite" /\ stored' = stored \cup Range(SubSeq(batch, 1, kept))
    /\ UNCHANGED <<cache, hand, Live, queue, next, accepted, discarded, crashed>>

Removed == /\ pc = "drainremove" /\ cache' = SubSeq(cache, Len(batch) + 1, Len(cache))
           /\ UNCHANGED <<hand, Live, queue, next, accepted, stored, discarded, crashed>>

Batched == /\ hand = Nil /\ Live = Nil
           /\ Live' = Chunk(queue) /\ queue' = Rest(queue)
           /\ UNCHANGED <<cache, hand, next, accepted, stored, discarded, crashed>>

Written(acked, kept) ==
    /\ pc = "write" /\ hand = Nil /\ Live' = Nil /\ acked <= kept
    /\ hand' = Unacked(acked) /\ stored' = stored \cup Range(SubSeq(batch, 1, kept))
    /\ UNCHANGED <<cache, queue, next, accepted, discarded, crashed>>

Forgotten == /\ crashed' = crashed \cup Held
             /\ hand' = Nil /\ Live' = Nil /\ queue' = Nil
             /\ UNCHANGED <<cache, next, accepted, stored, discarded>>

Moved == \/ Rejected \/ Accepted \/ PickedUp \/ Cached \/ Dropped
         \/ \E kept \in 0..Len(batch) : Drained(kept)
         \/ Removed \/ Batched
         \/ \E acked, kept \in 0..Len(batch) : Written(acked, kept)
         \/ Forgotten

LEMMA Moves ==
    ASSUME TypeOK, HandIdle, Ended, [Next]_vars
    PROVE  Moved
  <1>0. /\ next \in Nat /\ batch \in Seq(Nat) /\ queue \in Seq(Nat) /\ hand \in Seq(Nat)
        /\ ret # "write"
    BY DEF TypeOK, TypeHist, TypeHands, TypeQueue, TypeControl
  <1>1. Enqueue => Rejected \/ Accepted
    BY <1>0 DEF Enqueue, Rejected, Accepted, Live
  <1>2. Shutdown \/ UNCHANGED vars => Rejected
    BY <1>0 DEF Shutdown, Rejected, Live
  <1>3. Top \/ DrainQueue \/ ShutdownFlush => Rejected \/ PickedUp
    BY <1>0 DEF Top, DrainQueue, ShutdownFlush, KeepQueue, Rejected, PickedUp, Live, HandIdle
  <1>4. CacheBatch => Cached \/ Dropped
    BY DEF CacheBatch, AppendRows, WriteFails, Cached, Dropped, Live
  <1>5. Kept => Rejected
    BY <1>0 DEF Kept, Rejected, Live
  <1>6. DrainNothing \/ DrainUnreadable \/ DrainFinished \/ DrainRead \/ WaitToRetry => Rejected
    BY <1>0 DEF DrainNothing, DrainUnreadable, DrainFinished, DrainRead, WaitToRetry, Rejected, Live
  <1>7. DrainRemove => Rejected \/ Removed
    BY <1>0 DEF DrainRemove, Remove, WriteFails, Fail, Rejected, Removed, Live, HandIdle
  <1>8. NextBatch => Batched
    BY <1>0, ChunkRest DEF NextBatch, Batched, Live, HandIdle
  <1>9. ASSUME NEW r \in Results PROVE Dial(r) \/ Idle(r) => Rejected
    BY <1>0 DEF Dial, Idle, Fail, Rejected, Live, HandIdle
  <1>10. ASSUME NEW r \in Results, NEW acked \in 0..Len(batch), NEW kept \in 0..Len(batch),
                DrainWrite(r, acked, kept)
         PROVE  Drained(kept)
    BY <1>10 DEF DrainWrite, SinkWrites, Drained, Live
  <1>11. ASSUME NEW r \in Results, NEW acked \in 0..Len(batch), NEW kept \in 0..Len(batch),
                Write(r, acked, kept)
         PROVE  Written(acked, kept)
    <2>1. /\ pc = "write" /\ acked <= kept
          /\ r = "ok" => acked = Len(batch)
          /\ r = "ok" => pc' = "top" /\ hand' = hand
          /\ r # "ok" => pc' = "keep" /\ hand' = Unacked(acked)
          /\ stored' = stored \cup Range(SubSeq(batch, 1, kept))
          /\ UNCHANGED <<cache, queue, next, accepted, discarded, crashed>>
      BY <1>11 DEF Write, SinkWrites, Fail
    <2>2. hand = Nil
      BY <2>1 DEF HandIdle
    <2>3. acked = Len(batch) => Unacked(acked) = Nil
      <3>1. Unacked(acked) \in Seq(Nat) /\ Len(Unacked(acked)) = Len(batch) - acked
        BY <1>0, Cut DEF Unacked
      <3> QED BY <1>0, <3>1, NilFacts
    <2>4. Live' = Nil
      BY <2>1 DEF Live
    <2> QED BY <2>1, <2>2, <2>3, <2>4, Zenon DEF Written
  <1>12. Crash => Forgotten
    BY DEF Crash, Forget, Forgotten, Live
  <1>13. Restart => Rejected
    BY <1>0 DEF Restart, Forget, Rejected, Live, HandIdle, Ended
  <1> QED
    BY <1>1, <1>2, <1>3, <1>4, <1>5, <1>6, <1>7, <1>8, <1>9, <1>10, <1>11, <1>12, <1>13
    DEF Next, Worker, Local, SinkCall, Moved

(***************************************************************************)
(* The order of the line.                                                    *)
(***************************************************************************)
Before(s, t) == \A x \in Range(s), y \in Range(t) : x < y

InLine(a, b, c, d) ==
    /\ Ascending(a) /\ Ascending(b) /\ Ascending(c) /\ Ascending(d)
    /\ Before(a, b) /\ Before(a, c) /\ Before(a, d)
    /\ Before(b, c) /\ Before(b, d) /\ Before(c, d)

LEMMA NilOrder ==
    ASSUME NEW s
    PROVE  Ascending(Nil) /\ Before(Nil, s) /\ Before(s, Nil)
  <1>1. Ascending(Nil)
    BY DEF Ascending, Nil
  <1> QED BY <1>1, NilFacts DEF Before

(* A sequence is ascending when its two parts are and every frame of the first *)
(* is older than every frame of the second.                                    *)
LEMMA AscConcat ==
    ASSUME NEW s \in Seq(Nat), NEW t \in Seq(Nat)
    PROVE  Ascending(s \o t) <=> Ascending(s) /\ Ascending(t) /\ Before(s, t)
  <1> DEFINE u == s \o t
  <1>1. /\ u \in Seq(Nat) /\ Len(u) = Len(s) + Len(t)
        /\ \A i \in 1..Len(s) : u[i] = s[i]
        /\ \A i \in 1..Len(t) : u[Len(s) + i] = t[i]
        /\ \A i \in (Len(s) + 1)..Len(u) : i - Len(s) \in 1..Len(t) /\ u[i] = t[i - Len(s)]
    BY ConcatProperties
  <1>2. DOMAIN s = 1..Len(s) /\ DOMAIN t = 1..Len(t) /\ DOMAIN u = 1..(Len(s) + Len(t))
    BY <1>1
  <1> HIDE DEF u
  <1>0. PICK m \in Nat, n \in Nat : m = Len(s) /\ n = Len(t)
    OBVIOUS
  <1>6. /\ DOMAIN s = 1..m /\ DOMAIN t = 1..n /\ DOMAIN u = 1..(m + n)
        /\ \A i \in 1..m : u[i] = s[i]
        /\ \A i \in 1..n : u[m + i] = t[i]
        /\ \A i \in (m + 1)..(m + n) : u[i] = t[i - m]
    BY <1>0, <1>1, <1>2
  <1>3. ASSUME Ascending(u) PROVE Ascending(s) /\ Ascending(t) /\ Before(s, t)
    <2>1. ASSUME NEW i \in DOMAIN s, NEW j \in DOMAIN s, i < j PROVE s[i] < s[j]
      <3>1. i \in DOMAIN u /\ j \in DOMAIN u /\ u[i] = s[i] /\ u[j] = s[j]
        BY <1>6, <2>1
      <3> QED BY <2>1, <3>1, <1>3 DEF Ascending
    <2>2. ASSUME NEW i \in DOMAIN t, NEW j \in DOMAIN t, i < j PROVE t[i] < t[j]
      <3>1. m + i \in DOMAIN u /\ m + j \in DOMAIN u /\ m + i < m + j
        BY <1>6, <2>2
      <3>2. u[m + i] < u[m + j]
        BY <3>1, <1>3 DEF Ascending
      <3> QED BY <3>2, <1>6
    <2>3. ASSUME NEW x \in Range(s), NEW y \in Range(t) PROVE x < y
      <3>1. PICK i \in 1..m : s[i] = x
        BY <1>0, InRange
      <3>2. PICK j \in 1..n : t[j] = y
        BY <1>0, InRange
      <3>3. i \in DOMAIN u /\ m + j \in DOMAIN u /\ i < m + j
        BY <1>6, <3>1, <3>2
      <3>4. u[i] < u[m + j]
        BY <3>3, <1>3 DEF Ascending
      <3> QED BY <3>1, <3>2, <3>4, <1>6
    <2> QED BY <2>1, <2>2, <2>3 DEF Ascending, Before
  <1>4. ASSUME Ascending(s), Ascending(t), Before(s, t),
               NEW i \in DOMAIN u, NEW j \in DOMAIN u, i < j
        PROVE  u[i] < u[j]
    <2>0. i \in 1..(m + n) /\ j \in 1..(m + n) 
      BY <1>6
    <2>1. CASE j <= m
      <3>1. i \in DOMAIN s /\ j \in DOMAIN s
        BY <1>6, <1>4, <2>0, <2>1
      <3>2. s[i] < s[j]
        BY <3>1, <1>4 DEF Ascending
      <3> QED BY <3>1, <3>2, <1>6
    <2>2. CASE i > m
      <3>1. i - m \in DOMAIN t /\ j - m \in DOMAIN t /\ i - m < j - m
        BY <1>6, <1>4, <2>0, <2>2
      <3>2. t[i - m] < t[j - m]
        BY <3>1, <1>4 DEF Ascending
      <3> QED BY <3>2, <1>6, <1>4, <2>0, <2>2
    <2>3. CASE i <= m /\ j > m
      <3>1. i \in 1..m /\ j - m \in 1..n
            /\ u[i] = s[i] /\ u[j] = t[j - m]
        BY <1>6, <2>0, <2>3
      <3>2. s[i] \in Range(s) /\ t[j - m] \in Range(t)
        BY <1>0, <3>1, InRange
      <3> QED BY <3>1, <3>2, <1>4 DEF Before
    <2> QED BY <2>0, <2>1, <2>2, <2>3
  <1>5. Ascending(s) /\ Ascending(t) /\ Before(s, t) => Ascending(u)
    BY <1>4 DEF Ascending
  <1> QED BY <1>3, <1>5 DEF u

(* Cutting an ascending sequence leaves two ascending parts in order. *)
LEMMA AscCut ==
    ASSUME NEW s \in Seq(Nat), NEW n \in 0..Len(s), Ascending(s)
    PROVE  /\ Ascending(SubSeq(s, 1, n)) /\ Ascending(SubSeq(s, n + 1, Len(s)))
           /\ Before(SubSeq(s, 1, n), SubSeq(s, n + 1, Len(s)))
  <1> DEFINE a == SubSeq(s, 1, n)
             b == SubSeq(s, n + 1, Len(s))
  <1>1. a \in Seq(Nat) /\ b \in Seq(Nat)
    BY Cut
  <1>2. SubSeq(s, 1, n) \o SubSeq(s, n + 1, Len(s)) = SubSeq(s, 1, Len(s))
    <2>1. 1 \in 1..(Len(s) + 1) /\ n \in (1 - 1)..Len(s) /\ Len(s) \in n..Len(s)
      BY SMTT(60)
    <2> QED BY <2>1, ConcatAdjacentSubSeq, Zenon
  <1>3. a \o b = s
    <2>1. SubSeq(s, 1, Len(s)) = s
      OBVIOUS
    <2> QED BY <1>2, <2>1, Zenon
  <1> HIDE DEF a, b
  <1>4. Ascending(a) /\ Ascending(b) /\ Before(a, b)
    BY <1>1, <1>3, AscConcat, Zenon
  <1> QED BY <1>4 DEF a, b

LEMMA AscChunk ==
    ASSUME NEW s \in Seq(Nat), Ascending(s)
    PROVE  Ascending(Chunk(s)) /\ Ascending(Rest(s)) /\ Before(Chunk(s), Rest(s))
  <1>1. CASE Len(s) <= BatchSize
    BY <1>1, NilOrder DEF Chunk, Rest
  <1>2. CASE ~(Len(s) <= BatchSize)
    <2>1. BatchSize \in 0..Len(s)
      BY <1>2, SizesAssumption
    <2> QED BY <1>2, <2>1, AscCut DEF Chunk, Rest
  <1> QED BY <1>1, <1>2

LEMMA AscAppend ==
    ASSUME NEW s \in Seq(Nat), NEW x \in Nat, Ascending(s), \A y \in Range(s) : y < x
    PROVE  Ascending(Append(s, x))
  <1> DEFINE u == Append(s, x)
  <1>1. /\ u \in Seq(Nat) /\ DOMAIN u = 1..(Len(s) + 1) /\ u[Len(s) + 1] = x
        /\ \A i \in 1..Len(s) : u[i] = s[i] /\ s[i] \in Range(s)
    BY AppendProperties, InRange
  <1>2. DOMAIN s = 1..Len(s)
    OBVIOUS
  <1> HIDE DEF u
  <1>3. ASSUME NEW i \in DOMAIN u, NEW j \in DOMAIN u, i < j PROVE u[i] < u[j]
    <2>1. i \in 1..Len(s) /\ (j \in 1..Len(s) \/ j = Len(s) + 1)
      BY <1>1, <1>3
    <2> QED BY <2>1, <1>1, <1>2, <1>3 DEF Ascending
  <1> QED BY <1>3 DEF Ascending, u

LEMMA LineOfFour ==
    ASSUME NEW a \in Seq(Nat), NEW b \in Seq(Nat), NEW c \in Seq(Nat), NEW d \in Seq(Nat)
    PROVE  Ascending(a \o b \o c \o d) <=> InLine(a, b, c, d)
  <1>0. a \o b \in Seq(Nat) /\ a \o b \o c \in Seq(Nat)
    OBVIOUS
  <1>1. /\ a \o b \in Seq(Nat) /\ a \o b \o c \in Seq(Nat)
        /\ Range(a \o b) = Range(a) \cup Range(b)
        /\ Range(a \o b \o c) = Range(a) \cup Range(b) \cup Range(c)
    <2>1. Range(a \o b) = Range(a) \cup Range(b)
      BY RangeConcat
    <2>2. Range(a \o b \o c) = Range(a \o b) \cup Range(c)
      BY <1>0, RangeConcat, Zenon
    <2> QED BY <1>0, <2>1, <2>2
  <1>2. Ascending(a \o b \o c \o d) <=>
          Ascending(a \o b \o c) /\ Ascending(d) /\ Before(a \o b \o c, d)
    BY <1>1, AscConcat, Zenon
  <1>3. Ascending(a \o b \o c) <=> Ascending(a \o b) /\ Ascending(c) /\ Before(a \o b, c)
    BY <1>1, AscConcat, Zenon
  <1>4. Ascending(a \o b) <=> Ascending(a) /\ Ascending(b) /\ Before(a, b)
    BY AscConcat
  <1>5. Before(a \o b \o c, d) <=> Before(a, d) /\ Before(b, d) /\ Before(c, d)
    BY <1>1, Zenon DEF Before
  <1>6. Before(a \o b, c) <=> Before(a, c) /\ Before(b, c)
    BY <1>1, Zenon DEF Before
  <1> QED BY <1>2, <1>3, <1>4, <1>5, <1>6 DEF InLine

(***************************************************************************)
(* The line is kept: one case per way in which a step moves frames.          *)
(***************************************************************************)
LEMMA LineTypes ==
    ASSUME TypeOK
    PROVE  /\ cache \in Seq(Nat) /\ hand \in Seq(Nat) /\ Live \in Seq(Nat) /\ queue \in Seq(Nat)
           /\ batch \in Seq(Nat) /\ next \in Nat
  BY NilFacts DEF TypeOK, TypeQueue, TypeHands, TypeCache, TypeHist, Live

(* Held, as the frames of three of the four sequences of the line. *)
LEMMA HeldIs ==
    /\ Held = Range(queue) \cup Range(hand) \cup Range(Live)
    /\ Held' = Range(queue') \cup Range(hand') \cup Range(Live')
  BY NilFacts DEF Held, Live

(* The rows a drain has acknowledged are the oldest of the cache. *)
LEMMA BatchRange ==
    ASSUME TypeOK, BatchIsCopy, pc \in {"drainwrite", "drainremove"}
    PROVE  /\ Len(batch) \in 0..Len(cache)
           /\ Range(batch) = Range(SubSeq(cache, 1, Len(batch)))
           /\ Range(batch) \subseteq Range(cache)
  <1>0. batch \in Seq(Nat) /\ cache \in Seq(Nat) /\ Len(batch) \in 0..Len(cache)
        /\ \A i \in 1..Len(batch) : batch[i] = cache[i]
    BY LineTypes DEF BatchIsCopy
  <1> DEFINE a == SubSeq(cache, 1, Len(batch))
  <1>1. /\ a \in Seq(Nat) /\ Len(a) = Len(batch) /\ \A i \in 1..Len(batch) : a[i] = cache[i]
        /\ Range(a) \subseteq Range(cache)
    BY <1>0, Cut
  <1> HIDE DEF a
  <1>2. ASSUME NEW x PROVE x \in Range(a) <=> x \in Range(batch)
    <2>1. x \in Range(a) <=> \E i \in 1..Len(a) : a[i] = x
      BY <1>1, InRange
    <2>2. x \in Range(batch) <=> \E i \in 1..Len(batch) : batch[i] = x
      BY <1>0, InRange
    <2>3. \A i \in 1..Len(batch) : a[i] = batch[i]
      BY <1>0, <1>1
    <2> QED BY <2>1, <2>2, <2>3, <1>1
  <1> QED BY <1>0, <1>1, <1>2, Zenon DEF a

LEMMA LineStep ==
    ASSUME TypeOK, TypeOK', OneLine, Genuine, BatchIsCopy, Moved
    PROVE  OneLine'
  <1>0. /\ cache \in Seq(Nat) /\ hand \in Seq(Nat) /\ Live \in Seq(Nat) /\ queue \in Seq(Nat)
        /\ batch \in Seq(Nat) /\ next \in Nat
        /\ cache' \in Seq(Nat) /\ hand' \in Seq(Nat) /\ Live' \in Seq(Nat) /\ queue' \in Seq(Nat)
    <2>1. TypeOK => Live \in Seq(Nat)
      BY LineTypes
    <2>2. TypeOK' => Live' \in Seq(Nat)
      BY NilFacts DEF TypeOK, TypeHands, Live
    <2> QED BY LineTypes, <2>2 DEF TypeOK, TypeQueue, TypeHands, TypeCache
  <1>1. InLine(cache, hand, Live, queue)
    BY <1>0, LineOfFour DEF OneLine
  <1> SUFFICES InLine(cache', hand', Live', queue')
    BY <1>0, LineOfFour DEF OneLine
  <1>2. CASE Rejected \/ \E kept \in 0..Len(batch) : Drained(kept)
    BY <1>1, <1>2 DEF Rejected, Drained
  <1>3. CASE Accepted
    <2>1. /\ cache' = cache /\ hand' = hand /\ Live' = Live /\ queue' = Append(queue, next)
      BY <1>3 DEF Accepted
    <2>2. \A x \in Range(cache) \cup Range(hand) \cup Range(Live) \cup Range(queue) : x < next
      BY HeldIs DEF Genuine
    <2>3. Ascending(Append(queue, next))
      BY <1>0, <1>1, <2>2, AscAppend DEF InLine
    <2>4. Range(Append(queue, next)) = Range(queue) \cup {next}
      BY <1>0, RangeAppend
    <2>5. ASSUME NEW s \in {cache, hand, Live} PROVE Before(s, Append(queue, next))
      BY <1>1, <2>2, <2>4, Zenon DEF Before, InLine
    <2> QED BY <1>1, <2>1, <2>3, <2>5 DEF InLine
  <1>4. CASE PickedUp
    BY <1>1, <1>4, NilOrder DEF PickedUp, InLine
  <1>5. Taken \in Seq(Nat) /\ Left \in Seq(Nat) /\ Range(Taken) \cup Range(Left) = Range(hand)
        /\ Ascending(Taken) /\ Ascending(Left) /\ Before(Taken, Left)
    <2>1. Ascending(hand)
      BY <1>1 DEF InLine
    <2> QED BY <1>0, <2>1, NilFacts, NilOrder, ChunkRest, AscChunk, Zenon DEF Taken, Left
  <1>6. CASE Cached
    <2>1. /\ cache' = cache \o Taken /\ hand' = Left /\ Live' = Nil /\ queue' = queue
      BY <1>6 DEF Cached
    <2>2. Range(cache \o Taken) = Range(cache) \cup Range(Taken)
      BY <1>0, <1>5, RangeConcat
    <2>3. Before(cache, Taken)
      BY <1>1, <1>5 DEF InLine, Before
    <2>4. Ascending(cache \o Taken)
      BY <1>0, <1>1, <1>5, <2>3, AscConcat DEF InLine
    <2>5. Before(cache \o Taken, Left)
      BY <1>1, <1>5, <2>2 DEF InLine, Before
    <2>6. Before(cache \o Taken, queue) /\ Before(Left, queue)
      BY <1>1, <1>5, <2>2 DEF InLine, Before
    <2> QED BY <1>1, <1>5, <2>1, <2>4, <2>5, <2>6, NilOrder DEF InLine
  <1>7. CASE Dropped
    <2>1. /\ cache' = cache /\ hand' = Left /\ Live' = Nil /\ queue' = queue
      BY <1>7 DEF Dropped
    <2>2. Before(cache, Left) /\ Before(Left, queue)
      BY <1>1, <1>5 DEF InLine, Before
    <2> QED BY <1>1, <1>5, <2>1, <2>2, NilOrder DEF InLine
  <1>8. CASE Removed
    <2>1. /\ cache' = SubSeq(cache, Len(batch) + 1, Len(cache))
          /\ hand' = hand /\ Live' = Live /\ queue' = queue
          /\ pc = "drainremove"
      BY <1>8 DEF Removed
    <2>2. Len(batch) \in 0..Len(cache)
      BY <2>1, BatchRange
    <2>3. Range(cache') \subseteq Range(cache)
      BY <1>0, <2>1, <2>2, Cut
    <2>4. Ascending(cache')
      BY <1>0, <1>1, <2>1, <2>2, AscCut DEF InLine
    <2>5. Before(cache', hand) /\ Before(cache', Live) /\ Before(cache', queue)
      BY <1>1, <2>3, Zenon DEF InLine, Before
    <2> QED BY <1>1, <2>1, <2>4, <2>5 DEF InLine
  <1>9. CASE Batched
    <2>1. /\ cache' = cache /\ hand' = Nil /\ Live' = Chunk(queue) /\ queue' = Rest(queue)
      BY <1>9 DEF Batched
    <2>2. Ascending(Chunk(queue)) /\ Ascending(Rest(queue)) /\ Before(Chunk(queue), Rest(queue))
      BY <1>0, <1>1, AscChunk DEF InLine
    <2>3. Range(Chunk(queue)) \subseteq Range(queue) /\ Range(Rest(queue)) \subseteq Range(queue)
      BY <1>0, ChunkRest
    <2>4. Before(cache, Chunk(queue)) /\ Before(cache, Rest(queue))
      BY <1>1, <2>3, Zenon DEF InLine, Before
    <2> QED BY <1>1, <2>1, <2>2, <2>4, NilOrder DEF InLine
  <1>10. ASSUME NEW acked \in 0..Len(batch), NEW kept \in 0..Len(batch), Written(acked, kept)
         PROVE  InLine(cache', hand', Live', queue')
    <2>1. /\ cache' = cache /\ hand' = Unacked(acked) /\ Live' = Nil /\ queue' = queue
          /\ Live = batch
      BY <1>10 DEF Written, Live
    <2>2. Range(Unacked(acked)) \subseteq Range(batch)
      BY <1>0, Cut DEF Unacked
    <2>3. Ascending(Unacked(acked))
      BY <1>0, <1>1, <2>1, AscCut DEF Unacked, InLine
    <2>4. Before(cache, Unacked(acked)) /\ Before(Unacked(acked), queue)
      BY <1>1, <2>1, <2>2, Zenon DEF InLine, Before
    <2> QED BY <1>1, <2>1, <2>3, <2>4, NilOrder DEF InLine
  <1>11. CASE Forgotten
    BY <1>1, <1>11, NilOrder DEF Forgotten, InLine
  <1> QED BY <1>2, <1>3, <1>4, <1>6, <1>7, <1>8, <1>9, <1>10, <1>11 DEF Moved

(***************************************************************************)
(* The flow of frames: a step takes on one new frame, or has some pending    *)
(* ones stored and lets go of stored ones only, or loses some by name.        *)
(***************************************************************************)
Pending == Held \cup Range(cache)

FlowIn == /\ next <= MaxFrames /\ next' = next + 1
          /\ Pending' = Pending \cup {next} /\ accepted' = accepted \cup {next}
          /\ UNCHANGED <<stored, discarded, crashed>>

FlowOut == /\ next' \in {next, next + 1}
           /\ \E S, T \in SUBSET Pending :
                stored' = stored \cup S /\ T \subseteq stored' /\ Pending' = Pending \ T
           /\ UNCHANGED <<accepted, discarded, crashed>>

FlowLost == /\ \E S \in SUBSET Pending :
                 /\ Pending' = Pending \ S
                 /\ discarded' \cup crashed' = discarded \cup crashed \cup S
            /\ UNCHANGED <<next, accepted, stored>>

(* A step that leaves the pending frames as they were, or lets go of stored ones. *)
LEMMA FlowOutIntro ==
    ASSUME next' \in {next, next + 1}, UNCHANGED <<accepted, discarded, crashed>>,
           NEW S \in SUBSET Pending, stored' = stored \cup S,
           Pending' \subseteq Pending, Pending \subseteq Pending' \cup stored'
    PROVE  FlowOut
  <1> DEFINE T == Pending \ Pending'
  <1>1. T \in SUBSET Pending /\ T \subseteq stored' /\ Pending' = Pending \ T
    OBVIOUS
  <1> QED BY <1>1, Zenon DEF FlowOut

LEMMA FlowStep ==
    ASSUME TypeOK, OneLine, BatchIsCopy, AckedIsStored, Moved
    PROVE  FlowIn \/ FlowOut \/ FlowLost
  <1>0. /\ cache \in Seq(Nat) /\ hand \in Seq(Nat) /\ Live \in Seq(Nat) /\ queue \in Seq(Nat)
        /\ batch \in Seq(Nat) /\ next \in Nat
    BY LineTypes
  <1>1. InLine(cache, hand, Live, queue)
    BY <1>0, LineOfFour DEF OneLine
  <1>2. /\ Pending = Range(queue) \cup Range(hand) \cup Range(Live) \cup Range(cache)
        /\ Pending' = Range(queue') \cup Range(hand') \cup Range(Live') \cup Range(cache')
    BY HeldIs DEF Pending
  <1>3. Range(Taken) \cup Range(Left) = Range(hand)
        /\ \A x \in Range(Taken), y \in Range(Left) : x < y
    <2>1. Ascending(hand)
      BY <1>1 DEF InLine
    <2> QED BY <1>0, <2>1, NilFacts, ChunkRest, AscChunk, Zenon DEF Taken, Left, Before
  <1>4. Range(queue) \subseteq Nat /\ Range(hand) \subseteq Nat /\ Range(Live) \subseteq Nat
        /\ Range(cache) \subseteq Nat
    BY <1>0, RangeOfSeq
  <1> USE NilFacts
  <1>5. CASE Rejected
    <2>1. Pending' = Pending /\ stored' = stored \cup {} /\ next' \in {next, next + 1}
          /\ UNCHANGED <<accepted, discarded, crashed>>
      BY <1>2, <1>5 DEF Rejected
    <2> QED BY <2>1, FlowOutIntro, Zenon
  <1>6. CASE Accepted
    <2>1. Range(queue') = Range(queue) \cup {next}
      BY <1>0, <1>6, RangeAppend DEF Accepted
    <2>2. Pending' = Pending \cup {next}
      BY <1>2, <1>6, <2>1 DEF Accepted
    <2> QED BY <1>6, <2>2 DEF Accepted, FlowIn
  <1>7. CASE PickedUp
    <2>1. Pending' = Pending /\ stored' = stored \cup {} /\ next' = next
          /\ UNCHANGED <<accepted, discarded, crashed>>
      BY <1>2, <1>7 DEF PickedUp
    <2> QED BY <1>0, <2>1, FlowOutIntro, Zenon
  <1>8. CASE Cached
    <2>1. Taken \in Seq(Nat)
      BY <1>0, ChunkRest DEF Taken
    <2>2. Range(cache') = Range(cache) \cup Range(Taken)
      BY <1>0, <1>8, <2>1, RangeConcat DEF Cached
    <2>3. Pending' = Pending /\ stored' = stored \cup {} /\ next' = next
          /\ UNCHANGED <<accepted, discarded, crashed>>
      BY <1>2, <1>3, <1>8, <2>2 DEF Cached
    <2> QED BY <1>0, <2>3, FlowOutIntro, Zenon
  <1>9. CASE Dropped
    <2>1. \A x \in Range(Taken) : x \notin Range(Left)
      BY <1>3, <1>4
    <2>2. \A x \in Range(Taken) : x \notin Range(queue) \cup Range(cache)
      <3>1. \A x \in Range(hand) : x \notin Range(queue) \cup Range(cache)
        BY <1>1, <1>4 DEF InLine, Before
      <3> QED BY <3>1, <1>3
    <2>3. Pending' = Pending \ Range(Taken) /\ Range(Taken) \subseteq Pending
      BY <1>2, <1>3, <1>9, <2>1, <2>2 DEF Dropped
    <2> QED BY <1>9, <2>3 DEF Dropped, FlowLost
  <1>10. ASSUME NEW kept \in 0..Len(batch), Drained(kept) PROVE FlowOut
    <2>1. Range(SubSeq(batch, 1, kept)) \subseteq Range(batch)
      BY <1>0, Cut
    <2>2. Range(batch) \subseteq Range(cache)
      BY <1>10, BatchRange DEF Drained
    <2>3. Pending' = Pending /\ next' = next /\ UNCHANGED <<accepted, discarded, crashed>>
          /\ stored' = stored \cup Range(SubSeq(batch, 1, kept))
      BY <1>2, <1>10 DEF Drained
    <2>4. Range(SubSeq(batch, 1, kept)) \in SUBSET Pending
      BY <1>2, <2>1, <2>2
    <2> QED BY <1>0, <2>3, <2>4, FlowOutIntro, Zenon
  <1>11. CASE Removed
    <2>1. Len(batch) \in 0..Len(cache) /\ Range(batch) = Range(SubSeq(cache, 1, Len(batch)))
          /\ Range(batch) \subseteq stored
      BY <1>11, BatchRange DEF Removed, AckedIsStored
    <2>2. Range(cache) = Range(batch) \cup Range(cache')
      BY <1>0, <1>11, <2>1, Cut DEF Removed
    <2>3. stored' = stored \cup {} /\ next' = next /\ UNCHANGED <<accepted, discarded, crashed>>
          /\ UNCHANGED <<hand, Live, queue>>
      BY <1>11 DEF Removed
    <2>4. Pending' \subseteq Pending /\ Pending \subseteq Pending' \cup stored'
      BY <1>2, <2>1, <2>2, <2>3
    <2> QED BY <1>0, <2>3, <2>4, FlowOutIntro, ZenonT(60)
  <1>12. CASE Batched
    <2>1. Range(Chunk(queue)) \cup Range(Rest(queue)) = Range(queue)
      BY <1>0, ChunkRest
    <2>2. Pending' = Pending /\ stored' = stored \cup {} /\ next' = next
          /\ UNCHANGED <<accepted, discarded, crashed>>
      BY <1>2, <1>12, <2>1 DEF Batched
    <2> QED BY <1>0, <2>2, FlowOutIntro, Zenon
  <1>13. ASSUME NEW acked \in 0..Len(batch), NEW kept \in 0..Len(batch), Written(acked, kept)
         PROVE  FlowOut
    <2>1. /\ Range(SubSeq(batch, 1, acked)) \cup Range(Unacked(acked)) = Range(batch)
          /\ Range(SubSeq(batch, 1, kept)) \subseteq Range(batch)
      BY <1>0, Cut DEF Unacked
    <2>2. Range(SubSeq(batch, 1, acked)) \subseteq Range(SubSeq(batch, 1, kept))
      BY <1>0, <1>13, PrefixRange DEF Written
    <2>3. /\ stored' = stored \cup Range(SubSeq(batch, 1, kept)) /\ next' = next
          /\ UNCHANGED <<cache, queue, accepted, discarded, crashed>>
          /\ Live = batch /\ Live' = Nil /\ hand = Nil /\ hand' = Unacked(acked)
      BY <1>13 DEF Written, Live
    <2>4. Pending' \subseteq Pending /\ Pending \subseteq Pending' \cup stored'
          /\ Range(SubSeq(batch, 1, kept)) \in SUBSET Pending
      BY <1>2, <2>1, <2>2, <2>3
    <2> QED BY <1>0, <2>3, <2>4, FlowOutIntro, Zenon
  <1>14. CASE Forgotten
    <2>1. \A x \in Held : x \notin Range(cache)
      BY <1>1, <1>4, HeldIs DEF InLine, Before
    <2>2. Pending' = Range(cache) /\ Pending = Held \cup Range(cache)
      BY <1>2, <1>14 DEF Forgotten, Pending
    <2>3. Pending' = Pending \ Held /\ Held \subseteq Pending
      BY <2>1, <2>2
    <2> QED BY <1>14, <2>3 DEF Forgotten, FlowLost
  <1> QED
    BY <1>5, <1>6, <1>7, <1>8, <1>9, <1>10, <1>11, <1>12, <1>13, <1>14 DEF Moved

LEMMA GenuineStep ==
    ASSUME TypeOK, Genuine, NoSilentLoss, FlowIn \/ FlowOut \/ FlowLost
    PROVE  Genuine' /\ NoSilentLoss'
  <1>0. next \in Nat /\ accepted \subseteq Nat
    BY DEF TypeOK, TypeHist
  <1>1. /\ Pending \cup stored \cup discarded \cup crashed \subseteq accepted
        /\ accepted \subseteq Pending \cup stored \cup discarded \cup crashed
        /\ \A f \in accepted : f < next
    BY DEF Genuine, NoSilentLoss, Pending
  <1> SUFFICES /\ Pending' \cup stored' \cup discarded' \cup crashed' \subseteq accepted'
               /\ accepted' \subseteq Pending' \cup stored' \cup discarded' \cup crashed'
               /\ \A f \in accepted' : f < next'
    BY DEF Genuine, NoSilentLoss, Pending
  <1>2. \A f \in accepted' : f < next'
    <2>1. \/ accepted' = accepted \cup {next} /\ next' = next + 1
          \/ accepted' = accepted /\ (next' = next \/ next' = next + 1)
      BY DEF FlowIn, FlowOut, FlowLost
    <2>2. \A f \in accepted \cup {next} : f < next + 1
      BY <1>0, <1>1
    <2> QED BY <1>1, <2>1, <2>2
  <1>3. CASE FlowIn
    BY <1>1, <1>2, <1>3 DEF FlowIn
  <1>4. CASE FlowOut
    BY <1>1, <1>2, <1>4 DEF FlowOut
  <1>5. CASE FlowLost
    BY <1>1, <1>2, <1>5 DEF FlowLost
  <1> QED BY <1>3, <1>4, <1>5

(***************************************************************************)
(* The inductive invariant.                                                  *)
(***************************************************************************)
LEMMA IndInvInit == Init => IndInv
  <1> SUFFICES ASSUME Init PROVE IndInv
    OBVIOUS
  <1>1. TypeOK
    BY TypeInit
  <1>2. HandIdle /\ BatchIdle /\ BatchIsCopy /\ AckedIsStored /\ Ended /\ CaughtUp
    BY DEF Init, HandIdle, BatchIdle, BatchIsCopy, AckedIsStored, Ended, CaughtUp
  <1>3. RowsTracked
    BY NilFacts DEF Init, RowsTracked
  <1>4. InLine(cache, hand, Live, queue)
    BY NilOrder DEF Init, InLine, Live
  <1>5. OneLine
    BY <1>1, <1>4, LineTypes, LineOfFour DEF OneLine
  <1>6. Held = {} /\ Range(cache) = {}
    BY NilFacts DEF Init, Held
  <1>7. Genuine /\ NoSilentLoss
    BY <1>6 DEF Init, Genuine, NoSilentLoss
  <1> QED BY <1>1, <1>2, <1>3, <1>5, <1>7 DEF IndInv

LEMMA IndInvStep ==
    ASSUME IndInv, [Next]_vars
    PROVE  IndInv' /\ Moved /\ (FlowIn \/ FlowOut \/ FlowLost)
  <1>1. TypeOK' /\ HandIdle' /\ BatchIdle'
    BY TypeStep, HandIdleStep, BatchIdleStep, SMTT(60) DEF IndInv
  <1>2. BatchIsCopy' /\ AckedIsStored' /\ Ended'
    BY BatchIsCopyStep, AckedIsStoredStep, EndedStep DEF IndInv
  <1>3. RowsTracked' /\ CaughtUp'
    BY RowsTrackedStep, CaughtUpStep DEF IndInv
  <1>4. Moved
    BY Moves DEF IndInv
  <1>5. OneLine'
    BY <1>1, <1>4, LineStep DEF IndInv
  <1>6. FlowIn \/ FlowOut \/ FlowLost
    BY <1>4, FlowStep DEF IndInv
  <1>7. Genuine' /\ NoSilentLoss'
    BY <1>6, GenuineStep DEF IndInv
  <1> QED BY <1>1, <1>2, <1>3, <1>4, <1>5, <1>6, <1>7, SMTT(60) DEF IndInv

(* IndInv holds in every reachable state of the archive pipeline, for every    *)
(* queue size, batch size, spill threshold, cache limit and number of faults.  *)
THEOREM Inductive == Spec => []IndInv
  <1>1. IndInv /\ [Next]_vars => IndInv'
    BY IndInvStep
  <1> QED BY IndInvInit, <1>1, PTL DEF Spec

(* No frame the queue accepted vanishes (Archive::enqueue to write_batch): it  *)
(* is waiting, stored, or in one of the two named losses.                      *)
THEOREM NothingVanishes == Spec => []NoSilentLoss
  <1>1. IndInv => NoSilentLoss
    BY DEF IndInv
  <1> QED BY Inductive, <1>1, PTL

(* The cache, the worker's hands and the queue always form one line in capture *)
(* order, whichever of the four paths to cache_batch the frames took.          *)
THEOREM LineKept == Spec => []OneLine
  <1>1. IndInv => OneLine
    BY DEF IndInv
  <1> QED BY Inductive, <1>1, PTL

(* The row count SqliteCache keeps beside the table never drifts from it.      *)
THEOREM RowCountRight == Spec => []RowsTracked
  <1>1. IndInv => RowsTracked
    BY DEF IndInv
  <1> QED BY Inductive, <1>1, PTL

(* A prefix of the batch a drain writes is that prefix of the cache. *)
LEMMA DrainPrefix ==
    ASSUME TypeOK, BatchIsCopy, pc = "drainwrite", NEW n \in 0..Len(batch)
    PROVE  n \in 0..Len(cache) /\ SubSeq(batch, 1, n) = SubSeq(cache, 1, n)
  <1>1. batch \in Seq(Nat) /\ cache \in Seq(Nat) /\ n \in 0..Len(cache)
        /\ \A i \in 1..n : batch[i] = cache[i]
    BY LineTypes DEF BatchIsCopy
  <1> QED BY <1>1

(* Whatever is older than a frame of an ascending sequence's first part is in  *)
(* that part, or not in the sequence.                                          *)
LEMMA OlderIsBefore ==
    ASSUME NEW s \in Seq(Nat), NEW n \in 0..Len(s), Ascending(s),
           NEW f \in Range(SubSeq(s, 1, n)), NEW g \in Range(s), g < f
    PROVE  g \in Range(SubSeq(s, 1, n))
  <1> DEFINE a == SubSeq(s, 1, n)
             b == SubSeq(s, n + 1, Len(s))
  <1>1. Range(a) \cup Range(b) = Range(s) /\ Before(a, b)
    BY Cut, AscCut
  <1>2. Range(s) \subseteq Nat
    BY RangeOfSeq
  <1> HIDE DEF a, b
  <1>3. f \in Range(a)
    BY DEF a
  <1>4. g \notin Range(b)
    BY <1>1, <1>2, <1>3 DEF Before
  <1>5. g \in Range(a)
    BY <1>1, <1>4, SMTT(60)
  <1> QED BY <1>5 DEF a

LEMMA InOrderStep ==
    ASSUME IndInv, Moved, NEW f \in stored' \ stored, ~skipped,
           NEW g \in Pending, g < f
    PROVE  g \in stored'
  <1>0. /\ cache \in Seq(Nat) /\ hand \in Seq(Nat) /\ Live \in Seq(Nat) /\ queue \in Seq(Nat)
        /\ batch \in Seq(Nat) /\ next \in Nat
    BY LineTypes DEF IndInv
  <1>1. InLine(cache, hand, Live, queue)
    BY <1>0, LineOfFour DEF OneLine, IndInv
  <1>2. Pending = Range(queue) \cup Range(hand) \cup Range(Live) \cup Range(cache)
    BY HeldIs DEF Pending
  <1>3. Range(queue) \subseteq Nat /\ Range(hand) \subseteq Nat /\ Range(Live) \subseteq Nat
        /\ Range(cache) \subseteq Nat
    BY <1>0, RangeOfSeq
  <1>4. ASSUME NEW kept \in 0..Len(batch), Drained(kept) PROVE g \in stored'
    <2>1. kept \in 0..Len(cache) /\ stored' = stored \cup Range(SubSeq(cache, 1, kept))
      BY <1>4, DrainPrefix, Zenon DEF Drained, IndInv
    <2>2. f \in Range(SubSeq(cache, 1, kept)) /\ f \in Range(cache)
      BY <1>0, <2>1, Cut
    <2>3. g \in Range(cache)
      BY <1>1, <1>2, <1>3, <2>2 DEF InLine, Before
    <2> QED BY <1>0, <1>1, <2>1, <2>2, <2>3, OlderIsBefore DEF InLine
  <1>5. ASSUME NEW acked \in 0..Len(batch), NEW kept \in 0..Len(batch), Written(acked, kept)
        PROVE  g \in stored'
    <2>1. stored' = stored \cup Range(SubSeq(batch, 1, kept)) /\ Live = batch
          /\ cache = Nil /\ hand = Nil
      BY <1>5 DEF Written, Live, IndInv, CaughtUp
    <2>2. f \in Range(SubSeq(batch, 1, kept)) /\ f \in Range(batch)
      BY <1>0, <2>1, Cut
    <2>3. g \in Range(batch)
      BY <1>1, <1>2, <1>3, <2>1, <2>2, NilFacts DEF InLine, Before
    <2> QED BY <1>0, <1>1, <2>1, <2>2, <2>3, OlderIsBefore DEF InLine
  <1>6. stored' # stored
    OBVIOUS
  <1> QED
    BY <1>4, <1>5, <1>6
    DEF Moved, Rejected, Accepted, PickedUp, Cached, Dropped, Removed, Batched, Forgotten

(* First deliveries happen in capture order: run() drains the cache before it  *)
(* takes a live batch, so no frame is stored ahead of an older one that waits. *)
THEOREM DeliveredInOrder == Spec => InOrder
  <1>1. ASSUME IndInv, [Next]_vars
        PROVE  [\A f \in stored' \ stored :
                  skipped \/ \A g \in Held \cup Range(cache) : g < f => g \in stored']_vars
    BY <1>1, IndInvStep, InOrderStep DEF Pending
  <1> QED BY Inductive, <1>1, PTL DEF Spec, InOrder

(* The pipeline implements at-least-once delivery with named losses: every     *)
(* step of the queue, the worker, the cache, a crash or a restart is a step of *)
(* Delivery, or invisible to it.                                               *)
THEOREM PipelineDelivers == Spec => Delivers
  <1>1. Init => Promise!DInit
    BY NilFacts DEF Init, Promise!DInit, Held
  <1>2. ASSUME IndInv, [Next]_vars PROVE [Promise!DNext]_(Promise!dvars)
    <2>1. next \in Nat /\ next >= 1
      BY <1>2 DEF IndInv, TypeOK, TypeHist
    <2>2. CASE FlowIn
      <3>1. next \in Frames /\ next \notin accepted
        BY <2>1, <2>2, <1>2 DEF FlowIn, Frames, IndInv, Genuine
      <3>2. Promise!Accept(next)
        BY <2>2, <3>1, <1>2 DEF FlowIn, Promise!Accept, Pending, IndInv, Genuine
      <3> QED BY <3>1, <3>2 DEF Promise!DNext
    <2>3. CASE FlowOut
      <3>1. PICK S, T \in SUBSET Pending :
              stored' = stored \cup S /\ T \subseteq stored' /\ Pending' = Pending \ T
        BY <2>3 DEF FlowOut
      <3>2. Promise!Deliver(S, T)
        BY <2>3, <3>1 DEF FlowOut, Promise!Deliver, Pending
      <3> QED BY <3>2 DEF Promise!DNext, Pending
    <2>4. CASE FlowLost
      <3>1. PICK S \in SUBSET Pending :
              /\ Pending' = Pending \ S
              /\ discarded' \cup crashed' = discarded \cup crashed \cup S
        BY <2>4 DEF FlowLost
      <3>2. Promise!Lose(S)
        BY <2>4, <3>1 DEF FlowLost, Promise!Lose, Pending
      <3> QED BY <3>2 DEF Promise!DNext, Pending
    <2> QED BY <1>2, <2>2, <2>3, <2>4, IndInvStep
  <1> QED BY Inductive, <1>1, <1>2, PTL DEF Spec, Delivers, Promise!DSpec
=============================================================================
