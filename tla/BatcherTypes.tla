---------------------------- MODULE BatcherTypes -----------------------------
(***************************************************************************)
(* Type correctness of the archive pipeline, for every queue, batch and cache *)
(* size, with the facts about sequences of frames that all its proofs use.    *)
(***************************************************************************)
EXTENDS Batcher, SequenceTheorems, TLAPS

(* The empty sequence, which the proofs below never look inside. *)
LEMMA NilFacts ==
    /\ Nil \in Seq(Nat) /\ Len(Nil) = 0 /\ Range(Nil) = {}
    /\ \A s \in Seq(Nat) : Len(s) = 0 <=> s = Nil
  BY DEF Nil, Range

(* The frames of a sequence, by position. *)
LEMMA InRange ==
    ASSUME NEW s \in Seq(Nat), NEW x
    PROVE  x \in Range(s) <=> \E i \in 1..Len(s) : s[i] = x
  BY DEF Range

(* Cutting a sequence of frames after position n, as split_off and the         *)
(* removal of acknowledged rows do: both parts keep order, nothing is lost.    *)
LEMMA Cut ==
    ASSUME NEW s \in Seq(Nat), NEW n \in 0..Len(s)
    PROVE  LET a == SubSeq(s, 1, n)
               b == SubSeq(s, n + 1, Len(s))
           IN  /\ a \in Seq(Nat) /\ Len(a) = n
               /\ \A i \in 1..n : a[i] = s[i]
               /\ b \in Seq(Nat) /\ Len(b) = Len(s) - n
               /\ \A i \in 1..(Len(s) - n) : b[i] = s[n + i]
               /\ Range(a) \cup Range(b) = Range(s)
  <1> DEFINE a == SubSeq(s, 1, n)
             b == SubSeq(s, n + 1, Len(s))
  <1>1. a \in Seq(Nat) /\ Len(a) = n /\ \A i \in 1..n : a[i] = s[i]
    OBVIOUS
  <1>2. /\ b \in Seq(Nat) /\ Len(b) = Len(s) - n
        /\ \A i \in 1..(Len(s) - n) : b[i] = s[n + i]
    OBVIOUS
  <1> HIDE DEF a, b
  <1>3. ASSUME NEW x \in Range(s) PROVE x \in Range(a) \cup Range(b)
    <2>1. PICK i \in 1..Len(s) : s[i] = x
      BY <1>3, InRange
    <2>2. CASE i <= n
      <3>1. i \in 1..Len(a) /\ a[i] = x
        BY <2>1, <2>2, <1>1
      <3> QED BY <3>1, <1>1, InRange, SMTT(60)
    <2>3. CASE i > n
      <3>1. i - n \in 1..Len(b) /\ b[i - n] = x
        BY <2>1, <2>3, <1>2
      <3> QED BY <3>1, <1>2, InRange, SMTT(60)
    <2> QED BY <2>2, <2>3
  <1>4. ASSUME NEW x \in Range(a) PROVE x \in Range(s)
    <2>1. PICK i \in 1..Len(a) : a[i] = x
      BY <1>4, <1>1, InRange
    <2> QED BY <2>1, <1>1, InRange
  <1>5. ASSUME NEW x \in Range(b) PROVE x \in Range(s)
    <2>1. PICK i \in 1..Len(b) : b[i] = x
      BY <1>5, <1>2, InRange
    <2>2. n + i \in 1..Len(s) /\ s[n + i] = x
      BY <2>1, <1>2
    <2> QED BY <2>2, InRange
  <1>6. Range(a) \cup Range(b) = Range(s)
    BY <1>3, <1>4, <1>5
  <1> QED BY <1>1, <1>2, <1>6 DEF a, b

(* Chunk and Rest, the two halves of chunks(batch_size). *)
LEMMA ChunkRest ==
    ASSUME NEW s \in Seq(Nat)
    PROVE  /\ Chunk(s) \in Seq(Nat) /\ Len(Chunk(s)) <= BatchSize /\ Len(Chunk(s)) <= Len(s)
           /\ Rest(s) \in Seq(Nat) /\ Len(Rest(s)) <= Len(s)
           /\ \A i \in 1..Len(Chunk(s)) : Chunk(s)[i] = s[i]
           /\ Range(Chunk(s)) \cup Range(Rest(s)) = Range(s)
           /\ s = Nil => Chunk(s) = Nil /\ Rest(s) = Nil
  <1>1. CASE Len(s) <= BatchSize
    <2>1. Chunk(s) = s /\ Rest(s) = Nil
      BY <1>1 DEF Chunk, Rest
    <2> QED BY <2>1, <1>1, NilFacts
  <1>2. CASE ~(Len(s) <= BatchSize)
    <2>1. BatchSize \in 0..Len(s)
      BY <1>2, SizesAssumption
    <2>2. Chunk(s) = SubSeq(s, 1, BatchSize) /\ Rest(s) = SubSeq(s, BatchSize + 1, Len(s))
      BY <1>2, Zenon DEF Chunk, Rest
    <2>3. s # Nil
      BY <1>2, SizesAssumption, NilFacts
    <2>4. /\ Chunk(s) \in Seq(Nat) /\ Len(Chunk(s)) = BatchSize
          /\ Rest(s) \in Seq(Nat) /\ Len(Rest(s)) = Len(s) - BatchSize
          /\ \A i \in 1..BatchSize : Chunk(s)[i] = s[i]
          /\ Range(Chunk(s)) \cup Range(Rest(s)) = Range(s)
      BY <2>1, <2>2, Cut
    <2> QED BY <2>3, <2>4, <1>2, SizesAssumption
  <1> QED BY <1>1, <1>2

(* A frame at the end of a sequence, and one sequence behind another. *)
LEMMA RangeAppend ==
    ASSUME NEW s \in Seq(Nat), NEW x \in Nat
    PROVE  Range(Append(s, x)) = Range(s) \cup {x}
  <1>1. ASSUME NEW y \in Range(s) PROVE y \in Range(Append(s, x))
    BY <1>1, AppendProperties DEF Range
  <1>2. ASSUME NEW y \in Range(Append(s, x)) PROVE y \in Range(s) \cup {x}
    BY <1>2, AppendProperties DEF Range
  <1>3. x \in Range(Append(s, x))
    BY AppendProperties, Append(s, x)[Len(s) + 1] = x DEF Range
  <1> QED BY <1>1, <1>2, <1>3

LEMMA RangeConcat ==
    ASSUME NEW s \in Seq(Nat), NEW t \in Seq(Nat)
    PROVE  Range(s \o t) = Range(s) \cup Range(t)
  BY RangeConcatenation, ZenonT(60)

USE DEF queueVars, workVars, cacheVars, histVars, vars

(***************************************************************************)
(* Types, one group of variables at a time.                                  *)
(***************************************************************************)
LEMMA TypeInit == Init => TypeOK
  <1> SUFFICES ASSUME Init PROVE TypeOK
    OBVIOUS
  <1>1. TypeQueue /\ TypeHands
    BY SizesAssumption, NilFacts DEF Init, TypeQueue, TypeHands
  <1>2. TypeControl
    BY Zenon DEF Init, TypeControl, PCs, Results
  <1>3. TypeCache /\ TypeCount
    BY NilFacts DEF Init, TypeCache, TypeCount, Zero
  <1>4. TypeHist
    BY SizesAssumption DEF Init, TypeHist
  <1> QED BY <1>1, <1>2, <1>3, <1>4 DEF TypeOK

(* What a sink write does to the sequences involved. *)
LEMMA SinkWriteTypes ==
    ASSUME TypeOK, NEW r \in Results, NEW acked \in 0..Len(batch), NEW kept \in 0..Len(batch),
           SinkWrites(r, acked, kept)
    PROVE  /\ SubSeq(batch, 1, acked) \in Seq(Nat) /\ Len(SubSeq(batch, 1, acked)) = acked
           /\ Unacked(acked) \in Seq(Nat)
           /\ Range(SubSeq(batch, 1, kept)) \subseteq Nat
           /\ Range(SubSeq(batch, acked + 1, kept)) \subseteq Nat
  <1>1. batch \in Seq(Nat) /\ acked <= kept
    BY DEF TypeOK, TypeHands, SinkWrites
  <1>2. SubSeq(batch, 1, acked) \in Seq(Nat) /\ Len(SubSeq(batch, 1, acked)) = acked
        /\ Unacked(acked) \in Seq(Nat)
    BY <1>1, Cut DEF Unacked
  <1>3. SubSeq(batch, 1, kept) \in Seq(Nat) /\ SubSeq(batch, acked + 1, kept) \in Seq(Nat)
    BY <1>1
  <1> QED BY <1>2, <1>3, RangeOfSeq, Zenon

LEMMA QueueStep == TypeOK /\ [Next]_vars => TypeQueue'
  <1> SUFFICES ASSUME TypeOK, [Next]_vars PROVE TypeQueue'
    OBVIOUS
  <1> USE SizesAssumption, NilFacts DEF TypeQueue
  <1>0. TypeQueue /\ next \in Nat
    BY DEF TypeOK, TypeHist
  <1>1. CASE Enqueue
    <2>1. queue' = queue \/ (queue' = Append(queue, next) /\ Len(queue) < QueueSize)
      BY <1>1 DEF Enqueue
    <2> QED BY <1>0, <2>1
  <1>2. CASE Crash \/ Restart \/ Top \/ DrainQueue \/ ShutdownFlush
    <2>1. queue' = queue \/ queue' = Nil
      BY <1>2, Zenon DEF Crash, Restart, Forget, Top, DrainQueue, ShutdownFlush, KeepQueue
    <2>2. queue' \in Seq(Nat)
      BY <1>0, <2>1, Zenon
    <2>3. Len(queue') <= QueueSize
      BY <1>0, <2>1, <2>2
    <2> QED BY <2>2, <2>3
  <1>3. CASE NextBatch
    <2>1. Rest(queue) \in Seq(Nat) /\ Len(Rest(queue)) <= QueueSize
      BY <1>0, ChunkRest
    <2> QED BY <1>3, <2>1 DEF NextBatch
  <1>4. CASE UNCHANGED queue
    BY <1>0, <1>4
  <1> QED
    BY <1>1, <1>2, <1>3, <1>4, ZenonT(60) DEF Next, Worker, Local, SinkCall, CacheBatch, Kept, Dial,
       DrainNothing, DrainUnreadable, DrainFinished, DrainRead, DrainRemove, DrainWrite, Idle,
       Write, WaitToRetry, Shutdown

LEMMA ControlStep == TypeOK /\ [Next]_vars => TypeControl'
  <1> SUFFICES ASSUME TypeOK, [Next]_vars PROVE TypeControl'
    OBVIOUS
  <1> USE DEF TypeControl, PCs, Results
  <1>0. TypeControl
    BY DEF TypeOK
  <1>1. CASE Crash \/ Restart
    BY <1>0, <1>1, Zenon DEF Crash, Restart, Forget
  <1>9. CASE Shutdown
    BY <1>0, <1>9 DEF Shutdown
  <1>2. CASE Top \/ DrainQueue \/ ShutdownFlush \/ Kept
    BY <1>0, <1>2, ZenonT(60) DEF Top, DrainQueue, ShutdownFlush, KeepQueue, Kept
  <1>3. CASE DrainNothing \/ DrainUnreadable \/ DrainFinished \/ DrainRead
    BY <1>0, <1>3, Zenon DEF DrainNothing, DrainUnreadable, DrainFinished, ResetFile, DrainRead
  <1>4. CASE DrainRemove \/ CacheBatch
    BY <1>0, <1>4, ZenonT(60) DEF DrainRemove, Remove, Fail, CacheBatch, AppendRows, WriteFails
  <1>5. CASE NextBatch \/ WaitToRetry
    BY <1>0, <1>5, ZenonT(60) DEF NextBatch, WaitToRetry
  <1>6. ASSUME NEW r \in Results, Dial(r) \/ Idle(r) PROVE TypeControl'
    BY <1>0, <1>6, ZenonT(60) DEF Dial, Idle, Fail
  <1>7. ASSUME NEW r \in Results, NEW acked \in 0..Len(batch), NEW kept \in 0..Len(batch),
               DrainWrite(r, acked, kept) \/ Write(r, acked, kept)
        PROVE  TypeControl'
    BY <1>0, <1>7, ZenonT(60) DEF DrainWrite, Write, Fail
  <1>8. CASE UNCHANGED <<pc, ret, cause, stop, closed, connected, draining, usable, skipped>>
    BY <1>0, <1>8
  <1> QED
    BY <1>1, <1>9, <1>2, <1>3, <1>4, <1>5, <1>6, <1>7, <1>8
       DEF Next, Worker, Local, SinkCall, Enqueue

LEMMA HandsTypeStep == TypeOK /\ [Next]_vars => TypeHands'
  <1> SUFFICES ASSUME TypeOK, [Next]_vars PROVE TypeHands'
    OBVIOUS
  <1> USE SizesAssumption, NilFacts DEF TypeHands
  <1>0. TypeHands /\ queue \in Seq(Nat) /\ cache \in Seq(Nat)
    BY DEF TypeOK, TypeQueue, TypeCache
  <1>1. CASE Crash \/ Restart \/ Top \/ DrainQueue \/ ShutdownFlush
    <2>1. (batch' = batch \/ batch' = Nil) /\ hand' \in {hand, queue, Nil}
      BY <1>1, Zenon DEF Crash, Restart, Forget, Top, DrainQueue, ShutdownFlush, KeepQueue
    <2>2. batch' \in Seq(Nat) /\ hand' \in Seq(Nat)
      BY <1>0, <2>1, Zenon
    <2>3. Len(batch') <= BatchSize
      BY <1>0, <2>1, <2>2
    <2> QED BY <2>2, <2>3
  <1>2. CASE CacheBatch
    <2>1. Left \in Seq(Nat)
      BY <1>0, ChunkRest DEF Left
    <2> QED BY <1>0, <1>2, <2>1 DEF CacheBatch
  <1>3. CASE DrainRead \/ NextBatch
    BY <1>0, <1>3, ChunkRest DEF DrainRead, NextBatch
  <1>4. CASE DrainRemove
    <2>1. batch' = Nil /\ (hand' = hand \/ hand' = Nil)
      BY <1>4, Zenon DEF DrainRemove, Fail
    <2>2. batch' \in Seq(Nat) /\ hand' \in Seq(Nat)
      BY <1>0, <2>1, Zenon
    <2>3. Len(batch') <= BatchSize
      BY <1>0, <2>1, <2>2
    <2> QED BY <2>2, <2>3
  <1>5. ASSUME NEW r \in Results, Dial(r) \/ Idle(r) PROVE TypeHands'
    <2>1. batch' = batch /\ (hand' = hand \/ hand' = Nil)
      BY <1>5, Zenon DEF Dial, Idle, Fail
    <2>2. batch' \in Seq(Nat) /\ hand' \in Seq(Nat)
      BY <1>0, <2>1, Zenon
    <2>3. Len(batch') <= BatchSize
      BY <1>0, <2>1, <2>2
    <2> QED BY <2>2, <2>3
  <1>6. ASSUME NEW r \in Results, NEW acked \in 0..Len(batch), NEW kept \in 0..Len(batch),
               DrainWrite(r, acked, kept) \/ Write(r, acked, kept)
        PROVE  TypeHands'
    <2>1. SinkWrites(r, acked, kept)
      BY <1>6 DEF DrainWrite, Write
    <2>2. /\ batch' = SubSeq(batch, 1, acked) \/ batch' = Nil
          /\ hand' = hand \/ hand' = Unacked(acked)
      BY <1>6, Zenon DEF DrainWrite, Write, Fail
    <2>3. /\ SubSeq(batch, 1, acked) \in Seq(Nat) /\ Len(SubSeq(batch, 1, acked)) = acked
          /\ Unacked(acked) \in Seq(Nat)
      BY <2>1, SinkWriteTypes
    <2>4. batch' \in Seq(Nat)
      BY <2>2, <2>3, Zenon
    <2>5. hand' \in Seq(Nat)
      BY <1>0, <2>2, <2>3
    <2>6. Len(batch') <= BatchSize
      BY <1>0, <2>2, <2>3
    <2> QED BY <2>4, <2>5, <2>6
  <1>7. CASE UNCHANGED <<batch, hand>>
    BY <1>0, <1>7
  <1> QED
    BY <1>1, <1>2, <1>3, <1>4, <1>5, <1>6, <1>7
       DEF Next, Worker, Local, SinkCall, Enqueue, Shutdown, Kept, DrainNothing, DrainUnreadable,
           DrainFinished, WaitToRetry

(* The first chunk of the frames in hand, and the rest of them. *)
LEMMA TakenLeft ==
    ASSUME hand \in Seq(Nat)
    PROVE  /\ Taken \in Seq(Nat) /\ Left \in Seq(Nat)
           /\ Range(Taken) \cup Range(Left) = Range(hand)
  BY ChunkRest, NilFacts DEF Taken, Left

(* A transaction leaves the measured size a natural number. *)
LEMMA GrowType ==
    ASSUME NEW n \in Nat, pages \in Nat, GrowFile(n)
    PROVE  pages' \in Nat
  BY SizesAssumption DEF GrowFile, UpToLimit

LEMMA CacheTypeStep == TypeOK /\ [Next]_vars => TypeCache'
  <1> SUFFICES ASSUME TypeOK, [Next]_vars PROVE TypeCache'
    OBVIOUS
  <1> USE SizesAssumption, NilFacts DEF TypeCache
  <1>0. TypeCache /\ batch \in Seq(Nat) /\ hand \in Seq(Nat)
    BY DEF TypeOK, TypeHands
  <1>1. CASE CacheBatch
    <2>1. Taken \in Seq(Nat) /\ Len(Taken) \in Nat
      BY <1>0, TakenLeft
    <2>2. \/ UNCHANGED cacheVars
          \/ cache' = cache \o Taken /\ rows' = rows + Len(Taken) /\ GrowFile(Len(Taken))
          \/ cache' = cache /\ rows' = rows /\ GrowFile(Len(Taken))
      BY <1>1, Zenon DEF CacheBatch, AppendRows, WriteFails
    <2>3. cache' \in Seq(Nat)
      <3>1. cache \o Taken \in Seq(Nat)
        BY <1>0, <2>1, ConcatProperties
      <3> QED BY <1>0, <2>2, <3>1, Zenon
    <2>4. rows' \in Nat
      BY <1>0, <2>1, <2>2
    <2>5. pages' \in Nat
      BY <1>0, <2>1, <2>2, GrowType, Zenon
    <2> QED BY <2>3, <2>4, <2>5
  <1>2. CASE DrainFinished
    <2>1. cache' = cache /\ (rows' = rows \/ rows' = 0)
          /\ (pages' = pages \/ pages' = 0 \/ pages' \in 0..pages)
      BY <1>2, Zenon DEF DrainFinished, ResetFile
    <2> QED BY <1>0, <2>1
  <1>3. CASE DrainRemove
    <2>1. WriteFails(Len(batch)) \/ Remove
      BY <1>3, Zenon DEF DrainRemove
    <2>2. pages' \in Nat
      <3>1. Len(batch) \in Nat
        BY <1>0
      <3> QED BY <1>0, <2>1, <3>1, GrowType, Zenon DEF WriteFails, Remove
    <2>3. CASE Remove
      <3>1. cache' \in Seq(Nat)
        <4>1. SubSeq(cache, Len(batch) + 1, Len(cache)) \in Seq(Nat)
          BY <1>0
        <4> QED BY <2>3, <4>1, Zenon DEF Remove
      <3>2. rows' \in Nat
        BY <1>0, <2>3 DEF Remove
      <3> QED BY <2>2, <3>1, <3>2
    <2>4. CASE WriteFails(Len(batch))
      BY <1>0, <2>2, <2>4 DEF WriteFails
    <2> QED BY <2>1, <2>3, <2>4
  <1>4. CASE Restart
    <2>1. cache' = cache /\ pages' \in UpToLimit(Len(cache))..pages /\ rows' = Len(cache)
      BY <1>4, Zenon DEF Restart
    <2> QED BY <1>0, <2>1 DEF UpToLimit
  <1>5. CASE UNCHANGED <<cache, rows, pages>>
    BY <1>0, <1>5
  <1> QED
    BY <1>1, <1>2, <1>3, <1>4, <1>5, ZenonT(60)
       DEF Next, Worker, Local, SinkCall, Enqueue, Shutdown, Crash, Top, Kept, DrainQueue, Dial,
           DrainNothing, DrainUnreadable, DrainRead, DrainWrite, NextBatch, Idle, Write,
           WaitToRetry, ShutdownFlush

(* The counters stay naturals, whichever of them is raised. *)
LEMMA Counting ==
    ASSUME TypeCount, NEW n \in Nat
    PROVE  LET T == [enqueued : Nat, written : Nat, cached : Nat, recovered : Nat, dropped : Nat]
           IN  /\ [count EXCEPT !.enqueued = @ + n] \in T
               /\ [count EXCEPT !.cached = @ + n] \in T
               /\ CountDropped(n) \in T /\ CountWritten(n) \in T /\ CountRecovered(n) \in T
  <1> DEFINE T == [enqueued : Nat, written : Nat, cached : Nat, recovered : Nat, dropped : Nat]
  <1>1. [count EXCEPT !.enqueued = @ + n] \in T
    BY DEF TypeCount
  <1>2. CountWritten(n) \in T
    BY DEF TypeCount, CountWritten
  <1>3. [count EXCEPT !.cached = @ + n] \in T
    BY DEF TypeCount
  <1>4. CountDropped(n) \in T
    BY DEF TypeCount, CountDropped
  <1>5. CountRecovered(n) \in T
    BY <1>2, SMTT(60) DEF CountRecovered
  <1> QED BY <1>1, <1>2, <1>3, <1>4, <1>5, Zenon

LEMMA CountStep == TypeOK /\ [Next]_vars => TypeCount'
  <1> SUFFICES ASSUME TypeOK, [Next]_vars PROVE TypeCount'
    OBVIOUS
  <1> USE DEF TypeCount
  <1>0. TypeCount /\ batch \in Seq(Nat) /\ hand \in Seq(Nat)
    BY DEF TypeOK, TypeHands
  <1>1. CASE Enqueue
    <2>1. \/ count' = count
          \/ count' = [count EXCEPT !.enqueued = @ + 1]
          \/ count' = CountDropped(1)
      BY <1>1, Zenon DEF Enqueue
    <2> QED BY <1>0, <2>1, Counting, ZenonT(60)
  <1>2. CASE CacheBatch
    <2>1. Len(Taken) \in Nat
      BY <1>0, TakenLeft
    <2>2. \/ count' = [count EXCEPT !.cached = @ + Len(Taken)]
          \/ count' = CountDropped(Len(Taken))
      BY <1>2, Zenon DEF CacheBatch
    <2> QED BY <1>0, <2>1, <2>2, Counting, ZenonT(60)
  <1>3. CASE DrainRemove
    <2>1. count' = CountRecovered(Len(batch))
      BY <1>3 DEF DrainRemove
    <2>2. Len(batch) \in Nat
      BY <1>0
    <2> QED BY <1>0, <2>1, <2>2, Counting, Zenon
  <1>4. ASSUME NEW r \in Results, NEW acked \in 0..Len(batch), NEW kept \in 0..Len(batch),
               Write(r, acked, kept)
        PROVE  TypeCount'
    <2>1. count' = CountWritten(acked)
      BY <1>4 DEF Write
    <2>2. acked \in Nat
      BY <1>0
    <2> QED BY <1>0, <2>1, <2>2, Counting, Zenon
  <1>5. CASE Crash \/ Restart
    BY <1>5 DEF Crash, Restart, Forget, Zero
  <1>6. CASE UNCHANGED count
    BY <1>0, <1>6, SMTT(60)
  <1> QED
    BY <1>1, <1>2, <1>3, <1>4, <1>5, <1>6, ZenonT(60)
       DEF Next, Worker, Local, SinkCall, Shutdown, Top, Kept, DrainQueue, Dial, DrainNothing,
           DrainUnreadable, DrainFinished, DrainRead, DrainWrite, NextBatch, Idle, WaitToRetry,
           ShutdownFlush

LEMMA HistStep == TypeOK /\ [Next]_vars => TypeHist'
  <1> SUFFICES ASSUME TypeOK, [Next]_vars PROVE TypeHist'
    OBVIOUS
  <1> USE SizesAssumption DEF TypeHist
  <1>0. /\ TypeHist
        /\ batch \in Seq(Nat) /\ hand \in Seq(Nat) /\ queue \in Seq(Nat)
    BY DEF TypeOK, TypeHands, TypeQueue
  <1>10. Fault => faults' \in 0..MaxFaults
    BY <1>0 DEF Fault
  <1>1. CASE Enqueue
    <2>1. /\ next' = next + 1 /\ UNCHANGED <<stored, discarded, crashed, unsure, faults>>
          /\ accepted' = accepted \/ accepted' = accepted \cup {next}
      BY <1>1, Zenon DEF Enqueue
    <2>2. accepted' \subseteq Nat
      BY <1>0, <2>1, Zenon
    <2> QED BY <1>0, <2>1, <2>2
  <1>2. CASE CacheBatch
    <2>1. Range(Taken) \subseteq Nat
      BY <1>0, TakenLeft, RangeOfSeq
    <2>2. faults' \in 0..MaxFaults
      BY <1>0, <1>2, <1>10 DEF CacheBatch
    <2> QED BY <1>0, <1>2, <2>1, <2>2, SMTT(60) DEF CacheBatch
  <1>3. CASE DrainUnreadable \/ DrainFinished
    BY <1>0, <1>3, <1>10, Zenon DEF DrainUnreadable, DrainFinished, ResetFile
  <1>4. CASE DrainRemove
    <2>1. Range(batch) \subseteq Nat
      BY <1>0, RangeOfSeq
    <2> QED BY <1>0, <1>4, <1>10, <2>1, Zenon DEF DrainRemove
  <1>5. ASSUME NEW r \in Results, NEW acked \in 0..Len(batch), NEW kept \in 0..Len(batch),
               DrainWrite(r, acked, kept) \/ Write(r, acked, kept)
        PROVE  TypeHist'
    <2>1. SinkWrites(r, acked, kept)
      BY <1>5 DEF DrainWrite, Write
    <2>2. /\ Range(SubSeq(batch, 1, kept)) \subseteq Nat
          /\ Range(SubSeq(batch, acked + 1, kept)) \subseteq Nat
      BY <2>1, SinkWriteTypes
    <2>3. stored' = stored \cup Range(SubSeq(batch, 1, kept))
          /\ unsure' = unsure \cup Range(SubSeq(batch, acked + 1, kept))
          /\ UNCHANGED <<next, accepted, discarded, crashed, faults>>
      BY <1>5 DEF DrainWrite, Write, SinkWrites
    <2> QED BY <1>0, <2>2, <2>3, Zenon
  <1>6. CASE Crash
    <2>1. Range(queue) \subseteq Nat /\ Range(hand) \subseteq Nat /\ Range(batch) \subseteq Nat
      BY <1>0, RangeOfSeq
    <2>2. Held \subseteq Nat
      BY <2>1 DEF Held
    <2> QED BY <1>0, <1>6, <1>10, <2>1, <2>2, Zenon DEF Crash
  <1>7. CASE Restart
    BY <1>0, <1>7 DEF Restart
  <1>8. CASE UNCHANGED <<next, accepted, stored, discarded, crashed, unsure, faults>>
    BY <1>0, <1>8
  <1> QED
    BY <1>1, <1>2, <1>3, <1>4, <1>5, <1>6, <1>7, <1>8, ZenonT(60)
       DEF Next, Worker, Local, SinkCall, Shutdown, Top, Kept, DrainQueue, Dial, DrainNothing,
           DrainRead, NextBatch, Idle, WaitToRetry, ShutdownFlush

LEMMA TypeStep == TypeOK /\ [Next]_vars => TypeOK'
  BY QueueStep, ControlStep, HandsTypeStep, CacheTypeStep, CountStep, HistStep DEF TypeOK

(* The variables of the pipeline keep their types: the queue never exceeds its *)
(* capacity, nor a batch batch_size.                                           *)
THEOREM TypeCorrect == Spec => []TypeOK
  BY TypeInit, TypeStep, PTL DEF Spec
=============================================================================
