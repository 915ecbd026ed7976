----------------------- MODULE DeliveryQueueProofs -----------------------
(***************************************************************************)
(* Proofs about DeliveryQueue, for any messages, chunk counts, retry limit *)
(* and bounds, whatever the crashes and the file errors: its types, that   *)
(* no accepted chunk is lost and none is given up before its time, with    *)
(* any number of runner tasks; with a single one, what excuses duplicates, *)
(* that backoffs are respected, and that it implements Outbox.  At the end *)
(* Heartbeat, whose reports go to the queue, for any settings and hours: a *)
(* run has the instructions of the file, and yields to the user.           *)
(***************************************************************************)
EXTENDS DeliveryQueue, Heartbeat, FiniteSetTheorems, TLAPS

\* An entry is a message and a chunk number; every chunk number is positive.
LEMMA IdsDef ==
  \A m \in Msgs : \A c \in 1..ChunksOf[m] : <<m, c>> \in Ids
BY DEF Ids

\* The chunks of a message already renamed into place, while its enqueue is
\* under way or once it is accepted, are all accounted for.
Accounted(i) == i \in queue \cup failed \/ sent[i] > 0

WrittenAccounted ==
  \A m \in Msgs :
    /\ enq[m].pc \in {"writing", "renaming"} => enq[m].k < ChunksOf[m]
    /\ enq[m].pc = "accepted" => enq[m].k = ChunksOf[m]
    /\ enq[m].pc = "idle" => enq[m].k = 0
    /\ enq[m].pc \in {"idle", "writing", "renaming"} => enq[m].u = 0
    /\ enq[m].pc = "undo" => enq[m].u < enq[m].k /\ enq[m].k < ChunksOf[m]
    /\ enq[m].pc \in {"writing", "renaming", "accepted"} =>
         \A c \in 1..enq[m].k : Accounted(<<m, c>>)

\* A runner past the scan holds an entry, and acks only what it has sent.
HandSound ==
  \A r \in Runners :
    /\ run[r].pc \in {"await", "ack", "refused", "failing"} => run[r].id \in Ids
    /\ run[r].pc = "ack" => sent[run[r].id] > 0

LossInv == TypeOK /\ WrittenAccounted /\ HandSound

\* An empty queue accounts for every chunk.
LEMMA LossInvInit == Init => LossInv
<1> SUFFICES ASSUME Init PROVE LossInv
  OBVIOUS
<1>1. TypeOK
  BY QueueAssumption DEF Init, TypeOK, EnqPcs, RunPcs, Off, Call, Task
<1>2. WrittenAccounted
  BY QueueAssumption DEF Init, WrittenAccounted, Call
<1>3. HandSound
  BY DEF Init, HandSound, Off, Task
<1> QED  BY <1>1, <1>2, <1>3 DEF LossInv

\* No step of an enqueue call, its undo included, keeps fewer chunks accounted
\* than the call has promised.
LEMMA EnqStep ==
  ASSUME LossInv, NEW m \in Msgs,
         Enqueue(m) \/ WriteTmp(m) \/ RenameTmp(m) \/ WriteError(m) \/ UndoChunk(m)
  PROVE  LossInv'
<1> USE QueueAssumption, IdsDef DEF LossInv, TypeOK, EnqPcs, Call
<1>1. CASE Enqueue(m)
  BY <1>1 DEF Enqueue, disk, hist, WrittenAccounted, Accounted, HandSound
<1>2. CASE WriteTmp(m)
  <2>1. Chunk(m) \in Ids
    BY <1>2 DEF WriteTmp, WrittenAccounted, Chunk
  <2> QED  BY <1>2, <2>1 DEF WriteTmp, disk, hist, WrittenAccounted, Accounted, HandSound
<1>3. CASE RenameTmp(m)
  <2>1. Chunk(m) \in Ids
    BY <1>3 DEF RenameTmp, WrittenAccounted, Chunk
  <2>2. TypeOK'
    BY <1>3, <2>1 DEF RenameTmp, hist
  <2>3. WrittenAccounted'
    <3> SUFFICES ASSUME NEW x \in Msgs PROVE WrittenAccounted!(x)'
      BY DEF WrittenAccounted
    <3>1. ASSUME NEW c \in Nat, <<x, c>> \in Ids, Accounted(<<x, c>>)
          PROVE  Accounted(<<x, c>>)'
      BY <3>1, <1>3 DEF RenameTmp, hist, Accounted
    <3>2. CASE x = m
      <4>1. enq'[m] = Call(IF enq[m].k + 1 = ChunksOf[m] THEN "accepted" ELSE "writing",
                           enq[m].k + 1, enq[m].u)
        BY <1>3 DEF RenameTmp
      <4>2. enq[m].pc = "renaming" /\ enq[m].k < ChunksOf[m] /\ enq[m].u = 0
        BY <1>3 DEF RenameTmp, WrittenAccounted
      <4>3. ASSUME NEW c \in 1..(enq[m].k + 1) PROVE Accounted(<<m, c>>)'
        <5>1. CASE c = enq[m].k + 1
          BY <5>1, <1>3 DEF RenameTmp, Accounted, Chunk
        <5>2. CASE c \in 1..enq[m].k
          <6>1. Accounted(<<m, c>>)
            BY <5>2, <4>2 DEF WrittenAccounted
          <6>2. <<m, c>> \in Ids
            BY <4>2, <5>2
          <6> QED  BY <3>1, <3>2, <6>1, <6>2, <5>2
        <5> QED  BY <5>1, <5>2
      <4> QED  BY <3>2, <4>1, <4>2, <4>3, SMTT(60)
    <3>3. CASE x # m
      <4>1. enq'[x] = enq[x]
        BY <3>3, <1>3 DEF RenameTmp
      <4> QED  BY <4>1, <3>1 DEF WrittenAccounted
    <3> QED  BY <3>2, <3>3
  <2>4. HandSound'
    BY <1>3 DEF RenameTmp, hist, HandSound
  <2> QED  BY <2>2, <2>3, <2>4
<1>4. CASE WriteError(m)
  <2>1. TypeOK'
    BY <1>4 DEF WriteError, Fault, disk, hist
  <2>2. WrittenAccounted'
    BY <1>4 DEF WriteError, disk, hist, WrittenAccounted, Accounted
  <2>3. HandSound'
    BY <1>4 DEF WriteError, disk, hist, HandSound
  <2> QED  BY <2>1, <2>2, <2>3
<1>5. CASE UndoChunk(m)
  <2>1. /\ queue' \in SUBSET queue
        /\ \A i \in queue : i[1] # m => i \in queue'
        /\ faults' \in Nat
    BY <1>5 DEF UndoChunk, Fault
  <2>2. /\ enq[m].pc = "undo" /\ enq[m].u < enq[m].k
        /\ enq' = [enq EXCEPT ![m] =
             Call(IF @.u + 1 = @.k THEN "aborted" ELSE "undo", @.k, @.u + 1)]
        /\ UNCHANGED <<retry, due, failed, tmp, run, hist, restarts>>
    BY <1>5 DEF UndoChunk, WrittenAccounted
  <2>3. TypeOK'
    <3>1. enq' \in [Msgs -> [pc : EnqPcs, k : Nat, u : Nat]]
      BY <2>2
    <3>2. queue' \in SUBSET Ids
      BY <2>1
    <3> QED  BY <2>1, <2>2, <3>1, <3>2 DEF hist
  <2>4. WrittenAccounted'
    <3> SUFFICES ASSUME NEW x \in Msgs PROVE WrittenAccounted!(x)'
      BY DEF WrittenAccounted
    <3>1. CASE x = m
      <4>1. enq'[m] = Call(IF enq[m].u + 1 = enq[m].k THEN "aborted" ELSE "undo",
                           enq[m].k, enq[m].u + 1)
        BY <2>2
      <4>2. enq[m].u < enq[m].k /\ enq[m].k < ChunksOf[m]
        BY <2>2 DEF WrittenAccounted
      <4>3. /\ enq'[m].pc = "undo" => enq'[m].u < enq'[m].k
            /\ enq'[m].k = enq[m].k /\ enq'[m].pc \in {"undo", "aborted"}
        BY <4>1, <4>2
      <4> QED  BY <3>1, <4>2, <4>3
    <3>2. CASE x # m
      <4>1. enq'[x] = enq[x]
        BY <3>2, <2>2
      <4>2. ASSUME NEW c \in 1..enq[x].k, Accounted(<<x, c>>)
            PROVE  Accounted(<<x, c>>)'
        BY <4>2, <3>2, <2>1, <2>2 DEF Accounted, hist
      <4> QED  BY <4>1, <4>2 DEF WrittenAccounted
    <3> QED  BY <3>1, <3>2
  <2>5. HandSound'
    BY <2>2 DEF hist, HandSound
  <2> QED  BY <2>3, <2>4, <2>5
<1> QED  BY <1>1, <1>2, <1>3, <1>4, <1>5

\* A step that leaves the enqueue calls alone and keeps every accounted chunk
\* accounted keeps WrittenAccounted.
LEMMA KeepsAccounted ==
  ASSUME LossInv, UNCHANGED enq,
         \A i \in Ids : Accounted(i) => Accounted(i)'
  PROVE  WrittenAccounted'
<1> SUFFICES ASSUME NEW m \in Msgs PROVE WrittenAccounted!(m)'
  BY DEF WrittenAccounted
<1>1. ASSUME NEW c \in 1..enq[m].k, enq[m].pc \in {"writing", "renaming", "accepted"}
      PROVE  Accounted(<<m, c>>)'
  <2>1. enq[m].k <= ChunksOf[m] /\ enq[m].k \in Nat
    BY <1>1, QueueAssumption DEF LossInv, TypeOK, WrittenAccounted
  <2>2. <<m, c>> \in Ids
    BY <2>1, IdsDef, QueueAssumption
  <2> QED  BY <1>1, <2>2 DEF LossInv, WrittenAccounted
<1> QED  BY <1>1 DEF LossInv, WrittenAccounted

\* No step of a runner, its start and stop included, loses an accounted chunk:
\* the file goes only after the chunk was sent or is in failed/.
LEMMA RunnerKeepsLossInv ==
  ASSUME LossInv, NEW r \in Runners, StartRunner(r) \/ RunnerStep(r) \/ StopRunner(r)
  PROVE  LossInv'
<1> USE QueueAssumption DEF LossInv, TypeOK, RunPcs, Task, disk, hist
<1>1. CASE StartRunner(r)
  <2>1. WrittenAccounted'
    BY <1>1, KeepsAccounted DEF StartRunner, Accounted
  <2> QED  BY <1>1, <2>1, SMTT(60) DEF StartRunner, HandSound
<1>2. CASE Scan(r)
  <2>1. WrittenAccounted'
    BY <1>2, KeepsAccounted DEF Scan, Accounted
  <2> QED  BY <1>2, <2>1 DEF Scan, HandSound
<1>3. CASE Deliver(r)
  <2>1. WrittenAccounted'
    BY <1>3, KeepsAccounted DEF Deliver, Accounted
  <2> QED  BY <1>3, <2>1 DEF Deliver, HandSound
<1>4. CASE SinkOk(r)
  <2>1. WrittenAccounted'
    BY <1>4, KeepsAccounted DEF SinkOk, Accounted, HandSound
  <2> QED  BY <1>4, <2>1 DEF SinkOk, HandSound
<1>5. CASE SinkErr(r)
  <2>1. WrittenAccounted'
    BY <1>5, KeepsAccounted DEF SinkErr, Accounted
  <2> QED  BY <1>5, <2>1 DEF SinkErr, HandSound
<1>6. CASE Ack(r)
  <2>1. WrittenAccounted'
    BY <1>6, KeepsAccounted DEF Ack, Accounted, HandSound
  <2> QED  BY <1>6, <2>1 DEF Ack, Proceed, HandSound
<1>7. CASE AckError(r)
  <2>1. WrittenAccounted'
    BY <1>7, KeepsAccounted DEF AckError, Accounted
  <2> QED  BY <1>7, <2>1 DEF AckError, Fault, Proceed, HandSound
<1>8. CASE GiveUp(r)
  <2>1. WrittenAccounted'
    BY <1>8, KeepsAccounted DEF GiveUp, Accounted
  <2> QED  BY <1>8, <2>1 DEF GiveUp, Proceed, HandSound
<1>9. CASE BeginRetry(r)
  <2>1. WrittenAccounted'
    BY <1>9, KeepsAccounted DEF BeginRetry, Accounted
  <2> QED  BY <1>9, <2>1 DEF BeginRetry, HandSound
<1>10. CASE CommitRetry(r)
  <2>1. WrittenAccounted'
    BY <1>10, KeepsAccounted DEF CommitRetry, Accounted
  <2> QED  BY <1>10, <2>1 DEF CommitRetry, Proceed, HandSound
<1>11. CASE FailError(r)
  <2>1. WrittenAccounted'
    BY <1>11, KeepsAccounted DEF FailError, Accounted
  <2> QED  BY <1>11, <2>1 DEF FailError, Fault, Proceed, HandSound
<1>12. CASE StopRunner(r)
  <2>1. WrittenAccounted'
    BY <1>12, KeepsAccounted DEF StopRunner, Accounted
  <2> QED  BY <1>12, <2>1 DEF StopRunner, Off, HandSound
<1> QED  BY <1>1, <1>2, <1>3, <1>4, <1>5, <1>6, <1>7, <1>8, <1>9, <1>10, <1>11, <1>12
         DEF RunnerStep

\* Neither does an elapsed backoff or a crash.
LEMMA EnvironmentKeepsLossInv ==
  ASSUME LossInv, (\E id \in Ids : Elapse(id)) \/ Crash
  PROVE  LossInv'
<1> USE DEF LossInv, TypeOK, disk, hist
<1>1. CASE \E id \in Ids : Elapse(id)
  <2>1. WrittenAccounted'
    BY <1>1, KeepsAccounted DEF Elapse, Accounted
  <2> QED  BY <1>1, <2>1 DEF Elapse, HandSound
<1>2. CASE Crash
  <2>1. enq' \in [Msgs -> [pc : EnqPcs, k : Nat, u : Nat]]
    BY <1>2 DEF Crash, EnqPcs
  <2>2. TypeOK'
    BY <1>2, <2>1 DEF Crash, Off, Task, RunPcs
  <2>3. WrittenAccounted'
    BY <1>2 DEF Crash, WrittenAccounted, Accounted
  <2>4. HandSound'
    BY <1>2 DEF Crash, Off, Task, HandSound
  <2> QED  BY <2>2, <2>3, <2>4
<1> QED  BY <1>1, <1>2

\* Type correctness and the invariant behind NoLoss, for every value of the
\* constants.
THEOREM LossInvInvariant == Spec => []LossInv
<1>1. LossInv /\ [Next]_vars => LossInv'
  <2> SUFFICES ASSUME LossInv, [Next]_vars PROVE LossInv'
    OBVIOUS
  <2>1. CASE Next
    BY <2>1, EnqStep, RunnerKeepsLossInv, EnvironmentKeepsLossInv DEF Next
  <2>2. CASE UNCHANGED vars
    BY <2>2 DEF vars, disk, hist, LossInv, TypeOK, WrittenAccounted, Accounted, HandSound
  <2> QED  BY <2>1, <2>2
<1> QED  BY LossInvInit, <1>1, PTL DEF Spec

\* An accepted chunk is never lost: with any number of overlapping runners, and
\* through any crashes and file errors, it is queued, sent or kept in failed/.
THEOREM NeverLost == Spec => []NoLoss
<1>1. LossInv => NoLoss
  BY DEF LossInv, NoLoss, WrittenAccounted, Accounted
<1> QED  BY <1>1, LossInvInvariant, PTL

-----------------------------------------------------------------------------
(* A second invariant: an entry is moved to failed/ only after MaxRetries of *)
(* its deliveries have failed, although fail counts in memory between a read *)
(* and a write.                                                              *)

\* The runners with a failed delivery of i that they have not yet counted.
Uncounted(i) == {r \in Runners : run[r].pc = "refused" /\ run[r].id = i}

\* What was counted for i, on disk or by a runner about to write it, and what is
\* yet to be counted have all happened.
CountsJustified ==
  \A i \in Ids :
    /\ retry[i] + Cardinality(Uncounted(i)) <= refused[i]
    /\ \A r \in Runners :
         run[r].pc = "failing" /\ run[r].id = i
           => run[r].n + Cardinality(Uncounted(i)) <= refused[i]

RetryInv == LossInv /\ CountsJustified /\ FailedJustified

\* The uncounted failures are finitely many.
LEMMA UncountedFinite ==
  \A i : IsFiniteSet(Uncounted(i)) /\ Cardinality(Uncounted(i)) \in Nat
<1> TAKE i
<1>1. Uncounted(i) \subseteq Runners /\ IsFiniteSet(Runners)
  BY QueueAssumption DEF Uncounted
<1> QED  BY <1>1, FS_Subset, FS_CardinalityType

\* Nothing is counted at first.
LEMMA RetryInvInit == Init => RetryInv
<1> SUFFICES ASSUME Init PROVE RetryInv
  OBVIOUS
<1>1. FailedJustified
  BY DEF Init, FailedJustified
<1>2. CountsJustified
  <2> SUFFICES ASSUME NEW i \in Ids PROVE CountsJustified!(i)
    BY DEF CountsJustified
  <2>1. Uncounted(i) = {}
    BY DEF Init, Uncounted, Off, Task
  <2>2. Cardinality(Uncounted(i)) = 0
    BY <2>1, FS_EmptySet
  <2> QED  BY <2>2 DEF Init, Off, Task
<1> QED  BY <1>1, <1>2, LossInvInit DEF RetryInv

\* A step that adds no failure and counts none keeps the counts justified; an
\* entry's count may start again at zero.
LEMMA QuietCounts ==
  ASSUME RetryInv, TypeOK', UNCHANGED refused,
         \A i \in Ids : retry'[i] \in {retry[i], 0},
         \A r \in Runners : run'[r].pc \in {"refused", "failing"} => run'[r] = run[r]
  PROVE  CountsJustified'
<1> SUFFICES ASSUME NEW i \in Ids PROVE CountsJustified!(i)'
  BY DEF CountsJustified
<1>1. Uncounted(i)' \subseteq Uncounted(i)
  BY DEF Uncounted
<1>2. /\ Cardinality(Uncounted(i)') \in Nat
      /\ Cardinality(Uncounted(i)') <= Cardinality(Uncounted(i))
  BY <1>1, UncountedFinite, FS_Subset, FS_CardinalityType
<1>3. /\ retry[i] \in Nat /\ refused[i] \in Nat /\ Cardinality(Uncounted(i)) \in Nat
      /\ retry[i] + Cardinality(Uncounted(i)) <= refused[i]
  BY UncountedFinite DEF RetryInv, LossInv, TypeOK, CountsJustified
<1>4. retry'[i] + Cardinality(Uncounted(i)') <= refused'[i]
  BY <1>2, <1>3
<1>5. ASSUME NEW r \in Runners, run'[r].pc = "failing", run'[r].id = i
      PROVE  run'[r].n + Cardinality(Uncounted(i)') <= refused'[i]
  <2>1. run'[r] = run[r] /\ run[r].n \in Nat
    BY <1>5 DEF RetryInv, LossInv, TypeOK
  <2>2. run[r].n + Cardinality(Uncounted(i)) <= refused[i]
    BY <1>5, <2>1 DEF RetryInv, CountsJustified
  <2> QED  BY <1>2, <1>3, <2>1, <2>2
<1> QED  BY <1>4, <1>5

\* If it moves nothing to failed/ either, all stays justified.
LEMMA QuietStep ==
  ASSUME RetryInv, TypeOK', UNCHANGED <<refused, failed>>,
         \A i \in Ids : retry'[i] \in {retry[i], 0},
         \A r \in Runners : run'[r].pc \in {"refused", "failing"} => run'[r] = run[r]
  PROVE  CountsJustified' /\ FailedJustified'
<1>1. CountsJustified'
  BY QuietCounts
<1>2. FailedJustified'
  BY DEF RetryInv, FailedJustified
<1> QED  BY <1>1, <1>2

\* A failed delivery is one more that is yet to be counted.
LEMMA SinkErrCounts ==
  ASSUME RetryInv, NEW r \in Runners, SinkErr(r)
  PROVE  CountsJustified'
<1> SUFFICES ASSUME NEW i \in Ids PROVE CountsJustified!(i)'
  BY DEF CountsJustified
<1>1. /\ retry[i] \in Nat /\ refused[i] \in Nat /\ Cardinality(Uncounted(i)) \in Nat
      /\ retry[i] + Cardinality(Uncounted(i)) <= refused[i]
  BY UncountedFinite DEF RetryInv, LossInv, TypeOK, CountsJustified
<1>2. ASSUME NEW x \in Runners, run'[x].pc = "failing", run'[x].id = i
      PROVE  /\ run'[x] = run[x] /\ run[x].n \in Nat
             /\ run[x].n + Cardinality(Uncounted(i)) <= refused[i]
  BY <1>2 DEF SinkErr, RetryInv, LossInv, TypeOK, CountsJustified
<1>3. CASE run[r].id = i
  <2>1. Uncounted(i)' = Uncounted(i) \cup {r} /\ r \notin Uncounted(i)
    BY <1>3 DEF SinkErr, RetryInv, LossInv, TypeOK, Uncounted
  <2>2. Cardinality(Uncounted(i) \cup {r}) = Cardinality(Uncounted(i)) + 1
    BY <2>1, UncountedFinite, FS_AddElement
  <2>3. Cardinality(Uncounted(i)') = Cardinality(Uncounted(i)) + 1
    BY <2>1, <2>2
  <2>4. refused'[i] = refused[i] + 1 /\ retry' = retry
    BY <1>3 DEF SinkErr, disk, RetryInv, LossInv, TypeOK
  <2> QED  BY <1>1, <1>2, <2>3, <2>4
<1>4. CASE run[r].id # i
  <2>1. Uncounted(i)' = Uncounted(i)
    BY <1>4 DEF SinkErr, RetryInv, LossInv, TypeOK, Uncounted
  <2>2. Cardinality(Uncounted(i)') = Cardinality(Uncounted(i))
    BY <2>1
  <2>3. refused'[i] = refused[i] /\ retry' = retry
    BY <1>4 DEF SinkErr, disk, RetryInv, LossInv, TypeOK
  <2> QED  BY <1>1, <1>2, <2>2, <2>3
<1> QED  BY <1>3, <1>4

\* A runner that reads the entry's count back takes its own failure along.
LEMMA BeginRetryCounts ==
  ASSUME RetryInv, NEW r \in Runners, BeginRetry(r)
  PROVE  CountsJustified'
<1> SUFFICES ASSUME NEW i \in Ids PROVE CountsJustified!(i)'
  BY DEF CountsJustified
<1>1. /\ retry[i] \in Nat /\ refused[i] \in Nat /\ Cardinality(Uncounted(i)) \in Nat
      /\ retry[i] + Cardinality(Uncounted(i)) <= refused[i]
  BY UncountedFinite DEF RetryInv, LossInv, TypeOK, CountsJustified
<1>2. retry' = retry /\ refused' = refused
  BY DEF BeginRetry, hist
<1>3. ASSUME NEW x \in Runners \ {r}, run'[x].pc = "failing", run'[x].id = i
      PROVE  /\ run'[x] = run[x] /\ run[x].n \in Nat
             /\ run[x].n + Cardinality(Uncounted(i)) <= refused[i]
  BY <1>3 DEF BeginRetry, RetryInv, LossInv, TypeOK, CountsJustified
<1>4. run[r].pc = "refused" /\ run'[r].pc = "failing"
      /\ run'[r].id = run[r].id /\ run'[r].n = retry[run[r].id] + 1
  BY DEF BeginRetry, RetryInv, LossInv, TypeOK, Task
<1>5. CASE run[r].id = i
  <2>1. Uncounted(i)' = Uncounted(i) \ {r} /\ r \in Uncounted(i)
    BY <1>4, <1>5 DEF BeginRetry, RetryInv, LossInv, TypeOK, Uncounted
  <2>2. Cardinality(Uncounted(i) \ {r}) = Cardinality(Uncounted(i)) - 1
    BY <2>1, UncountedFinite, FS_RemoveElement
  <2>3. Cardinality(Uncounted(i)') = Cardinality(Uncounted(i)) - 1
    BY <2>1, <2>2
  <2> QED  BY <1>1, <1>2, <1>3, <1>4, <1>5, <2>3
<1>6. CASE run[r].id # i
  <2>1. Uncounted(i)' = Uncounted(i)
    BY <1>4, <1>6 DEF BeginRetry, RetryInv, LossInv, TypeOK, Uncounted
  <2>2. Cardinality(Uncounted(i)') = Cardinality(Uncounted(i))
    BY <2>1
  <2> QED  BY <1>1, <1>2, <1>3, <1>4, <1>6, <2>2
<1> QED  BY <1>5, <1>6

\* The count a runner writes was justified when it read it, and still is.
LEMMA CommitRetryCounts ==
  ASSUME RetryInv, NEW r \in Runners, CommitRetry(r)
  PROVE  CountsJustified'
<1> SUFFICES ASSUME NEW i \in Ids PROVE CountsJustified!(i)'
  BY DEF CountsJustified
<1>1. /\ retry[i] \in Nat /\ refused[i] \in Nat /\ Cardinality(Uncounted(i)) \in Nat
      /\ retry[i] + Cardinality(Uncounted(i)) <= refused[i]
  BY UncountedFinite DEF RetryInv, LossInv, TypeOK, CountsJustified
<1>2. /\ refused' = refused
      /\ retry'[i] = IF run[r].id = i THEN run[r].n ELSE retry[i]
  BY DEF CommitRetry, hist, RetryInv, LossInv, TypeOK
<1>3. run[r].id = i => run[r].n + Cardinality(Uncounted(i)) <= refused[i]
  BY DEF CommitRetry, RetryInv, CountsJustified
<1>4. run'[r].pc \in {"idle", "batch"}
  BY DEF CommitRetry, Proceed, Task, RetryInv, LossInv, TypeOK
<1>5. Uncounted(i)' = Uncounted(i)
  BY <1>4 DEF CommitRetry, Proceed, RetryInv, LossInv, TypeOK, Uncounted
<1>6. Cardinality(Uncounted(i)') = Cardinality(Uncounted(i))
  BY <1>5
<1>7. ASSUME NEW x \in Runners, run'[x].pc = "failing", run'[x].id = i
      PROVE  run'[x] = run[x] /\ run[x].n + Cardinality(Uncounted(i)) <= refused[i]
  BY <1>4, <1>7 DEF CommitRetry, Proceed, RetryInv, LossInv, TypeOK, CountsJustified
<1> QED  BY <1>1, <1>2, <1>3, <1>6, <1>7

\* A runner that moves the entry to failed/ has a failure of its own that the
\* count it reads back does not include.
LEMMA GiveUpCounts ==
  ASSUME RetryInv, NEW r \in Runners, GiveUp(r)
  PROVE  FailedJustified'
<1> DEFINE id == run[r].id
<1>1. id \in Ids /\ run[r].pc = "refused" /\ retry[id] + 1 >= MaxRetries
  BY DEF GiveUp, RetryInv, LossInv, HandSound
<1>2. r \in Uncounted(id)
  BY <1>1 DEF Uncounted
<1>3. Cardinality(Uncounted(id)) # 0 /\ Cardinality(Uncounted(id)) \in Nat
  BY <1>2, UncountedFinite, FS_EmptySet
<1>4. /\ retry[id] \in Nat /\ refused[id] \in Nat
      /\ retry[id] + Cardinality(Uncounted(id)) <= refused[id]
  BY <1>1 DEF RetryInv, LossInv, TypeOK, CountsJustified
<1>5. refused[id] >= MaxRetries
  BY <1>1, <1>3, <1>4, QueueAssumption
<1>6. refused' = refused /\ failed' = failed \cup {id}
  BY DEF GiveUp, hist
<1> QED  BY <1>5, <1>6 DEF RetryInv, FailedJustified

\* What an enqueue call does is quiet: a chunk renamed into place starts at zero.
LEMMA EnqQuiet ==
  ASSUME RetryInv, TypeOK', NEW m \in Msgs,
         Enqueue(m) \/ WriteTmp(m) \/ RenameTmp(m) \/ WriteError(m) \/ UndoChunk(m)
  PROVE  CountsJustified' /\ FailedJustified'
<1> USE DEF disk, hist
<1>1. UNCHANGED <<refused, failed, run>>
  BY DEF Enqueue, WriteTmp, RenameTmp, WriteError, UndoChunk
<1>2. \A i \in Ids : retry'[i] \in {retry[i], 0}
  BY DEF Enqueue, WriteTmp, RenameTmp, WriteError, UndoChunk, RetryInv, LossInv, TypeOK
<1> QED  BY <1>1, <1>2, QuietStep

\* So is every step of a runner except a failed delivery, its counting and the
\* give-up.
LEMMA RunnerQuiet ==
  ASSUME RetryInv, TypeOK', NEW r \in Runners,
         \/ StartRunner(r) \/ Scan(r) \/ Deliver(r) \/ SinkOk(r) \/ Ack(r)
         \/ AckError(r) \/ FailError(r) \/ StopRunner(r)
  PROVE  CountsJustified' /\ FailedJustified'
<1> USE DEF disk, hist, StartRunner, Scan, Deliver, SinkOk, Ack, AckError,
            FailError, StopRunner
<1>1. UNCHANGED <<refused, failed, retry>>
  OBVIOUS
<1>2. run'[r].pc \notin {"refused", "failing"}
  BY DEF Proceed, Task, Off, RetryInv, LossInv, TypeOK
<1>3. \A x \in Runners \ {r} : run'[x] = run[x]
  BY DEF Proceed, RetryInv, LossInv, TypeOK
<1>4. \A x \in Runners : run'[x].pc \in {"refused", "failing"} => run'[x] = run[x]
  BY <1>2, <1>3
<1> QED  BY <1>1, <1>4, QuietStep

\* The counts stay justified through every interleaving of runners, producers,
\* errors and crashes, for every value of the constants.
THEOREM RetryInvInvariant == Spec => []RetryInv
<1>1. RetryInv /\ LossInv' /\ [Next]_vars => RetryInv'
  <2> SUFFICES ASSUME RetryInv, LossInv', [Next]_vars
               PROVE  CountsJustified' /\ FailedJustified'
    BY DEF RetryInv
  <2>1. TypeOK'
    BY DEF LossInv
  <2>2. ASSUME NEW m \in Msgs,
               Enqueue(m) \/ WriteTmp(m) \/ RenameTmp(m) \/ WriteError(m) \/ UndoChunk(m)
        PROVE  CountsJustified' /\ FailedJustified'
    BY <2>1, <2>2, EnqQuiet
  <2>3. ASSUME NEW r \in Runners, StartRunner(r) \/ RunnerStep(r) \/ StopRunner(r)
        PROVE  CountsJustified' /\ FailedJustified'
    <3>1. CASE SinkErr(r)
      <4>1. failed' = failed /\ \A i \in Ids : refused'[i] \in {refused[i], refused[i] + 1}
        BY <3>1 DEF SinkErr, disk, RetryInv, LossInv, TypeOK
      <4>2. failed \subseteq Ids /\ refused \in [Ids -> Nat] /\ MaxRetries \in Nat
        BY QueueAssumption DEF RetryInv, LossInv, TypeOK
      <4>3. FailedJustified'
        BY <4>1, <4>2 DEF RetryInv, FailedJustified
      <4> QED  BY <3>1, <4>3, SinkErrCounts
    <3>2. CASE BeginRetry(r)
      BY <3>2, BeginRetryCounts DEF BeginRetry, hist, RetryInv, FailedJustified
    <3>3. CASE CommitRetry(r)
      BY <3>3, CommitRetryCounts DEF CommitRetry, hist, RetryInv, FailedJustified
    <3>4. CASE GiveUp(r)
      <4>1. UNCHANGED <<refused, retry>>
        BY <3>4 DEF GiveUp, hist
      <4>2. \A x \in Runners : run'[x].pc \in {"refused", "failing"} => run'[x] = run[x]
        BY <3>4 DEF GiveUp, Proceed, Task, RetryInv, LossInv, TypeOK
      <4> QED  BY <2>1, <3>4, <4>1, <4>2, GiveUpCounts, QuietCounts
    <3> QED  BY <2>1, <2>3, <3>1, <3>2, <3>3, <3>4, RunnerQuiet DEF RunnerStep
  <2>4. CASE \E id \in Ids : Elapse(id)
    BY <2>1, <2>4, QuietStep DEF Elapse, hist
  <2>5. CASE Crash
    <3>1. \A x \in Runners : run'[x].pc \notin {"refused", "failing"}
      BY <2>5 DEF Crash, Off, Task
    <3> QED  BY <2>1, <2>5, <3>1, QuietStep DEF Crash, disk
  <2>6. CASE UNCHANGED vars
    BY <2>1, <2>6, QuietStep DEF vars, disk, hist
  <2> QED  BY <2>2, <2>3, <2>4, <2>5, <2>6 DEF Next
<1>2. Init => RetryInv
  BY RetryInvInit
<1> QED  BY <1>1, <1>2, LossInvInvariant, PTL DEF Spec

\* An entry that was moved to failed/ was refused MaxRetries times, however many
\* runners failed to deliver it between each other's reads and writes.
THEOREM GivenUpJustified == Spec => []FailedJustified
<1>1. RetryInv => FailedJustified
  BY DEF RetryInv
<1> QED  BY <1>1, RetryInvInvariant, PTL

-----------------------------------------------------------------------------
(* With a single runner: only a lost ack lets a recipient see a chunk again, *)
(* no delivery starts before its backoff has elapsed, and the queue          *)
(* implements Outbox.                                                        *)

\* What the delivery queue promises, as MCDeliveryQueue has it.
Accepted == {m \in Msgs : enq[m].pc = "accepted"}
Owed == {i \in queue : enq[i[1]].pc = "accepted"}
Promise == INSTANCE Outbox WITH accepted <- Accepted, owed <- Owed

\* An entry that the enqueue call has not renamed into place yet, one that runner r
\* has yet to deliver or has just failed to deliver, and one it has yet to ack.
Unwritten(i) == i[2] > enq[i[1]].k
Pending(r, i) ==
  \/ Unwritten(i) \/ i \in queue \/ i \in run[r].batch
  \/ run[r].pc \in {"await", "refused", "failing"} /\ run[r].id = i
Unacked(r, i) == run[r].pc = "ack" /\ run[r].id = i

\* Deliveries and lost acks balance, but for entries that are done with.
Balanced(r) ==
  \A i \in Ids :
    /\ sent[i] <= unacked[i] + 1
    /\ Pending(r, i) /\ ~Unacked(r, i) => sent[i] <= unacked[i]

\* An entry is written before it is taken, taken when it is due, and in one place at a
\* time; a runner between two entries has an empty hand.
Places(r) ==
  /\ \A i \in Ids : Unwritten(i) =>
       i \notin queue /\ i \notin run[r].batch /\ run[r].id # i
  /\ run[r].batch \subseteq due /\ run[r].id \notin run[r].batch
  /\ run[r].pc \in {"off", "idle", "batch"} => run[r].id = NoId

\* What is about to be written back was not removed, except by an undo.
Written(r) ==
  run[r].pc = "failing" =>
    run[r].id \in queue \/ enq[run[r].id[1]].pc \in {"undo", "aborted"}

SingleInv(r) == Balanced(r) /\ Places(r) /\ Written(r)

\* An entry's message is a message.
LEMMA IdFacts ==
  /\ \A i \in Ids : i = <<i[1], i[2]>> /\ i[1] \in Msgs /\ i[2] \in Nat
  /\ NoId \notin Ids
BY QueueAssumption DEF Ids

\* The parts of the state, field by field.
LEMMA QueueTypes ==
  ASSUME TypeOK
  PROVE  /\ \A m \in Msgs : enq[m].k \in Nat /\ enq[m].u \in Nat /\ enq[m].pc \in EnqPcs
         /\ \A r \in Runners : /\ run[r].pc \in RunPcs /\ run[r].batch \subseteq Ids
                               /\ run[r].id \in Ids \cup {NoId} /\ run[r].n \in Nat
         /\ \A i \in Ids : sent[i] \in Nat /\ unacked[i] \in Nat
         /\ queue \subseteq Ids
BY DEF TypeOK

\* Nothing is written, taken or sent at first.
LEMMA SingleInit ==
  ASSUME NEW r \in Runners, Init
  PROVE  SingleInv(r)
<1>1. /\ queue = {} /\ run[r].pc = "off" /\ run[r].batch = {} /\ run[r].id = NoId
      /\ \A i \in Ids : sent[i] = 0 /\ unacked[i] = 0
  BY DEF Init, Off, Task
<1>2. Balanced(r)
  BY <1>1 DEF Balanced
<1>3. Places(r)
  BY <1>1, IdFacts DEF Places
<1>4. Written(r)
  BY <1>1 DEF Written
<1> QED  BY <1>2, <1>3, <1>4 DEF SingleInv

----------------------------------------------------------------------------
(* The enqueue calls. *)

\* Of an enqueue call only the rename writes an entry: the chunk it is at.
LEMMA RenameKeeps ==
  ASSUME NEW r \in Runners, LossInv, SingleInv(r), NEW m \in Msgs, RenameTmp(m)
  PROVE  SingleInv(r)'
<1>1. /\ enq[m].pc = "renaming" /\ enq[m].k \in Nat /\ enq[m].k < ChunksOf[m]
      /\ Chunk(m) = <<m, enq[m].k + 1>> /\ Chunk(m) \in Ids
      /\ ChunksOf[m] \in Nat
  <2>1. /\ enq[m].pc = "renaming" /\ enq[m].k \in Nat /\ enq[m].k < ChunksOf[m]
        /\ ChunksOf[m] \in Nat
    BY QueueTypes, QueueAssumption DEF RenameTmp, LossInv, WrittenAccounted
  <2> QED  BY <2>1, IdsDef DEF Chunk
<1>2. /\ queue' = queue \cup {Chunk(m)} /\ due' = due \cup {Chunk(m)}
      /\ UNCHANGED <<run, sent, unacked>>
      /\ enq'[m].k = enq[m].k + 1 /\ enq'[m].pc \in {"accepted", "writing"}
      /\ \A n \in Msgs \ {m} : enq'[n] = enq[n]
  BY DEF RenameTmp, hist, LossInv, TypeOK, Call
<1>3. \A i \in Ids : /\ Unwritten(i)' => Unwritten(i) /\ i # Chunk(m)
                     /\ i = Chunk(m) => Unwritten(i)
  BY <1>1, <1>2, IdFacts, QueueTypes DEF Unwritten, LossInv
<1>4. Balanced(r)'
  <2>1. \A i \in Ids : /\ Pending(r, i)' => Pending(r, i)
                       /\ Unacked(r, i)' <=> Unacked(r, i)
    BY <1>2, <1>3 DEF Pending, Unacked, Unwritten
  <2> QED  BY <1>2, <2>1 DEF SingleInv, Balanced, Pending, Unacked, Unwritten
<1>5. Places(r)'
  BY <1>2, <1>3 DEF SingleInv, Places, Unwritten
<1>6. Written(r)'
  <2>1. run[r].pc = "failing" => run[r].id[1] \in Msgs
    BY IdFacts DEF LossInv, HandSound
  <2> QED  BY <1>1, <1>2, <2>1 DEF SingleInv, Written
<1> QED  BY <1>4, <1>5, <1>6 DEF SingleInv

\* The others leave the entries as they are, or remove some.
LEMMA EnqKeeps ==
  ASSUME NEW r \in Runners, LossInv, SingleInv(r), NEW m \in Msgs,
         Enqueue(m) \/ WriteTmp(m) \/ WriteError(m) \/ UndoChunk(m)
  PROVE  SingleInv(r)'
<1>1. /\ queue' \subseteq queue /\ UNCHANGED <<due, run, sent, unacked>>
      /\ enq'[m].k = enq[m].k /\ \A n \in Msgs \ {m} : enq'[n] = enq[n]
      /\ \A i \in queue \ queue' : i[1] = m /\ enq'[m].pc \in {"undo", "aborted"}
      /\ enq[m].pc \in {"undo", "aborted"} => enq'[m].pc \in {"undo", "aborted"}
  BY DEF Enqueue, WriteTmp, WriteError, UndoChunk, disk, hist, LossInv, TypeOK, Call
<1>2. \A i \in Ids : Unwritten(i)' <=> Unwritten(i)
  BY <1>1, IdFacts DEF Unwritten
<1>3. Balanced(r)'
  <2>1. \A i \in Ids : /\ Pending(r, i)' => Pending(r, i)
                       /\ Unacked(r, i)' <=> Unacked(r, i)
    BY <1>1, <1>2 DEF Pending, Unacked, Unwritten
  <2> QED  BY <1>1, <2>1 DEF SingleInv, Balanced, Pending, Unacked, Unwritten
<1>4. Places(r)'
  BY <1>1, <1>2 DEF SingleInv, Places, Unwritten
<1>5. Written(r)'
  <2>1. run[r].pc = "failing" => run[r].id[1] \in Msgs
    BY IdFacts DEF LossInv, HandSound
  <2> QED  BY <1>1, <2>1 DEF SingleInv, Written
<1> QED  BY <1>3, <1>4, <1>5 DEF SingleInv

----------------------------------------------------------------------------
(* The runner and the environment. *)

\* A step that writes no entry, sends nothing and hands out nothing unwritten; r may
\* drop what it has, but for an ack it still owes.
LEMMA RunnerKeeps ==
  ASSUME NEW r \in Runners, LossInv, LossInv', SingleInv(r),
         UNCHANGED sent, \A i \in Ids : unacked'[i] >= unacked[i],
         \A i \in Ids : Pending(r, i)' => Pending(r, i),
         \A i \in Ids : Unacked(r, i) =>
           Unacked(r, i)' \/ ~Pending(r, i)' \/ unacked'[i] = unacked[i] + 1,
         Places(r)', Written(r)'
  PROVE  SingleInv(r)'
<1> SUFFICES ASSUME NEW i \in Ids
             PROVE  /\ sent'[i] <= unacked'[i] + 1
                    /\ Pending(r, i)' /\ ~Unacked(r, i)' => sent'[i] <= unacked'[i]
  BY DEF SingleInv, Balanced, Pending, Unacked, Unwritten
<1>1. /\ sent[i] \in Nat /\ unacked[i] \in Nat /\ unacked'[i] \in Nat /\ sent'[i] = sent[i]
      /\ sent[i] <= unacked[i] + 1
      /\ Pending(r, i) /\ ~Unacked(r, i) => sent[i] <= unacked[i]
  BY QueueTypes DEF LossInv, TypeOK, SingleInv, Balanced
<1>2. unacked'[i] >= unacked[i]
  OBVIOUS
<1>3. Pending(r, i)' => Pending(r, i)
  BY DEF Pending, Unwritten
<1>4. Unacked(r, i) => Unacked(r, i)' \/ ~Pending(r, i)' \/ unacked'[i] = unacked[i] + 1
  BY DEF Pending, Unwritten, Unacked
<1> QED  BY <1>1, <1>2, <1>3, <1>4

\* A step of r alone that leaves the enqueue calls as they are.
LEMMA HandKeeps ==
  ASSUME NEW r \in Runners, LossInv, LossInv', SingleInv(r),
         UNCHANGED <<sent, enq>>, \A i \in Ids : unacked'[i] >= unacked[i],
         queue' \subseteq queue \cup {run[r].id},
         run[r].id \in queue' \ queue => run[r].pc = "failing",
         \A i \in run'[r].batch : i \in run[r].batch \/ i \in queue,
         run'[r].id \in {run[r].id, NoId} \cup run[r].batch,
         run'[r].id = run[r].id \/ run'[r].pc # "ack",
         run[r].pc = "ack" =>
           \/ run'[r].pc = "ack" /\ run'[r].id = run[r].id
           \/ run[r].id \notin queue' \cup run'[r].batch /\ run'[r].id # run[r].id
           \/ unacked'[run[r].id] = unacked[run[r].id] + 1,
         run'[r].pc \in {"await", "refused", "failing"} =>
           run'[r].id # run[r].id \/ run[r].pc \in {"await", "refused", "failing"},
         run'[r].batch \subseteq due', run'[r].id \notin run'[r].batch,
         run'[r].pc \in {"off", "idle", "batch"} => run'[r].id = NoId,
         Written(r)'
  PROVE  SingleInv(r)'
<1>1. \A i \in Ids : Unwritten(i)' <=> Unwritten(i)
  BY DEF Unwritten
<1>2. \A i \in Ids : Unwritten(i) =>
        i \notin queue /\ i \notin run[r].batch /\ run[r].id # i
  BY DEF SingleInv, Places, Unwritten
<1>3. \A i \in Ids : Pending(r, i)' => Pending(r, i)
  <2> SUFFICES ASSUME NEW i \in Ids, Pending(r, i)' PROVE Pending(r, i)
    BY DEF Pending, Unwritten
  <2>1. CASE Unwritten(i)'
    BY <1>1, <2>1 DEF Pending, Unwritten
  <2>2. CASE i \in queue'
    BY <2>2 DEF Pending
  <2>3. CASE i \in run'[r].batch
    BY <2>3 DEF Pending
  <2>4. CASE run'[r].pc \in {"await", "refused", "failing"} /\ run'[r].id = i
    BY <2>4, IdFacts DEF Pending
  <2> QED  BY <2>1, <2>2, <2>3, <2>4 DEF Pending
<1>4. \A i \in Ids : Unacked(r, i) =>
        Unacked(r, i)' \/ ~Pending(r, i)' \/ unacked'[i] = unacked[i] + 1
  BY <1>1, <1>2 DEF Pending, Unacked, Unwritten
<1>5. Places(r)'
  BY <1>1, <1>2, IdFacts DEF Places, Unwritten
<1> QED  BY <1>3, <1>4, <1>5, RunnerKeeps DEF Unwritten

\* A snapshot is of written entries that are due.
LEMMA ScanKeeps ==
  ASSUME NEW r \in Runners, LossInv, LossInv', SingleInv(r),
         StartRunner(r) \/ Scan(r) \/ Deliver(r)
  PROVE  SingleInv(r)'
<1> USE DEF LossInv, TypeOK
<1>0. \A i \in Ids : unacked[i] \in Nat
  BY QueueTypes
<1>1. CASE StartRunner(r)
  <2>1. /\ run[r].pc = "off" /\ run' = [run EXCEPT ![r].pc = "idle"]
        /\ UNCHANGED <<queue, due, enq, sent, unacked>>
    BY <1>1 DEF StartRunner, hist
  <2>2. /\ run'[r].pc = "idle" /\ run'[r].batch = run[r].batch /\ run'[r].id = run[r].id
    BY <2>1
  <2>3. run[r].id = NoId /\ run[r].batch \subseteq due /\ NoId \notin run[r].batch
    BY <2>1 DEF SingleInv, Places
  <2> QED  BY <1>0, <2>1, <2>2, <2>3, HandKeeps, SMTT(60) DEF Written
<1>2. CASE Scan(r)
  <2>1. /\ run[r].pc = "idle" /\ run[r].id = NoId
        /\ run'[r] = Task("batch", queue \cap due, NoId, 0)
        /\ UNCHANGED <<queue, due, enq, sent, unacked>>
    BY <1>2 DEF Scan, disk, hist, SingleInv, Places
  <2>2. /\ run'[r].pc = "batch" /\ run'[r].batch = queue \cap due /\ run'[r].id = NoId
        /\ NoId \notin queue \cap due /\ queue \cap due \subseteq due
    BY <2>1, IdFacts DEF Task
  <2>3. UNCHANGED <<queue, due, enq, sent, unacked>> /\ run[r].pc # "ack"
    BY <2>1
  <2>4. Written(r)'
    BY <2>2 DEF Written
  <2>5. \A i \in Ids : unacked'[i] >= unacked[i]
    BY <1>0, <2>3
  <2> HIDE DEF LossInv, TypeOK
  <2> QED  BY <2>2, <2>3, <2>4, <2>5, HandKeeps
<1>3. CASE Deliver(r)
  <2>1. PICK id \in run[r].batch : run'[r] = Task("await", run[r].batch \ {id}, id, 0)
    BY <1>3 DEF Deliver
  <2>2. run[r].pc = "batch" /\ UNCHANGED <<queue, due, enq, sent, unacked>>
    BY <1>3 DEF Deliver, disk, hist
  <2>3. run[r].batch \subseteq due /\ run[r].id \notin run[r].batch /\ id # run[r].id
    BY <2>1 DEF SingleInv, Places
  <2>4. /\ run'[r].pc = "await" /\ run'[r].batch = run[r].batch \ {id} /\ run'[r].id = id
    BY <2>1 DEF Task
  <2> QED  BY <1>0, <2>2, <2>3, <2>4, HandKeeps, SMTT(60) DEF Written
<1> QED  BY <1>1, <1>2, <1>3

\* The entry in hand was not sent since its last lost ack; the next one sent is it.
LEMMA SinkKeeps ==
  ASSUME NEW r \in Runners, LossInv, LossInv', SingleInv(r), SinkOk(r) \/ SinkErr(r)
  PROVE  SingleInv(r)'
<1> USE DEF LossInv, TypeOK
<1>0. \A i \in Ids : unacked[i] \in Nat
  BY QueueTypes
<1>1. CASE SinkErr(r)
  <2>1. /\ run[r].pc = "await" /\ run' = [run EXCEPT ![r].pc = "refused"]
        /\ UNCHANGED <<queue, due, enq, sent, unacked>>
    BY <1>1 DEF SinkErr, disk
  <2>2. /\ run'[r].pc = "refused" /\ run'[r].batch = run[r].batch /\ run'[r].id = run[r].id
    BY <2>1
  <2>3. run[r].batch \subseteq due /\ run[r].id \notin run[r].batch
    BY DEF SingleInv, Places
  <2> QED  BY <1>0, <2>1, <2>2, <2>3, HandKeeps, SMTT(60) DEF Written
<1>2. CASE SinkOk(r)
  <2> DEFINE id == run[r].id
  <2>1. /\ run[r].pc = "await" /\ run' = [run EXCEPT ![r].pc = "ack"] /\ id \in Ids
        /\ sent' = [sent EXCEPT ![id] = @ + 1] /\ UNCHANGED <<queue, due, enq, unacked>>
    BY <1>2 DEF SinkOk, disk, HandSound
  <2>2. sent[id] <= unacked[id] /\ sent[id] \in Nat /\ unacked[id] \in Nat
    BY <2>1 DEF SingleInv, Balanced, Pending, Unacked
  <2>3. ASSUME NEW i \in Ids
        PROVE  /\ sent'[i] <= unacked'[i] + 1
               /\ Pending(r, i)' /\ ~Unacked(r, i)' => sent'[i] <= unacked'[i]
    <3>1. CASE i = id
      BY <2>1, <2>2, <3>1 DEF Unacked
    <3>2. CASE i # id
      <4>1. /\ sent'[i] = sent[i] /\ unacked'[i] = unacked[i]
            /\ Pending(r, i)' => Pending(r, i) /\ ~Unacked(r, i)
        BY <2>1, <3>2 DEF Pending, Unacked, Unwritten
      <4> QED  BY <4>1 DEF SingleInv, Balanced
    <3> QED  BY <3>1, <3>2
  <2>4. Balanced(r)'
    BY <2>3 DEF Balanced, Pending, Unacked, Unwritten
  <2>5. Places(r)' /\ Written(r)'
    BY <2>1 DEF SingleInv, Places, Written, Unwritten
  <2> QED  BY <2>4, <2>5 DEF SingleInv
<1> QED  BY <1>1, <1>2

\* A runner that is done with its entry has removed it, lost the ack, or failed.
LEMMA ProceedKeeps ==
  ASSUME NEW r \in Runners, LossInv, LossInv', SingleInv(r),
         \/ Ack(r) \/ AckError(r) \/ GiveUp(r) \/ CommitRetry(r) \/ FailError(r)
  PROVE  SingleInv(r)'
<1> DEFINE id == run[r].id
<1>1. /\ run'[r] = Task(IF run[r].batch = {} THEN "idle" ELSE "batch",
                        run[r].batch, NoId, 0)
      /\ UNCHANGED <<sent, enq>>
      /\ run[r].pc \in {"ack", "refused", "failing"} /\ id \in Ids /\ id \notin run[r].batch
  BY DEF Ack, AckError, GiveUp, CommitRetry, FailError, Proceed, disk, hist,
         LossInv, TypeOK, HandSound, SingleInv, Places
<1>2. /\ queue' \subseteq queue \cup {id}
      /\ id \in queue' \ queue => run[r].pc = "failing"
      /\ \A i \in due : i \in due' \/ i = id
      /\ \A i \in Ids : unacked'[i] \in {unacked[i], unacked[i] + 1}
      /\ run[r].pc = "ack" => id \notin queue' \/ unacked'[id] = unacked[id] + 1
  <2> USE <1>1 DEF Ack, AckError, GiveUp, CommitRetry, FailError, disk, hist, LossInv, TypeOK
  <2>1. CASE Ack(r)  BY <2>1
  <2>2. CASE AckError(r)  BY <2>2
  <2>3. CASE GiveUp(r)  BY <2>3
  <2>4. CASE CommitRetry(r)  BY <2>4
  <2>5. CASE FailError(r)  BY <2>5
  <2> QED  BY <2>1, <2>2, <2>3, <2>4, <2>5
<1>3. \A i \in Ids : unacked[i] \in Nat /\ unacked'[i] >= unacked[i]
  BY <1>2, QueueTypes DEF LossInv
<1>4. /\ run'[r].pc \in {"idle", "batch"} /\ run'[r].batch = run[r].batch
      /\ run'[r].id = NoId /\ NoId # id /\ NoId \notin run[r].batch
  BY <1>1, IdFacts, QueueTypes DEF Task, LossInv
<1>5. run[r].batch \subseteq due'
  BY <1>1, <1>2 DEF SingleInv, Places
<1>6. Written(r)'
  BY <1>4 DEF Written
<1> QED  BY <1>1, <1>2, <1>3, <1>4, <1>5, <1>6, HandKeeps

\* The entry is in the queue when its count is read back.
LEMMA BeginRetryKeeps ==
  ASSUME NEW r \in Runners, LossInv, LossInv', SingleInv(r), BeginRetry(r)
  PROVE  SingleInv(r)'
<1>1. /\ run[r].pc = "refused" /\ run[r].id \in queue
      /\ run'[r] = Task("failing", run[r].batch, run[r].id, retry[run[r].id] + 1)
      /\ UNCHANGED <<queue, due, enq, sent, unacked>>
  BY DEF BeginRetry, hist, LossInv, TypeOK
<1>2. \A i \in Ids : unacked[i] \in Nat
  BY QueueTypes DEF LossInv
<1> QED  BY <1>1, <1>2, HandKeeps DEF Task, SingleInv, Places, Written

\* A runner stops with empty hands; an elapsed backoff only adds due entries.
LEMMA QuietKeeps ==
  ASSUME NEW r \in Runners, LossInv, LossInv', SingleInv(r),
         StopRunner(r) \/ (\E id \in Ids : Elapse(id)) \/ UNCHANGED vars
  PROVE  SingleInv(r)'
<1> USE DEF LossInv, TypeOK
<1>0. \A i \in Ids : unacked[i] \in Nat
  BY QueueTypes
<1>1. CASE StopRunner(r)
  <2>1. /\ run[r].pc = "idle" /\ run'[r] = Off
        /\ UNCHANGED <<queue, due, enq, sent, unacked>>
    BY <1>1 DEF StopRunner, disk, hist
  <2>2. run'[r].pc = "off" /\ run'[r].batch = {} /\ run'[r].id = NoId
    BY <2>1 DEF Off, Task
  <2> QED  BY <1>0, <2>1, <2>2, HandKeeps, SMTT(60) DEF Written
<1>2. CASE (\E id \in Ids : Elapse(id)) \/ UNCHANGED vars
  <2>1. /\ due \subseteq due' /\ UNCHANGED <<queue, run, enq, sent, unacked>>
    BY <1>2 DEF Elapse, vars, disk, hist
  <2> QED  BY <1>0, <2>1, HandKeeps DEF SingleInv, Places, Written
<1> QED  BY <1>1, <1>2

\* An ack in hand at a crash is lost.
LEMMA CrashKeeps ==
  ASSUME NEW r \in Runners, Runners = {r}, LossInv, LossInv', SingleInv(r), Crash
  PROVE  SingleInv(r)'
<1>1. /\ run'[r] = Off /\ UNCHANGED <<queue, due, sent>>
      /\ \A m \in Msgs : enq'[m].k = enq[m].k
      /\ \A i \in Ids : unacked'[i] = unacked[i] + (IF Unacked(r, i) THEN 1 ELSE 0)
  BY DEF Crash, disk, Unacked, LossInv, TypeOK
<1>2. \A i \in Ids : unacked[i] \in Nat /\ unacked'[i] >= unacked[i]
  BY <1>1, QueueTypes DEF LossInv
<1>3. \A i \in Ids : Unwritten(i)' <=> Unwritten(i)
  BY <1>1, IdFacts DEF Unwritten
<1>4. \A i \in Ids : Pending(r, i)' => Pending(r, i)
  BY <1>1, <1>3, IdFacts DEF Pending, Unwritten, Off, Task
<1>5. Places(r)' /\ Written(r)'
  BY <1>1, <1>3, IdFacts DEF Places, Written, Off, Task, SingleInv, Unwritten
<1> QED  BY <1>1, <1>2, <1>4, <1>5, RunnerKeeps DEF Unwritten

\* With one runner the invariant holds through crashes, restarts and file errors.
THEOREM SingleInvInvariant ==
  ASSUME NEW r, Runners = {r}
  PROVE  Spec => []SingleInv(r)
<1>1. Init => SingleInv(r)
  BY SingleInit
<1>2. LossInv /\ LossInv' /\ SingleInv(r) /\ [Next]_vars => SingleInv(r)'
  <2> SUFFICES ASSUME LossInv, LossInv', SingleInv(r), [Next]_vars
               PROVE  SingleInv(r)'
    OBVIOUS
  <2> USE DEF RunnerStep
  <2>1. ASSUME NEW m \in Msgs,
               Enqueue(m) \/ WriteTmp(m) \/ RenameTmp(m) \/ WriteError(m) \/ UndoChunk(m)
        PROVE  SingleInv(r)'
    BY <2>1, RenameKeeps, EnqKeeps
  <2>2. ASSUME StartRunner(r) \/ RunnerStep(r) \/ StopRunner(r)
        PROVE  SingleInv(r)'
    BY <2>2, ScanKeeps, SinkKeeps, ProceedKeeps, BeginRetryKeeps, QuietKeeps
  <2>3. CASE (\E id \in Ids : Elapse(id)) \/ UNCHANGED vars
    BY <2>3, QuietKeeps
  <2>4. CASE Crash
    BY <2>4, CrashKeeps
  <2> QED  BY <2>1, <2>2, <2>3, <2>4 DEF Next
<1> QED  BY <1>1, <1>2, LossInvInvariant, PTL DEF Spec

\* With one runner a recipient sees a chunk again only for an ack that a crash or a
\* file error lost, once for each.
THEOREM OnlyLostAcksRepeat ==
  ASSUME NEW r, Runners = {r}
  PROVE  Spec => []DuplicatesExcused
<1>1. LossInv /\ SingleInv(r) => DuplicatesExcused
  BY QueueTypes DEF LossInv, SingleInv, Balanced, DuplicatesExcused
<1>2. Spec => []SingleInv(r)
  BY SingleInvInvariant
<1> QED  BY <1>1, <1>2, LossInvInvariant, PTL

\* With one runner no delivery starts before its backoff has elapsed: nothing puts an
\* entry of the snapshot off while the runner works through it.
THEOREM OnlyDueDelivered ==
  ASSUME NEW s, Runners = {s}
  PROVE  Spec => BackoffRespected
<1> DEFINE Due == \A r \in Runners : run[r].pc = "batch" /\ run'[r].pc = "await"
                                       => run'[r].id \in due
<1>1. LossInv /\ SingleInv(s) /\ [Next]_vars => [Due]_vars
  <2> SUFFICES ASSUME LossInv, SingleInv(s), Next, run[s].pc = "batch", run'[s].pc = "await"
               PROVE  run'[s].id \in due
    OBVIOUS
  <2>1. Deliver(s)
    <3> USE DEF Proceed, Task, Off, disk, hist, LossInv, TypeOK
    <3>1. ASSUME NEW m \in Msgs,
               Enqueue(m) \/ WriteTmp(m) \/ RenameTmp(m) \/ WriteError(m) \/ UndoChunk(m)
          PROVE  FALSE
      BY <3>1 DEF Enqueue, WriteTmp, RenameTmp, WriteError, UndoChunk
    <3>2. ASSUME StartRunner(s) \/ RunnerStep(s) \/ StopRunner(s)
          PROVE  Deliver(s)
      BY <3>2 DEF StartRunner, RunnerStep, StopRunner, Scan, SinkOk, SinkErr, Ack, AckError,
                  GiveUp, BeginRetry, CommitRetry, FailError
    <3>3. ~Crash /\ \A id \in Ids : ~Elapse(id)
      BY DEF Crash, Elapse
    <3> QED  BY <3>1, <3>2, <3>3 DEF Next
  <2>2. run'[s].id \in run[s].batch
    BY <2>1 DEF Deliver, Task, LossInv, TypeOK
  <2> QED  BY <2>2 DEF SingleInv, Places
<1>2. Spec => []SingleInv(s)
  BY SingleInvInvariant
<1> QED  BY <1>1, <1>2, LossInvInvariant, PTL DEF Spec, BackoffRespected

----------------------------------------------------------------------------
(* The queue implements Outbox. *)

\* A step that accepts no message, sends and refuses nothing and leaves what is owed in
\* the queue is no step of the promise.
LEMMA PromiseStutters ==
  ASSUME UNCHANGED <<sent, refused>>, queue \subseteq Ids, queue' \subseteq Ids,
         \A m \in Msgs : enq'[m].pc = "accepted" <=> enq[m].pc = "accepted",
         \A i \in Ids : enq[i[1]].pc = "accepted" => (i \in queue' <=> i \in queue)
  PROVE  UNCHANGED Promise!vars
<1>1. Accepted' = Accepted
  BY DEF Accepted
<1>2. Owed' = Owed
  BY IdFacts DEF Owed
<1> QED  BY <1>1, <1>2 DEF Promise!vars

\* Accounted chunks of the message that its last rename accepts are owed or settled.
LEMMA RenamePromise ==
  ASSUME RetryInv, RetryInv', NEW m \in Msgs, RenameTmp(m)
  PROVE  [Promise!Next]_(Promise!vars)
<1>1. /\ enq[m].pc = "renaming" /\ enq'[m].pc \in {"accepted", "writing"}
      /\ Chunk(m)[1] = m
      /\ queue' = queue \cup {Chunk(m)} /\ UNCHANGED <<sent, refused>>
      /\ queue \subseteq Ids /\ queue' \subseteq Ids
  BY DEF RenameTmp, hist, RetryInv, LossInv, TypeOK, Call, Chunk
<1>2. \A n \in Msgs \ {m} : enq'[n] = enq[n]
  BY DEF RenameTmp, RetryInv, LossInv, TypeOK
<1>3. CASE enq'[m].pc = "writing"
  <2>1. \A i \in Ids : enq[i[1]].pc = "accepted" => (i \in queue' <=> i \in queue)
    BY <1>1
  <2>2. \A n \in Msgs : enq'[n].pc = "accepted" <=> enq[n].pc = "accepted"
    BY <1>1, <1>2, <1>3
  <2> QED  BY <1>1, <2>1, <2>2, PromiseStutters
<1>4. CASE enq'[m].pc = "accepted"
  <2> DEFINE S == {i \in queue' : i[1] = m}
  <2>1. m \notin Accepted /\ Accepted' = Accepted \cup {m}
    BY <1>1, <1>2, <1>4 DEF Accepted
  <2>2. S \in SUBSET ({m} \X (1..ChunksOf[m]))
    <3>1. \A i \in Ids : i[1] = m => i \in {m} \X (1..ChunksOf[m])
      BY DEF Ids
    <3> QED  BY <1>1, <3>1
  <2>3. Owed' = Owed \cup S
    <3>1. \A i \in queue' : i[1] \in Msgs /\ (i \in queue \/ i[1] = m)
      BY <1>1, IdFacts
    <3>2. \A i \in queue : i[1] = m => enq[i[1]].pc # "accepted"
      BY <1>1
    <3> QED  BY <1>1, <1>2, <1>4, <3>1, <3>2 DEF Owed
  <2>4. ASSUME NEW c \in 1..ChunksOf[m]
        PROVE  <<m, c>> \in S \/ Promise!Settled(<<m, c>>)
    <3>1. Accounted(<<m, c>>)'
      BY <1>4 DEF RetryInv, LossInv, WrittenAccounted
    <3>2. <<m, c>> \in failed' => refused'[<<m, c>>] >= MaxRetries
      BY DEF RetryInv, FailedJustified
    <3> QED  BY <1>1, <3>1, <3>2 DEF Accounted, Promise!Settled
  <2>5. Promise!Accept(m)
    BY <1>1, <2>1, <2>2, <2>3, <2>4 DEF Promise!Accept
  <2> QED  BY <2>5 DEF Promise!Next
<1> QED  BY <1>1, <1>3, <1>4

\* The other steps of an enqueue call touch chunks of a message that is not accepted.
LEMMA EnqPromise ==
  ASSUME RetryInv, RetryInv', NEW m \in Msgs,
         Enqueue(m) \/ WriteTmp(m) \/ WriteError(m) \/ UndoChunk(m)
  PROVE  UNCHANGED Promise!vars
<1>1. /\ enq[m].pc # "accepted" /\ enq'[m].pc # "accepted"
      /\ \A n \in Msgs \ {m} : enq'[n] = enq[n]
      /\ \A i \in Ids : i[1] # m => (i \in queue' <=> i \in queue)
      /\ UNCHANGED <<sent, refused>> /\ queue \subseteq Ids /\ queue' \subseteq Ids
  BY DEF Enqueue, WriteTmp, WriteError, UndoChunk, disk, hist, Call, RetryInv, LossInv, TypeOK
<1> QED  BY <1>1, PromiseStutters

\* A runner sends, is refused, or takes from the queue what it has sent, or what was
\* refused MaxRetries times; what it writes back was there.
LEMMA RunnerPromise ==
  ASSUME NEW r \in Runners, RetryInv, RetryInv', SingleInv(r),
         StartRunner(r) \/ RunnerStep(r) \/ StopRunner(r)
  PROVE  [Promise!Next]_(Promise!vars)
<1> DEFINE id == run[r].id
<1>0. queue \subseteq Ids /\ queue' \subseteq Ids
  BY DEF RetryInv, LossInv, TypeOK
<1>1. CASE SinkOk(r)
  <2>1. id \in Ids /\ Promise!Send(id)
    BY <1>1 DEF SinkOk, disk, RetryInv, LossInv, HandSound, Promise!Send, Accepted, Owed
  <2> QED  BY <2>1 DEF Promise!Next, Promise!Ids, Ids
<1>2. CASE SinkErr(r)
  <2>1. id \in Ids /\ Promise!Refuse(id)
    BY <1>2 DEF SinkErr, disk, RetryInv, LossInv, HandSound, Promise!Refuse, Accepted, Owed
  <2> QED  BY <2>1 DEF Promise!Next, Promise!Ids, Ids
<1>3. CASE Ack(r) \/ GiveUp(r)
  <2>1. /\ id \in Ids /\ queue' = queue \ {id} /\ UNCHANGED <<enq, sent, refused>>
        /\ Promise!Settled(id)
    <3>1. CASE Ack(r)
      BY <3>1 DEF Ack, hist, RetryInv, LossInv, HandSound, Promise!Settled
    <3>2. CASE GiveUp(r)
      BY <3>2 DEF GiveUp, hist, RetryInv, LossInv, HandSound, FailedJustified, Promise!Settled
    <3> QED  BY <1>3, <3>1, <3>2
  <2>2. CASE id \in Owed
    <3>1. Promise!Settle(id)
      BY <2>1, <2>2 DEF Promise!Settle, Accepted, Owed
    <3> QED  BY <2>1, <3>1 DEF Promise!Next, Promise!Ids, Ids
  <2>3. CASE id \notin Owed
    <3>1. UNCHANGED <<Accepted, Owed, sent, refused>>
      BY <2>1, <2>3 DEF Accepted, Owed
    <3> QED  BY <3>1 DEF Promise!vars
  <2> QED  BY <2>2, <2>3
<1>4. CASE CommitRetry(r)
  <2>1. queue' = queue \cup {id} /\ UNCHANGED <<enq, sent, refused>>
    BY <1>4 DEF CommitRetry, hist
  <2>2. id \in queue \/ enq[id[1]].pc # "accepted"
    BY <1>4 DEF CommitRetry, SingleInv, Written
  <2> QED  BY <1>0, <2>1, <2>2, PromiseStutters
<1>5. CASE \/ StartRunner(r) \/ Scan(r) \/ Deliver(r) \/ AckError(r)
           \/ BeginRetry(r) \/ FailError(r) \/ StopRunner(r)
  <2>1. UNCHANGED <<queue, enq, sent, refused>>
    BY <1>5 DEF StartRunner, Scan, Deliver, AckError, BeginRetry, FailError, StopRunner,
                disk, hist
  <2> QED  BY <1>0, <2>1, PromiseStutters
<1> QED  BY <1>1, <1>2, <1>3, <1>4, <1>5 DEF RunnerStep

\* With one runner the queue implements Outbox, but for Outbox's liveness: an accepted
\* message is owed chunk by chunk, a chunk stops being owed only once it was sent or was
\* refused MaxRetries times, and no retry, undo, crash or restart makes it owed again.
THEOREM QueueKeepsPromise ==
  ASSUME NEW r, Runners = {r}
  PROVE  Spec => Promise!Init /\ [][Promise!Next]_(Promise!vars)
<1>1. Init => Promise!Init
  BY DEF Init, Call, Promise!Init, Accepted, Owed, Promise!Ids, Ids
<1>2. RetryInv /\ RetryInv' /\ SingleInv(r) /\ [Next]_vars => [Promise!Next]_(Promise!vars)
  <2> SUFFICES ASSUME RetryInv, RetryInv', SingleInv(r), [Next]_vars
               PROVE  [Promise!Next]_(Promise!vars)
    OBVIOUS
  <2>1. ASSUME NEW m \in Msgs,
               Enqueue(m) \/ WriteTmp(m) \/ RenameTmp(m) \/ WriteError(m) \/ UndoChunk(m)
        PROVE  [Promise!Next]_(Promise!vars)
    BY <2>1, RenamePromise, EnqPromise
  <2>2. ASSUME StartRunner(r) \/ RunnerStep(r) \/ StopRunner(r)
        PROVE  [Promise!Next]_(Promise!vars)
    BY <2>2, RunnerPromise
  <2>3. CASE (\E id \in Ids : Elapse(id)) \/ Crash \/ UNCHANGED vars
    <3>1. /\ UNCHANGED <<queue, sent, refused>> /\ queue \subseteq Ids
          /\ \A m \in Msgs : enq'[m].pc = "accepted" <=> enq[m].pc = "accepted"
      BY <2>3 DEF Elapse, Crash, vars, disk, hist, RetryInv, LossInv, TypeOK
    <3> QED  BY <3>1, PromiseStutters
  <2> QED  BY <2>1, <2>2, <2>3 DEF Next
<1>3. Spec => []SingleInv(r)
  BY SingleInvInvariant
<1> QED  BY <1>1, <1>2, <1>3, RetryInvInvariant, PTL DEF Spec

-----------------------------------------------------------------------------
(* Heartbeat: the file and its cache, and the lane.                        *)

\* The cached mtime is never ahead of the writes of the file; when it is the file's, the
\* cached content is the file's too, and it is once the heartbeat has looked.
CacheSound ==
  /\ saves \in Nat /\ file.mtime \in 0..saves /\ cache.mtime \in 0..saves
  /\ file.mtime = 0 => file = NoFile
  /\ cache.mtime = file.mtime /\ file.mtime # 0 => cache.content = Current
  /\ seen /\ file.mtime # 0 => cache.mtime = file.mtime

\* The lane counts the turn of the user and the automatic run.
Marks == (IF pc = "turn" THEN 1 ELSE 0) + (IF user \in {"turn", "waiting"} THEN 1 ELSE 0)
HeartbeatInv == CacheSound /\ lane = Marks

LEMMA LookFacts ==
  ASSUME CacheSound, Look, UNCHANGED <<file, saves>>
  PROVE  CacheSound'
<1>1. CASE file.mtime = 0 \/ file.mtime = cache.mtime
  BY <1>1 DEF CacheSound, Look, Refresh, Current, NoFile
<1>2. CASE file.mtime # 0 /\ file.mtime # cache.mtime
  <2>1. cache' = [mtime |-> file.mtime, content |-> Current] /\ Current' = Current
    BY <1>2 DEF Look, Refresh, Current
  <2> QED  BY <2>1 DEF CacheSound, NoFile
<1> QED  BY <1>1, <1>2

LEMMA CacheStep ==
  ASSUME CacheSound, [HeartbeatNext]_hbvars
  PROVE  CacheSound'
<1>1. CASE UNCHANGED <<file, saves, cache, seen>>
  BY <1>1 DEF CacheSound, Current, NoFile
<1>2. CASE Look /\ UNCHANGED <<file, saves>>
  BY <1>2, LookFacts
<1>3. ASSUME Save
      PROVE  CacheSound'
  <2>1. PICK s \in Settings, b \in BOOLEAN : file' = [mtime |-> saves + 1, body |-> b, set |-> s]
    BY <1>3 DEF Save
  <2>2. saves' = saves + 1 /\ cache' = cache /\ ~seen'
    BY <1>3 DEF Save
  <2> QED  BY <2>1, <2>2 DEF CacheSound
<1>4. CASE Remove
  BY <1>4 DEF Remove, CacheSound, NoFile
<1>5. \/ UNCHANGED <<file, saves, cache, seen>>
      \/ Look /\ UNCHANGED <<file, saves>>
      \/ Save \/ Remove
  BY DEF HeartbeatNext, TaskSteps, hbvars, PollSkips, PollRuns, Mark, RunEnds, Trigger, TriggerEnds,
         Status, Stop, Begin, Ask, End, Close, HourPasses, clock, sess
<1> QED  BY <1>1, <1>2, <1>3, <1>4, <1>5

LEMMA LaneStep ==
  ASSUME lane = Marks, [HeartbeatNext]_hbvars
  PROVE  lane' = Marks'
<1> USE DEF Marks, Done
<1>1. CASE Mark \/ RunEnds
  BY <1>1 DEF Mark, RunEnds
<1>2. CASE Begin \/ End
  BY <1>2 DEF Begin, End
<1>3. CASE Trigger \/ TriggerEnds \/ PollRuns \/ Stop
  BY <1>3 DEF Trigger, TriggerEnds, PollRuns, Stop, sess
<1>4. CASE Ask \/ Close
  BY <1>4 DEF Ask, Close
<1>5. CASE PollSkips \/ Status \/ Save \/ Remove \/ HourPasses \/ UNCHANGED hbvars
  BY <1>5 DEF PollSkips, Status, Save, Remove, HourPasses, hbvars, sess
<1> QED  BY <1>1, <1>2, <1>3, <1>4, <1>5 DEF HeartbeatNext, TaskSteps

\* Heartbeat: the cache and the lane, in whatever order the user saves, asks and takes
\* turns.
THEOREM HeartbeatInvInvariant == HeartbeatSpec => []HeartbeatInv
<1>1. HeartbeatInit => HeartbeatInv
  BY DEF HeartbeatInit, HeartbeatInv, CacheSound, Marks
<1>2. HeartbeatInv /\ [HeartbeatNext]_hbvars => HeartbeatInv'
  BY CacheStep, LaneStep DEF HeartbeatInv
<1> QED  BY <1>1, <1>2, PTL DEF HeartbeatSpec

\* Heartbeat: once it has looked at an edited file, a run carries the instructions the
\* file holds, though an automatic one takes them from the cache; a missing file, whose
\* cached instructions a /trigger still runs, is excepted.
THEOREM RunsAreFresh == HeartbeatSpec => FreshRuns
<1>1. HeartbeatInv /\ [HeartbeatNext]_hbvars =>
        [ pc' \in {"turn", "trigger"} /\ pc' # pc /\ seen /\ file # NoFile
            => doing' = Current ]_hbvars
  <2> SUFFICES ASSUME HeartbeatInv, HeartbeatNext, pc' \in {"turn", "trigger"}, pc' # pc, seen,
                      file # NoFile
               PROVE  doing' = Current
    BY DEF hbvars
  <2>1. Mark \/ Trigger
    BY DEF HeartbeatNext, TaskSteps, PollSkips, PollRuns, RunEnds, TriggerEnds, Status, Stop,
           Begin, Ask, End, Close, Save, Remove, HourPasses
  <2>2. cache.content = Current
    BY DEF HeartbeatInv, CacheSound
  <2>3. doing' = Prompt
    BY <2>1 DEF Mark, Trigger
  <2> QED  BY <2>2, <2>3 DEF Prompt
<1> QED  BY <1>1, HeartbeatInvInvariant, PTL DEF HeartbeatSpec, FreshRuns

\* Heartbeat: the look at the lane that decides for a run finds no turn of the user under
\* way; one that begins after the look may run beside it.
THEOREM UserComesFirst == HeartbeatSpec => YieldsToUser
<1>1. HeartbeatInv /\ [HeartbeatNext]_hbvars =>
        [ pc = "idle" /\ pc' = "free" => user \notin {"turn", "waiting"} ]_hbvars
  <2> SUFFICES ASSUME HeartbeatInv, HeartbeatNext, pc = "idle", pc' = "free"
               PROVE  user \notin {"turn", "waiting"}
    BY DEF hbvars
  <2>1. PollRuns
    BY DEF HeartbeatNext, TaskSteps, PollSkips, Mark, RunEnds, Trigger, TriggerEnds, Status, Stop,
           Begin, Ask, End, Close, Save, Remove, HourPasses
  <2> QED  BY <2>1 DEF PollRuns, HeartbeatInv, Marks
<1> QED  BY <1>1, HeartbeatInvInvariant, PTL DEF HeartbeatSpec, YieldsToUser
=============================================================================
