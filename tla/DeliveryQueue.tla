--------------------------- MODULE DeliveryQueue ---------------------------
(***************************************************************************)
(* The disk-persisted outbound queue of routing/delivery.rs: producers     *)
(* call DeliveryHandle::enqueue, runner tasks scan the queue directory and *)
(* hand each due entry to a sink, then ack it or record the failure.       *)
(*                                                                         *)
(* A queue entry is one chunk of one message.  File operations that can    *)
(* interleave with another task are separate steps: the tmp file and its   *)
(* rename, the removal of each chunk of an aborted message, the await of   *)
(* the sink and the ack or failure record that follows it.  A crash ends   *)
(* every task and leaves the directory as it is.                           *)
(***************************************************************************)
EXTENDS Integers, FiniteSets

CONSTANTS
  Msgs,          \* messages, each enqueued at most once
  ChunksOf,      \* the number of chunks chunk_message cuts each message in
  Runners,       \* runner tasks that may be alive at the same time
  MaxRetries,    \* delivery_max_retries
  MaxFaults,     \* bound: file operations that return an error
  MaxRestarts,   \* bound: crashes and stops of a runner
  NoId           \* no entry is in hand

Ids == UNION {{m} \X (1..ChunksOf[m]) : m \in Msgs}

ASSUME QueueAssumption ==
  /\ ChunksOf \in [Msgs -> Nat \ {0}]
  /\ IsFiniteSet(Runners)
  /\ MaxRetries \in Nat \ {0}
  /\ MaxFaults \in Nat
  /\ MaxRestarts \in Nat
  /\ NoId \notin Ids

VARIABLES
  queue,      \* ids with a file <id>.json in the queue directory
  retry,      \* retry_count in that file
  due,        \* ids whose next_retry_at is absent or in the past
  failed,     \* ids with a file in failed/
  tmp,        \* ids with a .tmp file
  enq,        \* progress of the enqueue call of each message
  run,        \* progress of each runner task
  sent,       \* history: successful deliveries of each chunk
  refused,    \* history: failed deliveries of each chunk
  unacked,    \* history: successful deliveries whose ack was lost
  faults,     \* history: file operations that returned an error
  restarts    \* history: crashes and stops

disk == <<queue, retry, due, failed, tmp>>
hist == <<sent, refused, unacked>>
vars == <<disk, enq, run, hist, faults, restarts>>

EnqPcs == {"idle", "writing", "renaming", "undo", "accepted", "aborted", "lost"}
RunPcs == {"off", "idle", "batch", "await", "ack", "refused", "failing"}

TypeOK ==
  /\ queue \in SUBSET Ids /\ due \in SUBSET Ids
  /\ failed \in SUBSET Ids /\ tmp \in SUBSET Ids
  /\ retry \in [Ids -> Nat]
  /\ enq \in [Msgs -> [pc : EnqPcs, k : Nat, u : Nat]]
  /\ run \in [Runners -> [pc : RunPcs, batch : SUBSET Ids,
                          id : Ids \cup {NoId}, n : Nat]]
  /\ sent \in [Ids -> Nat] /\ refused \in [Ids -> Nat] /\ unacked \in [Ids -> Nat]
  /\ faults \in Nat /\ restarts \in Nat

\* An enqueue call that has renamed k chunks into place and removed u of them;
\* a runner with the rest of its snapshot, the entry in hand and the retry
\* count it is about to record.
Call(pc, k, u) == [pc |-> pc, k |-> k, u |-> u]
Task(pc, batch, id, n) == [pc |-> pc, batch |-> batch, id |-> id, n |-> n]

Off == Task("off", {}, NoId, 0)

Init ==
  /\ queue = {} /\ due = {} /\ failed = {} /\ tmp = {}
  /\ retry = [i \in Ids |-> 0]
  /\ enq = [m \in Msgs |-> Call("idle", 0, 0)]
  /\ run = [r \in Runners |-> Off]
  /\ sent = [i \in Ids |-> 0] /\ refused = [i \in Ids |-> 0]
  /\ unacked = [i \in Ids |-> 0]
  /\ faults = 0 /\ restarts = 0

\* A file operation returns an error.
Fault == faults < MaxFaults /\ faults' = faults + 1

----------------------------------------------------------------------------
(* DeliveryHandle::enqueue, one call per message. *)

Chunk(m) == <<m, enq[m].k + 1>>     \* the chunk being written

Enqueue(m) ==
  /\ enq[m].pc = "idle"
  /\ enq' = [enq EXCEPT ![m].pc = "writing"]
  /\ UNCHANGED <<disk, run, hist, faults, restarts>>

WriteTmp(m) ==
  /\ enq[m].pc = "writing"
  /\ tmp' = tmp \cup {Chunk(m)}
  /\ enq' = [enq EXCEPT ![m].pc = "renaming"]
  /\ UNCHANGED <<queue, retry, due, failed, run, hist, faults, restarts>>

RenameTmp(m) ==
  /\ enq[m].pc = "renaming"
  /\ Chunk(m) \in tmp
  /\ tmp' = tmp \ {Chunk(m)}
  /\ queue' = queue \cup {Chunk(m)}
  /\ due' = due \cup {Chunk(m)}
  /\ retry' = [retry EXCEPT ![Chunk(m)] = 0]
  /\ enq' = [enq EXCEPT ![m] =
                Call(IF @.k + 1 = ChunksOf[m] THEN "accepted" ELSE "writing",
                     @.k + 1, @.u)]
  /\ UNCHANGED <<failed, run, hist, faults, restarts>>

\* write_entry fails: the tmp file cannot be written, or the rename fails
\* because of the file system or because a starting runner removed the file.
WriteError(m) ==
  /\ \/ enq[m].pc \in {"writing", "renaming"} /\ Fault
     \/ enq[m].pc = "renaming" /\ Chunk(m) \notin tmp /\ UNCHANGED faults
  /\ enq' = [enq EXCEPT ![m].pc = IF enq[m].k = 0 THEN "aborted" ELSE "undo"]
  /\ UNCHANGED <<disk, run, hist, restarts>>

\* The chunks written before the error are acked; an error of that is dropped.
UndoChunk(m) ==
  LET id == <<m, enq[m].u + 1>> IN
  /\ enq[m].pc = "undo"
  /\ \/ queue' = queue \ {id} /\ UNCHANGED faults
     \/ id \in queue /\ Fault /\ UNCHANGED queue
  /\ enq' = [enq EXCEPT ![m] =
                Call(IF @.u + 1 = @.k THEN "aborted" ELSE "undo", @.k, @.u + 1)]
  /\ UNCHANGED <<retry, due, failed, tmp, run, hist, restarts>>

----------------------------------------------------------------------------
(* The runner task and process_pending. *)

\* spawn_runner: cleanup_tmp, then the task.
StartRunner(r) ==
  /\ run[r].pc = "off"
  /\ tmp' = {}
  /\ run' = [run EXCEPT ![r].pc = "idle"]
  /\ UNCHANGED <<queue, retry, due, failed, enq, hist, faults, restarts>>

\* Mutant: the backoff is not looked at.
ScanAll(r) ==
  /\ run[r].pc = "idle" /\ queue # {}
  /\ run' = [run EXCEPT ![r] = Task("batch", queue, NoId, 0)]
  /\ UNCHANGED <<disk, enq, hist, faults, restarts>>

\* Mutant: an entry with a retry time is never taken.
ScanUntried(r) ==
  LET fresh == {i \in queue \cap due : retry[i] = 0} IN
  /\ run[r].pc = "idle" /\ fresh # {}
  /\ run' = [run EXCEPT ![r] = Task("batch", fresh, NoId, 0)]
  /\ UNCHANGED <<disk, enq, hist, faults, restarts>>

\* A tick or a Wake: load_pending, and the entries that are due by now.
Scan(r) ==
  /\ run[r].pc = "idle"
  /\ queue \cap due # {}
  /\ run' = [run EXCEPT ![r] = Task("batch", queue \cap due, NoId, 0)]
  /\ UNCHANGED <<disk, enq, hist, faults, restarts>>

\* Mutant: the entry is acked before it is handed to the sink.
AckThenDeliver(r) ==
  /\ run[r].pc = "batch"
  /\ \E id \in run[r].batch :
       /\ run' = [run EXCEPT ![r] = Task("await", @.batch \ {id}, id, 0)]
       /\ queue' = queue \ {id}
  /\ UNCHANGED <<retry, due, failed, tmp, enq, hist, faults, restarts>>

\* The next entry of the snapshot, in the directory's order, whatever has
\* become of its file.
Deliver(r) ==
  /\ run[r].pc = "batch"
  /\ \E id \in run[r].batch :
       run' = [run EXCEPT ![r] = Task("await", @.batch \ {id}, id, 0)]
  /\ UNCHANGED <<disk, enq, hist, faults, restarts>>

SinkOk(r) ==
  /\ run[r].pc = "await"
  /\ run' = [run EXCEPT ![r].pc = "ack"]
  /\ sent' = [sent EXCEPT ![run[r].id] = @ + 1]
  /\ UNCHANGED <<disk, enq, refused, unacked, faults, restarts>>

SinkErr(r) ==
  /\ run[r].pc = "await"
  /\ run' = [run EXCEPT ![r].pc = "refused"]
  /\ refused' = [refused EXCEPT ![run[r].id] = @ + 1]
  /\ UNCHANGED <<disk, enq, sent, unacked, faults, restarts>>

\* The runner is done with the entry in hand and takes the next one.
Proceed(r) ==
  run' = [run EXCEPT ![r] =
            Task(IF @.batch = {} THEN "idle" ELSE "batch", @.batch, NoId, 0)]

\* Mutant: a delivered entry stays in the queue.
AckNothing(r) ==
  /\ run[r].pc = "ack" /\ Proceed(r)
  /\ UNCHANGED <<disk, enq, hist, faults, restarts>>

Ack(r) ==
  /\ run[r].pc = "ack"
  /\ queue' = queue \ {run[r].id}
  /\ Proceed(r)
  /\ UNCHANGED <<retry, due, failed, tmp, enq, hist, faults, restarts>>

\* The file cannot be removed: logged, and delivered again by a later scan.
AckError(r) ==
  /\ run[r].pc = "ack"
  /\ run[r].id \in queue
  /\ Fault
  /\ unacked' = [unacked EXCEPT ![run[r].id] = @ + 1]
  /\ Proceed(r)
  /\ UNCHANGED <<disk, enq, sent, refused, restarts>>

\* Mutant: off by one in the number of retries.
GiveUpEarly(r) ==
  /\ run[r].pc = "refused" /\ run[r].id \in queue
  /\ retry[run[r].id] + 2 >= MaxRetries
  /\ queue' = queue \ {run[r].id} /\ failed' = failed \cup {run[r].id} /\ Proceed(r)
  /\ UNCHANGED <<retry, due, tmp, enq, hist, faults, restarts>>

\* fail: the entry is read back; the last attempt moves it to failed/.
GiveUp(r) ==
  LET id == run[r].id IN
  /\ run[r].pc = "refused"
  /\ id \in queue
  /\ retry[id] + 1 >= MaxRetries
  /\ queue' = queue \ {id}
  /\ failed' = failed \cup {id}
  /\ Proceed(r)
  /\ UNCHANGED <<retry, due, tmp, enq, hist, faults, restarts>>

\* Any other attempt rewrites the entry: tmp file now, rename in the next step.
BeginRetry(r) ==
  LET id == run[r].id IN
  /\ run[r].pc = "refused"
  /\ id \in queue
  /\ retry[id] + 1 < MaxRetries
  /\ tmp' = tmp \cup {id}
  /\ run' = [run EXCEPT ![r] = Task("failing", @.batch, id, retry[id] + 1)]
  /\ UNCHANGED <<queue, retry, due, failed, enq, hist, faults, restarts>>

CommitRetry(r) ==
  LET id == run[r].id IN
  /\ run[r].pc = "failing"
  /\ id \in tmp
  /\ tmp' = tmp \ {id}
  /\ queue' = queue \cup {id}
  /\ retry' = [retry EXCEPT ![id] = run[r].n]
  /\ due' = due \ {id}
  /\ Proceed(r)
  /\ UNCHANGED <<failed, enq, hist, faults, restarts>>

\* fail returns an error, which is logged: the file is gone, its tmp file is
\* gone, or the file system refuses.
FailError(r) ==
  /\ \/ run[r].pc = "refused" /\ run[r].id \notin queue /\ UNCHANGED faults
     \/ run[r].pc = "failing" /\ run[r].id \notin tmp /\ UNCHANGED faults
     \/ run[r].pc \in {"refused", "failing"} /\ Fault
  /\ Proceed(r)
  /\ UNCHANGED <<disk, enq, hist, restarts>>

\* The task reads Stop, or finds its channel closed; only between two passes.
StopRunner(r) ==
  /\ run[r].pc = "idle"
  /\ restarts < MaxRestarts
  /\ restarts' = restarts + 1
  /\ run' = [run EXCEPT ![r] = Off]
  /\ UNCHANGED <<disk, enq, hist, faults>>

----------------------------------------------------------------------------
(* The environment. *)

\* The backoff of a failed entry elapses.
Elapse(id) ==
  /\ id \in queue \ due
  /\ due' = due \cup {id}
  /\ UNCHANGED <<queue, retry, failed, tmp, enq, run, hist, faults, restarts>>

\* The process dies.
Crash ==
  /\ restarts < MaxRestarts
  /\ restarts' = restarts + 1
  /\ run' = [r \in Runners |-> Off]
  /\ enq' = [m \in Msgs |->
               IF enq[m].pc \in {"writing", "renaming", "undo"}
               THEN [enq[m] EXCEPT !.pc = "lost"] ELSE enq[m]]
  /\ unacked' = [i \in Ids |->
       unacked[i] + (IF \E r \in Runners : run[r].pc = "ack" /\ run[r].id = i
                     THEN 1 ELSE 0)]
  /\ UNCHANGED <<disk, sent, refused, faults>>

RunnerStep(r) ==
  \/ Scan(r) \/ Deliver(r) \/ SinkOk(r) \/ SinkErr(r)
  \/ Ack(r) \/ AckError(r)
  \/ GiveUp(r) \/ BeginRetry(r) \/ CommitRetry(r) \/ FailError(r)

Next ==
  \/ \E m \in Msgs : \/ Enqueue(m) \/ WriteTmp(m) \/ RenameTmp(m)
                     \/ WriteError(m) \/ UndoChunk(m)
  \/ \E r \in Runners : StartRunner(r) \/ RunnerStep(r) \/ StopRunner(r)
  \/ \E id \in Ids : Elapse(id)
  \/ Crash

Spec == Init /\ [][Next]_vars

\* The runner's interval keeps ticking, every await of a sink returns, backoffs
\* elapse, and a runner that is not there is started (on the next boot or by the
\* operator).  Nothing is assumed of producers or of the faults.
Fairness ==
  /\ \A r \in Runners : WF_vars(StartRunner(r)) /\ WF_vars(RunnerStep(r))
  /\ \A id \in Ids : WF_vars(Elapse(id))

FairSpec == Spec /\ Fairness

----------------------------------------------------------------------------
(* Properties. *)

\* Write-ahead: once enqueue has returned without an error, every chunk is in
\* the queue directory, has reached its recipient, or is kept in failed/,
\* whatever crashes, file errors and overlapping runners do.
NoLoss ==
  \A m \in Msgs : enq[m].pc = "accepted" =>
    \A c \in 1..ChunksOf[m] :
      <<m, c>> \in queue \cup failed \/ sent[<<m, c>>] > 0

\* With one runner, a recipient sees a chunk twice only if an ack was lost to
\* a crash or a file error: each lost ack excuses one more delivery.
DuplicatesExcused == \A i \in Ids : sent[i] <= 1 + unacked[i]

\* An entry reaches failed/ only after MaxRetries deliveries of it failed, even
\* when several runners record failures of the same entry.
FailedJustified == \A i \in failed : refused[i] >= MaxRetries

\* With one runner, no delivery starts before the entry's backoff has elapsed,
\* although the due times were compared when the snapshot was taken.
BackoffRespected ==
  [][\A r \in Runners :
       run[r].pc = "batch" /\ run'[r].pc = "await" => run'[r].id \in due]_vars
============================================================================
