---------------------------- MODULE SessionProofs ----------------------------
(***************************************************************************)
(* Proofs about the gateway's sessions.  About Sessions and Stdio, for any *)
(* clients, any number of session tasks and messages and any capacity of a *)
(* session's queue: one task of a key holds its messages and handles those *)
(* of a client in order, and an accepted message is lost only with a       *)
(* session that never worked, or whose turn panicked.  About SessionFiles, *)
(* for any sessions, files and saved sessions and any number of            *)
(* operations, changes and faults: what a session knows of the files it    *)
(* shares is what it saw of them.                                          *)
(***************************************************************************)
EXTENDS Stdio, SessionFiles, SequenceTheorems, TLAPS

Handled == {"running", "done", "stopped"}
Working(t) == task[t].pc \in {"cmd", "check", "llm", "ask"}
Queued(t) == DOMAIN task[t].q
Rows == [pc : TaskPcs, q : Seq(Msgs), flag : BOOLEAN, cur : Msgs \cup {NoMsg}]
Calls == [pc : CallPcs, at : Tasks \cup {NoTask}, msg : Msgs \cup {NoMsg}]

\* Types. Queues are no longer than QueueCap too, but nothing below needs it.
Typed ==
  /\ slot \in Tasks \cup {NoTask}
  /\ task \in [Tasks -> Rows] /\ call \in [Clients -> Calls]
  /\ from \in Seq([by : Clients, turn : BOOLEAN]) /\ Len(from) \in 0..MaxMsgs
  /\ fate \in [Msgs -> Fates] /\ sentTo \in [Msgs -> Tasks \cup {NoTask}]

\* A task's messages: nothing is queued after it is gone, and what is queued or in
\* hand was sent to this task, each message once.
TasksSound ==
  \A t \in Tasks :
    /\ Closed(t) => task[t].q = <<>>
    /\ Working(t) => task[t].cur \in Msgs /\ fate[task[t].cur] = "running"
                       /\ sentTo[task[t].cur] = t
    /\ \A i \in Queued(t) : fate[task[t].q[i]] = "queued" /\ sentTo[task[t].q[i]] = t
    /\ \A i, j \in Queued(t) : i # j => task[t].q[i] # task[t].q[j]

\* The messages of calls in progress, and what is known of all others.
CallsSound ==
  /\ \A c \in Clients :
       /\ call[c].pc \in {"insert", "send", "reply"} => call[c].at \in Tasks
       /\ call[c].pc \in {"spawn", "insert", "send"} =>
            /\ call[c].msg \in 1..Len(from) /\ from[call[c].msg].by = c
            /\ fate[call[c].msg] = "none"
            /\ \A m \in 1..Len(from) : from[m].by = c => m <= call[c].msg
  /\ \A m \in Msgs : fate[m] = "none" =>
       \/ m > Len(from)
       \/ LET c == from[m].by
          IN call[c].pc \in {"spawn", "insert", "send"} /\ call[c].msg = m
  /\ \A m \in Msgs : fate[m] # "none" => m <= Len(from)
  /\ \A m \in Msgs : fate[m] = "queued" =>
       sentTo[m] \in Tasks /\ \E i \in Queued(sentTo[m]) : task[sentTo[m]].q[i] = m

\* Whoever holds messages, or is about to be sent one, is the task in the slot.
InSlot == \A t \in Tasks : Holding(t) => slot = t

\* The queue keeps the order in which a client sent.
QueueInOrder ==
  \A t \in Tasks : \A i, j \in Queued(t) :
    i < j /\ from[task[t].q[i]].by = from[task[t].q[j]].by => task[t].q[i] < task[t].q[j]

\* Messages are dropped by a task that fails, or that a panic ended, and one that has
\* failed handled none.
LossSound ==
  /\ \A m \in Msgs : fate[m] = "dropped" =>
       sentTo[m] \in Tasks /\ task[sentTo[m]].pc \in {"closing", "gone"}
  /\ \A m \in Msgs : fate[m] \in Handled =>
       sentTo[m] \in Tasks /\ task[sentTo[m]].pc \notin {"none", "new", "failing", "closing"}

SessionInv ==
  /\ Typed
  /\ TasksSound /\ CallsSound /\ InSlot /\ QueueInOrder
  /\ LossSound /\ LostOnlyWithSession /\ HandledInOrder

\* The bounds of the model are sets of positive numbers.
LEMMA Numbers ==
  /\ Tasks \subseteq Nat /\ Msgs \subseteq Nat /\ NoTask \notin Tasks /\ NoMsg \notin Msgs
BY SessionsAssumption DEF Tasks, Msgs, NoTask, NoMsg

LEMMA QueueFacts ==
  ASSUME Typed, NEW t \in Tasks
  PROVE  task[t] \in Rows /\ task[t].q \in Seq(Msgs) /\ Queued(t) = 1..Len(task[t].q)
         /\ Len(task[t].q) \in Nat /\ \A i \in Queued(t) : task[t].q[i] \in Msgs
BY DEF Typed, Rows, Queued

LEMMA FromFacts ==
  ASSUME Typed
  PROVE  /\ Len(from) \in Nat /\ 1..Len(from) \subseteq Msgs
         /\ \A k \in 1..Len(from) : from[k].by \in Clients
<1> DEFINE Senders == [by : Clients, turn : BOOLEAN]
<1>1. from \in Seq(Senders)
  BY DEF Typed
<1>2. Len(from) \in Nat /\ 1..Len(from) \subseteq Msgs
  BY SessionsAssumption DEF Typed, Msgs
<1>3. \A s \in Senders : s.by \in Clients
  OBVIOUS
<1> HIDE DEF Senders
<1>4. \A k \in 1..Len(from) : from[k] \in Senders
  BY <1>1
<1> QED  BY <1>2, <1>3, <1>4

\* A step that touches one task, and neither its queue, its message nor whether it
\* works or has failed.
LEMMA QuietKeeps ==
  ASSUME SessionInv, NEW t \in Tasks, task' \in [Tasks -> Rows],
         \A u \in Tasks \ {t} : task'[u] = task[u],
         task'[t].q = task[t].q, task'[t].cur = task[t].cur, Working(t)' <=> Working(t),
         \/ task'[t].pc = task[t].pc
         \/ /\ task[t].pc \notin {"none", "failing", "closing", "gone"}
            /\ task'[t].pc \notin {"none", "closing", "gone"}
            /\ task'[t].pc \in {"new", "failing"} => task[t].pc = "new",
         UNCHANGED <<slot, call, from, fate, sentTo, panicked>>
  PROVE  SessionInv'
<1> USE DEF SessionInv
<1>1. Typed'
  BY DEF Typed
<1>0. \A u \in Tasks : /\ task'[u].q = task[u].q /\ task'[u].cur = task[u].cur
                       /\ (Working(u)' <=> Working(u)) /\ (Closed(u)' <=> Closed(u))
  BY DEF Working, Closed
<1>2. TasksSound'
  <2> SUFFICES ASSUME NEW u \in Tasks PROVE TasksSound!(u)'
    BY DEF TasksSound
  <2>1. TasksSound!(u)
    BY DEF TasksSound
  <2> QED  BY <1>0, <2>1 DEF Queued
<1>3. CallsSound'
  BY DEF CallsSound, Queued
<1>4. InSlot'
  BY DEF InSlot, Holding, Working, Closed
<1>5. QueueInOrder'
  BY DEF QueueInOrder, Queued
<1>6. LossSound'
  BY DEF LossSound, Handled
<1>7. LostOnlyWithSession' /\ HandledInOrder'
  BY DEF LostOnlyWithSession, HandledInOrder
<1> QED  BY <1>1, <1>2, <1>3, <1>4, <1>5, <1>6, <1>7

\* Steps that leave the messages of every task where they are.
LEMMA QuietSteps ==
  ASSUME SessionInv,
         \/ Interrupt
         \/ \E t \in Tasks : Create(t) \/ UseTools(t) \/ Answer(t)
         \/ \E t \in Tasks : Check(t) /\ ~task[t].flag
  PROVE  SessionInv'
<1> USE DEF SessionInv
<1>1. CASE Interrupt
  <2>1. slot \in Tasks /\ task' = [task EXCEPT ![slot].flag = TRUE]
        /\ UNCHANGED <<slot, call, from, fate, sentTo, panicked>>
    BY <1>1 DEF Interrupt, Typed
  <2>2. task' \in [Tasks -> Rows] /\ \A u \in Tasks \ {slot} : task'[u] = task[u]
    BY <2>1 DEF Typed, Rows
  <2>3. task'[slot].q = task[slot].q /\ task'[slot].cur = task[slot].cur
        /\ task'[slot].pc = task[slot].pc
    BY <2>1 DEF Typed, Rows
  <2> QED  BY <2>1, <2>2, <2>3, QuietKeeps DEF Working
<1>2. ASSUME NEW t \in Tasks, NEW p \in TaskPcs, task' = [task EXCEPT ![t].pc = p],
             Working(t) <=> p \in {"cmd", "check", "llm", "ask"},
             task[t].pc \notin {"none", "failing", "closing", "gone"},
             p \notin {"none", "closing", "gone"},
             p \in {"new", "failing"} => task[t].pc = "new",
             UNCHANGED <<slot, call, from, fate, sentTo, panicked>>
      PROVE  SessionInv'
  <2>1. task' \in [Tasks -> Rows] /\ \A u \in Tasks \ {t} : task'[u] = task[u]
    BY <1>2 DEF Typed, Rows
  <2>2. task'[t].q = task[t].q /\ task'[t].cur = task[t].cur /\ task'[t].pc = p
    BY <1>2 DEF Typed, Rows
  <2>3. Working(t)' <=> Working(t)
    BY <1>2, <2>2 DEF Working
  <2> QED  BY <1>2, <2>1, <2>2, <2>3, QuietKeeps
<1>3. ASSUME NEW t \in Tasks, Create(t) PROVE SessionInv'
  BY <1>2, <1>3 DEF Create, Working, TaskPcs
<1>4. ASSUME NEW t \in Tasks, UseTools(t) PROVE SessionInv'
  <2>1. PICK p \in {"check", "ask"} : task' = [task EXCEPT ![t].pc = p]
    BY <1>4 DEF UseTools
  <2> QED  BY <1>2, <1>4, <2>1 DEF UseTools, Working, TaskPcs
<1>5. ASSUME NEW t \in Tasks, Answer(t) PROVE SessionInv'
  BY <1>2, <1>5 DEF Answer, Working, TaskPcs
<1>6. ASSUME NEW t \in Tasks, Check(t), ~task[t].flag PROVE SessionInv'
  BY <1>2, <1>6 DEF Check, Working, TaskPcs
<1> QED  BY <1>1, <1>3, <1>4, <1>5, <1>6

\* A step that changes the slot and one call, and no task or message: the call may
\* be about to send only to the task in the slot, or to one that is gone.
LEMMA CallerKeeps ==
  ASSUME SessionInv, NEW c \in Clients, NEW r \in Calls,
         call' = [call EXCEPT ![c] = r],
         slot' \in Tasks \cup {NoTask},
         slot' = slot \/ (\A t \in Tasks : ~Holding(t)),
         r.pc = "send" => slot' = r.at \/ Closed(r.at),
         r.pc \in {"insert", "send", "reply"} => r.at \in Tasks,
         r.pc \in {"spawn", "insert", "send"} =>
            call[c].pc \in {"spawn", "insert", "send"} /\ r.msg = call[c].msg,
         call[c].pc \in {"spawn", "insert", "send"} => r.pc \in {"spawn", "insert", "send"},
         UNCHANGED <<task, from, fate, sentTo, panicked>>
  PROVE  SessionInv'
<1> USE DEF SessionInv
<1>0. /\ call'[c] = r /\ \A d \in Clients \ {c} : call'[d] = call[d]
      /\ call' \in [Clients -> Calls]
  BY DEF Typed
<1>1. Typed'
  BY <1>0 DEF Typed
<1>2. TasksSound' /\ QueueInOrder' /\ LossSound' /\ LostOnlyWithSession' /\ HandledInOrder'
  BY DEF TasksSound, Working, Closed, Queued, QueueInOrder, LossSound, Handled,
         LostOnlyWithSession, HandledInOrder
<1>3. CallsSound'
  <2>1. \A d \in Clients : CallsSound!1!(d)'
    BY <1>0 DEF CallsSound
  <2>2. ASSUME NEW m \in Msgs, fate'[m] = "none" PROVE CallsSound!2!(m)!2'
    BY <1>0, <2>2 DEF CallsSound
  <2> QED  BY <2>1, <2>2 DEF CallsSound, Queued
<1>4. InSlot'
  <2> SUFFICES ASSUME NEW t \in Tasks, Holding(t)' PROVE slot' = t
    BY DEF InSlot
  <2>1. CASE Holding(t)
    BY <2>1 DEF InSlot, NoTask, Tasks
  <2>2. CASE ~Holding(t)
    BY <2>2, <1>0 DEF Holding, Closed
  <2> QED  BY <2>1, <2>2
<1> QED  BY <1>1, <1>2, <1>3, <1>4

\* When the look at the pool finds no task, none holds anything.
LEMMA NoneHeld ==
  ASSUME SessionInv, Pruned = NoTask
  PROVE  \A t \in Tasks : ~Holding(t)
<1> SUFFICES ASSUME NEW t \in Tasks, Holding(t) PROVE FALSE
  OBVIOUS
<1>1. slot = t /\ slot # NoTask /\ Closed(t)
  BY Numbers DEF SessionInv, InSlot, Pruned
<1>2. task[t].q = <<>> /\ task[t].pc = "gone"
  BY <1>1 DEF SessionInv, TasksSound, Closed
<1> QED  BY <1>1, <1>2 DEF Holding

LEMMA InsertSteps ==
  ASSUME SessionInv, NEW c \in Clients, Insert(c) \/ Replied(c)
  PROVE  SessionInv'
<1> USE DEF SessionInv
<1>0. call[c] \in Calls /\ call \in [Clients -> Calls] /\ slot \in Tasks \cup {NoTask}
  BY DEF Typed
<1>1. CASE Insert(c)
  <2> DEFINE r == [call[c] EXCEPT !.pc = "send", !.at = slot']
  <2>1. call[c].pc = "insert" /\ call[c].at \in Tasks
    BY <1>1 DEF Insert, CallsSound
  <2>2. slot' \in Tasks
    BY <1>0, <1>1, <2>1 DEF Insert, Pruned
  <2>3. slot' = slot \/ (\A t \in Tasks : ~Holding(t))
    BY <1>1, NoneHeld DEF Insert, Pruned
  <2>4. call' = [call EXCEPT ![c] = r]
    BY <1>0, <1>1 DEF Insert
  <2>5. r \in Calls /\ r.pc = "send" /\ r.at = slot' /\ r.msg = call[c].msg
    BY <1>0, <2>2 DEF Calls, CallPcs
  <2>6. UNCHANGED <<task, from, fate, sentTo, panicked>>
    BY <1>1 DEF Insert
  <2> HIDE DEF r
  <2> QED  BY <2>1, <2>2, <2>3, <2>4, <2>5, <2>6, CallerKeeps
<1>2. CASE Replied(c)
  <2>1. NoCall \in Calls /\ NoCall.pc = "idle"
    BY DEF NoCall, Calls, CallPcs
  <2>2. call[c].pc = "reply" /\ call' = [call EXCEPT ![c] = NoCall]
        /\ UNCHANGED <<slot, task, from, fate, sentTo, panicked>>
    BY <1>2 DEF Replied
  <2> QED  BY <1>0, <2>1, <2>2, CallerKeeps
<1> QED  BY <1>1, <1>2

\* A call begins: its message is the client's last.
LEMMA CallBegins ==
  ASSUME SessionInv, NEW c \in Clients, NEW b \in BOOLEAN, NEW r \in Calls,
         call[c].pc = "idle", Len(from) < MaxMsgs,
         from' = Append(from, [by |-> c, turn |-> b]),
         call' = [call EXCEPT ![c] = r],
         r.msg = Len(from) + 1, r.pc \in {"spawn", "send"},
         slot' \in Tasks \cup {NoTask},
         slot' = slot \/ (\A t \in Tasks : ~Holding(t)),
         r.pc = "send" => r.at \in Tasks /\ (slot' = r.at \/ Closed(r.at)),
         UNCHANGED <<task, fate, sentTo, panicked>>
  PROVE  SessionInv'
<1> USE DEF SessionInv
<1>0. /\ call'[c] = r /\ \A d \in Clients \ {c} : call'[d] = call[d]
      /\ call' \in [Clients -> Calls]
  BY DEF Typed
<1>1. /\ from' \in Seq([by : Clients, turn : BOOLEAN]) /\ Len(from') = Len(from) + 1
      /\ \A m \in 1..Len(from) : from'[m] = from[m]
      /\ from'[Len(from) + 1].by = c
      /\ Len(from) \in Nat /\ Len(from) + 1 \in Msgs
  BY SessionsAssumption DEF Typed, Msgs
<1>2. Typed'
  BY <1>0, <1>1, SessionsAssumption DEF Typed
<1>3. TasksSound' /\ LossSound' /\ LostOnlyWithSession'
  BY DEF TasksSound, Working, Closed, Queued, LossSound, Handled, LostOnlyWithSession
<1>4. \A m \in Msgs : fate[m] # "none" => m \in 1..Len(from)
  BY DEF CallsSound, Msgs
<1>5. QueueInOrder'
  <2> SUFFICES ASSUME NEW t \in Tasks, NEW i \in Queued(t), NEW j \in Queued(t)
               PROVE  QueueInOrder!(t)!(i, j)'
    BY DEF QueueInOrder, Queued
  <2>1. task[t].q[i] \in 1..Len(from) /\ task[t].q[j] \in 1..Len(from)
    BY <1>4, QueueFacts DEF TasksSound
  <2> QED  BY <1>1, <2>1 DEF QueueInOrder
<1>6. HandledInOrder'
  <2> SUFFICES ASSUME NEW m \in 1..Len(from'), NEW n \in 1..Len(from'), m < n,
                      from'[m].by = from'[n].by, fate[n] \in {"running", "done", "stopped"}
               PROVE  fate[m] \notin {"none", "queued"}
    BY DEF HandledInOrder
  <2>1. n \in 1..Len(from) /\ m \in 1..Len(from)
    BY <1>1, <1>4, Numbers DEF Msgs, Typed
  <2> QED  BY <1>1, <2>1 DEF HandledInOrder
<1>7. CallsSound'
  <2>1. ASSUME NEW d \in Clients PROVE CallsSound!1!(d)'
    <3>1. CASE d = c
      BY <1>0, <1>1, <1>4, <3>1 DEF Typed
    <3>2. CASE d # c
      BY <1>0, <1>1, <3>2 DEF CallsSound
    <3> QED  BY <3>1, <3>2
  <2>2. ASSUME NEW m \in Msgs, fate[m] = "none" PROVE CallsSound!2!(m)!2'
    BY <1>0, <1>1, <2>2, Numbers DEF CallsSound, Msgs
  <2>3. ASSUME NEW m \in Msgs, fate[m] # "none" PROVE m <= Len(from')
    BY <1>1, <1>4, <2>3
  <2>4. ASSUME NEW m \in Msgs PROVE CallsSound!4!(m)'
    BY DEF CallsSound, Queued
  <2> QED  BY <2>1, <2>2, <2>3, <2>4 DEF CallsSound
<1>8. InSlot'
  <2> SUFFICES ASSUME NEW t \in Tasks, Holding(t)' PROVE slot' = t
    BY DEF InSlot
  <2>1. CASE Holding(t)
    BY <2>1 DEF InSlot
  <2>2. CASE ~Holding(t)
    BY <2>2, <1>0 DEF Holding, Closed
  <2> QED  BY <2>1, <2>2
<1> QED  BY <1>2, <1>3, <1>5, <1>6, <1>7, <1>8

LEMMA BeginSteps ==
  ASSUME SessionInv, NEW c \in Clients, Dispatch(c) \/ Control(c)
  PROVE  SessionInv'
<1> USE DEF SessionInv
<1>0. Len(from) + 1 \in Msgs /\ slot \in Tasks \cup {NoTask} /\ Pruned \in {slot, NoTask}
      /\ Len(from) < MaxMsgs /\ call[c].pc = "idle"
  BY SessionsAssumption DEF Typed, Msgs, Pruned, Dispatch, Control
<1> DEFINE r(pc, t) == [pc |-> pc, at |-> t, msg |-> Len(from) + 1]
<1>1. \A t \in Tasks \cup {NoTask} : r("spawn", t) \in Calls /\ r("send", t) \in Calls
  BY <1>0 DEF Calls, CallPcs
<1>2. CASE Dispatch(c) /\ Pruned = NoTask
  <2>1. /\ from' = Append(from, [by |-> c, turn |-> TRUE]) /\ slot' = NoTask
        /\ call' = [call EXCEPT ![c] = r("spawn", NoTask)]
        /\ UNCHANGED <<task, fate, sentTo, panicked>>
    BY <1>2 DEF Dispatch
  <2>2. \A t \in Tasks : ~Holding(t)
    BY <1>2, NoneHeld
  <2> QED  BY <1>0, <1>1, <2>1, <2>2, CallBegins
<1>3. CASE Dispatch(c) /\ Pruned # NoTask
  <2>1. /\ from' = Append(from, [by |-> c, turn |-> TRUE]) /\ slot' = slot /\ slot \in Tasks
        /\ call' = [call EXCEPT ![c] = r("send", slot)]
        /\ UNCHANGED <<task, fate, sentTo, panicked>>
    BY <1>0, <1>3 DEF Dispatch
  <2> QED  BY <1>0, <1>1, <2>1, CallBegins
<1>4. CASE Control(c)
  <2>1. /\ from' = Append(from, [by |-> c, turn |-> FALSE]) /\ slot' = slot /\ slot \in Tasks
        /\ call' = [call EXCEPT ![c] = r("send", slot)]
        /\ UNCHANGED <<task, fate, sentTo, panicked>>
    BY <1>0, <1>4 DEF Control
  <2> QED  BY <1>0, <1>1, <2>1, CallBegins
<1> QED  BY <1>2, <1>3, <1>4

\* A spawned task has no messages yet.
LEMMA SpawnStep ==
  ASSUME SessionInv, NEW c \in Clients, Spawn(c)
  PROVE  SessionInv'
<1> USE DEF SessionInv
<1>1. PICK t \in Tasks : /\ task[t].pc = "none" /\ task' = [task EXCEPT ![t].pc = "new"]
                         /\ call' = [call EXCEPT ![c].pc = "insert", ![c].at = t]
  BY DEF Spawn
<1>2. call[c].pc = "spawn" /\ UNCHANGED <<slot, from, fate, sentTo, panicked>>
  BY DEF Spawn
<1>3. /\ task' \in [Tasks -> Rows] /\ \A u \in Tasks \ {t} : task'[u] = task[u]
      /\ task'[t].pc = "new" /\ task'[t].q = task[t].q /\ task'[t].cur = task[t].cur
  BY <1>1 DEF Typed, Rows, TaskPcs
<1>4. /\ call' \in [Clients -> Calls] /\ \A d \in Clients \ {c} : call'[d] = call[d]
      /\ call'[c].pc = "insert" /\ call'[c].at = t /\ call'[c].msg = call[c].msg
  BY <1>1, ZenonT(60) DEF Typed, Calls, CallPcs
<1>5. Typed'
  BY <1>2, <1>3, <1>4 DEF Typed
<1>6. \A u \in Tasks : /\ task'[u].q = task[u].q /\ task'[u].cur = task[u].cur
                       /\ (Working(u)' <=> Working(u)) /\ (Closed(u)' <=> Closed(u))
  BY <1>1, <1>3 DEF Working, Closed
<1>7. TasksSound'
  <2> SUFFICES ASSUME NEW u \in Tasks PROVE TasksSound!(u)'
    BY DEF TasksSound
  <2>1. TasksSound!(u)
    BY DEF TasksSound
  <2> QED  BY <1>2, <1>6, <2>1 DEF Queued
<1>8. CallsSound'
  <2>1. ASSUME NEW d \in Clients PROVE CallsSound!1!(d)'
    BY <1>2, <1>4 DEF CallsSound
  <2>2. ASSUME NEW m \in Msgs, fate[m] = "none" PROVE CallsSound!2!(m)!2'
    <3>1. CASE m > Len(from)
      BY <1>2, <3>1
    <3>2. CASE ~(m > Len(from))
      <4>1. m \in 1..Len(from) /\ from[m].by \in Clients
        BY <3>2, FromFacts, Numbers DEF Msgs
      <4>2. call[from[m].by].pc \in {"spawn", "insert", "send"} /\ call[from[m].by].msg = m
        BY <2>2, <3>2 DEF CallsSound
      <4> QED  BY <1>2, <1>4, <4>1, <4>2
    <3> QED  BY <3>1, <3>2
  <2>3. ASSUME NEW m \in Msgs PROVE CallsSound!3!(m)' /\ CallsSound!4!(m)'
    BY <1>2, <1>6 DEF CallsSound, Queued
  <2> QED  BY <1>2, <2>1, <2>2, <2>3 DEF CallsSound
<1>9. InSlot'
  BY <1>2, <1>4, <1>6 DEF InSlot, Holding, Working
<1>10. QueueInOrder' /\ LostOnlyWithSession' /\ HandledInOrder'
  BY <1>2, <1>6 DEF QueueInOrder, Queued, LostOnlyWithSession, HandledInOrder
<1>11. LossSound'
  BY <1>1, <1>2, <1>3 DEF LossSound, Handled
<1> QED  BY <1>5, <1>7, <1>8, <1>9, <1>10, <1>11

\* What is known of a call about to send.
LEMMA SendingFacts ==
  ASSUME SessionInv, NEW c \in Clients, call[c].pc = "send"
  PROVE  /\ call[c].at \in Tasks /\ call[c].msg \in 1..Len(from) /\ call[c].msg \in Msgs
         /\ fate[call[c].msg] = "none" /\ from[call[c].msg].by = c
         /\ \A n \in 1..Len(from) : from[n].by = c => n <= call[c].msg
         /\ ~Closed(call[c].at) => slot = call[c].at
<1>1. /\ call[c].at \in Tasks /\ call[c].msg \in 1..Len(from)
      /\ fate[call[c].msg] = "none" /\ from[call[c].msg].by = c
      /\ \A n \in 1..Len(from) : from[n].by = c => n <= call[c].msg
  BY DEF SessionInv, CallsSound
<1>2. call[c].msg \in Msgs
  BY <1>1, SessionsAssumption DEF SessionInv, Typed, Msgs
<1>3. ~Closed(call[c].at) => slot = call[c].at
  BY <1>1 DEF SessionInv, InSlot, Holding
<1> QED  BY <1>1, <1>2, <1>3

\* The end of a call that sends: its message m gets its fate and the call goes on.
LEMMA SentKeeps ==
  ASSUME SessionInv, NEW c \in Clients, call[c].pc = "send",
         NEW r \in Calls, r.pc \in {"idle", "reply"}, r.pc = "reply" => r.at \in Tasks,
         call' = [call EXCEPT ![c] = r],
         NEW f \in {"refused", "queued"}, fate' = [fate EXCEPT ![call[c].msg] = f],
         UNCHANGED <<slot, from, panicked>>
  PROVE  /\ call' \in [Clients -> Calls] /\ fate' \in [Msgs -> Fates]
         /\ fate'[call[c].msg] = f /\ \A n \in Msgs \ {call[c].msg} : fate'[n] = fate[n]
         /\ \A d \in Clients : CallsSound!1!(d)'
         /\ \A m \in Msgs : CallsSound!2!(m)' /\ CallsSound!3!(m)'
         /\ HandledInOrder'
<1> DEFINE n == call[c].msg
<1>1. /\ n \in 1..Len(from) /\ n \in Msgs /\ from[n].by = c /\ fate[n] = "none"
      /\ \A k \in 1..Len(from) : from[k].by = c => k <= n
  BY SendingFacts
<1> HIDE DEF n
<1>2. /\ call' \in [Clients -> Calls] /\ call'[c] = r
      /\ \A d \in Clients \ {c} : call'[d] = call[d]
  BY DEF SessionInv, Typed
<1>3. /\ fate' \in [Msgs -> Fates] /\ fate'[n] = f /\ \A k \in Msgs \ {n} : fate'[k] = fate[k]
  BY <1>1 DEF SessionInv, Typed, Fates, n
<1>4. Len(from) \in Nat /\ 1..Len(from) \subseteq Msgs
      /\ \A k \in 1..Len(from) : from[k].by \in Clients
  BY FromFacts DEF SessionInv
<1>5. ASSUME NEW d \in Clients PROVE CallsSound!1!(d)'
  <2>1. CASE d = c
    BY <1>2, <2>1
  <2>2. CASE d # c
    <3>1. CallsSound!1!(d) /\ call'[d] = call[d]
      BY <1>2, <2>2 DEF SessionInv, CallsSound
    <3>2. call[d].pc \in {"spawn", "insert", "send"} => call[d].msg # n
      BY <3>1, <1>1, <2>2
    <3> QED  BY <1>3, <1>4, <3>1, <3>2
  <2> QED  BY <2>1, <2>2
<1>6. ASSUME NEW m \in Msgs PROVE CallsSound!2!(m)' /\ CallsSound!3!(m)'
  <2>1. CASE m = n
    BY <1>1, <1>3, <2>1
  <2>2. CASE m # n
    <3>1. fate'[m] = fate[m] /\ CallsSound!2!(m) /\ CallsSound!3!(m)
      BY <1>3, <2>2 DEF SessionInv, CallsSound
    <3>2. CASE m > Len(from)
      BY <3>1, <3>2
    <3>3. CASE ~(m > Len(from))
      <4>1. m \in 1..Len(from) /\ from[m].by \in Clients
        BY <1>4, <3>3, Numbers, SessionsAssumption DEF Msgs
      <4>2. fate[m] = "none" => from[m].by # c
        BY <3>1, <3>3, <2>2 DEF n
      <4> QED  BY <1>2, <3>1, <4>1, <4>2
    <3> QED  BY <3>2, <3>3
  <2> QED  BY <2>1, <2>2
<1>7. HandledInOrder'
  <2> SUFFICES ASSUME NEW m \in 1..Len(from), NEW k \in 1..Len(from), m < k,
                      from[m].by = from[k].by, fate'[k] \in {"running", "done", "stopped"}
               PROVE  fate'[m] \notin {"none", "queued"}
    BY DEF HandledInOrder
  <2>1. k # n /\ fate'[k] = fate[k]
    BY <1>3, <1>4
  <2>2. m # n
    BY <1>1, <1>4
  <2> QED  BY <1>3, <1>4, <2>1, <2>2 DEF SessionInv, HandledInOrder
<1> QED  BY <1>2, <1>3, <1>5, <1>6, <1>7 DEF n

LEMMA Appended ==
  ASSUME NEW S, NEW q \in Seq(S), NEW n \in S
  PROVE  /\ Append(q, n) \in Seq(S) /\ Append(q, n) # <<>> /\ Len(q) \in Nat
         /\ DOMAIN q = 1..Len(q) /\ DOMAIN Append(q, n) = 1..(Len(q) + 1)
         /\ \A i \in 1..Len(q) : Append(q, n)[i] = q[i]
         /\ Append(q, n)[Len(q) + 1] = n
OBVIOUS

\* A message n enters the queue of the task t in the slot, L messages long: it is the
\* last of its client c.
Enters(c, t, n, L) ==
  /\ n \in 1..Len(from) /\ from[n].by = c /\ fate[n] = "none" /\ slot = t /\ ~Closed(t)
  /\ \A k \in 1..Len(from) : from[k].by = c => k <= n
  /\ task' \in [Tasks -> Rows]
  /\ \A u \in Tasks : task'[u].pc = task[u].pc /\ task'[u].cur = task[u].cur
  /\ \A u \in Tasks \ {t} : task'[u].q = task[u].q
  /\ DOMAIN task[t].q = 1..L /\ DOMAIN task'[t].q = 1..(L + 1)
  /\ \A i \in 1..L : task'[t].q[i] = task[t].q[i]
  /\ task'[t].q[L + 1] = n /\ task'[t].q # <<>>
  /\ sentTo' \in [Msgs -> Tasks \cup {NoTask}] /\ sentTo'[n] = t
  /\ \A k \in Msgs \ {n} : sentTo'[k] = sentTo[k]
  /\ fate' \in [Msgs -> Fates] /\ fate'[n] = "queued"
  /\ \A k \in Msgs \ {n} : fate'[k] = fate[k]
  /\ call' \in [Clients -> Calls]
  /\ \A d \in Clients : call'[d].pc = "send" => call'[d] = call[d]
  /\ \A d \in Clients : CallsSound!1!(d)'
  /\ \A m \in Msgs : CallsSound!2!(m)' /\ CallsSound!3!(m)'
  /\ HandledInOrder' /\ UNCHANGED <<slot, from, panicked>>

LEMMA QueuedKeeps ==
  ASSUME SessionInv, NEW c \in Clients, NEW t \in Tasks, NEW n \in Msgs, NEW L \in Nat,
         Enters(c, t, n, L)
  PROVE  SessionInv'
<1> USE DEF Enters
<1>5. \A u \in Tasks : \A i \in Queued(u) : task[u].q[i] \in Msgs /\ task[u].q[i] # n
  BY QueueFacts DEF SessionInv, TasksSound
<1>6. Typed'
  BY DEF SessionInv, Typed
<1>7. TasksSound'
  <2> SUFFICES ASSUME NEW u \in Tasks PROVE TasksSound!(u)'
    BY DEF TasksSound
  <2>1. TasksSound!(u) /\ task[u] \in Rows
    BY DEF SessionInv, TasksSound, Typed
  <2>2. (Closed(u) => task[u].q = <<>>)'
    BY <2>1 DEF Closed
  <2>3. TasksSound!(u)!2'
    BY <2>1 DEF Working
  <2>4. CASE u # t
    <3>1. task'[u].q = task[u].q /\ \A i \in Queued(u) : task[u].q[i] \in Msgs \ {n}
      BY <2>4, <1>5
    <3>2. TasksSound!(u)!3'
      BY <2>1, <3>1 DEF Queued
    <3>3. TasksSound!(u)!4'
      BY <2>1, <3>1 DEF Queued
    <3> QED  BY <2>2, <2>3, <3>2, <3>3
  <2>5. CASE u = t
    <3>1. \A i \in 1..L : fate'[task'[t].q[i]] = "queued" /\ sentTo'[task'[t].q[i]] = t
                           /\ task'[t].q[i] # n
      <4> TAKE i \in 1..L
      <4>1. /\ task'[t].q[i] = task[t].q[i] /\ i \in Queued(t)
            /\ task[t].q[i] \in Msgs /\ task[t].q[i] # n
        BY <1>5 DEF Queued
      <4>2. fate[task[t].q[i]] = "queued" /\ sentTo[task[t].q[i]] = t
        BY <2>1, <2>5, <4>1
      <4> QED  BY <4>1, <4>2
    <3>2. \A i \in DOMAIN task'[t].q : i \in 1..L \/ i = L + 1
      OBVIOUS
    <3>3. \A i \in DOMAIN task'[t].q : fate'[task'[t].q[i]] = "queued" /\ sentTo'[task'[t].q[i]] = t
      BY <3>1, <3>2
    <3>4. ASSUME NEW i \in 1..L, NEW j \in 1..L, i # j
          PROVE  task'[t].q[i] # task'[t].q[j]
      <4>1. i \in Queued(t) /\ j \in Queued(t)
        BY DEF Queued
      <4>2. task[t].q[i] # task[t].q[j]
        BY <2>1, <2>5, <3>4, <4>1
      <4> QED  BY <4>2
    <3>5. \A i, j \in DOMAIN task'[t].q : i # j => task'[t].q[i] # task'[t].q[j]
      BY <3>1, <3>2, <3>4
    <3>6. \A i \in Queued(u)' : fate'[task'[u].q[i]] = "queued" /\ sentTo'[task'[u].q[i]] = u
      BY <2>5, <3>3 DEF Queued
    <3>7. \A i, j \in Queued(u)' : i # j => task'[u].q[i] # task'[u].q[j]
      BY <2>5, <3>5, SMTT(60) DEF Queued
    <3> QED  BY <2>2, <2>3, <3>6, <3>7
  <2> QED  BY <2>4, <2>5
<1>8. CallsSound'
  <2>1. ASSUME NEW m \in Msgs, fate'[m] = "queued"
        PROVE  /\ sentTo'[m] \in Tasks
               /\ \E i \in DOMAIN task'[sentTo'[m]].q : task'[sentTo'[m]].q[i] = m
    <3>1. CASE m = n
      BY <3>1
    <3>2. CASE m # n
      BY <3>2, <2>1, SMTT(60) DEF SessionInv, CallsSound, Queued
    <3> QED  BY <3>1, <3>2
  <2> QED  BY <2>1 DEF CallsSound, Queued
<1>9. InSlot'
  <2> SUFFICES ASSUME NEW u \in Tasks, Holding(u)', u # t PROVE FALSE
    BY DEF InSlot
  <2>2. Holding(u)
    BY DEF Holding, Closed
  <2> QED  BY <2>2 DEF SessionInv, InSlot
<1>10. QueueInOrder'
  <2> SUFFICES ASSUME NEW u \in Tasks,
                      NEW i \in DOMAIN task'[u].q, NEW j \in DOMAIN task'[u].q, i < j,
                      from[task'[u].q[i]].by = from[task'[u].q[j]].by
               PROVE  task'[u].q[i] < task'[u].q[j]
    BY DEF QueueInOrder, Queued
  <2>1. CASE u # t
    <3>1. task'[u].q = task[u].q
      BY <2>1
    <3> QED  BY <3>1 DEF SessionInv, QueueInOrder, Queued
  <2>2. CASE u = t /\ j # L + 1
    <3>1. i \in 1..L /\ j \in 1..L
      BY <2>2
    <3>2. task'[u].q[i] = task[u].q[i] /\ task'[u].q[j] = task[u].q[j]
      BY <2>2, <3>1, SMTT(60)
    <3>3. from[task[t].q[i]].by = from[task[t].q[j]].by => task[t].q[i] < task[t].q[j]
      BY <2>2, <3>1 DEF SessionInv, QueueInOrder, Queued
    <3> QED  BY <2>2, <3>2, <3>3
  <2>3. CASE u = t /\ j = L + 1
    <3>1. i \in 1..L /\ task'[u].q[i] = task[t].q[i] /\ task'[u].q[j] = n
      BY <2>3
    <3>2. task[t].q[i] # n /\ task[t].q[i] \in Msgs /\ fate[task[t].q[i]] = "queued"
      BY <3>1, <1>5 DEF SessionInv, TasksSound, Queued
    <3>3. task[t].q[i] \in 1..Len(from)
      BY <3>2, Numbers DEF SessionInv, CallsSound, Msgs
    <3>4. from[task[t].q[i]].by = c
      BY <2>3, <3>1
    <3> QED  BY <3>1, <3>2, <3>3, <3>4, Numbers
  <2> QED  BY <2>1, <2>2, <2>3
<1>11. LossSound' /\ LostOnlyWithSession'
  BY DEF SessionInv, LossSound, LostOnlyWithSession, Handled
<1> QED  BY <1>6, <1>7, <1>8, <1>9, <1>10, <1>11 DEF SessionInv

LEMMA SendStep ==
  ASSUME SessionInv, NEW c \in Clients, Send(c)
  PROVE  SessionInv'
<1>1. PICK t \in Tasks, n \in Msgs : t = call[c].at /\ n = call[c].msg
  BY SendingFacts DEF Send
<1>2. /\ call[c].pc = "send" /\ n \in 1..Len(from) /\ from[n].by = c /\ fate[n] = "none"
      /\ \A k \in 1..Len(from) : from[k].by = c => k <= n
      /\ (~Closed(t) => slot = t) /\ UNCHANGED <<slot, from, panicked>>
  BY <1>1, SendingFacts DEF Send
<1>3. /\ call[c] \in Calls /\ task \in [Tasks -> Rows]
      /\ sentTo \in [Msgs -> Tasks \cup {NoTask}] /\ call \in [Clients -> Calls]
  BY DEF SessionInv, Typed
<1>4. NoCall \in Calls /\ NoCall.pc = "idle"
  BY DEF NoCall, Calls, CallPcs
<1>5. CASE /\ fate' = [fate EXCEPT ![n] = "refused"]
           /\ call' = [call EXCEPT ![c] = NoCall] /\ UNCHANGED <<task, sentTo>>
  <2>1. /\ call' \in [Clients -> Calls] /\ fate' \in [Msgs -> Fates]
        /\ fate'[n] = "refused" /\ \A k \in Msgs \ {n} : fate'[k] = fate[k]
        /\ \A d \in Clients : CallsSound!1!(d)'
        /\ \A m \in Msgs : CallsSound!2!(m)' /\ CallsSound!3!(m)'
        /\ HandledInOrder'
    BY <1>1, <1>2, <1>4, <1>5, SentKeeps
  <2>2. \A d \in Clients : call'[d].pc = "send" => call'[d] = call[d]
    BY <1>3, <1>4, <1>5
  <2>3. Typed'
    BY <1>2, <1>5, <2>1 DEF SessionInv, Typed
  <2>4. TasksSound'
    <3> SUFFICES ASSUME NEW u \in Tasks PROVE TasksSound!(u)'
      BY DEF TasksSound
    <3>1. TasksSound!(u) /\ task'[u] = task[u] /\ task[u].cur \in Msgs \cup {NoMsg}
          /\ \A i \in Queued(u) : task[u].q[i] \in Msgs
      BY <1>5, QueueFacts DEF SessionInv, TasksSound, Rows
    <3> QED  BY <1>2, <1>5, <2>1, <3>1 DEF Queued, Working, Closed
  <2>5. CallsSound'
    <3>1. ASSUME NEW m \in Msgs PROVE CallsSound!4!(m)'
      BY <1>5, <2>1 DEF SessionInv, CallsSound, Queued
    <3> QED  BY <2>1, <3>1 DEF CallsSound
  <2>6. InSlot'
    BY <1>2, <1>5, <2>2 DEF SessionInv, InSlot, Holding, Closed
  <2>7. QueueInOrder'
    BY <1>2, <1>5 DEF SessionInv, QueueInOrder, Queued
  <2>8. LossSound' /\ LostOnlyWithSession'
    <3>1. \A m \in Msgs : fate'[m] \in Handled \cup {"dropped"} => fate'[m] = fate[m]
      BY <2>1 DEF Handled
    <3>2. LossSound'
      BY <1>5, <3>1 DEF SessionInv, LossSound, Handled
    <3>3. LostOnlyWithSession'
      BY <1>2, <1>5, <3>1 DEF SessionInv, LostOnlyWithSession, Handled
    <3> QED  BY <3>2, <3>3
  <2> QED  BY <2>1, <2>3, <2>4, <2>5, <2>6, <2>7, <2>8 DEF SessionInv
<1>6. CASE /\ ~Closed(t) /\ task' = [task EXCEPT ![t].q = Append(@, n)]
           /\ fate' = [fate EXCEPT ![n] = "queued"] /\ sentTo' = [sentTo EXCEPT ![n] = t]
           /\ call' = [call EXCEPT ![c] = IF IsTurn(n) THEN NoCall
                                          ELSE [call[c] EXCEPT !.pc = "reply"]]
  <2>1. PICK r \in Calls : /\ call' = [call EXCEPT ![c] = r] /\ r.pc \in {"idle", "reply"}
                           /\ r.pc = "reply" => r.at \in Tasks
    <3> DEFINE r == [call[c] EXCEPT !.pc = "reply"]
    <3>1. r \in Calls /\ r.pc = "reply" /\ r.at = t
      BY <1>1, <1>3 DEF Calls, CallPcs
    <3> HIDE DEF r
    <3>2. call' = [call EXCEPT ![c] = IF IsTurn(n) THEN NoCall ELSE r]
      BY <1>6 DEF r
    <3> QED  BY <1>4, <3>1, <3>2
  <2>2. /\ call' \in [Clients -> Calls] /\ fate' \in [Msgs -> Fates]
        /\ fate'[n] = "queued" /\ \A k \in Msgs \ {n} : fate'[k] = fate[k]
        /\ \A d \in Clients : CallsSound!1!(d)'
        /\ \A m \in Msgs : CallsSound!2!(m)' /\ CallsSound!3!(m)'
        /\ HandledInOrder'
    <3>1. /\ call[c].pc = "send" /\ fate' = [fate EXCEPT ![call[c].msg] = "queued"]
          /\ n = call[c].msg /\ UNCHANGED <<slot, from, panicked>>
      BY <1>1, <1>2, <1>6
    <3> QED  BY <2>1, <3>1, SentKeeps
  <2>3. \A d \in Clients : call'[d].pc = "send" => call'[d] = call[d]
    BY <1>3, <2>1
  <2>4. /\ sentTo' \in [Msgs -> Tasks \cup {NoTask}] /\ sentTo'[n] = t
        /\ \A k \in Msgs \ {n} : sentTo'[k] = sentTo[k]
    BY <1>3, <1>6
  <2> DEFINE q == task[t].q
  <2>5. q \in Seq(Msgs)
    BY QueueFacts DEF SessionInv
  <2>6. PICK L \in Nat :
          /\ Append(q, n) \in Seq(Msgs) /\ Append(q, n) # <<>>
          /\ DOMAIN q = 1..L /\ DOMAIN Append(q, n) = 1..(L + 1)
          /\ \A i \in 1..L : Append(q, n)[i] = q[i]
          /\ Append(q, n)[L + 1] = n
    BY <2>5, Appended
  <2>7. /\ task'[t].q = Append(q, n) /\ task' \in [Tasks -> Rows]
        /\ \A u \in Tasks : task'[u].pc = task[u].pc /\ task'[u].cur = task[u].cur
        /\ \A u \in Tasks \ {t} : task'[u].q = task[u].q
    <3>1. task' = [task EXCEPT ![t].q = Append(q, n)]
      BY <1>6
    <3> HIDE DEF q
    <3>2. Append(q, n) \in Seq(Msgs)
      BY <2>6
    <3> QED  BY <1>3, <3>1, <3>2 DEF Rows
  <2>8. /\ DOMAIN task[t].q = 1..L /\ DOMAIN task'[t].q = 1..(L + 1)
        /\ \A i \in 1..L : task'[t].q[i] = task[t].q[i]
        /\ task'[t].q[L + 1] = n /\ task'[t].q # <<>>
    BY <2>6, <2>7
  <2>10. ~Closed(t) /\ slot = t
    BY <1>2, <1>6
  <2>11. task' \in [Tasks -> Rows]
    BY <2>7
  <2>12. \A u \in Tasks : task'[u].pc = task[u].pc /\ task'[u].cur = task[u].cur
    BY <2>7
  <2>13. \A u \in Tasks \ {t} : task'[u].q = task[u].q
    BY <2>7
  <2> HIDE DEF q
  <2>14. Enters(c, t, n, L)
    BY <1>2, <2>2, <2>3, <2>4, <2>8, <2>10, <2>11, <2>12, <2>13 DEF Enters
  <2> QED  BY <2>14, QueuedKeeps
<1> QED  BY <1>1, <1>5, <1>6 DEF Send

\* The first message of a queue, and what stays.
LEMMA Taken ==
  ASSUME NEW S, NEW q \in Seq(S), q # <<>>
  PROVE  /\ Tail(q) \in Seq(S) /\ Head(q) = q[1] /\ Head(q) \in S
         /\ Len(q) \in Nat \ {0} /\ DOMAIN q = 1..Len(q)
         /\ DOMAIN Tail(q) = 1..(Len(q) - 1)
         /\ \A i \in 1..(Len(q) - 1) : Tail(q)[i] = q[i + 1]
OBVIOUS

\* The task t in the slot takes the first message n of its queue, L messages long: it
\* begins its turn or answers it, or reports that its session could not be created.
Takes(t, n, L, f) ==
  /\ task' \in [Tasks -> Rows] /\ \A u \in Tasks \ {t} : task'[u] = task[u]
  /\ task[t].q # <<>> /\ DOMAIN task[t].q = 1..L /\ DOMAIN task'[t].q = 1..(L - 1)
  /\ n = task[t].q[1] /\ \A i \in 1..(L - 1) : task'[t].q[i] = task[t].q[i + 1]
  /\ Working(t)' => f = "running" /\ task'[t].cur = n
  /\ \/ /\ task[t].pc = "failing" /\ task'[t].pc = "closing" /\ f \in {"error", "dropped"}
     \/ /\ task[t].pc = "idle" /\ task'[t].pc \in {"idle", "cmd", "check"}
        /\ f \in {"running", "done"}
  /\ fate' \in [Msgs -> Fates] /\ fate'[n] = f
  /\ \A k \in Msgs \ {n} : fate'[k] = fate[k]
  /\ UNCHANGED <<slot, call, from, sentTo, panicked>>

LEMMA TakenKeeps ==
  ASSUME SessionInv, NEW t \in Tasks, NEW n \in Msgs, NEW L \in Nat \ {0},
         NEW f \in {"error", "dropped", "running", "done"}, Takes(t, n, L, f)
  PROVE  SessionInv'
<1> USE DEF Takes
<1>1. /\ fate[n] = "queued" /\ sentTo[n] = t /\ Holding(t) /\ slot = t
      /\ \A i \in 1..L : task[t].q[i] \in Msgs
      /\ \A i \in 2..L : task[t].q[i] # n
  BY QueueFacts DEF SessionInv, TasksSound, Queued, Holding, InSlot
<1>2. n \in 1..Len(from) /\ from[n].by \in Clients
  BY <1>1, FromFacts, Numbers DEF SessionInv, CallsSound, Msgs
<1>3. Typed'
  BY DEF SessionInv, Typed
<1>4. TasksSound'
  <2> SUFFICES ASSUME NEW u \in Tasks PROVE TasksSound!(u)'
    BY DEF TasksSound
  <2>1. TasksSound!(u) /\ task[u] \in Rows
    BY DEF SessionInv, TasksSound, Typed
  <2>2. CASE u # t
    <3>1. /\ task'[u] = task[u] /\ task[u].cur \in Msgs \cup {NoMsg}
          /\ \A i \in Queued(u) : task[u].q[i] \in Msgs
      BY <2>2, QueueFacts DEF SessionInv, Rows, Typed
    <3>2. Working(u) => task[u].cur # n
      BY <1>1, <2>1
    <3>3. \A i \in Queued(u) : task[u].q[i] # n
      BY <1>1, <2>1, <2>2
    <3>4. TasksSound!(u)!2'
      BY <2>1, <3>1, <3>2, Numbers DEF Working
    <3>5. TasksSound!(u)!3'
      BY <2>1, <3>1, <3>3 DEF Queued
    <3> QED  BY <2>1, <3>1, <3>4, <3>5 DEF Queued, Closed
  <2>3. CASE u = t
    <3>1. (Closed(u) => task[u].q = <<>>)'
      BY <2>3 DEF Closed
    <3>2. TasksSound!(u)!2'
      BY <1>1, <2>3
    <3>3. ASSUME NEW i \in DOMAIN task'[u].q
          PROVE  /\ i + 1 \in 2..L /\ task'[u].q[i] = task[t].q[i + 1]
                 /\ task'[u].q[i] # n /\ task'[u].q[i] \in Msgs
                 /\ fate[task'[u].q[i]] = "queued" /\ sentTo[task'[u].q[i]] = u
      <4>1. i + 1 \in 2..L /\ i + 1 \in 1..L /\ task'[u].q[i] = task[t].q[i + 1]
        <5>1. i \in 1..(L - 1)
          BY <2>3
        <5> QED  BY <2>3, <5>1
      <4>2. i + 1 \in Queued(u)
        BY <2>3, <4>1 DEF Queued
      <4> QED  BY <1>1, <2>1, <2>3, <4>1, <4>2
    <3>4. \A i \in Queued(u)' : fate'[task'[u].q[i]] = "queued" /\ sentTo'[task'[u].q[i]] = u
      BY <3>3 DEF Queued
    <3>5. \A i, j \in 2..L : i # j => task[t].q[i] # task[t].q[j]
      BY <2>1, <2>3 DEF Queued
    <3>6. \A i, j \in Queued(u)' : i # j => task'[u].q[i] # task'[u].q[j]
      BY <2>3, <3>3, <3>5 DEF Queued
    <3> QED  BY <3>1, <3>2, <3>4, <3>6
  <2> QED  BY <2>2, <2>3
<1>5. CallsSound'
  <2>1. \A d \in Clients : CallsSound!1!(d)'
    BY <1>1, FromFacts DEF SessionInv, CallsSound
  <2>2. ASSUME NEW m \in Msgs PROVE CallsSound!2!(m)' /\ CallsSound!3!(m)'
    BY <1>1, <1>2 DEF SessionInv, CallsSound
  <2>3. ASSUME NEW m \in Msgs, fate'[m] = "queued"
        PROVE  sentTo[m] \in Tasks /\ \E i \in DOMAIN task'[sentTo[m]].q : task'[sentTo[m]].q[i] = m
    <3>1. m # n /\ fate[m] = "queued"
      BY <2>3
    <3>2. PICK u \in Tasks : u = sentTo[m] /\ \E i \in DOMAIN task[u].q : task[u].q[i] = m
      BY <3>1 DEF SessionInv, CallsSound, Queued
    <3>3. CASE u # t
      BY <3>2, <3>3
    <3>4. CASE u = t
      <4>0. PICK i \in DOMAIN task[u].q : task[u].q[i] = m
        BY <3>2
      <4>1. i \in 2..L
        BY <4>0, <3>1, <3>4
      <4>2. i - 1 \in DOMAIN task'[t].q /\ task'[t].q[i - 1] = m
        BY <4>0, <3>4, <4>1
      <4> QED  BY <3>2, <3>4, <4>2
    <3> QED  BY <3>3, <3>4
  <2> QED  BY <2>1, <2>2, <2>3 DEF CallsSound, Queued
<1>6. InSlot'
  <2> SUFFICES ASSUME NEW u \in Tasks, Holding(u)', u # t PROVE FALSE
    BY <1>1 DEF InSlot
  <2>1. Holding(u)
    BY DEF Holding, Closed
  <2> QED  BY <1>1, <2>1 DEF SessionInv, InSlot
<1>7. QueueInOrder'
  <2> SUFFICES ASSUME NEW u \in Tasks, NEW i \in DOMAIN task'[u].q, NEW j \in DOMAIN task'[u].q,
                      i < j, from[task'[u].q[i]].by = from[task'[u].q[j]].by
               PROVE  task'[u].q[i] < task'[u].q[j]
    BY DEF QueueInOrder, Queued
  <2>1. CASE u # t
    <3>1. task'[u].q = task[u].q
      BY <2>1
    <3> QED  BY <3>1 DEF SessionInv, QueueInOrder, Queued
  <2>2. CASE u = t
    <3>1. i + 1 \in DOMAIN task[t].q /\ j + 1 \in DOMAIN task[t].q /\ i + 1 < j + 1
      BY <2>2
    <3>2. task'[u].q[i] = task[t].q[i + 1] /\ task'[u].q[j] = task[t].q[j + 1]
      BY <2>2
    <3>3. from[task[t].q[i + 1]].by = from[task[t].q[j + 1]].by
          => task[t].q[i + 1] < task[t].q[j + 1]
      BY <3>1 DEF SessionInv, QueueInOrder, Queued
    <3> QED  BY <3>2, <3>3
  <2> QED  BY <2>1, <2>2
<1>8. LossSound'
  BY <1>1 DEF SessionInv, LossSound, Handled
<1>9. LostOnlyWithSession'
  <2> SUFFICES ASSUME NEW m \in Msgs, fate'[m] = "dropped", sentTo[m] \notin panicked,
                      NEW k \in Msgs, sentTo[k] = sentTo[m], fate'[k] \in Handled
               PROVE  FALSE
    BY DEF LostOnlyWithSession, Handled
  <2>1. CASE sentTo[m] = t
    BY <1>8, <2>1 DEF LossSound
  <2>2. CASE sentTo[m] # t
    <3>1. fate[m] = "dropped" /\ fate[k] \in Handled
      BY <1>1, <2>2
    <3> QED  BY <3>1 DEF SessionInv, LostOnlyWithSession, Handled
  <2> QED  BY <2>1, <2>2
<1>10. HandledInOrder'
  <2> SUFFICES ASSUME NEW m \in 1..Len(from), NEW k \in 1..Len(from), m < k,
                      from[m].by = from[k].by, fate'[k] \in Handled,
                      fate'[m] \in {"none", "queued"}
               PROVE  FALSE
    BY DEF HandledInOrder, Handled
  <2>1. m \in Msgs /\ k \in Msgs /\ m # n /\ fate[m] = fate'[m]
    BY FromFacts DEF SessionInv
  <2>2. CASE k # n
    BY <2>1, <2>2 DEF SessionInv, HandledInOrder, Handled
  <2>3. CASE k = n /\ fate[m] = "none"
    <3>1. from[m].by \in Clients /\ ~(m > Len(from))
      BY FromFacts DEF SessionInv
    <3>2. CallsSound!2!(m) /\ CallsSound!1!(from[m].by)
      BY <2>1, <3>1, SMTT(60) DEF SessionInv, CallsSound
    <3>3. call[from[m].by].msg = m /\ call[from[m].by].pc \in {"spawn", "insert", "send"}
      BY <2>3, <3>1, <3>2
    <3>4. k <= m
      BY <3>2, <3>3
    <3> QED  BY <3>4
  <2>4. CASE k = n /\ fate[m] = "queued"
    <3>1. PICK u \in Tasks : u = sentTo[m] /\ \E i \in DOMAIN task[u].q : task[u].q[i] = m
      BY <2>1, <2>4 DEF SessionInv, CallsSound, Queued
    <3>2. Holding(u)
      BY <3>1 DEF Holding
    <3>3. u = t
      BY <3>2, <1>1 DEF SessionInv, InSlot
    <3>4. PICK i \in DOMAIN task[t].q : task[t].q[i] = m
      BY <3>1, <3>3
    <3>5. 1 < i /\ 1 \in DOMAIN task[t].q
      BY <2>1, <3>4
    <3>6. n < m
      BY <2>4, <3>4, <3>5 DEF SessionInv, QueueInOrder, Queued
    <3> QED  BY <2>4, <3>6
  <2> QED  BY <2>1, <2>2, <2>3, <2>4
<1> QED  BY <1>3, <1>4, <1>5, <1>6, <1>7, <1>8, <1>9, <1>10 DEF SessionInv

LEMMA ReceiveStep ==
  ASSUME SessionInv, NEW t \in Tasks, Receive(t)
  PROVE  SessionInv'
<1> DEFINE q == task[t].q
<1>1. /\ q \in Seq(Msgs) /\ q # <<>> /\ task[t].pc = "idle" /\ task[t] \in Rows
      /\ task \in [Tasks -> Rows] /\ fate \in [Msgs -> Fates]
  BY QueueFacts DEF SessionInv, Typed, Receive
<1>2. PICK n \in Msgs, L \in Nat \ {0} :
        /\ Tail(q) \in Seq(Msgs) /\ Head(q) = n /\ q[1] = n /\ L = Len(q)
        /\ DOMAIN q = 1..L /\ DOMAIN Tail(q) = 1..(L - 1)
        /\ \A i \in 1..(L - 1) : Tail(q)[i] = q[i + 1]
  BY <1>1, Taken
<1>3. UNCHANGED <<slot, call, from, sentTo, panicked>>
  BY SMTT(60) DEF Receive
<1>4. PICK p \in {"idle", "cmd", "check"}, c \in Msgs \cup {NoMsg}, f \in {"running", "done"} :
        /\ task' = [task EXCEPT ![t].q = Tail(q), ![t].pc = p, ![t].cur = c]
        /\ fate' = [fate EXCEPT ![n] = f] /\ (p # "idle" => f = "running" /\ c = n)
  <2>1. CASE IsTurn(n)
    BY <1>2, <2>1 DEF Receive
  <2>2. CASE ~IsTurn(n)
    <3>1. task' = [task EXCEPT ![t].q = Tail(q)] /\ fate' = [fate EXCEPT ![n] = "done"]
      BY <1>2, <2>2 DEF Receive
    <3> HIDE DEF q
    <3>2. task[t].cur \in Msgs \cup {NoMsg}
      BY <1>1 DEF Rows
    <3>3. task' = [task EXCEPT ![t].q = Tail(q), ![t].pc = "idle", ![t].cur = task[t].cur]
      BY <1>1, <3>1 DEF Rows
    <3> QED  BY <3>1, <3>2, <3>3
  <2> QED  BY <2>1, <2>2
<1>5. /\ task' \in [Tasks -> Rows] /\ \A u \in Tasks \ {t} : task'[u] = task[u]
      /\ task'[t].q = Tail(q) /\ task'[t].pc = p /\ task'[t].cur = c
  <2> HIDE DEF q
  <2> QED  BY <1>1, <1>2, <1>4 DEF Rows, TaskPcs
<1>6. fate' \in [Msgs -> Fates] /\ fate'[n] = f /\ \A k \in Msgs \ {n} : fate'[k] = fate[k]
  BY <1>1, <1>4 DEF Fates
<1>7. Working(t)' => f = "running" /\ task'[t].cur = n
  BY <1>4, <1>5 DEF Working
<1>8. /\ task[t].q # <<>> /\ DOMAIN task[t].q = 1..L /\ DOMAIN task'[t].q = 1..(L - 1)
      /\ n = task[t].q[1] /\ \A i \in 1..(L - 1) : task'[t].q[i] = task[t].q[i + 1]
  BY <1>1, <1>2, <1>5
<1>9. \/ /\ task[t].pc = "failing" /\ task'[t].pc = "closing"
         /\ f \in {"error", "dropped"}
      \/ /\ task[t].pc = "idle" /\ task'[t].pc \in {"idle", "cmd", "check"}
         /\ f \in {"running", "done"}
  BY <1>1, <1>5
<1> HIDE DEF q
<1>10. Takes(t, n, L, f)
  BY <1>3, <1>5, <1>6, <1>7, <1>8, <1>9 DEF Takes
<1> QED  BY <1>10, TakenKeeps

\* A step after which the task t works no more, and what it held either stays in its
\* queue or gets its last fate.
LetsGo(t) ==
  /\ task' \in [Tasks -> Rows] /\ \A u \in Tasks \ {t} : task'[u] = task[u]
  /\ ~Working(t)' /\ ~Closed(t) /\ (task'[t].q = task[t].q \/ task'[t].q = <<>>)
  /\ Closed(t)' => task'[t].q = <<>>
  /\ fate' \in [Msgs -> Fates]
  /\ \A m \in Msgs : \/ fate'[m] = fate[m]
                    \/ /\ sentTo[m] = t /\ fate[m] \in {"queued", "running"}
                       /\ fate'[m] \in Settled
  /\ \A i \in DOMAIN task'[t].q : fate'[task'[t].q[i]] = "queued"
  /\ \A m \in Msgs : fate'[m] = "queued" /\ sentTo[m] = t => task'[t].q = task[t].q
  /\ \/ /\ task[t].pc \in {"failing", "closing"} /\ task'[t].pc \in {"closing", "gone"}
        /\ \A m \in Msgs : fate'[m] # fate[m] => fate'[m] = "dropped"
     \/ /\ task[t].pc \notin {"none", "new", "failing", "closing"}
        /\ task'[t].pc \in {"idle", "gone"}
        /\ \A m \in Msgs : fate'[m] # fate[m] =>
                          fate[m] = "running" /\ fate'[m] \in {"done", "stopped"}
     \/ /\ Working(t) /\ task'[t].pc = "gone" /\ t \in panicked'
        /\ \A m \in Msgs : fate'[m] # fate[m] => fate'[m] = "dropped"
  /\ panicked \subseteq panicked' /\ UNCHANGED <<slot, call, from, sentTo>>

LEMMA LeftKeeps ==
  ASSUME SessionInv, NEW t \in Tasks, LetsGo(t)
  PROVE  SessionInv'
<1> USE DEF LetsGo
<1>1. Typed'
  BY DEF SessionInv, Typed
<1>2. TasksSound'
  <2> SUFFICES ASSUME NEW u \in Tasks PROVE TasksSound!(u)'
    BY DEF TasksSound
  <2>1. TasksSound!(u) /\ task[u] \in Rows /\ \A i \in Queued(u) : task[u].q[i] \in Msgs
    BY QueueFacts DEF SessionInv, TasksSound, Typed
  <2>2. CASE u # t
    <3>1. TasksSound!(u)!2'
      BY <2>1, <2>2, Numbers DEF Working, Rows
    <3>2. TasksSound!(u)!3'
      BY <2>1, <2>2 DEF Queued
    <3> QED  BY <2>1, <2>2, <3>1, <3>2 DEF Queued, Closed
  <2>3. CASE u = t
    <3>1. TasksSound!(u)!2' /\ TasksSound!(u)!1'
      BY <2>3
    <3>2. TasksSound!(u)!3'
      BY <2>1, <2>3 DEF Queued
    <3>3. TasksSound!(u)!4'
      BY <2>1, <2>3 DEF Queued
    <3> QED  BY <3>1, <3>2, <3>3
  <2> QED  BY <2>2, <2>3
<1>3. CallsSound'
  <2>1. \A d \in Clients : CallsSound!1!(d)'
    BY FromFacts DEF SessionInv, CallsSound
  <2>2. ASSUME NEW m \in Msgs PROVE CallsSound!2!(m)' /\ CallsSound!3!(m)'
    BY DEF SessionInv, CallsSound, Settled
  <2>3. ASSUME NEW m \in Msgs PROVE CallsSound!4!(m)'
    BY DEF SessionInv, CallsSound, Queued, Settled
  <2> QED  BY <2>1, <2>2, <2>3 DEF CallsSound
<1>4. InSlot'
  <2> SUFFICES ASSUME NEW u \in Tasks, Holding(u)' PROVE slot = u
    BY DEF InSlot
  <2>1. Holding(u)
    BY DEF Holding, Closed, Working
  <2> QED  BY <2>1 DEF SessionInv, InSlot
<1>5. QueueInOrder'
  BY DEF SessionInv, QueueInOrder, Queued
<1>6. LossSound' /\ LostOnlyWithSession'
  <2>1. ASSUME NEW m \in Msgs, fate'[m] = "dropped"
        PROVE  sentTo[m] \in Tasks /\ task'[sentTo[m]].pc \in {"closing", "gone"}
    BY <2>1 DEF SessionInv, LossSound, Handled, Closed
  <2>2. ASSUME NEW m \in Msgs, fate'[m] \in Handled
        PROVE  /\ sentTo[m] \in Tasks
               /\ task'[sentTo[m]].pc \notin {"none", "new", "failing", "closing"}
    BY <2>2 DEF SessionInv, LossSound, Handled
  <2>3. LostOnlyWithSession'
    BY DEF SessionInv, LossSound, LostOnlyWithSession, Handled
  <2> QED  BY <2>1, <2>2, <2>3 DEF LossSound
<1>7. HandledInOrder'
  BY FromFacts DEF SessionInv, HandledInOrder, Handled, Settled
<1> QED  BY <1>1, <1>2, <1>3, <1>4, <1>5, <1>6, <1>7 DEF SessionInv

LEMMA ReportStep ==
  ASSUME SessionInv, NEW t \in Tasks, ReportFailure(t)
  PROVE  SessionInv'
<1> DEFINE q == task[t].q
<1>1. /\ q \in Seq(Msgs) /\ task[t].pc = "failing" /\ task[t] \in Rows
      /\ task \in [Tasks -> Rows] /\ fate \in [Msgs -> Fates]
  BY QueueFacts DEF SessionInv, Typed, ReportFailure
<1>2. UNCHANGED <<slot, call, from, sentTo, panicked>>
  BY DEF ReportFailure
<1>3. CASE q = <<>>
  <2>1. fate' = fate /\ task' = [task EXCEPT ![t].pc = "closing", ![t].q = q]
    BY <1>3 DEF ReportFailure
  <2> HIDE DEF q
  <2>2. /\ task' \in [Tasks -> Rows] /\ \A u \in Tasks \ {t} : task'[u] = task[u]
        /\ task'[t].q = q /\ task'[t].pc = "closing"
    BY <1>1, <2>1 DEF Rows, TaskPcs
  <2>3. task'[t].q = task[t].q /\ task'[t].q = <<>>
    BY <1>3, <2>2 DEF q
  <2>4. \A i \in DOMAIN task'[t].q : fate'[task'[t].q[i]] = "queued"
    BY <2>3
  <2>5. LetsGo(t)
    BY <1>1, <1>2, <2>1, <2>2, <2>3, <2>4 DEF LetsGo, Working, Closed
  <2> QED  BY <2>5, LeftKeeps
<1>4. CASE q # <<>>
  <2>1. PICK n \in Msgs, L \in Nat \ {0} :
          /\ Tail(q) \in Seq(Msgs) /\ Head(q) = n /\ q[1] = n /\ L = Len(q)
          /\ DOMAIN q = 1..L /\ DOMAIN Tail(q) = 1..(L - 1)
          /\ \A i \in 1..(L - 1) : Tail(q)[i] = q[i + 1]
    BY <1>1, <1>4, Taken
  <2>2. task' = [task EXCEPT ![t].pc = "closing", ![t].q = Tail(q)]
    BY <1>4 DEF ReportFailure
  <2>3. PICK f \in {"error", "dropped"} : fate' = [fate EXCEPT ![n] = f]
    BY <1>4, <2>1 DEF ReportFailure
  <2>4. task[t].q # <<>> /\ DOMAIN task[t].q = 1..L /\ n = task[t].q[1]
    BY <1>4, <2>1
  <2>5. \A i \in 1..(L - 1) : Tail(q)[i] = task[t].q[i + 1]
    BY <2>1
  <2> HIDE DEF q
  <2>6. /\ task' \in [Tasks -> Rows] /\ \A u \in Tasks \ {t} : task'[u] = task[u]
        /\ task'[t].q = Tail(q) /\ task'[t].pc = "closing"
    BY <1>1, <2>1, <2>2 DEF Rows, TaskPcs
  <2>7. DOMAIN task'[t].q = 1..(L - 1) /\ \A i \in 1..(L - 1) : task'[t].q[i] = task[t].q[i + 1]
    BY <2>1, <2>5, <2>6
  <2>8. fate' \in [Msgs -> Fates] /\ fate'[n] = f /\ \A k \in Msgs \ {n} : fate'[k] = fate[k]
    BY <1>1, <2>3 DEF Fates
  <2>9. Takes(t, n, L, f)
    BY <1>1, <1>2, <2>4, <2>6, <2>7, <2>8 DEF Takes, Working
  <2> QED  BY <2>9, TakenKeeps
<1> QED  BY <1>3, <1>4

\* The other steps of a task: its session is closed, or ends, or one of its turns does.
LEMMA LeftSteps ==
  ASSUME SessionInv, NEW t \in Tasks,
         \/ CloseFailed(t) \/ End(t) \/ Reply(t)
         \/ Check(t) /\ task[t].flag
  PROVE  SessionInv'
<1>1. /\ task[t] \in Rows /\ task \in [Tasks -> Rows] /\ fate \in [Msgs -> Fates]
      /\ TasksSound!(t) /\ \A i \in DOMAIN task[t].q : task[t].q[i] \in Msgs
  BY QueueFacts DEF SessionInv, Typed, TasksSound, Queued
<1>2. \A m \in Msgs : fate[m] = "queued" /\ sentTo[m] = t =>
        \E i \in DOMAIN task[t].q : task[t].q[i] = m
  BY DEF SessionInv, CallsSound, Queued
<1>3. CASE CloseFailed(t)
  <2>1. /\ task' = [task EXCEPT ![t].pc = "gone", ![t].q = <<>>] /\ task[t].pc = "closing"
        /\ fate' = [m \in Msgs |-> IF \E i \in 1..Len(task[t].q) : task[t].q[i] = m
                                    THEN "dropped" ELSE fate[m]]
        /\ UNCHANGED <<slot, call, from, sentTo, panicked>>
    BY <1>3 DEF CloseFailed
  <2>2. /\ task' \in [Tasks -> Rows] /\ \A u \in Tasks \ {t} : task'[u] = task[u]
        /\ task'[t].q = <<>> /\ task'[t].pc = "gone"
    <3>1. <<>> \in Seq(Msgs)
      OBVIOUS
    <3> QED  BY <1>1, <2>1, <3>1 DEF Rows, TaskPcs
  <2>3. DOMAIN task[t].q = 1..Len(task[t].q)
    BY QueueFacts DEF SessionInv, Queued
  <2>4. fate' \in [Msgs -> Fates]
    BY <1>1, <2>1 DEF Fates
  <2>5. ASSUME NEW m \in Msgs
        PROVE  \/ fate'[m] = fate[m]
               \/ sentTo[m] = t /\ fate[m] = "queued" /\ fate'[m] = "dropped"
    BY <1>1, <2>1, <2>3 DEF Queued
  <2>6. \A m \in Msgs : ~(fate'[m] = "queued" /\ sentTo[m] = t)
    BY <1>2, <2>1, <2>3, <2>5
  <2>7. \A i \in DOMAIN task'[t].q : fate'[task'[t].q[i]] = "queued"
    BY <2>2
  <2>8. \A m \in Msgs : \/ fate'[m] = fate[m]
                         \/ /\ sentTo[m] = t /\ fate[m] \in {"queued", "running"}
                            /\ fate'[m] \in Settled
    BY <2>5 DEF Settled
  <2>9. \A m \in Msgs : fate'[m] # fate[m] => fate'[m] = "dropped"
    BY <2>5
  <2>10. UNCHANGED <<slot, call, from, sentTo, panicked>> /\ task[t].pc = "closing"
    BY <2>1
  <2>11. LetsGo(t)
    BY <2>2, <2>4, <2>6, <2>7, <2>8, <2>9, <2>10 DEF LetsGo, Working, Closed
  <2> QED  BY <2>11, LeftKeeps
<1>4. CASE End(t)
  <2>1. /\ task' = [task EXCEPT ![t].pc = "gone"] /\ task[t].pc = "idle" /\ task[t].q = <<>>
        /\ fate' = fate /\ UNCHANGED <<slot, call, from, sentTo, panicked>>
    BY <1>4 DEF End
  <2>2. /\ task' \in [Tasks -> Rows] /\ \A u \in Tasks \ {t} : task'[u] = task[u]
        /\ task'[t].q = task[t].q /\ task'[t].pc = "gone" /\ task'[t].q = <<>>
    BY <1>1, <2>1 DEF Rows, TaskPcs
  <2>3. \A i \in DOMAIN task'[t].q : fate'[task'[t].q[i]] = "queued"
    BY <2>2
  <2>4. LetsGo(t)
    BY <1>1, <2>1, <2>2, <2>3 DEF LetsGo, Working, Closed
  <2> QED  BY <2>4, LeftKeeps
<1>5. ASSUME NEW how \in {"done", "stopped"}, NEW flag \in BOOLEAN, Working(t),
             EndTurn(t, how, flag)
      PROVE  SessionInv'
  <2>1. PICK n \in Msgs : n = task[t].cur /\ fate[n] = "running" /\ sentTo[n] = t
    BY <1>1, <1>5
  <2>2. /\ task' = [task EXCEPT ![t].pc = "idle", ![t].cur = NoMsg, ![t].flag = flag]
        /\ fate' = [fate EXCEPT ![n] = how] /\ UNCHANGED <<slot, call, from, sentTo, panicked>>
    BY <1>5, <2>1 DEF EndTurn
  <2>3. /\ task' \in [Tasks -> Rows] /\ \A u \in Tasks \ {t} : task'[u] = task[u]
        /\ task'[t].q = task[t].q /\ task'[t].pc = "idle"
    BY <1>1, <2>2 DEF Rows, TaskPcs
  <2>4. /\ fate' \in [Msgs -> Fates] /\ fate'[n] = how
        /\ \A k \in Msgs \ {n} : fate'[k] = fate[k]
    BY <1>1, <2>2 DEF Fates
  <2>5. \A i \in DOMAIN task'[t].q : fate'[task'[t].q[i]] = "queued"
    BY <1>1, <2>1, <2>3, <2>4 DEF Queued
  <2>6. \A m \in Msgs : \/ fate'[m] = fate[m]
                         \/ /\ sentTo[m] = t /\ fate[m] \in {"queued", "running"}
                            /\ fate'[m] \in Settled
    BY <2>1, <2>4 DEF Settled
  <2>7. \A m \in Msgs :
          fate'[m] # fate[m] => fate[m] = "running" /\ fate'[m] \in {"done", "stopped"}
    BY <2>1, <2>4
  <2>8. /\ task[t].pc \in {"cmd", "check", "llm", "ask"}
        /\ UNCHANGED <<slot, call, from, sentTo, panicked>>
    BY <1>5, <2>2 DEF Working
  <2>9. fate' \in [Msgs -> Fates]
    BY <2>4
  <2>10. LetsGo(t)
    BY <2>3, <2>5, <2>6, <2>7, <2>8, <2>9 DEF LetsGo, Working, Closed
  <2> QED  BY <2>10, LeftKeeps
<1>6. CASE Reply(t)
  <2>1. task[t].flag \in BOOLEAN /\ Working(t)
    BY <1>1, <1>6 DEF Reply, Working, Rows
  <2> QED  BY <1>5, <1>6, <2>1 DEF Reply
<1>7. CASE Check(t) /\ task[t].flag
  BY <1>5, <1>7 DEF Check, Working
<1> QED  BY <1>3, <1>4, <1>6, <1>7

\* A panic ends the task and drops what it holds.
LEMMA PanicStep ==
  ASSUME SessionInv, NEW t \in Tasks, Panic(t)
  PROVE  SessionInv'
<1>1. /\ task[t] \in Rows /\ task \in [Tasks -> Rows] /\ fate \in [Msgs -> Fates]
      /\ TasksSound!(t) /\ DOMAIN task[t].q = 1..Len(task[t].q)
      /\ \A i \in DOMAIN task[t].q : task[t].q[i] \in Msgs
  BY QueueFacts DEF SessionInv, Typed, TasksSound, Queued
<1>2. Working(t)
  BY DEF Panic, Working
<1>3. /\ task' = [task EXCEPT ![t].pc = "gone", ![t].q = <<>>, ![t].cur = NoMsg]
      /\ panicked' = panicked \cup {t} /\ UNCHANGED <<slot, call, from, sentTo>>
  BY DEF Panic
<1>4. /\ task' \in [Tasks -> Rows] /\ \A u \in Tasks \ {t} : task'[u] = task[u]
      /\ task'[t].q = <<>> /\ task'[t].pc = "gone"
  <2>1. <<>> \in Seq(Msgs)
    OBVIOUS
  <2> QED  BY <1>1, <1>3, <2>1 DEF Rows, TaskPcs
<1> DEFINE InHand(m) == m = task[t].cur \/ \E i \in DOMAIN task[t].q : task[t].q[i] = m
<1>5. fate' = [m \in Msgs |-> IF InHand(m) THEN "dropped" ELSE fate[m]]
  BY <1>1 DEF Panic
<1>6. \A m \in Msgs : fate[m] = "queued" /\ sentTo[m] = t => InHand(m)
  BY DEF SessionInv, CallsSound, Queued
<1>7. \A m \in Msgs : InHand(m) => sentTo[m] = t /\ fate[m] \in {"queued", "running"}
  BY <1>1, <1>2 DEF Queued
<1> HIDE DEF InHand
<1>8. fate' \in [Msgs -> Fates]
  BY <1>1, <1>5 DEF Fates
<1>9. \A m \in Msgs : \/ fate'[m] = fate[m] /\ ~InHand(m)
                      \/ /\ sentTo[m] = t /\ fate[m] \in {"queued", "running"}
                         /\ fate'[m] = "dropped"
  BY <1>5, <1>7
<1>10. \A m \in Msgs : ~(fate'[m] = "queued" /\ sentTo[m] = t)
  BY <1>6, <1>9
<1>11. LetsGo(t)
  BY <1>2, <1>3, <1>4, <1>8, <1>9, <1>10 DEF LetsGo, Working, Closed, Settled
<1> QED  BY <1>11, LeftKeeps

LEMMA SessionInvInit ==
  Init => SessionInv
<1> SUFFICES ASSUME Init PROVE SessionInv
  OBVIOUS
<1> USE SessionsAssumption DEF Init
<1>1. Typed
  BY DEF Typed, Rows, Calls, NoCall, TaskPcs, CallPcs, Fates, NoTask, NoMsg
<1>2. TasksSound /\ InSlot /\ QueueInOrder
  BY DEF TasksSound, Working, Closed, Queued, InSlot, Holding, QueueInOrder, NoCall
<1>3. CallsSound
  BY Numbers DEF CallsSound, NoCall, Msgs
<1>4. LossSound /\ LostOnlyWithSession /\ HandledInOrder
  BY DEF LossSound, Handled, LostOnlyWithSession, HandledInOrder
<1> QED  BY <1>1, <1>2, <1>3, <1>4 DEF SessionInv

\* Every step of the pool keeps the invariant.
LEMMA SessionInvStep ==
  SessionInv /\ [Next]_vars => SessionInv'
<1> SUFFICES ASSUME SessionInv, [Next]_vars PROVE SessionInv'
  OBVIOUS
<1>1. CASE UNCHANGED vars
  BY <1>1 DEF vars, SessionInv, Typed, TasksSound, CallsSound, InSlot, QueueInOrder, LossSound,
              LostOnlyWithSession, HandledInOrder, Holding, Working, Closed, Queued, Handled
<1>2. ASSUME NEW c \in Clients, Dispatch(c) \/ Control(c) \/ CallerStep(c) PROVE SessionInv'
  BY <1>2, BeginSteps, SpawnStep, InsertSteps, SendStep DEF CallerStep
<1>3. CASE Interrupt
  BY <1>3, QuietSteps
<1>4. ASSUME NEW t \in Tasks,
             TaskStep(t) \/ Reply(t) \/ UseTools(t) \/ Answer(t) \/ Panic(t)
      PROVE  SessionInv'
  <2>1. CASE Check(t)
    BY <2>1, QuietSteps, LeftSteps
  <2>2. CASE Create(t) \/ UseTools(t) \/ Answer(t)
    BY <2>2, QuietSteps
  <2>3. CASE Receive(t) \/ ReportFailure(t) \/ Panic(t)
    BY <2>3, ReceiveStep, ReportStep, PanicStep
  <2>4. CASE CloseFailed(t) \/ End(t) \/ Reply(t)
    BY <2>4, LeftSteps
  <2> QED  BY <1>4, <2>1, <2>2, <2>3, <2>4 DEF TaskStep
<1> QED  BY <1>1, <1>2, <1>3, <1>4 DEF Next

\* Sessions: the invariant holds of the pool alone, whatever its clients call.
THEOREM SessionInvInvariant ==
  Spec => []SessionInv
<1>1. Init => SessionInv
  BY SessionInvInit
<1>2. SessionInv /\ [Next]_vars => SessionInv'
  BY SessionInvStep
<1> QED  BY <1>1, <1>2, PTL DEF Spec

\* Stdio: its loop takes no step the pool does not allow its clients.
LEMMA StdioStep ==
  [StdioNext]_svars => [Next]_vars
<1> SUFFICES ASSUME [StdioNext]_svars PROVE [Next]_vars
  OBVIOUS
<1> USE StdioAssumption
<1>1. CASE UNCHANGED svars
  BY <1>1 DEF svars
<1>2. CASE ReadTurn \/ ReadControl \/ InitTurnDone
  BY <1>2 DEF ReadTurn, ReadControl, InitTurnDone, Next
<1>3. CASE Dispatched \/ ControlDone \/ TurnDone
  BY <1>3 DEF Dispatched, ControlDone, TurnDone
<1>4. CASE ReadToolResponse \/ ReadInterrupt \/ Elsewhere
  BY <1>4 DEF ReadToolResponse, ReadInterrupt, Elsewhere, Next
<1>5. CASE \E c \in Clients : PollClient(c)
  BY <1>5 DEF PollClient, Next
<1>6. CASE \E t \in Tasks : PollTask(t)
  BY <1>6 DEF PollTask, Next
<1> QED  BY <1>1, <1>2, <1>3, <1>4, <1>5, <1>6 DEF StdioNext, LoopStep

\* Stdio: the transport over the pool is a behaviour of the pool.
THEOREM StdioIsSessions ==
  StdioSpec => Spec
<1>1. StdioInit => Init
  BY DEF StdioInit
<1>2. [StdioNext]_svars => [Next]_vars
  BY StdioStep
<1> QED  BY <1>1, <1>2, PTL DEF StdioSpec, Spec

LEMMA OneTaskHolds ==
  SessionInv => OneSession
BY Numbers DEF SessionInv, InSlot, OneSession

\* Sessions: at most one task of a key holds messages or runs a turn, whatever spawns
\* and sends race, and each client's messages are handled in the order it sent them.
THEOREM OneConversation ==
  StdioSpec => []OrderedInOne
<1>1. SessionInv => OrderedInOne
  BY OneTaskHolds DEF SessionInv, OrderedInOne
<1> QED  BY <1>1, SessionInvInvariant, StdioIsSessions, PTL

\* Sessions: a message is dropped only by a task whose session could not be created or
\* whose turn panicked; one that works on, whatever its turns answer, loses none.
THEOREM WorkingSessionLosesNothing ==
  StdioSpec => []LostOnlyWithSession
<1>1. SessionInv => LostOnlyWithSession
  BY DEF SessionInv
<1> QED  BY <1>1, SessionInvInvariant, StdioIsSessions, PTL

-----------------------------------------------------------------------------
(* The files that sessions share.                                          *)

Acts == [do : Steps, of : Paths \cup Ids \cup {NoId}, version : Nat, warned : BOOLEAN]

FilesTypes ==
  /\ clock \in Nat /\ disk \in [Paths -> Nat] /\ DOMAIN tracked = Sessions
  /\ \A s \in Sessions : \A p \in DOMAIN tracked[s] : p \in Paths /\ tracked[s][p] \in Nat
  /\ seen \in [Sessions -> [Paths -> Nat]] /\ act \in [Sessions -> Acts]
  /\ script \in [Ids -> SUBSET (Ids \cup {NoId})] /\ own \in [Sessions -> SUBSET Ids]
  /\ current \in [Sessions -> Ids \cup {NoId}]
  /\ talk \in [Sessions -> SUBSET (Ids \cup {NoId})]
  /\ unknown \in [Sessions -> SUBSET Ids]
  /\ index = Torn \/ index \in SUBSET Ids

\* A tracked mtime that is still the file's says that the session has seen its content,
\* and so does the guard's when an edit or a write goes on without a warning.
GuardSound ==
  /\ \A p \in Paths : disk[p] <= clock
  /\ \A s \in Sessions : act[s].version <= clock
  /\ \A s \in Sessions : \A p \in DOMAIN tracked[s] :
       /\ tracked[s][p] <= clock
       /\ tracked[s][p] # 0 /\ tracked[s][p] = disk[p] => seen[s][p] = disk[p]
  /\ \A s \in Sessions : act[s].do \in {"read", "edit", "write", "fill"} => act[s].of \in Paths
  /\ \A s \in Sessions :
       act[s].do \in {"edit", "write"} /\ ~act[s].warned /\ act[s].version # 0
       => seen[s][act[s].of] = act[s].version

\* The history of a session is that of the conversation it has named.
HistoriesApart ==
  /\ \A s \in Sessions : talk[s] \subseteq {current[s]}
  /\ \A s \in Sessions : act[s].do = "save" => act[s].of = current[s]

\* Every id is known to whoever it was created for, and a session that may write the
\* index knows all ids but those it could not know.
IdsKnown ==
  /\ saved \subseteq created /\ excused \subseteq created /\ created \subseteq Ids
  /\ Listed \subseteq created
  /\ \A s \in Sessions :
       /\ own[s] \subseteq created /\ unknown[s] \subseteq created
       /\ current[s] \in created \cup {NoId}
       /\ act[s].do \in {"save", "list", "index"} => act[s].of \in created
       /\ act[s].do # "closed" => created \subseteq own[s] \cup unknown[s]

\* What was saved is in the index, or lost with an excuse; a torn index is being written.
IndexSound ==
  /\ index # Torn => saved \ excused \subseteq index
  /\ index = Torn => saved \subseteq excused \/ \E s \in Sessions : act[s].do = "index"

FilesInv == FilesTypes /\ GuardSound /\ HistoriesApart /\ TranscriptsApart /\ IdsKnown /\ IndexSound

LEMMA FilesSteps ==
  ASSUME [FilesNext]_filevars
  PROVE  \/ \E s \in Sessions : \E p \in Paths :
              ReadStat(s, p) \/ Guard(s, p, "write") \/ Guard(s, p, "edit")
         \/ \E s \in Sessions :
              \/ ReadBody(s) \/ Patch(s) \/ TruncateFile(s) \/ FillFile(s) \/ WriteFails(s)
              \/ OpenSession(s) \/ Turn(s) \/ Save(s) \/ FillScript(s)
              \/ TruncateIndex(s) \/ FillIndex(s) \/ CommandFails(s)
         \/ \E s \in Sessions : \E id \in Ids : New(s, id) \/ Load(s, id)
         \/ \E p \in Paths : Change(p)
         \/ Crash \/ UNCHANGED filevars
  BY DEF FilesNext, SessionStep

LEMMA ActsTyped ==
  /\ Idle \in Acts /\ Ended \in Acts
  /\ \A do \in Steps, of \in Paths \cup Ids \cup {NoId}, version \in Nat, warned \in BOOLEAN :
       /\ Act(do, of, version, warned) \in Acts
       /\ Act(do, of, version, warned).do = do /\ Act(do, of, version, warned).of = of
       /\ Act(do, of, version, warned).version = version
       /\ Act(do, of, version, warned).warned = warned
  /\ \A a \in Acts : \A do \in Steps : [a EXCEPT !.do = do] \in Acts
  /\ Idle.do = "idle" /\ Ended.do = "closed" /\ Idle.version = 0 /\ Ended.version = 0
  BY DEF Idle, Ended, Act, Acts, Steps

\* One operation of one session: it begins, goes on, or ends.
LEMMA ActSteps ==
  ASSUME FilesTypes, NEW s \in Sessions
  PROVE  /\ \A a \in Acts : act' = [act EXCEPT ![s] = a] =>
              /\ act' \in [Sessions -> Acts] /\ act'[s] = a
              /\ \A t \in Sessions \ {s} : act'[t] = act[t]
         /\ \A do \in Steps : Go(s, do) =>
              /\ act' \in [Sessions -> Acts] /\ act'[s].do = do /\ act'[s].of = act[s].of
              /\ act'[s].version = act[s].version /\ act'[s].warned = act[s].warned
              /\ \A t \in Sessions \ {s} : act'[t] = act[t]
         /\ EndAct(s) => /\ act' \in [Sessions -> Acts] /\ act'[s] = Idle
                      /\ \A t \in Sessions \ {s} : act'[t] = act[t]
<1>1. ASSUME NEW a \in Acts, act' = [act EXCEPT ![s] = a]
      PROVE  /\ act' \in [Sessions -> Acts] /\ act'[s] = a
             /\ \A t \in Sessions \ {s} : act'[t] = act[t]
  BY <1>1 DEF FilesTypes
<1>2. ASSUME NEW do \in Steps, Go(s, do)
      PROVE  /\ act' \in [Sessions -> Acts] /\ act'[s].do = do /\ act'[s].of = act[s].of
             /\ act'[s].version = act[s].version /\ act'[s].warned = act[s].warned
             /\ \A t \in Sessions \ {s} : act'[t] = act[t]
  <2>1. act[s] \in Acts /\ [act[s] EXCEPT !.do = do] \in Acts
    BY ActsTyped DEF FilesTypes
  <2>2. act' = [act EXCEPT ![s] = [act[s] EXCEPT !.do = do]]
    BY <1>2 DEF Go
  <2>3. LET a == [act[s] EXCEPT !.do = do] IN
        a.do = do /\ a.of = act[s].of /\ a.version = act[s].version /\ a.warned = act[s].warned
    BY <2>1 DEF Acts
  <2> QED
    BY <1>1, <2>1, <2>2, <2>3
<1>3. EndAct(s) => act' = [act EXCEPT ![s] = Idle]
  BY DEF EndAct
<1> QED
  BY <1>1, <1>2, <1>3, ActsTyped

LEMMA FilesTypesStep ==
  ASSUME FilesTypes, GuardSound, HistoriesApart, IdsKnown, [FilesNext]_filevars
  PROVE  FilesTypes'
<1> USE DEF filevars, tools, names, past
<1>1. ASSUME NEW s \in Sessions, NEW p \in Paths,
             ReadStat(s, p) \/ Guard(s, p, "write") \/ Guard(s, p, "edit")
      PROVE  FilesTypes'
  <2>1. \E a \in Acts : act' = [act EXCEPT ![s] = a]
    <3>1. disk[p] \in Nat /\ (disk[p] # 0 /\ tracked[s][p] # disk[p]) \in BOOLEAN
      BY DEF FilesTypes
    <3>2. CASE ReadStat(s, p)
      BY <3>1, <3>2, ActsTyped DEF ReadStat, Steps
    <3>3. CASE Guard(s, p, "write")
      BY <3>1, <3>3, ActsTyped DEF Guard, Steps
    <3>4. CASE Guard(s, p, "edit")
      BY <3>1, <3>4, ActsTyped DEF Guard, Steps
    <3> QED
      BY <1>1, <3>2, <3>3, <3>4
  <2>2. act' \in [Sessions -> Acts]
    BY <2>1, ActSteps
  <2> QED
    BY <1>1, <2>2 DEF ReadStat, Guard, FilesTypes
<1>2. ASSUME NEW s \in Sessions, ReadBody(s)
      PROVE  FilesTypes'
  <2> DEFINE p == act[s].of
  <2>1. act' \in [Sessions -> Acts] /\ p \in Paths /\ act[s].version \in Nat
    BY <1>2, ActSteps DEF ReadBody, In, GuardSound, FilesTypes, Acts
  <2>2. seen' \in [Sessions -> [Paths -> Nat]]
    <3>1. seen' = seen \/ seen' = [seen EXCEPT ![s][p] = disk[p]]
      BY <1>2 DEF ReadBody
    <3>2. disk[p] \in Nat
      BY <2>1 DEF FilesTypes
    <3>3. seen \in [Sessions -> [Paths -> Nat]] /\ p \in Paths
      BY <2>1 DEF FilesTypes
    <3> HIDE DEF p
    <3>4. seen' = [seen EXCEPT ![s][p] = disk[p]] => seen'[s] = [seen[s] EXCEPT ![p] = disk[p]]
                                                     /\ \A t \in Sessions \ {s} : seen'[t] = seen[t]
      BY <3>3
    <3>5. [seen[s] EXCEPT ![p] = disk[p]] \in [Paths -> Nat]
      BY <3>2, <3>3
    <3> QED
      BY <3>1, <3>3, <3>4, <3>5
  <2>3. /\ DOMAIN tracked' = Sessions
        /\ \A t \in Sessions : \A q \in DOMAIN tracked'[t] : q \in Paths /\ tracked'[t][q] \in Nat
    <3>1. CASE disk[p] = 0
      BY <1>2, <3>1 DEF ReadBody, FilesTypes
    <3>2. CASE disk[p] # 0
      <4>1. Track(s, p, act[s].version)
        BY <1>2, <3>2 DEF ReadBody
      <4>2. DOMAIN tracked' = Sessions /\ \A t \in Sessions \ {s} : tracked'[t] = tracked[t]
        BY <4>1 DEF Track, FilesTypes
      <4>3. \A q \in DOMAIN tracked'[s] :
              \/ q = p /\ tracked'[s][q] = act[s].version
              \/ q \in DOMAIN tracked[s] /\ tracked'[s][q] = tracked[s][q]
        BY <4>1 DEF Track, FilesTypes
      <4> QED
        BY <2>1, <4>2, <4>3 DEF FilesTypes
    <3> QED
      BY <3>1, <3>2
  <2> QED
    BY <1>2, <2>1, <2>2, <2>3 DEF ReadBody, FilesTypes
<1>3. ASSUME NEW s \in Sessions,
             Patch(s) \/ TruncateFile(s) \/ FillFile(s) \/ WriteFails(s) \/ OpenSession(s)
             \/ FillScript(s) \/ TruncateIndex(s) \/ FillIndex(s) \/ CommandFails(s)
      PROVE  act' \in [Sessions -> Acts]
  <2>1. EndAct(s) \/ \E do \in Steps : Go(s, do)
    BY <1>3 DEF Patch, TruncateFile, FillFile, WriteFails, OpenSession, FillScript,
                TruncateIndex, FillIndex, CommandFails, Steps
  <2> QED
    BY <2>1, ActSteps
<1>4. ASSUME NEW s \in Sessions, Patch(s) \/ WriteFails(s) \/ CommandFails(s)
      PROVE  FilesTypes'
  BY <1>3, <1>4 DEF Patch, WriteFails, CommandFails, FilesTypes
<1>5. ASSUME NEW s \in Sessions, TruncateFile(s) \/ FillFile(s)
      PROVE  FilesTypes'
  BY <1>3, <1>5 DEF TruncateFile, FillFile, Touch, FilesTypes
<1>6. ASSUME NEW s \in Sessions, OpenSession(s)
      PROVE  FilesTypes'
  <2>1. Listed \in SUBSET Ids /\ created \ Listed \in SUBSET Ids
    BY DEF Listed, IdsKnown, FilesTypes
  <2> QED
    BY <1>3, <1>6, <2>1 DEF OpenSession, FilesTypes
<1>7. ASSUME NEW s \in Sessions, Turn(s)
      PROVE  FilesTypes'
  <2>1. talk' \in [Sessions -> SUBSET (Ids \cup {NoId})]
    BY <1>7 DEF Turn, FilesTypes
  <2> QED
    BY <1>7, <2>1 DEF Turn, FilesTypes
<1>8. ASSUME NEW s \in Sessions, Save(s)
      PROVE  FilesTypes'
  <2>4. current[s] \in Ids
    BY <1>8 DEF Save, FilesTypes
  <2>1. \E a \in Acts : act' = [act EXCEPT ![s] = a]
    <3>1. "save" \in Steps /\ FALSE \in BOOLEAN /\ 0 \in Nat
      BY DEF Steps
    <3>2. Act("save", current[s], 0, FALSE) \in Acts
      BY <2>4, <3>1, ActsTyped
    <3> QED
      BY <1>8, <3>2 DEF Save
  <2>2. act' \in [Sessions -> Acts]
    BY <2>1, ActSteps
  <2>3. script' \in [Ids -> SUBSET (Ids \cup {NoId})]
    BY <1>8 DEF Save, FilesTypes
  <2> QED
    BY <1>8, <2>2, <2>3 DEF Save, FilesTypes
<1>9. ASSUME NEW s \in Sessions, FillScript(s)
      PROVE  FilesTypes'
  <2>1. script' \in [Ids -> SUBSET (Ids \cup {NoId})]
    BY <1>9 DEF FillScript, FilesTypes
  <2> QED
    BY <1>3, <1>9, <2>1 DEF FillScript, FilesTypes
<1>10. ASSUME NEW s \in Sessions, TruncateIndex(s)
       PROVE  FilesTypes'
  BY <1>3, <1>10 DEF TruncateIndex, FilesTypes
<1>11. ASSUME NEW s \in Sessions, FillIndex(s)
       PROVE  FilesTypes'
  <2>1. act[s].of \in Ids
    BY <1>11 DEF FillIndex, In, IdsKnown
  <2>2. index' = Torn \/ index' \in SUBSET Ids
    BY <1>11 DEF FillIndex, FilesTypes
  <2>3. /\ current' \in [Sessions -> Ids \cup {NoId}]
        /\ talk' \in [Sessions -> SUBSET (Ids \cup {NoId})]
    BY <1>11, <2>1 DEF FillIndex, FilesTypes
  <2> QED
    BY <1>3, <1>11, <2>2, <2>3 DEF FillIndex, FilesTypes
<1>12. ASSUME NEW s \in Sessions, NEW id \in Ids, New(s, id)
       PROVE  FilesTypes'
  <2>1. \E a \in Acts : act' = [act EXCEPT ![s] = a]
    BY <1>12, ActsTyped DEF New, Steps
  <2>2. act' \in [Sessions -> Acts]
    BY <2>1, ActSteps
  <2>3. own' \in [Sessions -> SUBSET Ids]
    BY <1>12 DEF New, FilesTypes
  <2>4. unknown' \in [Sessions -> SUBSET Ids]
    BY <1>12 DEF New, FilesTypes
  <2> QED
    BY <1>12, <2>2, <2>3, <2>4 DEF New, FilesTypes
<1>13. ASSUME NEW s \in Sessions, NEW id \in Ids, Load(s, id)
       PROVE  FilesTypes'
  <2>1. /\ current' \in [Sessions -> Ids \cup {NoId}]
        /\ talk' \in [Sessions -> SUBSET (Ids \cup {NoId})]
    BY <1>13 DEF Load, FilesTypes
  <2> QED
    BY <1>13, <2>1 DEF Load, FilesTypes
<1>14. ASSUME NEW p \in Paths, Change(p)
       PROVE  FilesTypes'
  <2>1. clock' \in Nat /\ disk' \in [Paths -> Nat]
    <3>1. CASE Touch(p)
      BY <3>1 DEF Touch, FilesTypes
    <3>2. CASE disk' = [disk EXCEPT ![p] = 0] /\ UNCHANGED clock
      BY <3>2 DEF FilesTypes
    <3> QED
      BY <1>14, <3>1, <3>2 DEF Change
  <2> QED
    BY <2>1, <1>14 DEF Change, FilesTypes
<1>15. CASE Crash
  <2>1. act' \in [Sessions -> Acts]
    BY <1>15, ActsTyped DEF Crash
  <2>2. /\ DOMAIN tracked' = Sessions
        /\ \A t \in Sessions : DOMAIN tracked'[t] = {}
    BY <1>15 DEF Crash
  <2> QED
    BY <1>15, <2>1, <2>2 DEF Crash, FilesTypes
<1>16. CASE UNCHANGED filevars
  BY <1>16 DEF FilesTypes
<1> QED
  BY <1>1, <1>2, <1>4, <1>5, <1>6, <1>7, <1>8, <1>9, <1>10, <1>11, <1>12, <1>13, <1>14, <1>15,
     <1>16, FilesSteps

\* A file changes to a version that no session has heard of, or goes away.
LEMMA DiskSteps ==
  ASSUME FilesTypes, GuardSound, NEW p \in Paths,
         Touch(p) \/ (disk' = [disk EXCEPT ![p] = 0] /\ UNCHANGED clock)
  PROVE  /\ clock <= clock' /\ clock' \in Nat
         /\ \A q \in Paths : disk'[q] \in {disk[q], 0} \/ disk'[q] > clock
         /\ \A q \in Paths : disk'[q] <= clock' /\ disk'[q] \in Nat
<1>1. CASE Touch(p)
  BY <1>1 DEF Touch, FilesTypes, GuardSound
<1>2. CASE disk' = [disk EXCEPT ![p] = 0] /\ UNCHANGED clock
  BY <1>2 DEF FilesTypes, GuardSound
<1> QED
  BY <1>1, <1>2

LEMMA DiskChanges ==
  ASSUME FilesTypes, GuardSound, NEW p \in Paths,
         Touch(p) \/ (disk' = [disk EXCEPT ![p] = 0] /\ UNCHANGED clock),
         UNCHANGED <<tracked, seen>>,
         \A s \in Sessions :
           \/ /\ act'[s].version = act[s].version /\ act'[s].of = act[s].of
              /\ act'[s].warned = act[s].warned
              /\ act'[s].do \in {"read", "edit", "write", "fill"} =>
                   act[s].do \in {"read", "edit", "write", "fill"}
              /\ act'[s].do \in {"edit", "write"} => act[s].do \in {"edit", "write"}
           \/ act'[s] = Idle
  PROVE  GuardSound'
<1>1. /\ clock <= clock' /\ clock' \in Nat /\ clock \in Nat
      /\ \A q \in Paths : disk'[q] \in {disk[q], 0} \/ disk'[q] > clock
      /\ \A q \in Paths : disk'[q] <= clock'
  BY DiskSteps DEF FilesTypes
<1>2. \A s \in Sessions : act[s].version \in Nat
  BY DEF FilesTypes, Acts
<1>3. \A s \in Sessions : act'[s].version <= clock'
  BY <1>1, <1>2, ActsTyped DEF GuardSound
<1>4. ASSUME NEW s \in Sessions, NEW q \in DOMAIN tracked'[s]
      PROVE  /\ tracked'[s][q] <= clock'
             /\ tracked'[s][q] # 0 /\ tracked'[s][q] = disk'[q] => seen'[s][q] = disk'[q]
  <2>1. q \in Paths /\ tracked'[s][q] = tracked[s][q] /\ tracked[s][q] <= clock
        /\ tracked[s][q] \in Nat
    BY DEF FilesTypes, GuardSound
  <2> QED
    BY <1>1, <2>1 DEF GuardSound
<1>5. \A s \in Sessions : act'[s].do \in {"read", "edit", "write", "fill"} => act'[s].of \in Paths
  BY ActsTyped DEF GuardSound
<1>6. \A s \in Sessions :
        act'[s].do \in {"edit", "write"} /\ ~act'[s].warned /\ act'[s].version # 0
        => seen'[s][act'[s].of] = act'[s].version
  BY ActsTyped DEF GuardSound
<1> QED
  BY <1>1, <1>3, <1>4, <1>5, <1>6 DEF GuardSound

\* Steps that leave the files and what is known of them alone.
LEMMA QuietFiles ==
  ASSUME FilesTypes, GuardSound, UNCHANGED tools,
         \A s \in Sessions :
           \/ act'[s] = act[s]
           \/ act'[s].do \notin {"read", "edit", "write", "fill"} /\ act'[s].version <= clock
           \/ act[s].do = "edit" /\ act'[s].do = "write" /\ act'[s].of = act[s].of
              /\ act'[s].version = act[s].version /\ act'[s].warned = act[s].warned
  PROVE  GuardSound'
  BY DEF GuardSound, tools

LEMMA GuardStep ==
  ASSUME FilesTypes, GuardSound, [FilesNext]_filevars
  PROVE  GuardSound'
<1> USE DEF tools, names, past
<1>0. clock \in Nat /\ 0 <= clock
  BY DEF FilesTypes
<1>1. ASSUME NEW s \in Sessions, NEW p \in Paths,
             ReadStat(s, p) \/ Guard(s, p, "write") \/ Guard(s, p, "edit")
      PROVE  GuardSound'
  <2> DEFINE w == disk[p] # 0 /\ tracked[s][p] # disk[p]
  <2>1. disk[p] \in Nat /\ w \in BOOLEAN /\ disk[p] <= clock
    BY DEF FilesTypes, GuardSound
  <2>2. UNCHANGED tools /\ \A t \in Sessions \ {s} : act'[t] = act[t]
    BY <1>1 DEF ReadStat, Guard, FilesTypes
  <2>3. act'[s].version = disk[p] /\ act'[s].of = p /\ act'[s].do \in {"read", "edit", "write"}
    BY <1>1 DEF ReadStat, Guard, FilesTypes, Act
  <2>4. act'[s].do \in {"edit", "write"} /\ ~act'[s].warned /\ act'[s].version # 0
        => seen[s][p] = disk[p]
    <3>1. CASE ReadStat(s, p)
      BY <3>1 DEF ReadStat, FilesTypes, Act
    <3>2. CASE Guard(s, p, "write") \/ Guard(s, p, "edit")
      <4>1. act'[s].warned = w /\ (disk[p] # 0 => p \in DOMAIN tracked[s])
        BY <3>2 DEF Guard, FilesTypes, Act
      <4> QED
        BY <2>3, <4>1 DEF GuardSound
    <3> QED
      BY <1>1, <3>1, <3>2
  <2> HIDE DEF w
  <2> QED
    BY <2>1, <2>2, <2>3, <2>4 DEF GuardSound
<1>2. ASSUME NEW s \in Sessions, ReadBody(s)
      PROVE  GuardSound'
  <2> DEFINE p == act[s].of
  <2>1. /\ act'[s] = Idle /\ \A t \in Sessions \ {s} : act'[t] = act[t]
        /\ p \in Paths /\ act[s].version \in Nat /\ act[s].version <= clock
        /\ UNCHANGED <<disk, clock>>
    BY <1>2, ActSteps DEF ReadBody, In, GuardSound, FilesTypes, Acts
  <2>2. CASE disk[p] = 0
    <3>1. UNCHANGED tools
      BY <1>2, <2>2 DEF ReadBody
    <3> QED
      BY <1>0, <2>1, <3>1, QuietFiles, ActsTyped
  <2>3. CASE disk[p] # 0
    <3>1. Track(s, p, act[s].version) /\ seen' = [seen EXCEPT ![s][p] = disk[p]]
      BY <1>2, <2>3 DEF ReadBody
    <3>2. \A t \in Sessions \ {s} : tracked'[t] = tracked[t] /\ seen'[t] = seen[t]
      BY <3>1 DEF Track, FilesTypes
    <3>3. \A q \in DOMAIN tracked'[s] :
            \/ q = p /\ tracked'[s][q] = act[s].version
            \/ q \in DOMAIN tracked[s] /\ q # p /\ tracked'[s][q] = tracked[s][q]
      BY <3>1 DEF Track, FilesTypes
    <3>4. seen'[s][p] = disk[p] /\ \A q \in Paths \ {p} : seen'[s][q] = seen[s][q]
      BY <2>1, <3>1 DEF FilesTypes
    <3>5. ASSUME NEW q \in DOMAIN tracked'[s]
          PROVE  /\ tracked'[s][q] <= clock'
                 /\ tracked'[s][q] # 0 /\ tracked'[s][q] = disk'[q] => seen'[s][q] = disk'[q]
      <4>1. CASE q = p
        BY <2>1, <3>3, <3>4, <4>1
      <4>2. CASE q # p
        BY <2>1, <3>3, <3>4, <4>2 DEF GuardSound, FilesTypes
      <4> QED
        BY <4>1, <4>2
    <3>6. \A t \in Sessions : act'[t] = Idle \/ (act'[t] = act[t] /\ t # s)
      BY <2>1
    <3> HIDE DEF p
    <3> QED
      BY <1>0, <2>1, <3>2, <3>5, <3>6, ActsTyped DEF GuardSound
  <2> QED
    BY <2>2, <2>3
<1>3. ASSUME NEW s \in Sessions, Patch(s)
      PROVE  GuardSound'
  <2>1. In(s, "edit") /\ UNCHANGED tools /\ (EndAct(s) \/ Go(s, "write")) /\ "write" \in Steps
    BY <1>3 DEF Patch, Steps
  <2>2. /\ \A t \in Sessions \ {s} : act'[t] = act[t]
        /\ \/ act'[s] = Idle
           \/ /\ act'[s].do = "write" /\ act'[s].of = act[s].of
              /\ act'[s].version = act[s].version /\ act'[s].warned = act[s].warned
    BY <2>1, ActSteps
  <2> QED
    BY <1>0, <2>1, <2>2, QuietFiles, ActsTyped DEF In
<1>4. ASSUME NEW s \in Sessions, TruncateFile(s) \/ FillFile(s)
      PROVE  GuardSound'
  <2>1. /\ act[s].do \in {"write", "fill"} /\ Touch(act[s].of) /\ UNCHANGED <<tracked, seen>>
        /\ EndAct(s) \/ (Go(s, "fill") /\ act[s].do = "write")
    BY <1>4 DEF TruncateFile, FillFile, In
  <2>2. act[s].of \in Paths /\ "fill" \in Steps
    BY <2>1 DEF GuardSound, Steps
  <2>3. /\ \A t \in Sessions \ {s} : act'[t] = act[t]
        /\ \/ act'[s] = Idle
           \/ /\ act'[s].do = "fill" /\ act'[s].of = act[s].of
              /\ act'[s].version = act[s].version /\ act'[s].warned = act[s].warned
    BY <2>1, <2>2, ActSteps
  <2> QED
    BY <2>1, <2>2, <2>3, DiskChanges
<1>5. ASSUME NEW s \in Sessions, WriteFails(s) \/ OpenSession(s) \/ FillIndex(s) \/ CommandFails(s)
      PROVE  GuardSound'
  <2>1. EndAct(s) /\ UNCHANGED tools
    BY <1>5 DEF WriteFails, OpenSession, FillIndex, CommandFails
  <2> QED
    BY <1>0, <2>1, ActSteps, QuietFiles, ActsTyped
<1>6. ASSUME NEW s \in Sessions, FillScript(s) \/ TruncateIndex(s)
      PROVE  GuardSound'
  <2>1. UNCHANGED tools /\ \E do \in {"list", "index"} : Go(s, do)
    BY <1>6 DEF FillScript, TruncateIndex
  <2>2. {"list", "index"} \subseteq Steps /\ act[s].version <= clock
    BY DEF Steps, GuardSound
  <2>3. act'[s].do \in {"list", "index"} /\ act'[s].version = act[s].version
        /\ \A t \in Sessions \ {s} : act'[t] = act[t]
    BY <2>1, <2>2, ActSteps
  <2> QED
    BY <2>1, <2>2, <2>3, QuietFiles
<1>7. ASSUME NEW s \in Sessions, Turn(s) \/ (\E id \in Ids : Load(s, id))
      PROVE  GuardSound'
  BY <1>7, QuietFiles DEF Turn, Load
<1>8. ASSUME NEW s \in Sessions, Save(s) \/ (\E id \in Ids : New(s, id))
      PROVE  GuardSound'
  <2>1. /\ UNCHANGED tools /\ \A t \in Sessions \ {s} : act'[t] = act[t]
        /\ act'[s].do \in {"save", "list"} /\ act'[s].version = 0
    BY <1>8 DEF Save, New, Act, FilesTypes
  <2> QED
    BY <1>0, <2>1, QuietFiles
<1>9. ASSUME NEW p \in Paths, Change(p)
      PROVE  GuardSound'
  <2>1. UNCHANGED <<tracked, seen, act>>
        /\ (Touch(p) \/ (disk' = [disk EXCEPT ![p] = 0] /\ UNCHANGED clock))
    BY <1>9 DEF Change
  <2> QED
    BY <2>1, DiskChanges
<1>10. CASE Crash
  <2>1. /\ UNCHANGED <<disk, clock>> /\ \A t \in Sessions : act'[t] = Ended
        /\ \A t \in Sessions : DOMAIN tracked'[t] = {}
    BY <1>10 DEF Crash
  <2> QED
    BY <1>0, <2>1, ActsTyped DEF GuardSound
<1>11. CASE UNCHANGED filevars
  BY <1>11, QuietFiles DEF filevars
<1> QED
  BY <1>1, <1>2, <1>3, <1>4, <1>5, <1>6, <1>7, <1>8, <1>9, <1>10, <1>11, FilesSteps

\* The tools change nothing of the session store, and no command goes on in them.
LEMMA ToolSteps ==
  ASSUME FilesTypes, GuardSound, [FilesNext]_filevars,
         \/ \E s \in Sessions : \E p \in Paths :
              ReadStat(s, p) \/ Guard(s, p, "write") \/ Guard(s, p, "edit")
         \/ \E s \in Sessions :
              ReadBody(s) \/ Patch(s) \/ TruncateFile(s) \/ FillFile(s) \/ WriteFails(s)
         \/ \E p \in Paths : Change(p)
         \/ UNCHANGED filevars
  PROVE  /\ UNCHANGED <<names, past>>
         /\ \A s \in Sessions :
              act'[s] = act[s] \/ (act'[s].do \notin {"save", "list", "index", "closed"}
                                   /\ act[s].do \notin {"save", "list", "index", "closed"})
<1>1. ASSUME NEW s \in Sessions, NEW p \in Paths,
             ReadStat(s, p) \/ Guard(s, p, "write") \/ Guard(s, p, "edit")
      PROVE  /\ UNCHANGED <<names, past>> /\ act[s].do = "idle"
             /\ act'[s].do \in {"read", "write", "edit"}
             /\ \A t \in Sessions \ {s} : act'[t] = act[t]
  BY <1>1 DEF ReadStat, Guard, Begin, FilesTypes, Act
<1>2. ASSUME NEW s \in Sessions,
             ReadBody(s) \/ Patch(s) \/ TruncateFile(s) \/ FillFile(s) \/ WriteFails(s)
      PROVE  /\ UNCHANGED <<names, past>> /\ act[s].do \in {"read", "edit", "write", "fill"}
             /\ act'[s].do \in {"idle", "write", "fill"}
             /\ \A t \in Sessions \ {s} : act'[t] = act[t]
  <2>1. /\ UNCHANGED <<names, past>> /\ act[s].do \in {"read", "edit", "write", "fill"}
        /\ EndAct(s) \/ Go(s, "write") \/ Go(s, "fill")
    BY <1>2 DEF ReadBody, Patch, TruncateFile, FillFile, WriteFails, In
  <2>2. "write" \in Steps /\ "fill" \in Steps
    BY DEF Steps
  <2> QED
    BY <2>1, <2>2, ActSteps, ActsTyped
<1>3. ASSUME NEW p \in Paths, Change(p)
      PROVE  UNCHANGED <<names, past, act>>
  BY <1>3 DEF Change
<1>4. CASE UNCHANGED filevars
  BY <1>4 DEF filevars
<1> QED
  BY <1>1, <1>2, <1>3, <1>4

\* The store's steps, and what they do to the operation under way.
LEMMA StoreSteps ==
  ASSUME FilesTypes, NEW s \in Sessions
  PROVE  /\ OpenSession(s) \/ FillIndex(s) \/ CommandFails(s) =>
              act'[s] = Idle /\ \A t \in Sessions \ {s} : act'[t] = act[t]
         /\ Turn(s) \/ (\E id \in Ids : Load(s, id)) => act' = act
         /\ FillScript(s) \/ TruncateIndex(s) =>
              /\ act'[s].of = act[s].of /\ \A t \in Sessions \ {s} : act'[t] = act[t]
              /\ act'[s].do = IF FillScript(s) THEN "list" ELSE "index"
         /\ Save(s) => /\ act'[s].do = "save" /\ act'[s].of = current[s]
                       /\ \A t \in Sessions \ {s} : act'[t] = act[t]
         /\ \A id \in Ids : New(s, id) =>
              /\ act'[s].do = "list" /\ act'[s].of = id
              /\ \A t \in Sessions \ {s} : act'[t] = act[t]
<1>1. OpenSession(s) \/ FillIndex(s) \/ CommandFails(s) =>
        act'[s] = Idle /\ \A t \in Sessions \ {s} : act'[t] = act[t]
  BY ActSteps DEF OpenSession, FillIndex, CommandFails
<1>2. Turn(s) \/ (\E id \in Ids : Load(s, id)) => act' = act
  BY DEF Turn, Load
<1>3. FillScript(s) => act[s].do = "save" /\ Go(s, "list")
  BY DEF FillScript, In
<1>4. TruncateIndex(s) => act[s].do = "list" /\ Go(s, "index")
  BY DEF TruncateIndex, In
<1>5. "list" \in Steps /\ "index" \in Steps
  BY DEF Steps
<1>6. FillScript(s) \/ TruncateIndex(s) =>
        /\ act'[s].of = act[s].of /\ \A t \in Sessions \ {s} : act'[t] = act[t]
        /\ act'[s].do = IF FillScript(s) THEN "list" ELSE "index"
  BY <1>3, <1>4, <1>5, ActSteps
<1>7. Save(s) => /\ act'[s].do = "save" /\ act'[s].of = current[s]
                 /\ \A t \in Sessions \ {s} : act'[t] = act[t]
  BY DEF Save, Act, FilesTypes
<1>8. \A id \in Ids : New(s, id) =>
        /\ act'[s].do = "list" /\ act'[s].of = id
        /\ \A t \in Sessions \ {s} : act'[t] = act[t]
  BY DEF New, Act, FilesTypes
<1> QED
  BY <1>1, <1>2, <1>6, <1>7, <1>8

LEMMA HistoriesStep ==
  ASSUME FilesTypes, GuardSound, HistoriesApart, TranscriptsApart, IdsKnown, [FilesNext]_filevars
  PROVE  HistoriesApart' /\ TranscriptsApart'
<1> USE DEF names, past, HistoriesApart, TranscriptsApart
<1>1. CASE \/ \E s \in Sessions : \E p \in Paths :
                ReadStat(s, p) \/ Guard(s, p, "write") \/ Guard(s, p, "edit")
           \/ \E s \in Sessions :
                ReadBody(s) \/ Patch(s) \/ TruncateFile(s) \/ FillFile(s) \/ WriteFails(s)
           \/ \E p \in Paths : Change(p)
           \/ UNCHANGED filevars
  BY <1>1, ToolSteps
<1>2. ASSUME NEW s \in Sessions, OpenSession(s) \/ CommandFails(s) \/ TruncateIndex(s)
      PROVE  HistoriesApart' /\ TranscriptsApart'
  BY <1>2, StoreSteps, ActsTyped DEF OpenSession, CommandFails, TruncateIndex
<1>3. ASSUME NEW s \in Sessions, Turn(s)
      PROVE  HistoriesApart' /\ TranscriptsApart'
  BY <1>3 DEF Turn, FilesTypes
<1>4. ASSUME NEW s \in Sessions, Save(s)
      PROVE  HistoriesApart' /\ TranscriptsApart'
  <2>1. UNCHANGED <<talk, current>> /\ \A id \in Ids : script'[id] \in {script[id], {}}
    BY <1>4 DEF Save, FilesTypes
  <2>2. act'[s].of = current[s] /\ \A t \in Sessions \ {s} : act'[t] = act[t]
    BY <1>4, StoreSteps
  <2> QED
    BY <2>1, <2>2
<1>5. ASSUME NEW s \in Sessions, FillScript(s)
      PROVE  HistoriesApart' /\ TranscriptsApart'
  <2>1. act[s].do = "save" /\ act[s].of = current[s] /\ talk[s] \subseteq {act[s].of}
    BY <1>5 DEF FillScript, In
  <2> QED
    <3>1. UNCHANGED <<talk, current>>
      BY <1>5 DEF FillScript
    <3>2. \A id \in Ids : script'[id] = script[id]
                           \/ (id = act[s].of /\ script'[id] = script[id] \cup talk[s])
      BY <1>5 DEF FillScript, FilesTypes
    <3>3. act'[s].do = "list" /\ \A t \in Sessions \ {s} : act'[t] = act[t]
      BY <1>5, StoreSteps
    <3>4. HistoriesApart'
      BY <3>1, <3>3
    <3>5. TranscriptsApart'
      BY <2>1, <3>2
    <3> QED
      BY <3>4, <3>5
<1>6. ASSUME NEW s \in Sessions, FillIndex(s)
      PROVE  HistoriesApart' /\ TranscriptsApart'
  <2>1. script' = script /\ act'[s].do = "idle" /\ \A t \in Sessions \ {s} : act'[t] = act[t]
    BY <1>6, StoreSteps, ActsTyped DEF FillIndex
  <2>2. \A t \in Sessions \ {s} : talk'[t] = talk[t] /\ current'[t] = current[t]
    BY <1>6 DEF FillIndex, FilesTypes
  <2>3. talk'[s] = {} \/ (talk'[s] = talk[s] /\ current'[s] = current[s])
    BY <1>6 DEF FillIndex, FilesTypes
  <2> QED
    BY <2>1, <2>2, <2>3
<1>7. ASSUME NEW s \in Sessions, NEW id \in Ids, New(s, id)
      PROVE  HistoriesApart' /\ TranscriptsApart'
  <2>1. UNCHANGED <<talk, current, script>>
    BY <1>7 DEF New
  <2>2. act'[s].do = "list" /\ \A t \in Sessions \ {s} : act'[t] = act[t]
    BY <1>7, StoreSteps
  <2> QED
    BY <2>1, <2>2
<1>8. ASSUME NEW s \in Sessions, NEW id \in Ids, Load(s, id)
      PROVE  HistoriesApart' /\ TranscriptsApart'
  <2>1. act[s].do = "idle" /\ act' = act /\ script' = script
    BY <1>8 DEF Load, Begin
  <2>2. talk'[s] = script[id] /\ current'[s] = id
    BY <1>8 DEF Load, FilesTypes
  <2>3. \A t \in Sessions \ {s} : talk'[t] = talk[t] /\ current'[t] = current[t]
    BY <1>8 DEF Load, FilesTypes
  <2> QED
    BY <2>1, <2>2, <2>3
<1>9. CASE Crash
  BY <1>9, ActsTyped DEF Crash
<1> QED
  BY <1>1, <1>2, <1>3, <1>4, <1>5, <1>6, <1>7, <1>8, <1>9, FilesSteps

LEMMA IdsStep ==
  ASSUME FilesTypes, GuardSound, IdsKnown, [FilesNext]_filevars
  PROVE  IdsKnown'
<1> USE DEF names, past
<1>0. \A s \in Sessions : act[s].do \in Steps
  BY DEF FilesTypes, Acts
<1>1. CASE \/ \E s \in Sessions : \E p \in Paths :
                ReadStat(s, p) \/ Guard(s, p, "write") \/ Guard(s, p, "edit")
           \/ \E s \in Sessions :
                ReadBody(s) \/ Patch(s) \/ TruncateFile(s) \/ FillFile(s) \/ WriteFails(s)
           \/ \E p \in Paths : Change(p)
           \/ UNCHANGED filevars
  BY <1>1, ToolSteps DEF IdsKnown, Listed
<1>2. ASSUME NEW s \in Sessions, OpenSession(s)
      PROVE  IdsKnown'
  <2>1. own'[s] = Listed /\ unknown'[s] = created \ Listed /\ Listed' = Listed
        /\ UNCHANGED <<created, saved, excused, current>>
    BY <1>2 DEF OpenSession, FilesTypes, Listed
  <2>2. \A t \in Sessions \ {s} : own'[t] = own[t] /\ unknown'[t] = unknown[t] /\ act'[t] = act[t]
    BY <1>2, StoreSteps DEF OpenSession, FilesTypes
  <2>3. act'[s].do = "idle"
    BY <1>2, StoreSteps, ActsTyped
  <2> QED
    BY <2>1, <2>2, <2>3 DEF IdsKnown
<1>3. ASSUME NEW s \in Sessions, CommandFails(s)
      PROVE  IdsKnown'
  <2>1. /\ UNCHANGED <<created, saved, own, unknown, current, index>>
        /\ excused' \in {excused, created} /\ act[s].do \in {"save", "list", "index"}
    BY <1>3 DEF CommandFails, In
  <2> QED
    BY <1>3, <2>1, StoreSteps, ActsTyped DEF IdsKnown, Listed
<1>4. ASSUME NEW s \in Sessions, Turn(s)
      PROVE  IdsKnown'
  BY <1>4 DEF Turn, IdsKnown, Listed
<1>5. ASSUME NEW s \in Sessions, Save(s)
      PROVE  IdsKnown'
  <2>1. UNCHANGED <<created, saved, excused, own, unknown, current, index>>
        /\ act[s].do = "idle" /\ current[s] # NoId
    BY <1>5 DEF Save, Begin
  <2> QED
    BY <1>5, <2>1, StoreSteps DEF IdsKnown, Listed
<1>6. ASSUME NEW s \in Sessions, FillScript(s) \/ TruncateIndex(s)
      PROVE  IdsKnown'
  <2>1. /\ UNCHANGED <<created, saved, excused, own, unknown, current>> /\ Listed' \subseteq Listed
        /\ act[s].do \in {"save", "list"}
    BY <1>6 DEF FillScript, TruncateIndex, In, Listed
  <2> QED
    BY <1>6, <2>1, StoreSteps DEF IdsKnown
<1>7. ASSUME NEW s \in Sessions, FillIndex(s)
      PROVE  IdsKnown'
  <2>1. UNCHANGED <<created, own, unknown>> /\ act[s].do = "index" /\ act[s].of \in created
    BY <1>7 DEF FillIndex, In, IdsKnown
  <2>2. Listed' \subseteq created
    BY <1>7 DEF FillIndex, Listed, IdsKnown
  <2>3. excused' \subseteq created /\ saved' \subseteq created
    BY <1>7, <2>1 DEF FillIndex, IdsKnown
  <2>4. \A t \in Sessions : current'[t] \in {current[t], act[s].of}
    BY <1>7 DEF FillIndex, FilesTypes
  <2>5. \A t \in Sessions : act'[t] = act[t] \/ (t = s /\ act'[t].do = "idle")
    BY <1>7, StoreSteps, ActsTyped
  <2> QED
    BY <2>1, <2>2, <2>3, <2>4, <2>5 DEF IdsKnown
<1>8. ASSUME NEW s \in Sessions, NEW id \in Ids, New(s, id)
      PROVE  IdsKnown'
  <2>1. created' = created \cup {id} /\ UNCHANGED <<saved, excused, current, index>>
        /\ act[s].do = "idle"
    BY <1>8 DEF New, Begin
  <2>2. own'[s] = own[s] \cup {id} /\ unknown'[s] = unknown[s]
    BY <1>8 DEF New, FilesTypes
  <2>3. \A t \in Sessions \ {s} : own'[t] = own[t] /\ unknown'[t] = unknown[t] \cup {id}
                                  /\ act'[t] = act[t]
    BY <1>8, StoreSteps DEF New, FilesTypes
  <2>4. act'[s].do = "list" /\ act'[s].of = id
    BY <1>8, StoreSteps
  <2> QED
    BY <2>1, <2>2, <2>3, <2>4 DEF IdsKnown, Listed
<1>9. ASSUME NEW s \in Sessions, NEW id \in Ids, Load(s, id)
      PROVE  IdsKnown'
  <2>1. UNCHANGED <<created, saved, excused, own, unknown, index, act>> /\ id \in own[s]
    BY <1>9 DEF Load
  <2>2. \A t \in Sessions : current'[t] \in {current[t], id}
    BY <1>9 DEF Load, FilesTypes
  <2> QED
    BY <2>1, <2>2 DEF IdsKnown, Listed
<1>10. CASE Crash
  <2>1. UNCHANGED <<created, saved, own, unknown, index>> /\ excused' \in {excused, created}
    BY <1>10 DEF Crash
  <2>2. \A t \in Sessions : act'[t].do = "closed" /\ current'[t] = NoId
    BY <1>10, ActsTyped DEF Crash
  <2> QED
    BY <2>1, <2>2 DEF IdsKnown, Listed
<1> QED
  BY <1>1, <1>2, <1>3, <1>4, <1>5, <1>6, <1>7, <1>8, <1>9, <1>10, FilesSteps

LEMMA IndexStep ==
  ASSUME FilesTypes, GuardSound, IdsKnown, IndexSound, [FilesNext]_filevars
  PROVE  IndexSound'
<1> USE DEF names, past
<1>1. CASE UNCHANGED <<index, saved, excused>>
           /\ \A s \in Sessions : act[s].do = "index" => act'[s].do = "index"
  BY <1>1 DEF IndexSound
<1>2. CASE \/ \E s \in Sessions : \E p \in Paths :
                ReadStat(s, p) \/ Guard(s, p, "write") \/ Guard(s, p, "edit")
           \/ \E s \in Sessions :
                ReadBody(s) \/ Patch(s) \/ TruncateFile(s) \/ FillFile(s) \/ WriteFails(s)
           \/ \E p \in Paths : Change(p)
           \/ UNCHANGED filevars
  BY <1>1, <1>2, ToolSteps
<1>3. ASSUME NEW s \in Sessions,
             OpenSession(s) \/ Turn(s) \/ Save(s) \/ FillScript(s)
             \/ \E id \in Ids : New(s, id) \/ Load(s, id)
      PROVE  IndexSound'
  <2>1. UNCHANGED <<index, saved, excused>>
    BY <1>3 DEF OpenSession, Turn, Save, FillScript, New, Load
  <2>2. act[s].do # "index" /\ \A t \in Sessions \ {s} : act'[t] = act[t]
    <3>1. act[s].do # "index"
      BY <1>3 DEF OpenSession, Turn, Save, FillScript, New, Load, In, Begin
    <3> QED
      BY <1>3, <3>1, StoreSteps
  <2> QED
    BY <1>1, <2>1, <2>2
<1>4. ASSUME NEW s \in Sessions, TruncateIndex(s)
      PROVE  IndexSound'
  <2>1. index' = Torn /\ act'[s].do = "index"
    <3>1. ~FillScript(s)
      BY <1>4 DEF TruncateIndex, FillScript, In
    <3> QED
      BY <1>4, <3>1, StoreSteps DEF TruncateIndex
  <2> QED
    BY <2>1 DEF IndexSound
<1>5. ASSUME NEW s \in Sessions, FillIndex(s)
      PROVE  IndexSound'
  <2>1. act[s].do = "index" /\ saved' \subseteq created /\ created \subseteq own[s] \cup unknown[s]
    BY <1>5 DEF FillIndex, In, IdsKnown
  <2>2. CASE index' = Torn
    <3>1. excused' = created
      BY <1>5, <2>2 DEF FillIndex
    <3> QED
      BY <2>1, <2>2, <3>1 DEF IndexSound
  <2>3. CASE index' # Torn
    <3>1. index' = own[s] /\ excused' = (excused \cup unknown[s]) \ own[s]
      BY <1>5, <2>3 DEF FillIndex
    <3> QED
      BY <2>1, <2>3, <3>1 DEF IndexSound
  <2> QED
    BY <2>2, <2>3
<1>6. ASSUME NEW s \in Sessions, CommandFails(s)
      PROVE  IndexSound'
  <2>1. UNCHANGED <<index, saved>>
        /\ excused' = IF act[s].do = "index" /\ index = Torn THEN created ELSE excused
    BY <1>6 DEF CommandFails
  <2>2. \A t \in Sessions \ {s} : act'[t] = act[t]
    BY <1>6, StoreSteps
  <2> QED
    BY <2>1, <2>2 DEF IndexSound, IdsKnown
<1>7. CASE Crash
  BY <1>7 DEF Crash, IndexSound, IdsKnown
<1> QED
  BY <1>2, <1>3, <1>4, <1>5, <1>6, <1>7, FilesSteps

\* Whatever sessions, other programs, failed writes and crashes do: what a session knows
\* of a file, of a conversation and of the index is what it did see of it.
THEOREM FilesInvInvariant == FilesSpec => []FilesInv
<1>1. FilesInit => FilesInv
  <2> SUFFICES ASSUME FilesInit PROVE FilesInv
    OBVIOUS
  <2>1. \A s \in Sessions : act[s] = Ended /\ DOMAIN tracked[s] = {} /\ act \in [Sessions -> Acts]
    BY ActsTyped DEF FilesInit
  <2>2. FilesTypes
    <3>1. act \in [Sessions -> Acts]
      BY ActsTyped DEF FilesInit
    <3>2. disk \in [Paths -> Nat]
      BY DEF FilesInit
    <3> QED
      BY <2>1, <3>1, <3>2 DEF FilesInit, FilesTypes
  <2>3. GuardSound
    BY <2>1, ActsTyped DEF FilesInit, GuardSound
  <2>4. HistoriesApart /\ TranscriptsApart
    BY <2>1, ActsTyped DEF FilesInit, HistoriesApart, TranscriptsApart
  <2>5. IdsKnown /\ IndexSound
    BY <2>1, ActsTyped, SessionFilesAssumption DEF FilesInit, IdsKnown, IndexSound, Listed
  <2> QED
    BY <2>2, <2>3, <2>4, <2>5 DEF FilesInv
<1>2. FilesInv /\ [FilesNext]_filevars => FilesInv'
  BY FilesTypesStep, GuardStep, HistoriesStep, IdsStep, IndexStep DEF FilesInv
<1> QED
  BY <1>1, <1>2, PTL DEF FilesSpec

\* A saved session stays in sessions.json but for the excuses, and no transcript holds
\* the messages of another conversation.
THEOREM SavedStays == FilesSpec => []SavedSound
<1>1. FilesInv => SavedSound
  BY DEF FilesInv, SavedSound, SavedListed, IndexSound, Listed
<1> QED
  BY <1>1, FilesInvInvariant, PTL

\* No tool overwrites, unwarned, content that its session has not read.
THEOREM OverwritesAreSeen == FilesSpec => OverwritesSeen
<1>1. FilesInv /\ [FilesNext]_filevars =>
        [\A s \in Sessions :
           LET p == act[s].of IN
           act[s].do = "write" /\ act'[s].do = "fill" /\ ~act[s].warned
             /\ disk[p] \notin {0} /\ disk[p] = act[s].version
           => seen[s][p] = disk[p]]_filevars
  BY DEF FilesInv, GuardSound
<1> QED
  BY <1>1, FilesInvInvariant, PTL DEF FilesSpec, OverwritesSeen
=============================================================================
