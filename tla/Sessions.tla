------------------------------ MODULE Sessions ------------------------------
(***************************************************************************)
(* The session pool of the gateway for one session key: what dispatch,     *)
(* send_control and interrupt do to session_txs, the task behind an entry, *)
(* its bounded queue, and the turns it runs.  Different keys share nothing *)
(* of this state.  What a turn does is in AgentLoop; here it checks the    *)
(* interrupt flag, waits for the model or for a permission, and ends.      *)
(***************************************************************************)
EXTENDS Integers, Sequences, FiniteSets

CONSTANTS
  Clients,      \* frontends: they dispatch turns, send controls and interrupt
  MaxTasks,     \* bound: session tasks spawned
  MaxMsgs,      \* bound: messages
  QueueCap,     \* capacity of a session's channel
  MaxFails,     \* bound: sessions that cannot be created
  MaxPanics     \* bound: sessions whose turn panics

ASSUME SessionsAssumption ==
  /\ MaxTasks \in Nat \ {0} /\ MaxMsgs \in Nat \ {0} /\ QueueCap \in Nat \ {0}
  /\ MaxFails \in Nat /\ MaxPanics \in Nat

Tasks == 1..MaxTasks
Msgs == 1..MaxMsgs
NoTask == 0
NoMsg == 0

VARIABLES
  slot,     \* session_txs: the task of the key, or NoTask
  task,     \* the session tasks
  call,     \* the dispatch or send_control each caller has under way
  from,     \* history: who sent each message, a turn or a control message
  fate,     \* what became of it, as its done or reply receiver learns
  sentTo,   \* history: the task whose queue it entered
  fails,
  panicked  \* history: the tasks that a panic of a turn ended

vars == <<slot, task, call, from, fate, sentTo, fails, panicked>>

\* "new" runs Session::new; a failed one reports and closes; "cmd" is a slash command,
\* "check" the top of cot_loop, "llm" a call of the model, "ask" a permission request.
TaskPcs == {"none", "new", "failing", "closing", "idle", "cmd", "check", "llm", "ask",
            "gone"}
CallPcs == {"idle", "spawn", "insert", "send", "reply"}
Fates == {"none", "queued", "running", "done", "stopped", "error", "dropped", "refused"}
Settled == {"done", "stopped", "error", "dropped", "refused"}
NoCall == [pc |-> "idle", at |-> NoTask, msg |-> NoMsg]

TypeOK ==
  /\ slot \in Tasks \cup {NoTask}
  /\ task \in [Tasks -> [pc : TaskPcs, q : Seq(Msgs), flag : BOOLEAN,
                         cur : Msgs \cup {NoMsg}]]
  /\ \A t \in Tasks : Len(task[t].q) <= QueueCap
  /\ call \in [Clients -> [pc : CallPcs, at : Tasks \cup {NoTask}, msg : Msgs \cup {NoMsg}]]
  /\ from \in Seq([by : Clients, turn : BOOLEAN]) /\ Len(from) <= MaxMsgs
  /\ fate \in [Msgs -> Fates] /\ sentTo \in [Msgs -> Tasks \cup {NoTask}]
  /\ fails \in 0..MaxFails /\ panicked \subseteq Tasks
  /\ Cardinality(panicked) <= MaxPanics

Init ==
  /\ slot = NoTask
  /\ task = [t \in Tasks |-> [pc |-> "none", q |-> <<>>, flag |-> FALSE, cur |-> NoMsg]]
  /\ call = [c \in Clients |-> NoCall]
  /\ from = <<>> /\ fate = [m \in Msgs |-> "none"]
  /\ sentTo = [m \in Msgs |-> NoTask] /\ fails = 0 /\ panicked = {}

\* The receiver of the channel is gone: SessionHandle::is_closed.
Closed(t) == task[t].pc = "gone"

\* prune_closed_session, then the entry it leaves.
Pruned == IF slot # NoTask /\ Closed(slot) THEN NoTask ELSE slot

\* No clone of the sender is left: recv returns None once the queue is empty.
NoSender(t) == slot # t /\ \A c \in Clients : call[c].at # t

IsTurn(m) == from[m].turn

----------------------------------------------------------------------------
\* A task is left for every caller about to spawn one (the bound MaxTasks).
CanSpawn ==
  Cardinality({c \in Clients : call[c].pc = "spawn"})
    < Cardinality({t \in Tasks : task[t].pc = "none"})

\* dispatch: the first look at session_txs, under its lock.
Dispatch(c) ==
  /\ call[c].pc = "idle" /\ Len(from) < MaxMsgs
  /\ Pruned = NoTask => CanSpawn
  /\ from' = Append(from, [by |-> c, turn |-> TRUE])
  /\ slot' = Pruned
  /\ call' = [call EXCEPT ![c] =
       IF Pruned # NoTask THEN [pc |-> "send", at |-> Pruned, msg |-> Len(from) + 1]
       ELSE [pc |-> "spawn", at |-> NoTask, msg |-> Len(from) + 1]]
  /\ UNCHANGED <<task, fate, sentTo, fails, panicked>>

\* spawn_session_handle, outside the lock.
Spawn(c) ==
  /\ call[c].pc = "spawn"
  /\ \E t \in Tasks :
       /\ task[t].pc = "none" /\ \A u \in 1..(t - 1) : task[u].pc # "none"
       /\ task' = [task EXCEPT ![t].pc = "new"]
       /\ call' = [call EXCEPT ![c].pc = "insert", ![c].at = t]
  /\ UNCHANGED <<slot, from, fate, sentTo, fails, panicked>>

\* Mutant: no second look at the pool.
InsertBlind(c) ==
  /\ call[c].pc = "insert"
  /\ slot' = call[c].at
  /\ call' = [call EXCEPT ![c].pc = "send"]
  /\ UNCHANGED <<task, from, fate, sentTo, fails, panicked>>

\* The second look: an entry made in between wins and the spawned handle drops.
Insert(c) ==
  /\ call[c].pc = "insert"
  /\ slot' = IF Pruned = NoTask THEN call[c].at ELSE Pruned
  /\ call' = [call EXCEPT ![c].pc = "send", ![c].at = slot']
  /\ UNCHANGED <<task, from, fate, sentTo, fails, panicked>>

\* send_turn and the sending half of send_control: wait for room, or fail.
Send(c) ==
  LET t == call[c].at
      m == call[c].msg
      After == IF IsTurn(m) THEN NoCall ELSE [call[c] EXCEPT !.pc = "reply"]
  IN /\ call[c].pc = "send"
     /\ \/ /\ Closed(t)
           /\ fate' = [fate EXCEPT ![m] = "refused"]
           /\ call' = [call EXCEPT ![c] = NoCall]
           /\ UNCHANGED <<task, sentTo>>
        \/ /\ ~Closed(t) /\ Len(task[t].q) < QueueCap
           /\ task' = [task EXCEPT ![t].q = Append(@, m)]
           /\ fate' = [fate EXCEPT ![m] = "queued"]
           /\ sentTo' = [sentTo EXCEPT ![m] = t]
           /\ call' = [call EXCEPT ![c] = After]
     /\ UNCHANGED <<slot, from, fails, panicked>>

\* session_handle finds the entry, closed or not, and clones it.
Control(c) ==
  /\ call[c].pc = "idle" /\ slot # NoTask /\ Len(from) < MaxMsgs
  /\ from' = Append(from, [by |-> c, turn |-> FALSE])
  /\ call' = [call EXCEPT ![c] = [pc |-> "send", at |-> slot, msg |-> Len(from) + 1]]
  /\ UNCHANGED <<slot, task, fate, sentTo, fails, panicked>>

Replied(c) ==
  /\ call[c].pc = "reply" /\ fate[call[c].msg] \in Settled
  /\ call' = [call EXCEPT ![c] = NoCall]
  /\ UNCHANGED <<slot, task, from, fate, sentTo, fails, panicked>>

Interrupt ==
  /\ slot # NoTask /\ ~task[slot].flag
  /\ task' = [task EXCEPT ![slot].flag = TRUE]
  /\ UNCHANGED <<slot, call, from, fate, sentTo, fails, panicked>>

----------------------------------------------------------------------------
\* spawn_session_task: Session::new, and the loop over the messages.
Create(t) ==
  /\ task[t].pc = "new"
  /\ \/ task' = [task EXCEPT ![t].pc = "idle"] /\ UNCHANGED fails
     \/ /\ fails < MaxFails /\ fails' = fails + 1
        /\ task' = [task EXCEPT ![t].pc = "failing"]
  /\ UNCHANGED <<slot, call, from, fate, sentTo, panicked>>

\* report_session_creation_error reads one message and answers it if it is a turn.
ReportFailure(t) ==
  LET q == task[t].q IN
  /\ task[t].pc = "failing"
  /\ q # <<>> \/ NoSender(t)
  /\ task' = [task EXCEPT ![t].pc = "closing", ![t].q = IF q = <<>> THEN q ELSE Tail(q)]
  /\ fate' = IF q = <<>> THEN fate
             ELSE [fate EXCEPT ![Head(q)] = IF IsTurn(Head(q)) THEN "error" ELSE "dropped"]
  /\ UNCHANGED <<slot, call, from, sentTo, fails, panicked>>

\* The receiver drops, and with it the messages that came meanwhile.
CloseFailed(t) ==
  /\ task[t].pc = "closing"
  /\ task' = [task EXCEPT ![t].pc = "gone", ![t].q = <<>>]
  /\ fate' = [m \in Msgs |-> IF \E i \in 1..Len(task[t].q) : task[t].q[i] = m
                              THEN "dropped" ELSE fate[m]]
  /\ UNCHANGED <<slot, call, from, sentTo, fails, panicked>>

\* A turn begins; a control message is handled and answered at once.
Receive(t) ==
  LET m == Head(task[t].q) IN
  /\ task[t].pc = "idle" /\ task[t].q # <<>>
  /\ IF IsTurn(m)
     THEN /\ \E p \in {"cmd", "check"} :
               task' = [task EXCEPT ![t].q = Tail(@), ![t].pc = p, ![t].cur = m]
          /\ fate' = [fate EXCEPT ![m] = "running"]
     ELSE /\ task' = [task EXCEPT ![t].q = Tail(@)]
          /\ fate' = [fate EXCEPT ![m] = "done"]
  /\ UNCHANGED <<slot, call, from, sentTo, fails, panicked>>

\* Every sender is gone: the loop ends and the session is dropped.
End(t) ==
  /\ task[t].pc = "idle" /\ task[t].q = <<>> /\ NoSender(t)
  /\ task' = [task EXCEPT ![t].pc = "gone"]
  /\ UNCHANGED <<slot, call, from, fate, sentTo, fails, panicked>>

EndTurn(t, how, flag) ==
  /\ task' = [task EXCEPT ![t].pc = "idle", ![t].cur = NoMsg, ![t].flag = flag]
  /\ fate' = [fate EXCEPT ![task[t].cur] = how]
  /\ UNCHANGED <<slot, call, from, sentTo, fails, panicked>>

\* Mutant: the flag is cleared and the turn goes on.
CheckForgets(t) ==
  /\ task[t].pc = "check"
  /\ task' = [task EXCEPT ![t].pc = "llm", ![t].flag = FALSE]
  /\ UNCHANGED <<slot, call, from, fate, sentTo, fails, panicked>>

\* should_interrupt swaps the flag at the top of each iteration of cot_loop.
Check(t) ==
  /\ task[t].pc = "check"
  /\ \/ task[t].flag /\ EndTurn(t, "stopped", FALSE)
     \/ /\ ~task[t].flag
        /\ task' = [task EXCEPT ![t].pc = "llm"]
        /\ UNCHANGED <<slot, call, from, fate, sentTo, fails, panicked>>

\* Mutant: a turn that fails ends its session.
ReplyFatal(t) ==
  /\ task[t].pc \in {"llm", "cmd"}
  /\ \/ EndTurn(t, "done", task[t].flag)
     \/ /\ task' = [task EXCEPT ![t].pc = "closing", ![t].cur = NoMsg]
        /\ fate' = [fate EXCEPT ![task[t].cur] = "done"]
        /\ UNCHANGED <<slot, call, from, sentTo, fails, panicked>>

\* The model answers without tool calls, or the turn fails: done either way.
Reply(t) == task[t].pc \in {"llm", "cmd"} /\ EndTurn(t, "done", task[t].flag)

\* The model asks for tools: some run at once, others wait for a permission.
UseTools(t) ==
  /\ task[t].pc = "llm"
  /\ \E p \in {"check", "ask"} : task' = [task EXCEPT ![t].pc = p]
  /\ UNCHANGED <<slot, call, from, fate, sentTo, fails, panicked>>

\* The frontend of the turn answers confirm, either way.
Answer(t) ==
  /\ task[t].pc = "ask"
  /\ task' = [task EXCEPT ![t].pc = "check"]
  /\ UNCHANGED <<slot, call, from, fate, sentTo, fails, panicked>>

\* A panic in Session::turn ends the task and drops what it holds: a frontend that cuts
\* a text inside a character, or the runner that cuts a tool result so.
Panic(t) ==
  LET InHand(m) == m = task[t].cur \/ \E i \in 1..Len(task[t].q) : task[t].q[i] = m IN
  /\ task[t].pc \in {"cmd", "check", "llm", "ask"}
  /\ Cardinality(panicked) < MaxPanics /\ panicked' = panicked \cup {t}
  /\ task' = [task EXCEPT ![t].pc = "gone", ![t].q = <<>>, ![t].cur = NoMsg]
  /\ fate' = [m \in Msgs |-> IF InHand(m) THEN "dropped" ELSE fate[m]]
  /\ UNCHANGED <<slot, call, from, sentTo, fails>>

CallerStep(c) == Spawn(c) \/ Insert(c) \/ Send(c) \/ Replied(c)
TaskStep(t) ==
  Create(t) \/ ReportFailure(t) \/ CloseFailed(t) \/ Receive(t) \/ End(t) \/ Check(t)

Next ==
  \/ \E c \in Clients : Dispatch(c) \/ Control(c) \/ CallerStep(c)
  \/ Interrupt
  \/ \E t \in Tasks : TaskStep(t) \/ Reply(t) \/ UseTools(t) \/ Answer(t) \/ Panic(t)

Spec == Init /\ [][Next]_vars

----------------------------------------------------------------------------
\* At most one task of the key holds messages or runs a turn, whatever spawns race:
\* two would work on two histories of the same conversation (pool.rs, second look).
Holding(t) ==
  \/ task[t].pc \in {"cmd", "check", "llm", "ask"} \/ task[t].q # <<>>
  \/ \E c \in Clients : call[c].pc = "send" /\ call[c].at = t /\ ~Closed(t)
OneSession == \A t, u \in Tasks : Holding(t) /\ Holding(u) => t = u

\* A message that was accepted and not handled was lost with a session that could not
\* be created, or whose turn panicked; a session that only works, or whose turns fail,
\* loses none (worker.rs, report_session_creation_error and handle_session_message).
LostOnlyWithSession ==
  \A m \in Msgs : fate[m] = "dropped" /\ sentTo[m] \notin panicked =>
    \A n \in Msgs : sentTo[n] = sentTo[m] => fate[n] \notin {"running", "done", "stopped"}

\* The messages of one client are handled in the order it sent them, across the
\* tasks they went to (worker.rs, the loop over the queue).
HandledInOrder ==
  \A m, n \in 1..Len(from) :
    m < n /\ from[m].by = from[n].by /\ fate[n] \in {"running", "done", "stopped"}
      => fate[m] \notin {"none", "queued"}

\* Both: one conversation, in order, whatever dispatches of several clients race.
OrderedInOne == OneSession /\ HandledInOrder

=============================================================================
