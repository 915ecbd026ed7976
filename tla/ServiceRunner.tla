--------------------------- MODULE ServiceRunner ---------------------------
(***************************************************************************)
(* The lifecycle the delivery runner (routing/delivery.rs) and the cron    *)
(* service (scheduler/cron.rs) share line for line: a slot holding the     *)
(* sender of the current task's command channel, a generation counter, and *)
(* start, stop and restart called through clonable handles by any number   *)
(* of callers at once.                                                     *)
(*                                                                         *)
(* A task, its channel and the generation it was given are identified: the *)
(* n-th install_sender creates channel n.  The slot mutex makes each look  *)
(* at the slot one step; the generation is read and bumped outside of it.  *)
(***************************************************************************)
EXTENDS Integers, FiniteSets

CONSTANTS
  Callers,     \* concurrent users of the handle
  Ops,         \* the calls they make, of "start", "stop" and "restart"
  MaxOps,      \* bound: calls altogether
  MaxPanics    \* bound: panics of a task

ASSUME RunnerAssumption ==
  /\ Ops \subseteq {"start", "stop", "restart"}
  /\ MaxOps \in Nat /\ MaxPanics \in Nat

Gens == 1..(MaxOps + 1)   \* every call spawns at most one task

VARIABLES
  slot,        \* cmd_tx: the channel whose sender it holds, 0 for None
  generation,
  task,        \* where the task of each generation is
  stops,       \* channels with a Stop in them
  call,        \* progress of each caller
  ops, panics, \* history: counted for the bounds
  fresh,       \* history: a start returned true, and since then nobody
               \* stopped or restarted and no task panicked
  alone        \* history: no two calls overlapped

runnervars == <<slot, generation, task, stops, call, ops, panics, fresh, alone>>

TaskPcs == {"none", "idle", "busy", "left", "clearing", "done"}
CallPcs == {"idle", "check", "reserve", "install", "get", "send", "wait", "answer"}

RunnerTypeOK ==
  /\ slot \in {0} \cup Gens /\ generation \in {0} \cup Gens
  /\ task \in [Gens -> TaskPcs]
  /\ stops \in SUBSET Gens
  /\ call \in [Callers -> [pc : CallPcs, op : Ops \cup {"none"},
                           gen : {0} \cup Gens, ok : BOOLEAN]]
  /\ ops \in 0..MaxOps /\ panics \in 0..MaxPanics
  /\ fresh \in BOOLEAN /\ alone \in BOOLEAN

\* spawn() has started the first task.
RunnerInit ==
  /\ slot = 1 /\ generation = 1
  /\ task = [g \in Gens |-> IF g = 1 THEN "idle" ELSE "none"]
  /\ stops = {}
  /\ call = [c \in Callers |-> [pc |-> "idle", op |-> "none", gen |-> 0, ok |-> FALSE]]
  /\ ops = 0 /\ panics = 0 /\ fresh = TRUE /\ alone = TRUE

InLoop(g) == task[g] \in {"idle", "busy"}

\* Somebody still holds a sender of channel g.
HasSender(g) ==
  \/ slot = g
  \/ \E c \in Callers : call[c].gen = g /\ call[c].pc \in {"send", "wait", "answer"}

\* What sender() leaves in the slot: a sender whose receiver is gone is dropped.
Purged == IF slot # 0 /\ task[slot] = "done" THEN 0 ELSE slot

Goto(c, pc) == call' = [call EXCEPT ![c] = [@ EXCEPT !.pc = pc]]
Hold(c, pc, g) == call' = [call EXCEPT ![c] = [@ EXCEPT !.pc = pc, !.gen = g]]
Return(c, ok) ==
  call' = [call EXCEPT ![c] = [@ EXCEPT !.pc = "idle", !.gen = 0, !.ok = ok]]

----------------------------------------------------------------------------
(* start, stop and restart. *)

Begin(c, op) ==
  /\ call[c].pc = "idle" /\ ops < MaxOps
  /\ ops' = ops + 1
  /\ call' = [call EXCEPT ![c] = [pc |-> IF op = "start" THEN "check" ELSE "get",
                                  op |-> op, gen |-> 0, ok |-> FALSE]]
  /\ fresh' = (fresh /\ op = "start")
  /\ alone' = (alone /\ \A d \in Callers : call[d].pc = "idle")
  /\ UNCHANGED <<slot, generation, task, stops, panics>>

\* Mutant: start does not look whether a task runs.
CheckNothing(c) ==
  /\ call[c].pc = "check" /\ Goto(c, "reserve")
  /\ UNCHANGED <<slot, generation, task, stops, ops, panics, fresh, alone>>

\* start: is_running().
Check(c) ==
  /\ call[c].pc = "check"
  /\ slot' = Purged
  /\ IF Purged = 0 THEN Goto(c, "reserve") ELSE Return(c, FALSE)
  /\ UNCHANGED <<generation, task, stops, ops, panics, fresh, alone>>

\* install_sender: the generation first, outside the lock ...
Reserve(c) ==
  /\ call[c].pc = "reserve"
  /\ generation' = generation + 1
  /\ Hold(c, "install", generation + 1)
  /\ UNCHANGED <<slot, task, stops, ops, panics, fresh, alone>>

\* ... then the slot, whose previous sender is dropped; and the task.
Install(c) ==
  /\ call[c].pc = "install"
  /\ slot' = call[c].gen
  /\ task' = [task EXCEPT ![call[c].gen] = "idle"]
  /\ Return(c, TRUE)
  /\ fresh' = \A d \in Callers :
       d # c => call[d].pc \notin {"get", "send", "wait", "answer"}
  /\ UNCHANGED <<generation, stops, ops, panics, alone>>

\* The end of stop(): restart ignores its answer and goes on to start().
Stopped(c, ok) ==
  IF call[c].op = "restart" THEN Hold(c, "check", 0) ELSE Return(c, ok)

Get(c) ==
  /\ call[c].pc = "get"
  /\ slot' = Purged
  /\ IF Purged = 0 THEN Stopped(c, FALSE) ELSE Hold(c, "send", Purged)
  /\ UNCHANGED <<generation, task, stops, ops, panics, fresh, alone>>

SendStop(c) ==
  LET g == call[c].gen IN
  /\ call[c].pc = "send"
  /\ IF task[g] = "done"
     THEN slot' = Purged /\ Stopped(c, FALSE) /\ UNCHANGED stops
     ELSE stops' = stops \cup {g} /\ Goto(c, "wait") /\ UNCHANGED slot
  /\ UNCHANGED <<generation, task, ops, panics, fresh, alone>>

\* wait_for_stopped: a poll finds the slot empty, or the 50 polls are over.
WaitStopped(c) ==
  /\ call[c].pc = "wait" /\ Purged = 0
  /\ slot' = 0
  /\ Goto(c, "answer")
  /\ UNCHANGED <<generation, task, stops, ops, panics, fresh, alone>>

WaitTimeout(c) ==
  /\ call[c].pc = "wait" /\ Purged # 0
  /\ Goto(c, "answer")
  /\ UNCHANGED <<slot, generation, task, stops, ops, panics, fresh, alone>>

\* Mutant: stop answers true even when its polls ran out.
AnswerStopped(c) ==
  /\ call[c].pc = "answer" /\ slot' = Purged /\ Stopped(c, TRUE)
  /\ UNCHANGED <<generation, task, stops, ops, panics, fresh, alone>>

Answer(c) ==
  /\ call[c].pc = "answer"
  /\ slot' = Purged
  /\ Stopped(c, Purged = 0)
  /\ UNCHANGED <<generation, task, stops, ops, panics, fresh, alone>>

CallStep(c) ==
  Check(c) \/ Reserve(c) \/ Install(c) \/ Get(c) \/ SendStop(c)
  \/ WaitStopped(c) \/ WaitTimeout(c) \/ Answer(c)

----------------------------------------------------------------------------
(* The spawned task. *)

Move(g, from, to) == task[g] = from /\ task' = [task EXCEPT ![g] = to]

\* One pass: a tick, a Wake, a triggered job.  Commands wait meanwhile.
Work(g) ==
  /\ Move(g, "idle", "busy")
  /\ UNCHANGED <<slot, generation, stops, call, ops, panics, fresh, alone>>

PassDone(g) ==
  /\ Move(g, "busy", "idle")
  /\ UNCHANGED <<slot, generation, stops, call, ops, panics, fresh, alone>>

\* Mutant: the end of the channel does not end the loop.
LeaveOnStop(g) ==
  /\ g \in stops /\ Move(g, "idle", "left")
  /\ UNCHANGED <<slot, generation, stops, call, ops, panics, fresh, alone>>

\* The loop reads Stop, or None once the last sender is dropped.
Leave(g) ==
  /\ g \in stops \/ ~HasSender(g)
  /\ Move(g, "idle", "left")
  /\ UNCHANGED <<slot, generation, stops, call, ops, panics, fresh, alone>>

\* clear_sender_if_current: the generation is compared, then the slot is
\* emptied under its lock.  The receiver is dropped at the end.
Compare(g) ==
  /\ Move(g, "left", IF generation = g THEN "clearing" ELSE "done")
  /\ UNCHANGED <<slot, generation, stops, call, ops, panics, fresh, alone>>

Clear(g) ==
  /\ Move(g, "clearing", "done")
  /\ slot' = 0
  /\ UNCHANGED <<generation, stops, call, ops, panics, fresh, alone>>

\* A pass panics: the receiver is dropped and the slot keeps its sender.
Panic(g) ==
  /\ panics < MaxPanics
  /\ Move(g, "busy", "done")
  /\ panics' = panics + 1
  /\ fresh' = FALSE
  /\ UNCHANGED <<slot, generation, stops, call, ops, alone>>

RunnerNext ==
  \/ \E c \in Callers : CallStep(c) \/ \E op \in Ops : Begin(c, op)
  \/ \E g \in Gens : \/ Work(g) \/ PassDone(g) \/ Leave(g)
                     \/ Compare(g) \/ Clear(g) \/ Panic(g)

RunnerSpec == RunnerInit /\ [][RunnerNext]_runnervars

\* Calls run to their end.  A pass ends, since every await in it does; the
\* select! that has a command (or the end of the channel) ready takes it in the
\* end however often the tick is ready too.
RunnerFairness ==
  /\ \A c \in Callers : WF_runnervars(CallStep(c))
  /\ \A g \in Gens : WF_runnervars(PassDone(g)) /\ SF_runnervars(Leave(g))
                     /\ WF_runnervars(Compare(g)) /\ WF_runnervars(Clear(g))

RunnerFairSpec == RunnerSpec /\ RunnerFairness

----------------------------------------------------------------------------
(* Properties. *)

\* As long as no two calls overlapped, no two tasks serve the same queue or job file.
NoOverlap == alone => Cardinality({g \in Gens : InLoop(g)}) <= 1

\* As long as no two calls overlapped, what the calls answer holds: after a start()
\* that answered true, and until somebody stops it, a task runs; a stop() answers true
\* only when no task is left (delivery.rs, start and stop of the handle).
AnswersSound ==
  /\ [](alone /\ fresh => \E g \in Gens : InLoop(g))
  /\ [][\A c \in Callers :
          alone /\ call[c].op = "stop" /\ call[c].pc # "idle" /\ call'[c].ok
            => \A g \in Gens : ~InLoop(g)]_runnervars

\* Overlapping calls do no lasting harm: a task that lost the slot, or that was sent a
\* Stop by a call that has long timed out, leaves its loop.
Converges ==
  \A g \in Gens : (InLoop(g) /\ (slot # g \/ g \in stops)) ~> ~InLoop(g)
============================================================================
