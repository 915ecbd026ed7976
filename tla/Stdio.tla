------------------------------- MODULE Stdio --------------------------------
(***************************************************************************)
(* The stdio transport on top of the session pool: one loop that reads a   *)
(* control message at a time, dispatches turns through a ProtocolChannel,  *)
(* and, while a turn is active, reads only tool responses and interrupts.  *)
(* Other frontends use the same session meanwhile.                         *)
(***************************************************************************)
EXTENDS Sessions

CONSTANTS
  Sdk        \* the client behind the transport

ASSUME StdioAssumption == Sdk \in Clients

VARIABLES
  loop,      \* what the loop of run is doing
  known,     \* StdioState.session_key is set
  pending    \* active_dispatch, or the turn the loop awaits

svars == <<vars, loop, known, pending>>

\* "idle" and "active" read the next line; the others await inside a handler:
\* handle_init its turn and its permission mode, handle_user_message its
\* dispatch, dispatch_session_control its reply.
Loops == {"idle", "dispatch", "active", "init", "initTurn", "initMode", "control"}
Reading == loop \in {"idle", "active"}

StdioTypeOK ==
  /\ TypeOK /\ loop \in Loops /\ known \in BOOLEAN
  /\ pending \in Msgs \cup {NoMsg}

StdioInit ==
  Init /\ loop = "idle" /\ known = FALSE /\ pending = NoMsg

\* The permission request of a turn of the transport: an entry of pending_tools.
Asking(t) == task[t].pc = "ask" /\ from[task[t].cur].by = Sdk

----------------------------------------------------------------------------
\* handle_init dispatches an empty message and handle_user_message its text.
ReadTurn ==
  /\ loop = "idle" /\ Dispatch(Sdk)
  /\ loop' \in {"init", "dispatch"} /\ pending' = Len(from')
  /\ UNCHANGED known

\* dispatch returned: the key is stored, or the error is written.
Dispatched ==
  /\ loop \in {"init", "dispatch"} /\ call[Sdk].pc = "idle"
  /\ IF fate[pending] = "refused"
     THEN loop' = "idle" /\ pending' = NoMsg /\ UNCHANGED known
     ELSE /\ loop' = IF loop = "init" THEN "initTurn" ELSE "active"
          /\ known' = (known \/ loop = "dispatch")
          /\ UNCHANGED pending
  /\ UNCHANGED vars

\* result.done.await of handle_init, then the optional send_control and SessionReady.
InitTurnDone ==
  /\ loop = "initTurn" /\ fate[pending] \in Settled
  /\ known' = TRUE /\ pending' = NoMsg
  /\ \/ loop' = "idle" /\ UNCHANGED vars
     \/ loop' = "initMode" /\ Control(Sdk)

ControlDone ==
  /\ loop \in {"initMode", "control"} /\ call[Sdk].pc = "idle"
  /\ loop' = "idle"
  /\ UNCHANGED <<vars, known, pending>>

\* ContextUsage, Rewind, ModelSwitch, SetPermissionMode between turns; without a
\* session, and during a turn, they are answered with an error.
ReadControl ==
  /\ loop = "idle" /\ known /\ Control(Sdk)
  /\ loop' = "control"
  /\ UNCHANGED <<known, pending>>

\* Mutant: only a turn that was answered ends the wait.
TurnDoneOnlyAnswered ==
  /\ loop = "active" /\ fate[pending] = "done"
  /\ loop' = "idle" /\ pending' = NoMsg
  /\ UNCHANGED <<vars, known>>

\* poll_active_dispatch: done resolves, and the end of the turn is written.
TurnDone ==
  /\ loop = "active" /\ fate[pending] \in Settled
  /\ loop' = "idle" /\ pending' = NoMsg
  /\ UNCHANGED <<vars, known>>

\* A tool response is read, in either reading state, and resolves the request.
ReadToolResponse ==
  /\ Reading
  /\ \E t \in Tasks : Asking(t) /\ Answer(t)
  /\ UNCHANGED <<loop, known, pending>>

ReadInterrupt ==
  /\ Reading /\ known /\ Interrupt
  /\ UNCHANGED <<loop, known, pending>>

\* The pool and the other frontends.
Pool == UNCHANGED <<loop, known, pending>>
PollClient(c) == CallerStep(c) /\ Pool
PollTask(t) ==
  (TaskStep(t) \/ Reply(t) \/ UseTools(t) \/ (~Asking(t) /\ Answer(t))) /\ Pool

Elsewhere ==
  \/ \E c \in Clients \ {Sdk} : (Dispatch(c) \/ Control(c)) /\ Pool
  \/ Interrupt /\ Pool
  \/ \E t \in Tasks : Panic(t) /\ Pool

LoopStep == Dispatched \/ InitTurnDone \/ ControlDone \/ TurnDone

StdioNext ==
  \/ ReadTurn \/ ReadControl \/ ReadToolResponse \/ ReadInterrupt
  \/ LoopStep \/ Elsewhere
  \/ \E c \in Clients : PollClient(c)
  \/ \E t \in Tasks : PollTask(t)

\* The runtime polls every ready task; a call of the model returns, with or without
\* tool calls; other frontends answer permission requests, and the SDK writes its
\* response whenever the loop reads.
StdioSpec ==
  /\ StdioInit /\ [][StdioNext]_svars
  /\ WF_svars(LoopStep) /\ WF_svars(ReadToolResponse)
  /\ \A c \in Clients : WF_svars(PollClient(c))
  /\ \A t \in Tasks : WF_svars(PollTask(t))

----------------------------------------------------------------------------
TurnsEnd == \A t \in Tasks : []<>(task[t].cur = NoMsg)
Answered == \A t \in Tasks : []<>~Asking(t)

\* A turn whose session is asked to stop ends, even if the model would ask for tools
\* for ever, as long as its permission requests are answered: the flag is looked at
\* between two calls of the model only (agent.rs, should_interrupt).
InterruptStops ==
  Answered => \A t \in Tasks :
    (task[t].flag /\ task[t].pc \in {"check", "llm", "ask"}) ~> (task[t].cur = NoMsg)

\* If every turn ends or panics, every message is settled: answered, refused or dropped
\* with its session, and the loop goes on from it (worker.rs; stdio.rs, poll_active_dispatch).
EverySettled ==
  TurnsEnd => \A m \in Msgs :
    (m <= Len(from)) ~> (fate[m] \in Settled /\ pending # m)
=============================================================================
