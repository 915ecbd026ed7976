# TLA+ models of minusagent

Minusagent is an agent framework on tokio: a gateway routes messages of several
frontends to agent sessions, and around the sessions run background services (delivery,
cron, heartbeat), teams of agents, a task board and git worktrees. Most of its state is
in files that several tokio tasks, and several runs of the process, share.

This directory models the parts where order, interleaving and failure decide whether
the program is right. `*.tla` are the modules, `*.cfg` the TLC configurations,
`PROJECT.json` maps every definition to its source lines, lists the runs, the mutants
(a mutated definition that each property must reject), the hazards and the theorems.
Paths below are relative to the repository's `src/`.

    tlc -workers 2 -config DeliverySingle.cfg MCDeliveryQueue
    tlapm DeliveryQueueProofs.tla

## 1. The system

| Component | Source | State | Operations | Modelled in |
|---|---|---|---|---|
| Delivery queue | `routing/delivery.rs` | `queue/*.json`, tmp files, `failed/`; runner task | enqueue, process_pending, ack, fail, cleanup_tmp | `DeliveryQueue`, `Outbox`, `Chunks` |
| Service life cycle | `routing/delivery.rs`, `scheduler/cron.rs` | slot (`cmd_tx`), generation, tasks | start, stop, restart, task loop | `ServiceRunner` |
| Cron jobs | `scheduler/cron.rs` | job table, `CRON.json` | tick, trigger, create, delete, reload | `CronJobs` |
| Heartbeat and lane | `scheduler/heartbeat.rs`, `lane.rs`, `engine/session.rs` | lane counters, last run, cached HEARTBEAT.md | turn, automatic heartbeat, trigger, status | `Heartbeat` |
| Gateway sessions | `frontend/gateway/session_runtime/` | map key -> handle, session tasks, interrupt flag | dispatch, get_or_spawn, interrupt, control | `Sessions` |
| Protocol channel, stdio | `routing/protocol.rs`, `frontend/stdio.rs` | active turn, pending tool calls | init, turn, control, tool response, interrupt | `Stdio` |
| Managed services | `frontend/gateway/service_*.rs`, `runtime/service_state.rs`, `runtime.rs`, `frontend/launch.rs` | desired state and its file, frontend slots, generations | start-up, start, stop, restart, finish | `ManagedServices` |
| Discord frontend | `frontend/discord.rs` | socket, resume state, heartbeat task, pending questions | connect, identify, resume, message, command, confirm | `Discord` |
| Router | `routing/router.rs`, `frontend/gateway/rpc/admin.rs` | sorted binding table | add, remove, resolve, session key | `Routing` |
| Agent loop, background | `engine/agent.rs`, `tool/`, `team/task/background.rs` | history, interrupt, idle flag, notifications | request, tool calls, subagent, drain | `AgentLoop` |
| Resilience, compaction | `resilience/`, `engine/session/compact.rs`, `engine/session/command.rs` | key cooldowns, the store's model and key, history, circuit breaker | rotation, overflow recovery, fallback, three levels of compaction, rewind, /new, /compact | `Turn` |
| Session store, file tools | `engine/session/store.rs`, `tool/exec/file.rs` | `sessions.json`, transcripts, mtimes read | /new, /save, /load, read, write, edit | `SessionFiles` |
| Task graph | `team/task/graph.rs` | `task_N.json` files | create, update, claim, bind/unbind worktree | `TaskGraph` |
| Worktrees | `team/worktree.rs` | `index.json`, git worktrees and branches | create, remove, keep | `Worktrees` |
| Team | `team/manager.rs`, `team/manager/{protocol,runtime}.rs` | roster and `config.json`, wake channels, requests, teammate tasks | spawn, send_message, shutdown and plan protocols, idle poll | `Team` |
| Message bus | `team/manager/bus.rs` | one JSONL file per agent | send, read_inbox | `MessageBus` |
| Todo list, terminal, command line, prompts and memory, shell/search/web tools, configuration | the rest | none that others rely on | input and output | not modelled |

How they interact. A frontend dispatches a message to a session's queue; the session runs
one turn at a time, whose loop calls the model and tools; the task, team, worktree and
file tools write the shared files directly, so every teammate task and every session meets
there with no lock but the team's mutex. Services are tasks that a clonable handle starts
and stops through a channel; cron and heartbeat put their output in the delivery queue,
whose runner hands it to the frontends' sinks. Inboxes and background results are put into
the history before each model call. A permission question travels from the turn back to
the frontend that is waiting, directly or through a queue, for that very turn.

What is hard. Write-ahead queues under crashes; handles used by several callers while a
task is in a long pass; load-check-save on shared files; look-ups and insertions under two
sections of a lock; wake-ups, deadlines and status writes that race; states that come back
from disk without the tasks they describe; a history that retries, interrupts, injections
and compactions all edit; loops that wait for what only they can deliver. `hazards` in
PROJECT.json lists each one at its line.

What makes each component correct:

- *Delivery*: an accepted message is never lost; a duplicate needs a lost ack; an entry
  is given up only after the allowed number of failures and never retried for ever.
- *Service life cycle*: no two tasks while calls do not overlap; what start and stop answer
  is true; extra tasks end.
- *Cron*: no slot runs twice; repeated failures disable a job in time; what create and
  delete answered lasts, unless the file was cut off; a due job runs however late its pass comes.
- *Heartbeat*: runs carry what the last look found in the file, do not begin while a turn of
  a user is seen, and never stop for good.
- *Sessions and stdio*: one conversation per key, in order; a message is lost only with a
  session that could not be created or whose turn panicked; an interrupt stops the turn; every
  message is settled.
- *Managed services*: what is desired is what runs; intents survive restarts; calls return, if
  the sessions that Discord waits for answer.
- *Discord and routing*: an event is handled once; a question is answered from its chat;
  a message goes where the most specific binding says; the loop reconnects,
  if its peer answers.
- *A turn*: the tool calls of a history that nothing scarred are paired with results; a
  background result is told once; every usable key is tried; the turn ends.
- *Session store and files*: a file is overwritten without warning only if the session has
  seen its content; a saved session stays listed and its transcript is its own.
- *Task graph and worktrees*: edges mirror, completion unblocks, one owner, blockers first, as
  far as no file is written over with an older copy; no worktree is forgotten; a removal
  that promises to completes a task that exists.
- *Team*: an approved shutdown happens and stays; a member re-awakened while its task waits
  works again; mail is read.
- *Bus*: a message is returned once and in its sender's order, but where two reads overlap;
  only overlap loses one.

## 2. Modules

**DeliveryQueue** models the queue directory and its runners one file operation at a
time. `queue`, `tmp` and `failed` are sets of entries, an entry `<<m, c>>` is chunk `c` of
message `m`; `retry` and `due` are what the JSON of an entry says. `enq` is the progress of
an `enqueue` call (write, rename, next chunk, or undo after an error), `run` that of a
runner: `Scan` is `load_pending` and the comparison of due times, taken once for the pass;
`Deliver`, `SinkOk`, `SinkErr` the await of the sink; `Ack`, `GiveUp`, `BeginRetry`,
`CommitRetry` and `FailError` what follows. `StartRunner` includes `cleanup_tmp`. `Crash` ends
the process anywhere. `sent`, `refused` and `unacked` are history. Several runners may
be alive, as racing `start()` calls leave them.

**Outbox** is the promise of that queue in three lines of state: a message, once accepted,
is owed until it is sent or given up, and does not stay owed for ever. `MCDeliveryQueue`
maps the queue to it (`RefinesOutbox`): an accepted message owes the chunks still in the
queue.

**Chunks** holds `chunk_message` and `chunk_text` as functions of sequences of bytes and, as
assumptions that TLC evaluates, what both promise over all texts of up to six bytes and
limits up to three: the pieces are the text, none empty or too long, none beginning inside
a character, or the cut panics, and only on wide characters.

**ServiceRunner** is the life cycle that `delivery.rs` and `cron.rs` contain twice: `Begin` to
`Answer` are the calls, one step per look at the slot (the slot's mutex) and one per
access to the generation, which is outside of it; `Work` to `Panic` the task. The n-th
`install_sender` creates channel n, so a number stands for a task, its channel and its
generation. Both copies are mapped. `alone` is history: no two calls have overlapped.

**CronJobs** models the service's job table and `CRON.json`. `svc` is where the task is: idle,
in a pass (with the pass's `now`, the jobs left and the one-shots to remove) or in the await of
a job's run. `Tick`, `RunJob`, `Finish` and `EndPass` are `tick` and `run_job`; `Create`,
`Delete`, `Trigger`, `Load` the commands, which wait for a pass to end; the clock (`Advance`)
does not. `Save` truncates the file and `Saved` writes it, as `std::fs::write` does: either may
fail, and a crash in between (`Down`) leaves a file that does not parse (`cut`). `Load` may fail
and leave an empty table, as the code does. A schedule is the set of seconds it names, or a
period that starts again at each computation; times are small numbers. `ranAt`, `asked` and
`cut` are history. What a job does is an outcome, ok or error.

**Heartbeat** models the heartbeat task of one session: its poll reads the lane (`Look`),
marks it (`Mark`) and runs, or runs for a `/trigger` sent from inside a turn; `Refresh` is
the file and its cache. `file`, `cache` and `doing` are versions of HEARTBEAT.md; `Save` and
`Remove` the user's editor; `Begin` and `End` the turns that hold the lane too. A failed run
and a good one leave the same state.

**Sessions** is the gateway's pool for one key: `Dispatch` and `Insert` are the two looks of
`get_or_spawn_session_sender`, `Send` the bounded queue, `Create` the session that may not come
up, `ReportFailure` and `CloseFailed` what then happens to its queue, `Check`, `Reply`,
`UseTools` and `Answer` a turn that looks at the interrupt flag, waits for the model or asks a
permission. `Panic` ends a task in its turn, as a text cut inside a character does (`chunk_text`
in a Discord reply, a tool result cut at `resilience/runner.rs:197`), and drops its queue.
**Stdio** extends it with the stdio loop (`loop`), which reads other lines when a turn is active
than when none is, next to other frontends on the same key.

**ManagedServices** has one service of each kind: `handle` (cron, delivery), whose life cycle
is that of ServiceRunner cut down to a stop that may outlast its caller's patience, and
`front` (websocket, Discord), with its slot, its tasks by generation and their draining.
The Discord loop may wait for a session (`Waits`), where it does not see that it is told to stop,
until the session answers (`Heard`).
`op` is the progress of each control call and of the start-up; a call over the websocket is cut
off when the frontend's task aborts its connections (`CutOff`). `file` is
`services.json`, `asked` what the calls asked for (history).

**Routing** holds the binding table and its resolution as operators, with `Specific` as the
reference definition. `Add`, the push and the stable sort, puts a binding in its place in a
table that is sorted already; `Remove` (`retain`) numbers the indices that stay. **Discord**
extends it with the gateway loop of `start_gateway` (`loop`), the socket and Discord's side of
it (`log`, `sent`: external), the heartbeat task, the sessions reached by messages, the
questions of `confirm`, and bindings that change. After a heartbeat that was not acknowledged
`Tick` only sends a close frame: the loop reads on until the peer answers (`AnswersClose`), or the
system gives up on one that is gone (`GivesUp`). A turn may panic (`TurnPanics`); `Stop` is seen
where the loop waits for its socket or a timer.

**AgentLoop** is `cot_loop` on a history of messages, of which the role, the number of calls
or the call answered, and the background results inside matter; `Ask` injects and requests,
`Result`, `Delegate`, `SubTurn`, `SubDone` and `ToolsDone` are the tool calls. **Turn**
extends it with the resilience runner (`Select`, `Failed`, `Fallback`, `Exhausted`,
`EmergencyCompact`), the compaction after a turn (`Micro`, `AutoCompact`, `FullCompact`) and
the commands that edit the history (`Rewind`, `New`). `scarred`, `open` and `soft` are
history: they record what excuses the properties.

**SessionFiles** models the files of several sessions of one process: the file tools, one
step per system call, with a version number for content and mtime, and the session store.
`own` is the index a session read when it was opened and writes back whole; `talk` and
`script` say which conversations' messages a history and a transcript hold. `seen`,
`unknown`, `saved` and `excused` are history.

**TaskGraph** models one file write per step: an update saves the other end of each edge
(`SaveNeighbour`) before it knows that all named tasks exist (`UnknownTask`), then sets the
status, clears the completed task from the tasks that wait for it (`ClearNext`, from copies
read at the beginning) and saves its own copy. `WriteError` fails any save, `TornRead` is a
read of a file that another agent is writing. Operations of different agents interleave, and an
update may name its own task. `base` is the task as the operation loaded it, so that `stale`
knows the files that were written over with an older copy; `met` says that an operation met
another one; both are history, as are `ever` (completed once) and `claims`.
**Worktrees** extends it with `index.json`, git's own worktrees and branches, and the tool
handlers that bind, complete and unbind tasks around them, and that ignore a task that does not
exist (`NotFound`) or does not parse (`TornLoad`): any number may be given as the task.

**Team** models the manager's critical sections: `SetStatus` with its write of `config.json`,
the tool calls of the lead and the teammates (a call of several steps is kept in `doing`)
and `teammate_loop` with `idle_poll` as a program counter. A message is a request's
number or 0. The board (`PollBoard`) only says whether a task was claimed; TaskGraph models
the claim. `called` is history: where the task of a member was when a spawn re-awakened it.

**MessageBus** models one inbox by system calls: `writeln!` on an unbuffered file is a
write of the record and one of the newline; `read_inbox` reads and then truncates. A line
is a record only if nothing shares it (`Lines`). `received`, the contents of the reads that
returned a message, `touched`, the messages whose send met a reader or an unfinished
line, and `crossed`, those in the hands of a reader while another one read, are history.

**MC modules** give TLC the constants that are functions or records, the refinement mapping and
the symmetry sets. `MCWorktrees` lets all agents act, or one alone with larger updates.
`MCFiles` puts two components without common state, the inbox and the session files, into one
run: `part` chooses in the initial state which of them a behaviour is about.

The theorems (section 5) are in modules of their own, of which some are about two components:
**DeliveryQueueProofs**, about `DeliveryQueue` and `Heartbeat`; **SchedulerProofs**, about
`ServiceRunner` and `CronJobs`; **WorktreesProofs**, about `TaskGraph` and `Worktrees`;
**TeamProofs**, about `Team` and `MessageBus`; **SessionProofs**, about `Sessions`, `Stdio` and
`SessionFiles`; **ManagedServicesProofs**; **TurnProofs**, about `AgentLoop` and `Turn`;
**DiscordProofs**, about `Routing` and `Discord`. Modules that are extended together name their
specifications apart (`HeartbeatSpec`, `RunnerSpec`, `WorktreesSpec`, `BusSpec`, `StdioSpec`,
`FilesSpec`).

## 3. Runs

| Run | Instance | Shows |
|---|---|---|
| `single_runner` | 2 messages (2 and 1 chunks), 1 runner, 2 attempts, 1 file error, 1 crash or restart | `NoLoss`, `DuplicatesExcused`, `FailedJustified`, `BackoffRespected`, `RefinesOutbox`; the assumptions of `Chunks` |
| `service` | 2 callers, 3 calls, 1 panic | `NoOverlap`, `AnswersSound`, `Converges` |
| `cron_jobs` | a one-shot, a job with 3 slots and one with a period; 2 seconds, 2 commands, 1 file error, 1 stop or crash, also between the truncation and the write of CRON.json, threshold 2 | `DisabledInTime`, `CommandsDurable`, `SlotOnce`, `DueServed` |
| `heartbeat` | a day of 4 hours, 2 settings (one spans midnight), 3 versions of the file | `FreshRuns`, `YieldsToUser`, `RunsServed` |
| `stdio` | the SDK and another client, 3 messages, 2 tasks, queue of 2, 1 session that cannot be created, 1 turn that panics | `LostOnlyWithSession`, `OrderedInOne`, `InterruptStops`, `EverySettled` |
| `services` | 3 configurations, one with a ready Discord, a local and a remote caller, 2 calls, 1 crash, 1 fault | `Agreement`, `IntentKept`, `ControlReturns` |
| `discord` | 1 user, a DM and a guild channel, 2 messages, 1 fault or panic, 1 changed binding, queue of 1 | `EventsOnce`, `AnsweredInChat`, `Routed`, `ReconnectsUnlessStuck` |
| `discord_reconnects` | the same | finding: the loop waits for a session that waits for the loop |
| `turn` | 2 turns, 2 keys, 1 fallback, 2 failing requests, 2 replies of up to 2 calls, 1 background job, a subagent of 2 turns | `HistorySound`, `AllKeysTried`, `TurnEnds` |
| `shared_files` | an inbox with 2 senders, 3 messages, 2 readers and a cut-off send; or 2 sessions, 2 files, 2 saved sessions, 4 operations, 1 change by others, 1 failed write or crash | `InboxSound`, `SavedSound`, `OverwritesSeen` |
| `tasks` | 2 tasks, 3 operations, 1 write error; 2 agents, whose task and worktree operations (1 name) interleave, 1 edge or status an update; or 1 agent, whose updates name up to 3 edges and a status, missing tasks and the task itself among them | `EdgesMirrored`, `UnblocksOnComplete`, `ClaimSound`, `TreesListed`, `RemovalCompletes` |
| `team` | the lead and 1 teammate, either answers, 2 operations, 1 failed write, 1 restart, 2 wake-ups | `ApprovedHeeded`, `ReawakenedServed`, `LoopServes` |

The `TypeOK` of each module documents its state. Those of `DeliveryQueue`, `CronJobs`,
`ManagedServices` and `Team` are proved as parts of the invariants of section 5; of the others
the proofs establish the types but not every bound, and the runs do not repeat them.

Why the bounds are enough. *Delivery*: two chunks are the least for a half-written message, two
attempts for a retry that is not the last; one error and one crash can each fall at any step.
*Service*: three calls let a stop time out, the next start be refused, and a restart race
either. *Cron*: two seconds let a pass begin at a slot, outlast the next one and be followed by
a pass that must skip or serve it; two commands trigger a job into its threshold, delete and
create it again, or reload between two passes. *Heartbeat*: three versions let the file change
between a look and a run, be removed and written again; four hours hold both kinds of active
window. *Stdio*: two tasks are a session and the one that replaces it after a failed creation,
three messages one in hand, one queued and one refused or sent elsewhere; one panic ends the
first task or the second. *Services*: two calls overlap on one service or follow each other,
with a crash in either. *Discord*: a message begins a turn, another answers its question or
meets a full queue; a fault breaks the connection at any step between. *Turn*: two keys and a
fallback are the least for a rotation and a change of model, two turns for what the first leaves
behind. *Files*: four operations are read, change, write on one file, or two sessions that open,
create and save over each other. *Inbox*: three messages are two of one sender, the least to be
out of order, and one that another one's line is shared with. *Tasks*: the files of none, one or
two tasks are there at the beginning, so three operations of two agents are one that is in
progress and two that begin and end meanwhile, of any kind: overlapping claims, an edge added
while its blocker completes, two creates; in the behaviours of one agent (`MCWorktrees`,
`team`), its updates do several things. Three worktree operations create a tree, remove it and
create its name again. *Team*: two operations let a message or a request follow a shutdown
request. Where a bound cuts a behaviour off (calls, operations, sends), it stops new work, never
work in progress. Symmetry is used only in runs without liveness properties and over
interchangeable names.

Deadlock is checked in `heartbeat`; every other instance stops when its bounded work is done.

Fairness. `DeliveryQueue`: the interval ticks, awaits of sinks return, backoffs elapse, and a
runner that is gone is started again; nothing is assumed of producers or faults.
`ServiceRunner`: calls and passes end, and the task takes a ready command in the end however
often the tick is ready too (`select!` picks at random, hence strong fairness of `Leave`).
`CronJobs`: the awaits of a pass return, and the interval's tick is taken in the end though
commands may be ready each time (`select!` again, hence strong fairness of `Tick`), and a write
of the file returns; nothing is assumed of commands, loads or the clock. `Heartbeat`: time
passes, turns and runs end, and the three arms of its `select!` are taken in the end (strong
fairness of `Trigger`, `Status` and `PollRuns`). `Stdio`: the runtime polls ready tasks, a call
of the model returns, and the SDK answers while the loop reads; that turns end at all is a
hypothesis of `EverySettled`, not an assumption, since a model may call tools for ever.
`ManagedServices`: ready tasks are polled, and a frontend's loop that comes back to its
`select!` again and again sees its shutdown flag in the end (strong fairness of `Drains`:
`select!` picks at random); a wait of the Discord loop for a session is under no fairness, and
that it does not last for ever is the hypothesis `SessionsAnswer` of `ControlReturns`.
`Discord`: ready tasks are polled, the network forwards what it receives, or breaks, and a peer
that is there answers a close; a peer that is gone need never be given up on, no turn has to
panic, and users never have to write. `Turn`: a turn under way takes its steps; a bounded number
of requests fails. `Team`: the runtime schedules every task, a model call returns and its turns
are limited; tool calls run to their end.

## 4. Where code and documentation disagree

Checked by a run (finding in PROJECT.json): `frontend/discord.rs:694` promises automatic
reconnection after every disconnect that is not fatal; the loop that reconnects can wait
for a session whose turn waits for a y/n answer that only this loop can read
(`discord_reconnects`). `ReconnectsUnlessStuck` shows that the only other exceptions are
a peer that is silent before the heartbeat task is spawned (`SilentStart`) and one that is gone
when the close frame of a missed acknowledgement is sent (`Gone`): the loop then reads until the
system gives up on the connection.

Two more, which the models show and no run states: `team/manager/bus.rs:85` says that the handle
held by `read_inbox` prevents a concurrent reader from seeing the same messages; it prevents
nothing, and several agents read one inbox: its owner before a turn, `/inbox`, and whoever gives
its name to `team_read_inbox`. `InboxSound` bounds the damage to messages in the hands of a
reader while another one read.

`team/manager/runtime.rs:63` says that `spawn` re-awakens an idle teammate; a member still shows
idle when its `idle_poll` is about to end or has returned at the deadline, or when a shutdown has
closed its channel, and the answer "re-awakened" is then followed by the end of its task.
`ReawakenedServed` shows that a task that waits for a wake-up does not lose it.

Met while modelling, each a behaviour of the modules that the properties excuse by name:

- `routing/delivery.rs:294` promises all-or-nothing enqueue; a chunk is visible to the runner
  as soon as it is renamed and can be delivered before a later chunk fails to be written;
- `routing/delivery.rs:351` (and `scheduler/cron.rs:234`) says that restart keeps the handle
  alive; during a pass longer than half a second it leaves the service stopped: stop gives
  up waiting, start finds the old sender, and the old task then obeys the Stop. Two starts
  that race can leave nothing running, too, or two tasks for a while (`alone`);
- `team/task/graph.rs:100` says that edges are bidirectional; an update that fails after it
  saved the other end leaves half an edge (`aborts`),
  an update that names its own task may write over one side of that edge (`stale`), and one
  added while the
  blocker completes stays (`met`). Overlapping claims hand a task out twice, and an update
  writes over what others wrote to its task since it loaded it, edges, claims and completions
  included (`stale`). A dependency on a task that is already
  completed is never cleared; two creates that overlap compute the same id;
- in an inbox, a send between read and truncation is lost, and two senders can share a line
  (`touched`);
- a message that arrives between the last look at the inbox and the idle deadline stays
  unread when the teammate's task ends (`team/manager.rs:126`); after a restart an idle
  member is "re-awakened" with no task behind it; another agent's approval of a shutdown can
  be overwritten by the loop (`by` in `ApprovedHeeded`);
- a job that was auto-disabled (`scheduler/mod.rs:6`), or a one-shot removed after its run
  (`tool/schema/cron.rs:62`), is in the table again after a restart, since neither change is
  saved; after a `CRON.json` that cannot be read, the next create or delete saves the empty
  table over it, and the service that dies while it writes the file leaves such a one (`cut`);
  an `every` job without an anchor starts its period again at each load;
- the instructions of a removed HEARTBEAT.md stay cached and are run by `/trigger`
  (`scheduler/heartbeat.rs:401`), and a turn of a user may begin between the look that lets
  a heartbeat turn begin and that turn, and run beside it;
- a stop or restart of the websocket service over the websocket is aborted with its
  connection before it is recorded or started again; a restart of an unconfigured Discord
  records it as desired; a start while the old listener drains fails to bind; a stop of Discord
  waits, with no timeout, for a loop that may itself be waiting for a session
  (`frontend/gateway/service_runtime.rs:139`);
- a turn that panics ends its session's task and drops the messages in its queue (`panicked`);
- an interrupt that arrives while the session is idle stops the next turn;
  `handle_init` of `frontend/stdio.rs` awaits the initial turn and reads no tool response
  meanwhile, so one that asks for permission waits for ever;
- the history is left unpaired by malformed tool arguments and by a subagent that fails, until
  `/new` or a compaction cuts it (`scarred`); a failure without a cooldown selects the same key
  again, so a later key may not be tried (`soft`); "Reset profile cooldowns for fallback
  attempt" (`resilience/runner.rs:68`) resets nothing;
- sessions write back the index they read when they were opened and so take the sessions that
  others created out of `sessions.json` (`unknown`); a `sessions.json` that does not parse
  counts as empty; labels that are equal, empty or a prefix of another cannot be loaded;
- `/new`, `/load` and a rewind keep the table of files read, so the guard of `write_file`
  speaks of what the session read, not of what its history still shows; a tool's own
  write leaves the old mtime in the table and so warns the next one;
- the name of a removed worktree finds its first, removed, entry after it is created again;
  `keep` brings a removed entry back to life; `remove` without `complete_task` leaves the task
  bound; a task that does not exist is accepted by `create` and "completed" by `remove`
  (`handlers/worktree.rs:94`), which answers the same (`known`); two handlers that overlap write
  stale indexes (`torn`);
- a y/n question is posted before its sender is registered, a second question in the same chat
  denies the first, and a message already on its way answers a question it was not meant for;
  a failed Resume is followed by a new identification, which loses the events between
  (`fresh`); `!` commands resolve without the guild and so reach another session than the
  chat's messages when a guild binding decides;
- `chunk_text` (`frontend/utils.rs`) means to find a character boundary but slices before it
  looks: like `chunk_message` it panics when the limit falls inside a wide character.

## 5. Proofs

Each theorem holds for every value of the constants that satisfies the named assumptions of
the modules: numbers of actors, names and messages, capacities, retry limits, and the bounds
on operations, faults and crashes, which are arbitrary numbers. Besides saying what kind of
thing a constant is, the assumptions ask that the markers (`NoId`, `Nothing`, `Bad`, `Missing`,
`Torn`, `NL`, `NoTask`) are not confused with the values they stand next to. Some theorems of the
delivery queue are restricted further, and say so in their statement: to one runner, which is
what calls that do not race leave, because the properties are false without.

| Property of a run | Theorem | Module | Restriction |
|---|---|---|---|
| `NoLoss` | `NeverLost` | DeliveryQueueProofs | |
| `FailedJustified` | `GivenUpJustified` | DeliveryQueueProofs | |
| `DuplicatesExcused` | `OnlyLostAcksRepeat` | DeliveryQueueProofs | one runner |
| `BackoffRespected` | `OnlyDueDelivered` | DeliveryQueueProofs | one runner |
| safety of `RefinesOutbox` | `QueueKeepsPromise` | DeliveryQueueProofs | one runner |
| `FreshRuns` | `RunsAreFresh` | DeliveryQueueProofs | |
| `YieldsToUser` | `UserComesFirst` | DeliveryQueueProofs | |
| `NoOverlap` | `OneTaskAlone` | SchedulerProofs | |
| `AnswersSound` | `AnswersHold` | SchedulerProofs | |
| `DisabledInTime` | `FailuresDisable` | SchedulerProofs | |
| `SlotOnce` | `SlotsRunOnce` | SchedulerProofs | |
| `CommandsDurable` | `AnswersOutlast` | SchedulerProofs | |
| `EdgesMirrored` | `EdgesMirror` | WorktreesProofs | |
| `UnblocksOnComplete` | `CompletionUnblocks` | WorktreesProofs | |
| `ClaimSound` | `ClaimsAreSound` | WorktreesProofs | |
| `TreesListed` | `TreesStayListed` | WorktreesProofs | |
| `RemovalCompletes` | `RemovalsComplete` | WorktreesProofs | |
| `ApprovedHeeded` | `ShutdownStays` | TeamProofs | |
| `ReawakenedServed` | `RecallIsServed` | TeamProofs | |
| `InboxSound` | `ReadersSeeAll` | TeamProofs | |
| `OrderedInOne` | `OneConversation` | SessionProofs | |
| `LostOnlyWithSession` | `WorkingSessionLosesNothing` | SessionProofs | |
| `SavedSound` | `SavedStays` | SessionProofs | |
| `OverwritesSeen` | `OverwritesAreSeen` | SessionProofs | |
| `Agreement` | `DesiredRuns` | ManagedServicesProofs | |
| `IntentKept` | `FileKeepsIntent` | ManagedServicesProofs | |
| `HistorySound` | `HistoryStaysSound` | TurnProofs | |
| `AllKeysTried` | `NoKeyLeft` | TurnProofs | |
| `EventsOnce` | `HandledOnce` | DiscordProofs | |
| `AnsweredInChat` | `AskerAnswers` | DiscordProofs | |
| `Routed` | `MessagesAreRouted` | DiscordProofs | |

Two refinements are proved: `QueueKeepsPromise` (every step of the queue is one of `Outbox` or
a stutter) and `StdioIsSessions` (`StdioSpec => Spec`: the stdio frontend does to a session only
what any client may do), through which the theorems about `Sessions` carry over to `Stdio`.

No property is inductive as it stands; each proof rests on the invariant below, which was
model-checked on the runs' instances where that is not the property with its types.

**Delivery queue.** `NoLoss` speaks of accepted messages alone, and a message becomes accepted
with its last rename, when the earlier chunks may long have been delivered. `LossInv` says of
every call in progress that the chunks renamed so far are accounted for (queued, sent or in
`failed/`), that an undo touches only a call that will not be accepted, and that a runner about
to ack holds an entry it has sent. `RetryInv` is about `fail`, which reads the count, adds one
in memory and writes it back: two runners may write the same count, so that the count on disk
can be too low, and the question is whether it can be too high. The count of an entry plus the
number of runners that hold a failure of it uncounted is at most the number of failed
deliveries. A failed delivery adds one on both sides, reading the count back moves the runner's
own failure from the set into the count (`FS_AddElement`, `FS_RemoveElement`), and a runner that
gives up is itself one of the uncounted. `SingleInv` follows one runner: an entry that is still
to be delivered, wherever it is (not written, queued, in the batch, in hand), was sent no more
often than acks were lost (`Balanced`); the batch is due and disjoint from what is in hand
(`Places`), so an undo or a write-back by `fail` never puts off what the runner is about to
take; what is written back was not removed, but by an undo (`Written`), which is what keeps a
retry from making an entry owed again in the refinement.

**Heartbeat.** `HeartbeatInv`: the cached mtime is never ahead of the writes, a cached mtime that
is the file's has the file's content beside it, and it is the file's once the heartbeat has
looked (`CacheSound`): a look that finds the same mtime may keep what it has. The lane's count is
the number of turns and runs that marked it (`Marks`), so that `mark_done`, which saturates,
never takes away the mark of another. `RunsAreFresh` claims nothing of the time before the first
look, nor while the file is missing, when a `/trigger` runs the cached instructions;
`UserComesFirst` is about the look, after which a turn of a user may begin before the run.

**Service runner.** `RunnerInv`: as long as no two calls overlapped (`AloneInv`), one call is in
progress; generations are used in order and there is room for the one a call may still
reserve; the slot holds every task that has not ended, and a call that is past its check of the
slot found it free of such (`SlotHolds`); after a start that answered true, and that nobody
undid, a task is in its loop with no Stop to read (`FreshSound`). Types are proved without the
upper bound of the generation, which is a matter of the room left, not of types.

**Cron jobs.** `SlotOnce` compares a due time with a run that may lie before a restart. `JobInv`
orders the times: no run is later than the clock, and a due time lies after the job's last run,
except for the job being run, whose last run is the very time its next slot is computed from.
A reload computes from the clock, and so from no earlier time than any run. `Durable` splits
`CommandsDurable` in two: between saves CRON.json says what the table does and what was answered
(`FileAgrees`, `TableAgrees`), and during one the table alone does; it parses, until a file
operation fails or a crash comes between the truncation and the write.

**Task graph.** Operations interleave, so that no clause of `GraphInv` may say that a copy in hand
is what the file holds. It says instead that every version of a task, in a file or in a copy that
may be written, tells the truth (`Sound`): whoever it waits for lists it, or is about to
(`Linked`), and whoever it blocks waits for it, or is about to, or has been completed
(`Waited`), unless a file was written over with an older copy or an operation returned an error.
What is about to be written to a neighbour is excepted while it is (`Copies`). These truths
survive every write that is not one over newer content: such a write only adds edges to what it
read, or takes out the task that is being completed. `Hand` says what an operation's fields
hold, whatever the files have become; `Alone` that one that met no other has the graph to itself;
`Clearing` that one that completes its task alone has yet to clear every file that names it;
`Owned` that a task that was claimed keeps an owner, which is why a second claim needs `stale`.

**Worktrees.** In every interleaving, as long as no index was written from a stale copy: a copy
in hand is no longer than the index, and what is about to be marked as removed is gone from
git, is about to be listed again, or was listed again after the copy was made (`MarksGone`).
Without the last two cases the invariant is false, since a name may be created again while its
removal is on the way. `RemovalInv` follows a removal that completes its task through the
update: it names no other task, so that only a failed write or a file that is being written can
end it early, and tasks are never deleted, so that one that existed as the removal began is
found.

**Team.** `TeamInv`: an answer being carried out is the one that agent gave; whoever runs is on
the roster; whoever approved its own shutdown is still carrying that out or is shut down, in a
stage of its loop that writes no other status (`Leaving`). The last clause is what the order of
checks in `teammate_loop` is for. `CallsWait` adds that a member re-awakened in its poll has a
wake-up in its channel until the task takes it, and then goes on to the next cycle: a full channel
holds one already, the poll's interval passes only over an empty channel, and a closed channel
still gives what it holds.

**Message bus.** `BusInv`, for any number of readers at once: a reader at work has read every
message of the file whose send met neither a reader nor an unfinished line, so that what it
truncates it returns. `OrderInv` adds that the messages of a sender stand in the file in their
order, after all that were returned, and that what a reader holds was sent before and is how the
file still begins, unless another one read meanwhile (`ReadIsPrefix`): then both hold only
messages that `crossed` names (`TwoReadsCross`). A truncation by one reader therefore takes the
file from under another only when that one's messages are excused already.

**Sessions and stdio.** `SessionInv`: whoever holds messages, or is about to be sent one, is the
task in the slot (`InSlot`); a queue holds each message once, in its client's order, and only
messages sent to its task; a message is without a fate only in the hands of its caller; a
task that drops messages never handled one, or its turn panicked (`LostOnlyWithSession`).

**Session files.** `FilesInv`: a tracked mtime that is still the file's says that the session has
seen its content, and so does the version the guard took when no warning was given
(`GuardSound`, from the mtime being taken before the content); a history holds the messages
of the conversation the session has named, and nothing else, from before a transcript is
written (`HistoriesApart`); an open session knows every id but those that it could not know
(`IdsKnown`), so an index it writes loses only those; a torn index is being written or is
excused (`IndexSound`).

**Managed services.** `RunInv`: the slot holds the newest frontend task that nobody told to stop;
calls on one service that overlap know of each other; a call that met no other has achieved
what its place in the code says (`Progress`); a service that no call is at does what is desired
(`Settles`); and the start-up is alone until it is over. `IntentInv` adds what the file, the file
as loaded and the desired set say, at each stage of the start-up. `StartFront` has the bound
`gen + 1 \in Gens` in its guard, as every counter of the models has; calls are bounded so that
it is never what stops one in a run.

**Turn.** `HistoryInv`: while tools run, the history ends with the message that called them and
the results so far, in order; until something is cut off, every result has its call before it
and every call its results, but for the message being served; a background result is in
one place (the notices, dropped, one message). Each edit of the history (a cut of the front, a
rewind, a summary, an emergency compaction) is a lemma about sequences. `Rotation`: a key that was
not tried is not cooling, and `tries` counts no more attempts than keys cooled down, so that a
rotation that runs out of tries has cooled all of them (a cardinality argument).

**Discord.** `GatewayInv`: the numbered frames between Discord and the gateway are consecutive,
the first of them follows `seq` (or is the READY of a new session), the last is the last one
sent (`InboxInOrder`); `seq` is the last event handled or the start of a session (`SeqSound`); what
sessions hold was handled, and a pending question is one of a turn of that chat.

**Routing.** `TableInv`: of two bindings the earlier one goes before the later one, or neither
does and it was set first (`Sorted`). `Add` finds a place because the bindings that are not to
stand behind the new one are the first ones; `Remove` keeps the order because its n-th element
is the n-th index that stays, which exists for every n up to their number (`NthFacts`). The
first match of a sorted table is then the most specific one, and two messages that differ in
their guild only have the same first match unless it is a binding by guild.

Model-checked only. Liveness and `ENABLED` are out of the prover's reach: `Converges`,
`DueServed`, `RunsServed`, `EverySettled` and `InterruptStops` (leads-to properties under
hypotheses), `ControlReturns` (under `SessionsAnswer`), `ReconnectsUnlessStuck`, `TurnEnds`,
`LoopServes`, and the fairness of `Outbox` (an owed chunk is settled) in `RefinesOutbox`.
Induction over data is too: `Chunks` holds recursive functions over texts, which TLC evaluates
on all short ones. Every safety property of a run is stated by a theorem.

## 6. Plan

1. Theorems: the bounds left out of the types of `ServiceRunner`, `Sessions` and `Discord`; for
   two or more runners, how many copies of a chunk `DuplicatesExcused` allows.
2. The todo reminder in `AgentLoop`, and the inbox of a team next to the background results.
3. Two keys in `Sessions`, once the pool's lock is shared by more than `prune_closed_session`.

## 7. Not modelled, and why

- *Terminal and command line* (`frontend/repl.rs`, `frontend/cli.rs`): menus, input and
  output; what they send to sessions and services are calls the modules make.
- *Prompts and memory* (`intelligence/`): texts built from files, with no protocol behind.
- *Shell, search and web tools*, the schemas, the *LLM client*: processes and HTTP; a call is
  a step that ends in a result or an error.
- *Todo list* (`team/todo.rs`): one call validates and replaces the list under its lock.
- *Configuration*: read once; its values are constants here.

Left out of the modelled components: the order `read_dir` returns, sink registration and
statistics (delivery); descriptions and listings (tasks); prompts and message texts (team,
heartbeat); jobs of an unknown kind, listings, run log and message texts (cron); the end of
standard input and malformed lines (stdio); `reload`, which records no intent, and status
texts (services); paths and `worktree_exec` (worktrees); the granularity of mtimes and paths
outside the working directory (files); crashes in the middle of a task's file, which leave a
torn one (task graph); close codes, which are a choice between fatal and
not, and rate limits (Discord); the text of summaries and the reasons of failures beyond
their class (turns). Two concurrent first spawns of a teammate are not modelled since only
the lead has the tool.
