-------------------------------- MODULE Team --------------------------------
(***************************************************************************)
(* The team of agents of src/team/manager.rs and src/team/manager/: the    *)
(* roster (memory and config.json), each teammate's background task        *)
(* (teammate_loop), its wake channel, the inboxes, and the shutdown and    *)
(* plan protocols that run over them.                                      *)
(*                                                                         *)
(* A step is one critical section of the state's mutex or one operation on *)
(* an inbox file: a tool call that takes several is several steps (doing), *)
(* and those of the lead, of every teammate and of every task interleave.  *)
(***************************************************************************)
EXTENDS Naturals, FiniteSets, Sequences

CONSTANTS
  Names,        \* the teammates
  Lead,         \* LEAD_NAME, the agent that owns the session
  MaxOps,       \* bound: messages, shutdown requests and plans in a behaviour
  MaxFaults,    \* bound: failed writes of an inbox or of config.json
  MaxRestarts,  \* bound: restarts of the process
  WakeCap,      \* capacity of a wake channel, 8 in the source
  Nothing       \* no tool call in progress

ASSUME TeamAssumption ==
  /\ Lead \notin Names /\ WakeCap \in Nat \ {0}
  /\ {MaxOps, MaxFaults, MaxRestarts} \subseteq Nat
  /\ Nothing \notin [act : {"send", "wake", "conclude"}, to : Names \cup {Lead},
                     msg : 0..MaxOps]

VARIABLES
  status,    \* status[n]: the member's entry in memory, "absent" without one
  saved,     \* the statuses in config.json
  wired,     \* the names with a sender in wake_txs
  tokens,    \* tokens[n]: wake-ups buffered in the channel
  pc,        \* pc[n]: where the teammate's task is, "none" without one
  inbox,     \* inbox[x]: unread messages: a request's number, or 0 for any other
  known,     \* known[x]: the requests x has read of
  requests,  \* shutdown_requests and plan_requests, numbered
  doing,     \* doing[x]: the rest of the tool call agent x is in
  budget,    \* [ops, faults, restarts], what the bounds count
  called     \* called[n], history: where n's task was when a spawn re-awakened it,
             \* "closed" without its wake channel, "no" once it works again

vars == <<status, saved, wired, tokens, pc, inbox, known, requests, doing, budget, called>>

Agents == Names \cup {Lead}
Statuses == {"absent", "working", "idle", "shutdown"}
Stages == {"none", "inject", "cycle", "check", "notify", "poll", "mail", "board",
           "resume", "exit"}
Request == [kind : {"shutdown", "plan"}, who : Names,
            answer : {"pending", "approved", "rejected"},
            by : Agents \cup {Nothing}]   \* history: who answered it
Remainder == {Nothing}
  \cup [act : {"send", "wake", "conclude"}, to : Agents, msg : 0..MaxOps]

TypeOK ==
  /\ status \in [Names -> Statuses] /\ saved \in [Names -> Statuses]
  /\ wired \subseteq Names /\ tokens \in [Names -> 0..WakeCap]
  /\ pc \in [Names -> Stages]
  /\ inbox \in [Agents -> SUBSET (0..MaxOps)]
  /\ known \in [Agents -> SUBSET (1..MaxOps)]
  /\ requests \in Seq(Request) /\ Len(requests) <= budget.ops
  /\ doing \in [Agents -> Remainder]
  /\ budget \in [ops : 0..MaxOps, faults : 0..MaxFaults, restarts : 0..MaxRestarts]
  /\ called \in [Names -> Stages \cup {"no", "closed"}]

Init ==
  /\ status = [n \in Names |-> "absent"] /\ saved = status
  /\ wired = {} /\ tokens = [n \in Names |-> 0]
  /\ pc = [n \in Names |-> "none"]
  /\ inbox = [x \in Agents |-> {}] /\ known = [x \in Agents |-> {}]
  /\ requests = << >> /\ doing = [x \in Agents |-> Nothing]
  /\ budget = [ops |-> 0, faults |-> 0, restarts |-> 0]
  /\ called = [n \in Names |-> "no"]

-----------------------------------------------------------------------------
(* What the calls are made of.                                             *)

\* x runs tool calls one after another, a teammate only within its cycle.
Free(x) == doing[x] = Nothing /\ (x \in Names => pc[x] = "cycle")

Op == budget.ops < MaxOps /\ budget' = [budget EXCEPT !.ops = @ + 1]

Fault == budget.faults < MaxFaults /\ budget' = [budget EXCEPT !.faults = @ + 1]

\* try_send when n has a sender: a full channel already holds a wake-up, one
\* without its receiver (no task, or a task past its loop) refuses it.
Woken(n) == [tokens EXCEPT ![n] =
  IF n \in wired /\ pc[n] \notin {"none", "exit"} /\ @ < WakeCap THEN @ + 1 ELSE @]

Mail(x, m) == inbox' = [inbox EXCEPT ![x] = @ \cup {m}]

\* read_inbox, its messages added to the history of x.
Drain(x) ==
  /\ inbox' = [inbox EXCEPT ![x] = {}]
  /\ known' = [known EXCEPT ![x] = @ \cup (inbox[x] \ {0})]

\* persist_roster; when it fails fs::write may leave the old roster or none.
Written == saved' = status' /\ UNCHANGED budget
Unwritten == saved' \in {saved, [n \in Names |-> "absent"]} /\ Fault

\* Mutant: a shutdown keeps the sender of the wake channel.
SetStatusWired(n, s) ==
  /\ status' = [status EXCEPT ![n] = s]
  /\ IF status' = status THEN UNCHANGED <<saved, budget>> ELSE Written \/ Unwritten
  /\ UNCHANGED wired

\* set_status: the roster is written only on a change, an error ignored. A
\* shutdown drops the sender of the wake channel.
SetStatus(n, s) ==
  /\ status' = IF status[n] = "absent" THEN status ELSE [status EXCEPT ![n] = s]
  /\ wired' = IF s = "shutdown" THEN wired \ {n} ELSE wired
  /\ IF status' = status THEN UNCHANGED <<saved, budget>> ELSE Written \/ Unwritten

-----------------------------------------------------------------------------
(* spawn. Only the lead has the tool, so the two critical sections of a    *)
(* first spawn cannot meet those of another and are one step here. When    *)
(* the roster cannot be written the error returns before the task starts.  *)

Spawn(n) ==
  /\ Free(Lead) /\ status[n] = "absent"
  /\ status' = [status EXCEPT ![n] = "working"] /\ wired' = wired \cup {n}
  /\ \/ Written /\ pc' = [pc EXCEPT ![n] = "inject"]
     \/ Unwritten /\ UNCHANGED pc
  /\ UNCHANGED <<tokens, inbox, known, requests, doing, called>>

Recall(n) == called' = [called EXCEPT ![n] = IF n \in wired THEN pc[n] ELSE "closed"]

\* Mutant: the member is marked and not woken.
ReawakenUnwoken(n) ==
  /\ Free(Lead) /\ status[n] = "idle"
  /\ status' = [status EXCEPT ![n] = "working"]
  /\ Written \/ Unwritten
  /\ Recall(n)
  /\ UNCHANGED <<wired, tokens, pc, inbox, known, requests, doing>>

\* An idle member is woken and marked; the new prompt is dropped.
Reawaken(n) ==
  /\ Free(Lead) /\ status[n] = "idle"
  /\ tokens' = Woken(n)
  /\ status' = [status EXCEPT ![n] = "working"]
  /\ Written \/ Unwritten
  /\ Recall(n)
  /\ UNCHANGED <<wired, pc, inbox, known, requests, doing>>

-----------------------------------------------------------------------------
(* Tools that write an inbox: send_message, request_shutdown, submit_plan, *)
(* respond_plan and respond_shutdown.                                      *)

ThenSend(x, to, m) == doing' = [doing EXCEPT ![x] = [act |-> "send", to |-> to, msg |-> m]]

\* send_message: an unknown recipient is refused.
SendMessage(x, to) ==
  /\ Free(x) /\ to # x /\ Op
  /\ to \in Names => status[to] # "absent"
  /\ ThenSend(x, to, 0)
  /\ UNCHANGED <<status, saved, wired, tokens, pc, inbox, known, requests, called>>

\* request_shutdown: the request is recorded before it is sent.
RequestShutdown(n) ==
  /\ Free(Lead) /\ status[n] # "absent" /\ Op
  /\ requests' = Append(requests, [kind |-> "shutdown", who |-> n, answer |-> "pending",
                                  by |-> Nothing])
  /\ ThenSend(Lead, n, Len(requests'))
  /\ UNCHANGED <<status, saved, wired, tokens, pc, inbox, known, called>>

\* submit_plan: the lead is told, and is not woken.
SubmitPlan(n) ==
  /\ Free(n) /\ Op
  /\ requests' = Append(requests, [kind |-> "plan", who |-> n, answer |-> "pending",
                                  by |-> Nothing])
  /\ ThenSend(n, Lead, Len(requests'))
  /\ UNCHANGED <<status, saved, wired, tokens, pc, inbox, known, called>>

\* respond_plan: the decision is recorded, then sent to the submitter.
RespondPlan(r, answer) ==
  /\ Free(Lead) /\ requests[r].kind = "plan" /\ r \in known[Lead]
  /\ requests[r].answer = "pending"
  /\ requests' = [requests EXCEPT ![r].answer = answer, ![r].by = Lead]
  /\ ThenSend(Lead, requests[r].who, 0)
  /\ UNCHANGED <<status, saved, wired, tokens, pc, inbox, known, budget, called>>

\* respond_shutdown, first section: any agent has the tool and request ids
\* are not secret, so not only its target may answer a request.
RespondShutdown(x, r, answer) ==
  /\ Free(x) /\ requests[r].kind = "shutdown"
  /\ requests[r].answer = "pending"
  /\ requests' = [requests EXCEPT ![r].answer = answer, ![r].by = x]
  /\ doing' = [doing EXCEPT ![x] =
                 [act |-> "conclude", to |-> requests[r].who, msg |-> r]]
  /\ UNCHANGED <<status, saved, wired, tokens, pc, inbox, known, budget, called>>

Doing(x, acts) == doing[x] # Nothing /\ doing[x].act \in acts

\* The bus appends the message; a teammate is woken next, the lead never.
Send(x) ==
  /\ Doing(x, {"send"})
  /\ Mail(doing[x].to, doing[x].msg)
  /\ doing' = IF doing[x].to = Lead THEN [doing EXCEPT ![x] = Nothing]
              ELSE [doing EXCEPT ![x].act = "wake"]
  /\ UNCHANGED <<status, saved, wired, tokens, pc, known, requests, budget, called>>

\* The bus fails: the call ends with its request or decision recorded.
SendError(x) ==
  /\ Doing(x, {"send", "conclude"}) /\ Fault
  /\ doing' = [doing EXCEPT ![x] = Nothing]
  /\ UNCHANGED <<status, saved, wired, tokens, pc, inbox, known, requests, called>>

\* wake_teammate.
Wake(x) ==
  /\ Doing(x, {"wake"})
  /\ tokens' = Woken(doing[x].to)
  /\ doing' = [doing EXCEPT ![x] = Nothing]
  /\ UNCHANGED <<status, saved, wired, pc, inbox, known, requests, budget, called>>

\* Mutant: an approval drops the wake channel and leaves the status.
ConcludeUnwires(x) ==
  /\ Doing(x, {"conclude"}) /\ Mail(Lead, 0)
  /\ doing' = [doing EXCEPT ![x] = Nothing]
  /\ wired' = IF requests[doing[x].msg].answer = "approved"
              THEN wired \ {doing[x].to} ELSE wired
  /\ UNCHANGED <<status, saved, budget, tokens, pc, known, requests, called>>

\* respond_shutdown, the rest: the lead is told, an approval is carried out.
Conclude(x) ==
  /\ Doing(x, {"conclude"})
  /\ Mail(Lead, 0)
  /\ doing' = [doing EXCEPT ![x] = Nothing]
  /\ IF requests[doing[x].msg].answer = "approved"
       THEN SetStatus(doing[x].to, "shutdown")
       ELSE UNCHANGED <<status, saved, wired, budget>>
  /\ UNCHANGED <<tokens, pc, known, requests, called>>

-----------------------------------------------------------------------------
(* teammate_loop and idle_poll.                                            *)

Goto(n, stage) == pc' = [pc EXCEPT ![n] = stage]

\* inject_team_inbox, before every call of the model; the first is certain.
Inject(n) ==
  /\ pc[n] = "inject" \/ (pc[n] = "cycle" /\ Free(n) /\ inbox[n] # {})
  /\ Drain(n) /\ Goto(n, "cycle")
  /\ UNCHANGED <<status, saved, wired, tokens, requests, doing, budget, called>>

\* The lead's own agent loop does the same.
LeadInject ==
  /\ Free(Lead) /\ inbox[Lead] # {} /\ Drain(Lead)
  /\ UNCHANGED <<status, saved, wired, tokens, pc, requests, doing, budget, called>>

\* cot_loop returns: no more tool calls, the idle tool, the turn limit.
EndCycle(n) ==
  /\ Free(n) /\ Goto(n, "check")
  /\ UNCHANGED <<status, saved, wired, tokens, inbox, known, requests, doing, budget, called>>

\* cot_loop fails, or a stage of teammate_loop that only tests and moves on.
Test(n) ==
  /\ \/ pc[n] = "cycle" /\ Free(n) /\ Goto(n, "exit")
     \/ pc[n] = "check" /\ status[n] = "shutdown" /\ Goto(n, "exit")
     \/ pc[n] = "check" /\ status[n] # "shutdown" /\ Goto(n, "notify")
  /\ UNCHANGED <<status, saved, wired, tokens, inbox, known, requests, doing, budget, called>>

\* notify_teammate_idle: the status message to the lead changes no decision
\* of the lead's here.
NotifyIdle(n) ==
  /\ pc[n] = "notify" /\ SetStatus(n, "idle") /\ Goto(n, "poll")
  /\ UNCHANGED <<tokens, inbox, known, requests, doing, called>>

\* wake_rx.recv() answers: a buffered wake-up first, even of a closed channel.
PollWoken(n) ==
  /\ pc[n] = "poll" /\ tokens[n] > 0
  /\ tokens' = [tokens EXCEPT ![n] = @ - 1] /\ Goto(n, "resume")
  /\ UNCHANGED <<status, saved, wired, inbox, known, requests, doing, budget, called>>

\* wake_rx.recv() finds the channel closed and empty.
PollClosed(n) ==
  /\ pc[n] = "poll" /\ n \notin wired /\ tokens[n] = 0 /\ Goto(n, "exit")
  /\ UNCHANGED <<status, saved, wired, tokens, inbox, known, requests, doing, budget, called>>

\* The poll interval passes without a wake-up.
PollTimeout(n) ==
  /\ pc[n] = "poll" /\ tokens[n] = 0 /\ n \in wired /\ Goto(n, "mail")
  /\ UNCHANGED <<status, saved, wired, tokens, inbox, known, requests, doing, budget, called>>

\* append_inbox_messages.
PollMail(n) ==
  /\ pc[n] = "mail" /\ Drain(n)
  /\ Goto(n, IF inbox[n] # {} THEN "resume" ELSE "board")
  /\ UNCHANGED <<status, saved, wired, tokens, requests, doing, budget, called>>

\* A task of the board is claimed, or there is none: the deadline has come or
\* the next poll begins.
PollBoard(n) ==
  /\ pc[n] = "board" /\ (\E next \in {"resume", "exit", "poll"} : Goto(n, next))
  /\ UNCHANGED <<status, saved, wired, tokens, inbox, known, requests, doing, budget, called>>

Resume(n) ==
  /\ pc[n] = "resume" /\ SetStatus(n, "working") /\ Goto(n, "inject")
  /\ called' = [called EXCEPT ![n] = "no"]
  /\ UNCHANGED <<tokens, inbox, known, requests, doing>>

\* The spawned task after the loop: the receiver is gone by now.
Exit(n) ==
  /\ pc[n] = "exit" /\ SetStatus(n, "shutdown") /\ Goto(n, "none")
  /\ tokens' = [tokens EXCEPT ![n] = 0]
  /\ UNCHANGED <<inbox, known, requests, doing, called>>

-----------------------------------------------------------------------------
\* The process ends and TeammateManager::new loads config.json.
Restart ==
  /\ budget.restarts < MaxRestarts
  /\ budget' = [budget EXCEPT !.restarts = @ + 1]
  /\ status' = saved /\ wired' = {} /\ tokens' = [n \in Names |-> 0]
  /\ pc' = [n \in Names |-> "none"] /\ requests' = << >>
  /\ doing' = [x \in Agents |-> Nothing] /\ known' = [x \in Agents |-> {}]
  /\ called' = [n \in Names |-> "no"]
  /\ UNCHANGED <<saved, inbox>>

Call(x) == Send(x) \/ SendError(x) \/ Wake(x) \/ Conclude(x)

Loop(n) ==
  \/ Inject(n) \/ EndCycle(n) \/ Test(n) \/ NotifyIdle(n) \/ PollWoken(n)
  \/ PollClosed(n) \/ PollTimeout(n) \/ PollMail(n) \/ PollBoard(n)
  \/ Resume(n) \/ Exit(n)

Answer == {"approved", "rejected"}

Tool ==
  \/ \E n \in Names : Spawn(n) \/ Reawaken(n) \/ RequestShutdown(n) \/ SubmitPlan(n)
  \/ \E x, to \in Agents : SendMessage(x, to)
  \/ \E r \in DOMAIN requests, a \in Answer :
       RespondPlan(r, a) \/ \E x \in Agents : RespondShutdown(x, r, a)

Next ==
  \/ Tool \/ (\E x \in Agents : Call(x)) \/ (\E n \in Names : Loop(n))
  \/ LeadInject \/ Restart

Spec == Init /\ [][Next]_vars

\* The runtime schedules every task, a model call returns, its turns are
\* limited, the poll interval passes; a tool call runs to its end.
FairSpec ==
  /\ Spec
  /\ \A x \in Agents : WF_vars(Call(x))
  /\ \A n \in Names : WF_vars(Loop(n))

-----------------------------------------------------------------------------
(* Properties.                                                             *)

\* A shutdown request its target approved has shut the target down and no later
\* write of its task replaces that status, unless the answer is still being
\* delivered or its delivery failed (respond_shutdown records the approval before
\* it sends it and carries it out).
ApprovedHeeded ==
  \A r \in DOMAIN requests :
    requests[r].kind = "shutdown" /\ requests[r].answer = "approved"
      /\ requests[r].by = requests[r].who =>
      \/ status[requests[r].who] = "shutdown"
      \/ \E x \in Agents : Doing(x, {"conclude"}) /\ doing[x].msg = r
      \/ budget.faults > 0

\* A member whose spawn is answered "re-awakened" while its task waits in recv, its channel
\* open, or has found work already, goes through another cycle before the task ends: the
\* wake-up is not lost to a full channel, to the poll interval or to a shutdown that closes
\* the channel later. Not said of a task that looks at its mail and the board, whose
\* deadline may come, of one past that, or of one without a channel: that one may end all
\* the same, whatever spawn answered.
Called(n) == called[n] \in {"poll", "resume"}
ReawakenedServed == \A n \in Names : Called(n) => pc[n] \notin {"exit", "none"}

\* Mail that a teammate's task has not read is read, or the task ends; a teammate that
\* was shut down ends its task and loses its wake channel; one that was re-awakened
\* while it waited works again.
MailRead ==
  \A n \in Names : (inbox[n] # {} /\ pc[n] # "none") ~> (inbox[n] = {} \/ pc[n] = "none")
ShutdownEnds ==
  \A n \in Names : (status[n] = "shutdown") ~> (pc[n] = "none" /\ n \notin wired)

RecallWorks == \A n \in Names : Called(n) ~> called[n] = "no"

LoopServes == MailRead /\ ShutdownEnds /\ RecallWorks
=============================================================================
