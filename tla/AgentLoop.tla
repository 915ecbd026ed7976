----------------------------- MODULE AgentLoop -----------------------------
(***************************************************************************)
(* cot_loop: ask the model, run the tools it calls, ask again.  The        *)
(* history is a sequence of messages; of the tool calls of an assistant    *)
(* message only their number matters, and of a tool result which call it   *)
(* answers.  The results of ended background tasks are put into the        *)
(* history before each request; the team inbox, put there in the same way, *)
(* is left to MessageBus.  The task tool runs a subagent: a loop with a    *)
(* history of its own, of which only the number of its turns matters.      *)
(***************************************************************************)
EXTENDS Naturals, FiniteSets, SequencesExt

CONSTANTS
  Jobs,        \* background tasks that may be started
  MaxSubTurns, \* max_subagent_turns
  MaxCalls,    \* bound: tool calls of one reply
  MaxReplies,  \* bound: replies with tool calls, over all turns
  MaxHistory   \* bound: messages before the model is made to conclude

ASSUME AgentLoopAssumption ==
  /\ IsFiniteSet(Jobs)
  /\ {MaxSubTurns, MaxCalls, MaxReplies, MaxHistory} \subseteq Nat

VARIABLES
  history,      \* context.history
  pc,           \* "loop" (top of the loop), "request", "tools"; others in Turn
  next,         \* the tool call dispatch_tool comes to next
  sub,          \* turns begun by the subagent of that call, 0 when there is none
  idling,       \* state.idle_requested
  interrupted,  \* the session's interrupt flag
  job,          \* BackgroundTask.status: completed and failed are "ended"
  notices,      \* notifications: the ended jobs not yet drained
  scarred,      \* history: a call was left unanswered, or messages were cut off
  dropped,      \* history: the results cut off, or summarised, with old messages
  replies       \* replies with tool calls so far

loop == <<history, pc, next, sub, idling, interrupted, job, notices, scarred,
          dropped, replies>>

User(ns) == [role |-> "user", calls |-> 0, of |-> 0, notes |-> ns]
Assistant(n) == [role |-> "assistant", calls |-> n, of |-> 0, notes |-> {}]
Tool(k) == [role |-> "tool", calls |-> 0, of |-> k, notes |-> {}]

Messages == [role : {"user", "assistant", "tool"}, calls : 0..MaxCalls,
             of : 0..MaxCalls, notes : SUBSET Jobs]

LoopTypeOK ==
  /\ history \in Seq(Messages) /\ next \in 1..(MaxCalls + 1) /\ sub \in 0..MaxSubTurns
  /\ idling \in BOOLEAN /\ interrupted \in BOOLEAN
  /\ job \in [Jobs -> {"unused", "running", "ended"}]
  /\ notices \subseteq Jobs /\ dropped \subseteq Jobs
  /\ scarred \in BOOLEAN /\ replies \in 0..MaxReplies

LoopInit ==
  /\ history = <<>> /\ pc = "idle" /\ next = 1 /\ sub = 0 /\ idling = FALSE
  /\ interrupted = FALSE /\ job = [j \in Jobs |-> "unused"] /\ notices = {}
  /\ dropped = {} /\ scarred = FALSE /\ replies = 0

----------------------------------------------------------------------------
\* What a provider accepts: the calls of an assistant message are answered
\* at once, each by one result, and there is no other result.
Answers(h, i) ==
  /\ i + h[i].calls <= Len(h)
  /\ \A k \in 1..h[i].calls : h[i + k].role = "tool" /\ h[i + k].of = k
Paired(h) ==
  /\ \A i \in DOMAIN h : Answers(h, i)
  /\ \A i \in DOMAIN h :
       h[i].role = "tool" => i > h[i].of /\ h[i - h[i].of].calls >= h[i].of

Told(h) == UNION {h[i].notes : i \in DOMAIN h}

\* push_runtime_exchange: the results as a user message, and an acknowledgement.
Exchange(ns) == IF ns = {} THEN <<>> ELSE <<User(ns), Assistant(0)>>

\* inject_runtime_updates: drain_notifications.
Inject ==
  /\ history' = history \o Exchange(notices)
  /\ notices' = {}

\* should_interrupt, the results, and the request to the model.
Ask ==
  /\ pc = "loop" /\ ~interrupted
  /\ Inject /\ pc' = "request"
  /\ UNCHANGED <<next, sub, idling, interrupted, job, scarred, dropped, replies>>

\* The reply is pushed; a reply without calls ends the run (see Succeeds in Turn).
ReplyCalls ==
  /\ pc = "request" /\ Paired(history)
  /\ replies < MaxReplies /\ Len(history) < MaxHistory
  /\ \E n \in 1..MaxCalls : history' = Append(history, Assistant(n))
  /\ replies' = replies + 1 /\ pc' = "tools" /\ next' = 1
  /\ UNCHANGED <<sub, idling, interrupted, job, notices, scarred, dropped>>

\* Calls of the reply whose tools are being run: the last assistant message.
Calls == history[SelectLastInSeq(history, LAMBDA m : m.role = "assistant")].calls

\* The next call of the reply is dispatched.
Dispatching == pc = "tools" /\ next <= Calls /\ sub = 0

\* A call ends in a result: a tool of execution.rs, denied, unknown, its request
\* malformed or its handler failed.
Executed == UNCHANGED <<idling, job>>

\* The idle tool.
IdleTool == idling' = TRUE /\ UNCHANGED job

\* background_run.
BackgroundRun ==
  \E j \in Jobs :
    /\ job[j] = "unused" /\ job' = [job EXCEPT ![j] = "running"]
    /\ UNCHANGED idling

\* push_tool_result.
PushResult ==
  /\ history' = Append(history, Tool(next)) /\ next' = next + 1

Result ==
  /\ Dispatching /\ PushResult
  /\ Executed \/ IdleTool \/ BackgroundRun
  /\ UNCHANGED <<pc, sub, interrupted, notices, scarred, dropped, replies>>

\* The task tool: run_subagent, which heeds no interrupt, asks the model ...
Delegate ==
  /\ Dispatching /\ sub' = 1
  /\ UNCHANGED <<history, pc, next, idling, interrupted, job, notices, scarred, dropped,
                 replies>>

\* ... and again, after the tools it calls, until the model calls none or its turns
\* are used up: the summary is the result of the call.
SubTurn ==
  /\ sub \in 1..(MaxSubTurns - 1) /\ sub' = sub + 1
  /\ UNCHANGED <<history, pc, next, idling, interrupted, job, notices, scarred, dropped,
                 replies>>
SubDone ==
  /\ sub > 0 /\ sub' = 0 /\ PushResult
  /\ UNCHANGED <<pc, idling, interrupted, job, notices, scarred, dropped, replies>>

\* handle_tool_calls after the last call: on to the next request.
ToolsDone ==
  /\ pc = "tools" /\ next > Calls /\ ~idling
  /\ pc' = "loop" /\ next' = 1
  /\ UNCHANGED <<history, sub, idling, interrupted, job, notices, scarred, dropped,
                 replies>>

\* The task of a background command: status and notification under one lock.
JobEnds ==
  /\ \E j \in Jobs :
       /\ job[j] = "running" /\ job' = [job EXCEPT ![j] = "ended"]
       /\ notices' = notices \cup {j}
  /\ UNCHANGED <<history, pc, next, sub, idling, interrupted, scarred, dropped, replies>>

\* /interrupt, or the interrupt message of a client.
Interrupt ==
  /\ pc # "idle" /\ interrupted' = TRUE
  /\ UNCHANGED <<history, pc, next, sub, idling, job, notices, scarred, dropped, replies>>
============================================================================
