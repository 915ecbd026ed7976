------------------------------- MODULE Turn --------------------------------
(***************************************************************************)
(* A turn of a session: the resilience runner around the agent loop (keys  *)
(* in rotation, fallback models, recovery from an overflowing context) and *)
(* the compaction after it.  A failed run leaves in the history what it    *)
(* had put there, and the next attempt goes on from it.                    *)
(***************************************************************************)
EXTENDS AgentLoop

CONSTANTS
  Keys,        \* number of auth profiles; they are tried in order
  Fallbacks,   \* number of fallback models; model 0 is the configured one
  MaxCompact,  \* max_overflow_compaction
  MaxSummaryFailures, \* compact_max_failures
  MaxTurns,    \* bound: turns of the user
  MaxFaults    \* bound: requests that fail

ASSUME TurnAssumption ==
  /\ Keys \in Nat \ {0} /\ MaxCompact \in Nat \ {0}
  /\ {Fallbacks, MaxSummaryFailures, MaxTurns, MaxFaults} \subseteq Nat

VARIABLES
  llm,       \* config.llm: the key and the model requests use
  before,    \* original_api_key and original_model of run
  cooling,   \* keys in cooldown
  stage,     \* 0: the turn's own model; n: the n-th fallback
  tries,     \* iterations of try_with_profiles
  compacts,  \* attempt of try_with_compaction
  failures,  \* compact_failures of the session
  turns,     \* turns begun
  faults,    \* requests failed
  open,      \* history: keys out of cooldown when the turn began, not tried since
  soft       \* history: in this turn an attempt failed without a cooldown, or a
             \* key came out of its cooldown

run == <<llm, before, stage, tries, compacts, open, soft>>
others == <<cooling, failures, turns, faults>>
vars == <<loop, run, others>>

Reasons == {"cooled", "unknown", "overflow"}  \* FailoverReason: the four with a cooldown are one

TypeOK ==
  /\ LoopTypeOK
  /\ pc \in {"idle", "rotate", "loop", "request", "tools", "after", "l2", "l3"}
  /\ {llm, before} \subseteq [key : 1..Keys, model : 0..Fallbacks]
  /\ cooling \subseteq 1..Keys /\ open \subseteq 1..Keys /\ soft \in BOOLEAN
  /\ stage \in 0..Fallbacks /\ tries \in 0..Keys /\ compacts \in 0..(MaxCompact - 1)
  /\ failures \in 0..MaxSummaryFailures /\ turns \in 0..MaxTurns /\ faults \in 0..MaxFaults

Init ==
  /\ LoopInit
  /\ llm = [key |-> 1, model |-> 0] /\ before = llm /\ cooling = {}
  /\ stage = 0 /\ tries = 0 /\ compacts = 0 /\ failures = 0
  /\ turns = 0 /\ faults = 0 /\ open = {} /\ soft = FALSE

----------------------------------------------------------------------------
\* Messages are cut off or replaced, and the results they carried with them.
CutTo(h) == history' = h /\ dropped' = dropped \cup (Told(history) \ Told(h))
Unanswered(h) == scarred' = (scarred \/ ~Paired(h))

GreaterOf(a, b) == IF a < b THEN b ELSE a
LesserOf(a, b) == IF a < b THEN a ELSE b
LastOf(h, n) == SubSeq(h, Len(h) - n + 1, Len(h))

\* emergency_compact: the last quarter, at least four messages.
EmergencyCompact ==
  LET h == IF Len(history) <= 4 THEN history
           ELSE LastOf(history, GreaterOf(4, Len(history) \div 4))
  IN CutTo(h) /\ Unanswered(h)

\* auto_compact: about the older half gives way to a summary of two messages.
Compressed(n) ==
  LET keep == GreaterOf(4, n \div 5)
  IN IF n <= 4 THEN 0 ELSE LesserOf(GreaterOf(2, n \div 2), n - keep)

\* full_compact: two messages are left.
Summary == <<User({}), Assistant(0)>>

\* micro_compact blanks old tool results: the messages stay.

----------------------------------------------------------------------------
\* run_user_turn: the message is pushed; run keeps the configuration.
Begin ==
  /\ pc = "idle" /\ turns < MaxTurns
  /\ history' = Append(history, User({}))
  /\ pc' = "rotate" /\ turns' = turns + 1
  /\ before' = llm /\ stage' = 0 /\ tries' = 0
  /\ open' = 1..Keys \ cooling /\ soft' = FALSE
  /\ UNCHANGED <<next, sub, idling, interrupted, job, notices, scarred, dropped, replies,
                 llm, compacts, cooling, failures, faults>>

\* ProfileManager::select: the first key out of cooldown.
Selected == CHOOSE k \in 1..Keys \ cooling : \A i \in 1..Keys \ cooling : k <= i
ModelOf(s) == IF s = 0 THEN before.model ELSE s

\* Mutant: the iterations are not counted.
SelectUncounted ==
  /\ pc = "rotate" /\ tries < Keys /\ cooling # 1..Keys
  /\ llm' = [key |-> Selected, model |-> ModelOf(stage)]
  /\ pc' = "loop" /\ compacts' = 0
  /\ open' = open \ {Selected}
  /\ UNCHANGED <<history, next, sub, idling, interrupted, job, notices, scarred, dropped,
                 replies, before, stage, tries, soft, others>>

\* One iteration of try_with_profiles begins.
Select ==
  /\ pc = "rotate" /\ tries < Keys /\ cooling # 1..Keys
  /\ llm' = [key |-> Selected, model |-> ModelOf(stage)]
  /\ pc' = "loop" /\ tries' = tries + 1 /\ compacts' = 0
  /\ open' = open \ {Selected}
  /\ UNCHANGED <<history, next, sub, idling, interrupted, job, notices, scarred, dropped,
                 replies, before, stage, soft, others>>

\* The variables of run are gone when it returns.
Returned ==
  /\ before' = llm' /\ stage' = 0 /\ tries' = 0 /\ compacts' = 0
  /\ open' = {} /\ soft' = FALSE

Exhausted == pc = "rotate" /\ (tries = Keys \/ cooling = 1..Keys)

\* The next fallback model, with the cooldowns as they are.
Fallback ==
  /\ Exhausted /\ stage < Fallbacks
  /\ stage' = stage + 1 /\ tries' = 0 /\ llm' = [llm EXCEPT !.model = stage + 1]
  /\ UNCHANGED <<loop, before, compacts, open, soft, others>>

\* The turn fails; the configuration is restored.
GiveUp ==
  /\ Exhausted /\ stage = Fallbacks
  /\ pc' = "idle" /\ llm' = before /\ Returned
  /\ UNCHANGED <<history, next, sub, idling, interrupted, job, notices, scarred, dropped,
                 replies, others>>

\* Mutant: one failure cools every key down.
FailedCoolsAll(reason) ==
  /\ pc' = "rotate" /\ soft' = (soft \/ reason # "cooled")
  /\ cooling' = IF reason = "cooled" THEN 1..Keys ELSE cooling
  /\ UNCHANGED <<llm, before, stage, tries, compacts, open>>

\* The attempt with this key failed: mark_failure.
Failed(reason) ==
  /\ pc' = "rotate" /\ soft' = (soft \/ reason # "cooled")
  /\ cooling' = IF reason = "cooled" THEN cooling \cup {llm.key} ELSE cooling
  /\ UNCHANGED <<llm, before, stage, tries, compacts, open>>

\* A request fails; an unpaired history is refused with an error of no known kind.
RequestFails ==
  /\ pc = "request"
  /\ \E reason \in Reasons :
       /\ IF Paired(history) THEN faults < MaxFaults /\ faults' = faults + 1
          ELSE reason = "unknown" /\ UNCHANGED faults
       /\ reason = "overflow" => compacts + 1 = MaxCompact
       /\ Failed(reason)
  /\ UNCHANGED <<history, next, sub, idling, interrupted, job, notices, scarred, dropped,
                 replies, failures, turns>>

\* Overflow with an attempt left: compact, and run the loop again.
Recover ==
  /\ compacts + 1 < MaxCompact /\ compacts' = compacts + 1
  /\ EmergencyCompact /\ pc' = "loop"
  /\ UNCHANGED <<llm, before, stage, tries, open, soft, cooling>>

Overflows ==
  /\ pc = "request" /\ Paired(history)
  /\ faults < MaxFaults /\ faults' = faults + 1 /\ Recover
  /\ UNCHANGED <<next, sub, idling, interrupted, job, notices, replies, failures, turns>>

\* dispatch_tool cannot parse the arguments: the error ends the run, and this
\* call and those after it have no result.
BadArguments ==
  /\ Dispatching
  /\ Failed("unknown") /\ Unanswered(history) /\ next' = 1
  /\ UNCHANGED <<history, sub, idling, interrupted, job, notices, dropped, replies,
                 failures, turns, faults>>

\* A request of a subagent fails, and its error is that of the run that called it.
SubFails ==
  /\ sub > 0 /\ sub' = 0 /\ next' = 1
  /\ faults < MaxFaults /\ faults' = faults + 1
  /\ \/ \E reason \in Reasons :
          /\ reason = "overflow" => compacts + 1 = MaxCompact
          /\ Failed(reason) /\ Unanswered(history) /\ UNCHANGED <<history, dropped>>
     \/ Recover
  /\ UNCHANGED <<idling, interrupted, job, notices, replies, failures, turns>>

\* mark_success.  The key and the model stay those of the attempt.
Succeeded ==
  /\ pc' \in {"idle", "after"}       \* total_tokens within compact_threshold, or beyond
  /\ cooling' = cooling \ {llm.key} /\ llm' = llm /\ Returned
  /\ UNCHANGED <<failures, turns, faults, job, notices, scarred, dropped>>

\* Mutant: the idle tool ends the run at once.
IdledAtOnce ==
  /\ pc = "tools" /\ idling /\ sub = 0 /\ Succeeded
  /\ idling' = FALSE /\ next' = 1
  /\ UNCHANGED <<history, sub, interrupted, replies>>

\* A reply without tool calls, the idle tool, or the interrupt flag ends the run.
Replied ==
  /\ pc = "request" /\ Paired(history) /\ Succeeded
  /\ history' = Append(history, Assistant(0))
  /\ UNCHANGED <<next, sub, idling, interrupted, replies>>
Idled ==
  /\ pc = "tools" /\ next > Calls /\ idling /\ Succeeded
  /\ idling' = FALSE /\ next' = 1
  /\ UNCHANGED <<history, sub, interrupted, replies>>
Interrupted ==
  /\ pc = "loop" /\ interrupted /\ Succeeded
  /\ interrupted' = FALSE
  /\ UNCHANGED <<history, next, sub, idling, replies>>

----------------------------------------------------------------------------
\* compact_after_turn: L1 may be enough; L2 is skipped after too many failures
\* and does nothing to a short history.
Micro ==
  /\ pc = "after"
  /\ \/ pc' = "idle" /\ UNCHANGED failures
     \/ pc' = "l3" /\ failures = MaxSummaryFailures /\ UNCHANGED failures
     \/ /\ failures < MaxSummaryFailures
        /\ IF Compressed(Len(history)) < 2 THEN pc' \in {"idle", "l3"} /\ failures' = 0
           ELSE pc' = "l2" /\ UNCHANGED failures
  /\ UNCHANGED <<history, next, sub, idling, interrupted, job, notices, scarred, dropped,
                 replies, run, cooling, turns, faults>>

AutoCompact ==
  /\ pc = "l2" /\ pc' \in {"idle", "l3"} /\ failures' = 0
  /\ LET h == Summary \o SubSeq(history, Compressed(Len(history)) + 1, Len(history))
     IN CutTo(h) /\ Unanswered(h)
  /\ UNCHANGED <<next, sub, idling, interrupted, job, notices, replies, run, cooling,
                 turns, faults>>

\* run_summarizer puts the history back, whether or not the request failed.
SummaryFails ==
  /\ pc = "l2" /\ pc' \in {"idle", "l3"} /\ failures' = failures + 1
  /\ UNCHANGED <<history, next, sub, idling, interrupted, job, notices, scarred, dropped,
                 replies, run, cooling, turns, faults>>

\* L3, and /compact: a failure is the error of the turn.
FullCompact ==
  /\ pc \in {"idle", "l3"} /\ pc' = "idle"
  /\ \/ Len(history) > 2 /\ CutTo(Summary) /\ scarred' = FALSE
     \/ UNCHANGED <<history, scarred, dropped>>
  /\ UNCHANGED <<next, sub, idling, interrupted, job, notices, replies, run, others>>

----------------------------------------------------------------------------
\* Between turns: rewind and /new (/compact is FullCompact).
Rewind ==
  /\ pc = "idle"
  /\ \E n \in 1..2 :
       LET h == SubSeq(history, 1, Len(history) - LesserOf(n, Len(history)))
       IN CutTo(h) /\ Unanswered(h)
  /\ UNCHANGED <<pc, next, sub, idling, interrupted, job, notices, replies, run, others>>
New ==
  /\ pc = "idle" /\ CutTo(<<>>) /\ scarred' = FALSE
  /\ UNCHANGED <<pc, next, sub, idling, interrupted, job, notices, replies, run, others>>

\* cooldown_until is reached.
Cools ==
  /\ \E k \in cooling : cooling' = cooling \ {k}
  /\ soft' = (pc \notin {"idle", "after", "l2", "l3"})
  /\ UNCHANGED <<loop, llm, before, stage, tries, compacts, open, failures, turns, faults>>

LoopStep ==
  \/ Ask \/ ReplyCalls \/ Result \/ Delegate \/ SubTurn \/ SubDone \/ ToolsDone
  \/ JobEnds \/ Interrupt
Next ==
  \/ LoopStep /\ UNCHANGED <<run, others>>
  \/ Begin \/ Select \/ Fallback \/ GiveUp
  \/ RequestFails \/ Overflows \/ BadArguments \/ SubFails
  \/ Replied \/ Idled \/ Interrupted
  \/ Micro \/ AutoCompact \/ SummaryFails \/ FullCompact
  \/ Rewind \/ New \/ Cools

\* A request is answered or fails, a tool returns, and the runner goes on.
Busy ==
  \/ (Ask \/ ReplyCalls \/ Result \/ SubTurn \/ SubDone \/ ToolsDone)
       /\ UNCHANGED <<run, others>>
  \/ Select \/ Fallback \/ GiveUp \/ RequestFails \/ Replied \/ Idled \/ Interrupted
  \/ Micro \/ AutoCompact \/ (pc = "l3" /\ FullCompact)
Spec == Init /\ [][Next]_vars /\ WF_vars(Busy)

----------------------------------------------------------------------------
\* A request is made only with a history a provider accepts, each tool call
\* followed by its results, however runs are cut short by interrupts, the idle
\* tool, failures and retries; except after a call whose arguments cannot be parsed
\* or whose subagent fails, and after messages were cut off (rewind, emergency and
\* automatic compaction).
RequestsPaired == pc = "request" /\ ~scarred => Paired(history)

\* The result of a background task is put before the model once: it is still to be
\* drained, or in one message of the history, or was cut off with it; no retry
\* repeats it and no failure loses it.
Copies(x) == Cardinality({i \in DOMAIN history : x \in history[i].notes})
             + (IF x \in notices THEN 1 ELSE 0) + (IF x \in dropped THEN 1 ELSE 0)
ResultOnce == \A j \in Jobs : job[j] = "ended" => Copies(j) = 1

\* Both, of the one history that the loop, the retries and the compactions edit.
HistorySound == RequestsPaired /\ ResultOnce

\* A turn fails for want of keys only after every key that was out of cooldown when
\* it began has been tried; except when an attempt failed without a cooldown (the
\* same key is selected again) or a cooldown ended meanwhile.
AllKeysTried == [][ pc = "rotate" /\ pc' = "idle" => open = {} \/ soft ]_vars

\* Every turn ends, also on a history that no provider accepts: the rotation, the
\* fallbacks and the recoveries are bounded.
TurnEnds == pc # "idle" ~> pc = "idle"
============================================================================
