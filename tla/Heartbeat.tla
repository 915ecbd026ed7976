----------------------------- MODULE Heartbeat -----------------------------
(***************************************************************************)
(* The heartbeat task of one session and the lane it shares with the       *)
(* session: the file it re-reads, the clock, the turns of the user and the *)
(* commands they send it.  What a run reports goes to the delivery queue   *)
(* and never comes back to the schedule, so outputs are left out.          *)
(***************************************************************************)
EXTENDS Naturals

CONSTANTS
  Day,        \* hours of a day (24 in the code)
  Settings,   \* records [interval, start, end] a HEARTBEAT.md may carry
  MaxSaves    \* bound: times the file is written

ASSUME HeartbeatAssumption ==
  /\ Day \in Nat \ {0} /\ MaxSaves \in Nat
  /\ Settings \subseteq [interval : Nat, start : 0..Day, end : 0..Day]

VARIABLES
  file,      \* HEARTBEAT.md: [mtime, body, set], mtime 0 when there is none
  saves,     \* writes so far: the next mtime
  cache,     \* cached_mtime, and the version cached_content holds (0: None)
  set,       \* interval and active_hours of the runner
  elapsed,   \* hours since last_run_at, up to the longest interval
  hour,      \* Local::now().hour()
  pc,        \* the heartbeat task: "idle", "free" (the lane was seen free),
             \* "turn", "trigger", "stopped"
  doing,     \* version of the instructions of the run under way, 0: none
  lane,      \* active_count of the session lane
  user,      \* the session task: "out", "turn", "waiting" for a reply, "closed"
  asked,     \* the command in the heartbeat's channel: "none", "trigger", "status"
  seen       \* history: the heartbeat looked at the file after its last change

hbvars == <<file, saves, cache, set, elapsed, hour, pc, doing, lane, user, asked, seen>>
clock == <<elapsed, hour>>
sess == <<lane, user, asked>>

Longest == CHOOSE n \in {s.interval : s \in Settings} : \A s \in Settings : s.interval <= n
NoFile == [mtime |-> 0, body |-> FALSE, set |-> CHOOSE s \in Settings : TRUE]
Current == IF file.body THEN file.mtime ELSE 0

HeartbeatTypeOK ==
  /\ file \in [mtime : 0..MaxSaves, body : BOOLEAN, set : Settings] /\ saves \in 0..MaxSaves
  /\ cache \in [mtime : 0..MaxSaves, content : 0..MaxSaves] /\ set \in Settings
  /\ elapsed \in 0..Longest /\ hour \in 0..(Day - 1)
  /\ pc \in {"idle", "free", "turn", "trigger", "stopped"} /\ doing \in 0..MaxSaves
  /\ lane \in 0..2 /\ user \in {"out", "turn", "waiting", "closed"}
  /\ asked \in {"none", "trigger", "status"} /\ seen \in BOOLEAN

\* spawn: the settings of the file, nothing cached, the last run is now.
HeartbeatInit ==
  /\ file \in [mtime : {1}, body : BOOLEAN, set : Settings] /\ saves = 1
  /\ cache = [mtime |-> 0, content |-> 0] /\ set = file.set
  /\ elapsed = 0 /\ hour \in 0..(Day - 1)
  /\ pc = "idle" /\ doing = 0 /\ lane = 0 /\ user = "out" /\ asked = "none"
  /\ seen = FALSE

----------------------------------------------------------------------------

\* is_within_active_hours: start 22, end 6 spans midnight.
Within(h, s) ==
  IF s.start <= s.end THEN s.start <= h /\ h < s.end
  ELSE ~(s.end <= h /\ h < s.start)

\* Mutant: any cached mtime is taken for the present one.
RefreshOnce ==
  IF cache.mtime # 0 THEN UNCHANGED <<cache, set>>
  ELSE /\ cache' = [mtime |-> file.mtime, content |-> Current]
       /\ set' = file.set

\* refresh_file of an existing file: the same mtime keeps everything; otherwise
\* the settings, and the content unless the body is empty.
Refresh ==
  IF file.mtime = cache.mtime THEN UNCHANGED <<cache, set>>
  ELSE /\ cache' = [mtime |-> file.mtime, content |-> Current]
       /\ set' = file.set

\* should_run looks whether the file exists before it refreshes.
Look ==
  /\ seen' = TRUE
  /\ IF file.mtime = 0 THEN UNCHANGED <<cache, set>> ELSE Refresh

Ready ==
  /\ file.mtime # 0 /\ Current # 0
  /\ elapsed >= set'.interval /\ Within(hour, set')

\* build_prompt: the cached content, else the file.
Prompt == IF cache.content # 0 THEN cache.content ELSE Current

\* saturating_sub of mark_done.
Done(n) == IF n = 0 THEN 0 ELSE n - 1

----------------------------------------------------------------------------
\* A tick of the poll that runs nothing: not due, or the session lane is occupied.
PollSkips ==
  /\ pc = "idle" /\ Look
  /\ ~Ready \/ lane > 0
  /\ UNCHANGED <<file, saves, clock, pc, doing, sess>>

\* A tick that finds a run due and the lane free: mark_active is still to come.
PollRuns ==
  /\ pc = "idle" /\ Look
  /\ Ready /\ lane = 0
  /\ pc' = "free"
  /\ UNCHANGED <<file, saves, clock, doing, sess>>

Mark ==
  /\ pc = "free"
  /\ lane' = lane + 1 /\ pc' = "turn" /\ doing' = Prompt
  /\ UNCHANGED <<file, saves, cache, set, clock, user, asked, seen>>

\* The model answered or failed: mark_done, and the run is recorded either way.
RunEnds ==
  /\ pc = "turn"
  /\ lane' = Done(lane) /\ pc' = "idle" /\ doing' = 0 /\ elapsed' = 0
  /\ UNCHANGED <<file, saves, cache, set, hour, user, asked, seen>>

\* Mutant: the trigger yields to the lane as an automatic run does.
TriggerYields ==
  /\ pc = "idle" /\ asked = "trigger" /\ lane = 0
  /\ pc' = "trigger" /\ doing' = Prompt
  /\ UNCHANGED <<file, saves, cache, set, clock, sess, seen>>

\* Trigger: neither the interval nor the lane is looked at.
Trigger ==
  /\ pc = "idle" /\ asked = "trigger"
  /\ pc' = "trigger" /\ doing' = Prompt
  /\ UNCHANGED <<file, saves, cache, set, clock, sess, seen>>

\* Mutant: mark_done without the mark_active it belongs to.
TriggerEndsDone ==
  /\ pc = "trigger"
  /\ pc' = "idle" /\ doing' = 0 /\ elapsed' = 0 /\ asked' = "none" /\ lane' = Done(lane)
  /\ UNCHANGED <<file, saves, cache, set, hour, user, seen>>

TriggerEnds ==
  /\ pc = "trigger"
  /\ pc' = "idle" /\ doing' = 0 /\ elapsed' = 0 /\ asked' = "none"
  /\ UNCHANGED <<file, saves, cache, set, hour, lane, user, seen>>

Status ==
  /\ pc = "idle" /\ asked = "status"
  /\ Look /\ asked' = "none"
  /\ UNCHANGED <<file, saves, clock, pc, doing, lane, user>>

\* Every handle is gone: recv returns None.
Stop ==
  /\ pc = "idle" /\ user = "closed" /\ asked = "none"
  /\ pc' = "stopped"
  /\ UNCHANGED <<file, saves, cache, set, clock, doing, sess, seen>>

----------------------------------------------------------------------------
\* Session::turn marks the lane around the whole turn, slash commands included.
Begin ==
  /\ user = "out"
  /\ user' = "turn" /\ lane' = lane + 1
  /\ UNCHANGED <<file, saves, cache, set, clock, pc, doing, asked, seen>>

\* /heartbeat and /trigger send a command and await its reply within the turn.
Ask ==
  /\ user = "turn"
  /\ user' = "waiting" /\ asked' \in {"trigger", "status"}
  /\ UNCHANGED <<file, saves, cache, set, clock, pc, doing, lane, seen>>

End ==
  /\ user \in {"turn", "waiting"} /\ asked = "none"
  /\ user' = "out" /\ lane' = Done(lane)
  /\ UNCHANGED <<file, saves, cache, set, clock, pc, doing, asked, seen>>

\* The session task ends and drops its HeartbeatHandle.
Close ==
  /\ user = "out" /\ user' = "closed"
  /\ UNCHANGED <<file, saves, cache, set, clock, pc, doing, lane, asked, seen>>

\* The user's editor writes or removes HEARTBEAT.md.
Save ==
  /\ saves < MaxSaves
  /\ \E s \in Settings, b \in BOOLEAN :
       file' = [mtime |-> saves + 1, body |-> b, set |-> s]
  /\ saves' = saves + 1 /\ seen' = FALSE
  /\ UNCHANGED <<cache, set, clock, pc, doing, sess>>

Remove ==
  /\ file.mtime # 0 /\ file' = NoFile /\ seen' = FALSE
  /\ UNCHANGED <<saves, cache, set, clock, pc, doing, sess>>

HourPasses ==
  /\ hour' = (hour + 1) % Day
  /\ elapsed' = IF elapsed < Longest THEN elapsed + 1 ELSE elapsed
  /\ UNCHANGED <<file, saves, cache, set, pc, doing, sess, seen>>

TaskSteps == Mark \/ RunEnds \/ Trigger \/ TriggerEnds \/ Status \/ Stop
HeartbeatNext ==
  \/ PollSkips \/ PollRuns \/ TaskSteps
  \/ Begin \/ Ask \/ End \/ Close
  \/ Save \/ Remove \/ HourPasses

\* The clock runs, the task does what it has begun and select! starves none of
\* its branches; an hour lasts thousands of polls, so one finds a run that
\* keeps becoming due.
HeartbeatSpec ==
  /\ HeartbeatInit /\ [][HeartbeatNext]_hbvars
  /\ WF_hbvars(HourPasses) /\ WF_hbvars(End)
  /\ WF_hbvars(Mark) /\ WF_hbvars(RunEnds) /\ WF_hbvars(TriggerEnds) /\ WF_hbvars(Stop)
  /\ SF_hbvars(Trigger) /\ SF_hbvars(Status) /\ SF_hbvars(PollRuns)

----------------------------------------------------------------------------
\* Once the heartbeat has looked at an edited file, every run it makes, on its own
\* or triggered, carries the instructions the file holds now (refresh_file caches
\* by mtime, and the automatic path builds its prompt from that cache).  A removed
\* file is excepted: its instructions stay in the cache, and /trigger runs them.
FreshRuns ==
  [][ pc' \in {"turn", "trigger"} /\ pc' # pc /\ seen /\ file # NoFile
        => doing' = Current ]_hbvars

\* The heartbeat decides to run only while no turn of the user is under way (one that
\* begins between this look and the mark of the lane runs beside it): the
\* count of the lane never loses the user's mark, whichever way runs, triggers
\* and turns overlap.
YieldsToUser == [][ pc = "idle" /\ pc' = "free" => user \notin {"turn", "waiting"} ]_hbvars

\* A trigger is always answered, though it is sent from inside a turn that holds
\* the lane and may find an automatic run under way.
TriggerHeeded == asked = "trigger" ~> asked = "none"

\* While the user stays away and the file asks for runs at some hour, the
\* heartbeat runs again and again: the lane is always given back, a failed run
\* counts as a run, and active hours that span midnight are met.
Active(s) == \E h \in 0..(Day - 1) : Within(h, s)
Wanted == user = "out" /\ Current # 0 /\ file.set.start # file.set.end
DueRuns == <>[]Wanted => []<>(pc = "turn")

\* Both: neither a command nor a due run waits for ever.
RunsServed == TriggerHeeded /\ DueRuns

============================================================================
