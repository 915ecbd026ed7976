------------------------------ MODULE CronJobs ------------------------------
(***************************************************************************)
(* The cron service's jobs (scheduler/cron.rs): the table its task owns,   *)
(* CRON.json, the passes that run what is due, and the commands.  The task *)
(* takes one tick or one command at a time, so commands wait while jobs    *)
(* run; time passes meanwhile, and a pass keeps the time of its beginning. *)
(*                                                                         *)
(* A schedule is the set of seconds it names (one for "at", any for "cron" *)
(* and for "every" with an anchor) or, for "every" without an anchor, a    *)
(* period that begins at each computation.  What a job does is an outcome; *)
(* its messages go to the delivery queue.  Jobs of an unknown kind, which  *)
(* never run and which loading skips, are left out.  CRON.json is          *)
(* truncated and then written: a crash in between leaves it torn.          *)
(***************************************************************************)
EXTENDS Naturals, FiniteSets

CONSTANTS
  Jobs,       \* job ids
  Slots,      \* the seconds a job's schedule names
  Period,     \* the period of an "every" job without an anchor, else 0
  OneShots,   \* "at" jobs with delete_after_run
  Threshold,  \* cron_auto_disable_threshold
  MaxTime,    \* bound: the clock
  MaxCmds,    \* bound: commands
  MaxFaults,  \* bound: failed reads and writes of CRON.json
  MaxDowns,   \* bound: stops and crashes of the service
  Bad,        \* CRON.json when it does not parse
  NoJob       \* no job is running

ASSUME CronAssumption ==
  /\ Slots \in [Jobs -> SUBSET (Nat \ {0})] /\ Period \in [Jobs -> Nat]
  /\ OneShots \subseteq Jobs /\ NoJob \notin Jobs /\ Bad \notin [Jobs -> {"out", "on", "off"}]
  /\ Threshold \in Nat \ {0}
  /\ {MaxTime, MaxCmds, MaxFaults, MaxDowns} \subseteq Nat

VARIABLES
  clock,
  table,   \* svc.jobs: a row for each id
  file,    \* CRON.json
  svc,     \* the task: the pass or command it is in
  ranAt,   \* history: last_run_at of each job, kept over restarts
  asked,   \* history: what the commands answered last said of each job
  cut,     \* history: the service has died while it wrote CRON.json
  budget   \* [cmds, faults, downs], what the bounds count

vars == <<clock, table, file, svc, ranAt, asked, cut, budget>>

Row(on, errors, next) == [in |-> TRUE, on |-> on, errors |-> errors, next |-> next]
Gone == [in |-> FALSE, on |-> FALSE, errors |-> 0, next |-> 0]

\* A pass at time now has left to run and, of what it ran, done to remove.
Task(pc, now, left, done, cur, by) ==
  [pc |-> pc, now |-> now, left |-> left, done |-> done, cur |-> cur, by |-> by]
Rest(pc) == Task(pc, 0, {}, {}, NoJob, "tick")

Contents == [Jobs -> {"out", "on", "off"}]

TypeOK ==
  /\ clock \in Nat
  /\ table \in [Jobs -> [in : BOOLEAN, on : BOOLEAN, errors : Nat, next : Nat]]
  /\ file \in Contents \cup {Bad}
  /\ svc \in [pc : {"off", "idle", "pass", "run", "save"}, now : Nat, left : SUBSET Jobs,
              done : SUBSET Jobs, cur : Jobs \cup {NoJob}, by : {"tick", "user"}]
  /\ svc.pc \in {"off", "idle"} => svc = Rest(svc.pc)
  /\ svc.cur = NoJob <=> svc.pc \notin {"run", "save"}
  /\ ranAt \in [Jobs -> Nat] /\ asked \in [Jobs -> {"in", "out", "any"}]
  /\ cut \in BOOLEAN
  /\ budget \in [cmds : Nat, faults : Nat, downs : Nat]

-----------------------------------------------------------------------------
(* Time.                                                                   *)

\* Mutant: the next slot may be the present one.
AfterOrAt(i, t) ==
  LET IsNext(s) == s >= t /\ \A u \in Slots[i] : u >= t => s <= u
  IN IF Period[i] > 0 THEN t + Period[i]
     ELSE IF \E s \in Slots[i] : IsNext(s) THEN CHOOSE s \in Slots[i] : IsNext(s)
     ELSE 0

\* compute_next: the first slot after t, 0 for None.
After(i, t) ==
  LET IsNext(s) == s > t /\ \A u \in Slots[i] : u > t => s <= u
  IN IF Period[i] > 0 THEN t + Period[i]
     ELSE IF \E s \in Slots[i] : IsNext(s) THEN CHOOSE s \in Slots[i] : IsNext(s)
     ELSE 0

\* Mutant: only a slot hit on the second is due.
DueNow(i, t) == table[i].in /\ table[i].on /\ table[i].next # 0 /\ t = table[i].next

Due(i, t) == table[i].in /\ table[i].on /\ table[i].next # 0 /\ t >= table[i].next

Advance ==
  /\ clock < MaxTime /\ clock' = clock + 1
  /\ UNCHANGED <<table, file, svc, ranAt, asked, cut, budget>>

-----------------------------------------------------------------------------
(* CRON.json.                                                              *)

Command == budget.cmds < MaxCmds /\ budget' = [budget EXCEPT !.cmds = @ + 1]

\* What load_jobs makes of the file: error counts and due times are not in it.
Loaded(f) ==
  [i \in Jobs |-> IF f = Bad \/ f[i] = "out" THEN Gone
                  ELSE Row(f[i] = "on", 0, After(i, clock))]

Image == [i \in Jobs |-> IF ~table[i].in THEN "out" ELSE IF table[i].on THEN "on" ELSE "off"]

\* The reply to a create or a delete, whatever became of the file.
Reply(i) == asked' = [asked EXCEPT ![i] = IF table'[i].in THEN "in" ELSE "out"]

\* Mutant: the table is not saved.
SaveNothing(i) == Reply(i) /\ UNCHANGED <<file, svc, budget>>

\* save_jobs begins: the file is truncated, or cannot be opened, which is logged.
Save(i) ==
  \/ /\ Command /\ file' = Bad
     /\ svc' = Task("save", clock, {}, {}, i, "user") /\ UNCHANGED asked
  \/ /\ budget.cmds < MaxCmds /\ budget.faults < MaxFaults
     /\ budget' = [budget EXCEPT !.cmds = @ + 1, !.faults = @ + 1]
     /\ Reply(i) /\ UNCHANGED <<file, svc>>

\* ... and is written, or the write fails, which is logged too.
Saved ==
  /\ svc.pc = "save" /\ UNCHANGED <<clock, table, ranAt, cut>>
  /\ \/ file' = Image /\ UNCHANGED budget
     \/ /\ budget.faults < MaxFaults /\ budget' = [budget EXCEPT !.faults = @ + 1]
        /\ UNCHANGED file
  /\ svc' = Rest("idle") /\ Reply(svc.cur)

\* CronService::new, and Reload. A file that cannot be read gives no jobs.
Load ==
  /\ \/ svc.pc = "off" /\ table' = Loaded(file) /\ UNCHANGED budget
     \/ svc.pc = "idle" /\ table' = Loaded(file) /\ Command
     \/ /\ svc.pc \in {"off", "idle"} /\ table' = Loaded(Bad)
        /\ budget.faults < MaxFaults /\ budget' = [budget EXCEPT !.faults = @ + 1]
  /\ svc' = Rest("idle")
  /\ UNCHANGED <<clock, file, ranAt, asked, cut>>

\* The service is stopped, or dies wherever it is, in the middle of a write too.
Down ==
  /\ svc.pc # "off"
  /\ budget.downs < MaxDowns /\ budget' = [budget EXCEPT !.downs = @ + 1]
  /\ svc' = Rest("off") /\ table' = [i \in Jobs |-> Gone]
  /\ cut' = (cut \/ svc.pc = "save")
  /\ UNCHANGED <<clock, file, ranAt, asked>>

-----------------------------------------------------------------------------
(* Commands.                                                               *)

Create(i) ==
  /\ svc.pc = "idle" /\ ~table[i].in
  /\ table' = [table EXCEPT ![i] = Row(TRUE, 0, After(i, clock))]
  /\ Save(i)
  /\ UNCHANGED <<clock, ranAt, cut>>

Delete(i) ==
  /\ svc.pc = "idle" /\ table[i].in
  /\ table' = [table EXCEPT ![i] = Gone]
  /\ Save(i)
  /\ UNCHANGED <<clock, ranAt, cut>>

\* A job is run whether or not it is due or enabled.
Trigger(i) ==
  /\ svc.pc = "idle" /\ table[i].in /\ Command
  /\ svc' = Task("run", clock, {}, {}, i, "user")
  /\ ranAt' = [ranAt EXCEPT ![i] = clock]
  /\ UNCHANGED <<clock, table, file, asked, cut>>

-----------------------------------------------------------------------------
(* A pass.                                                                 *)

\* tick: a job's run changes no other job, so what will be found due is known.
Tick ==
  /\ svc.pc = "idle"
  /\ \E i \in Jobs : Due(i, clock)
  /\ svc' = Task("pass", clock, {i \in Jobs : Due(i, clock)}, {}, NoJob, "tick")
  /\ UNCHANGED <<clock, table, file, ranAt, asked, cut, budget>>

RunJob(i) ==
  /\ svc.pc = "pass" /\ i \in svc.left
  /\ svc' = [svc EXCEPT !.pc = "run", !.cur = i, !.left = @ \ {i}]
  /\ ranAt' = [ranAt EXCEPT ![i] = svc.now]
  /\ UNCHANGED <<clock, table, file, asked, cut, budget>>

\* Mutant: off by one in the threshold.
FailedLate(row) == [row EXCEPT !.errors = @ + 1, !.on = @ /\ row.errors < Threshold]

\* An error counts; at the threshold the job is disabled.
Failed(row) == [row EXCEPT !.errors = @ + 1, !.on = @ /\ row.errors + 1 < Threshold]

\* run_job after the await. Neither a disabling nor a removal is saved.
Finish ==
  /\ svc.pc = "run"
  /\ \E row \in {Failed(table[svc.cur]), [table[svc.cur] EXCEPT !.errors = 0]} :
       table' = [table EXCEPT ![svc.cur] = [row EXCEPT !.next = After(svc.cur, svc.now)]]
  /\ svc' = [svc EXCEPT !.pc = "pass", !.cur = NoJob,
               !.done = @ \cup (IF svc.by = "tick" THEN {svc.cur} \cap OneShots ELSE {})]
  /\ UNCHANGED <<clock, file, ranAt, asked, cut, budget>>

\* The one-shots that ran are removed.
EndPass ==
  /\ svc.pc = "pass" /\ svc.left = {}
  /\ svc' = Rest("idle")
  /\ table' = [i \in Jobs |-> IF i \in svc.done THEN Gone ELSE table[i]]
  /\ asked' = [i \in Jobs |-> IF i \in svc.done THEN "any" ELSE asked[i]]
  /\ UNCHANGED <<clock, file, ranAt, cut, budget>>

Init ==
  /\ clock = 0 /\ table = [i \in Jobs |-> Gone]
  /\ file \in Contents
  /\ svc = Rest("off")
  /\ ranAt = [i \in Jobs |-> 0]
  /\ asked = [i \in Jobs |-> IF file[i] = "out" THEN "out" ELSE "in"]
  /\ cut = FALSE
  /\ budget = [cmds |-> 0, faults |-> 0, downs |-> 0]

Next ==
  \/ Advance \/ Saved \/ Load \/ Down \/ Tick \/ Finish \/ EndPass
  \/ \E i \in Jobs : Create(i) \/ Delete(i) \/ Trigger(i) \/ RunJob(i)

Spec == Init /\ [][Next]_vars

\* select! takes a ready tick in the end however many commands are ready, and
\* the awaits of a pass and the writes return.
Fairness ==
  /\ SF_vars(Tick) /\ WF_vars(Finish) /\ WF_vars(EndPass) /\ WF_vars(Saved)
  /\ WF_vars(\E i \in Jobs : RunJob(i))

FairSpec == Spec /\ Fairness

-----------------------------------------------------------------------------
(* Properties.                                                             *)

\* A scheduled run takes a slot after the time of the job's last run: no slot
\* runs twice, and slots missed while other jobs ran are skipped, over triggers,
\* reloads, restarts and re-creations too.
SlotOnce ==
  [][\A i \in Jobs :
       svc.pc = "pass" /\ svc'.cur = i => table[i].next > ranAt[i]]_vars

\* "Auto-disable on repeated failures" (scheduler/mod.rs:6): an enabled job has
\* failed less than Threshold times in a row since the table was loaded,
\* counting the runs triggered by hand.
DisabledInTime == \A i \in Jobs : table[i].on => table[i].errors < Threshold

\* What create and delete answered outlasts stops, crashes and reloads, unless a file
\* operation failed or the service died while it wrote CRON.json, which nothing
\* guards: a created job is in CRON.json and in a running service's table, a
\* deleted one in neither, between saves.
CommandsDurable ==
  budget.faults = 0 /\ ~cut /\ svc.pc # "save" =>
    \A i \in Jobs :
      /\ asked[i] = "in" => file[i] # "out" /\ (svc.pc # "off" => table[i].in)
      /\ asked[i] = "out" => file[i] = "out" /\ ~table[i].in

\* A job that is due runs, unless the service stops or the job is deleted or
\* loaded anew: a pass leaves no due job out, however late it comes.
DueServed ==
  \A i \in Jobs : (table[i].on /\ table[i].next \in 1..clock)
                    ~> ~(table[i].on /\ table[i].next \in 1..clock)
=============================================================================
