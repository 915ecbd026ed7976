--------------------------- MODULE ManagedServices ---------------------------
(***************************************************************************)
(* The managed services of the gateway: what each should do (desired), the *)
(* file that keeps it across restarts, and what really runs.  Two of the   *)
(* four services stand for their kinds: "handle" for cron and delivery,    *)
(* whose start, stop and restart are modelled in ServiceRunner and         *)
(* abstracted here to a stop that may outlast its caller's patience, and   *)
(* "front" for the websocket and Discord frontends, with the slot and the  *)
(* generations of their tasks.  A control call may come over a websocket   *)
(* connection, which the frontend's task aborts when it is told to stop.   *)
(***************************************************************************)
EXTENDS Integers, FiniteSets

CONSTANTS
  Callers,     \* who makes control calls, besides the start-up
  Remote,      \* those who make them over a websocket connection
  Boot,        \* the start-up, which reconciles through the same calls
  Missing, Bad, \* services.json does not exist, or does not parse
  Confs,       \* configurations: [front, ready, runtime, enabled]
  MaxOps,      \* bound: control calls
  MaxCrashes,  \* bound: crashes of the process
  MaxFaults    \* bound: failed writes, panics and frontends that fail

Services == {"handle", "front"}
Commands == {"start", "stop", "restart"}

ASSUME ServicesAssumption ==
  /\ Boot \notin Callers /\ Remote \subseteq Callers
  /\ {MaxOps, MaxCrashes, MaxFaults} \subseteq Nat
  /\ Missing # Bad /\ \A d \in SUBSET Services : Missing # d /\ Bad # d
  /\ Confs \subseteq [front : {"websocket", "discord"}, ready : SUBSET Services,
                      runtime : SUBSET Services, enabled : SUBSET Services]

\* A front task per call on it and per start-up: the bound on generations.
Gens == 1..(MaxOps + MaxCrashes + 1)

VARIABLES
  conf,      \* what is configured, which policies are Runtime, what is enabled
  boot,      \* the start-up: "intents" and "reconcile" go over the services
  at,        \* the service it is at: 1 for "handle", 2 for "front"
  saved,     \* what it loaded from the file
  desired,   \* desired_running
  file,      \* services.json: Missing, Bad, or the services desired
  handle,    \* the delivery runner or the cron service
  slot, gen, \* FrontendTaskSlot: the task it holds, or 0, and next_generation
  ftask,     \* the frontend tasks
  told,      \* those whose shutdown_tx was set
  op,        \* control calls under way
  ops, crashes, faults,
  asked,     \* history: what callers may expect of each service after a restart
  stale,     \* history: the last write of the file failed
  spoiled,   \* history: a crash met a stale file or a half-done start-up
  odd        \* history: services some call or fault left as it was not asked

vars == <<conf, boot, at, saved, desired, file, handle, slot, gen, ftask, told, op,
          ops, crashes, faults, asked, stale, spoiled, odd>>
front == <<slot, gen, ftask, told>>
bounds == <<conf, ops, crashes, faults>>
history == <<stale, spoiled>>

Order == <<"handle", "front">>
NoOp == [pc |-> "idle", cmd |-> "start", svc |-> "handle", gen |-> 0, via |-> 0, met |-> FALSE]
FrontPcs == {"none", "new", "up", "wait", "drain", "failed", "ending", "done", "dead"}
OpPcs == {"idle", "stop", "await", "start", "record", "rerecord"}

TypeOK ==
  /\ conf \in Confs /\ boot \in {"load", "intents", "reconcile", "up"} /\ at \in 1..2
  /\ desired \in SUBSET Services
  /\ file \in {Missing, Bad} \/ file \in SUBSET Services
  /\ handle \in {"none", "running", "stopping", "stopped"}
  /\ slot \in Gens \cup {0} /\ gen \in Gens \cup {0}
  /\ ftask \in [Gens -> FrontPcs] /\ told \subseteq Gens
  /\ op \in [Callers \cup {Boot} -> [pc : OpPcs, cmd : Commands, svc : Services,
                 gen : Gens \cup {0}, via : Gens \cup {0}, met : BOOLEAN]]
  /\ asked \in [Services -> SUBSET BOOLEAN] /\ odd \subseteq Services

\* GatewayServices::new: delivery and cron run since spawn, frontends do not.
Fresh(c) == IF "handle" \in c.ready THEN "running" ELSE "none"
InitDesired(c) == c.ready \cap {"handle"}

Init ==
  /\ conf \in Confs
  /\ boot = "load" /\ at = 1 /\ saved = Missing
  /\ desired = InitDesired(conf) /\ file = Missing /\ handle = Fresh(conf)
  /\ slot = 0 /\ gen = 0 /\ ftask = [g \in Gens |-> "none"] /\ told = {}
  /\ op = [c \in Callers \cup {Boot} |-> NoOp]
  /\ ops = 0 /\ crashes = 0 /\ faults = 0
  /\ asked = [s \in Services |-> {(s \in conf.enabled)}]
  /\ stale = FALSE /\ spoiled = FALSE /\ odd = {}

----------------------------------------------------------------------------
Finished(g) == ftask[g] \in {"done", "dead"}
Busy(g) == ftask[g] \in {"up", "wait", "drain", "ending"}

\* is_service_running: cron and delivery look at their sender, frontends at the slot.
Running(s) ==
  IF s = "handle" THEN handle \in {"running", "stopping"}
  ELSE slot # 0 /\ ~Finished(slot)

Idle(s) == \A c \in Callers \cup {Boot} : op[c].pc = "idle" \/ op[c].svc # s
Target(o) == o.cmd # "stop"

\* The calls that change desired_running: start and restart of an unconfigured cron
\* do not, nor does start of an unconfigured Discord, but its restart does.
Records(s, cmd) ==
  \/ cmd = "stop" \/ s \in conf.ready
  \/ s = "front" /\ cmd = "restart"

\* ServiceRuntimeState::update: the whole state is written, or the error is logged.
Store(d) ==
  \/ file' = d /\ stale' = FALSE /\ UNCHANGED faults
  \/ faults < MaxFaults /\ faults' = faults + 1 /\ stale' = TRUE /\ UNCHANGED file

With(s, on) == IF on THEN desired \cup {s} ELSE desired \ {s}

----------------------------------------------------------------------------
(* The start-up. *)

\* persisted_state: what the file says, if it says anything.
Load ==
  /\ boot = "load" /\ boot' = "intents" /\ at' = 1 /\ saved' = file
  /\ UNCHANGED <<desired, file, handle, front, op, bounds, asked, history, odd>>

\* Mutant: the file is not asked.
BootDesiredConfig(s) == s \in conf.enabled

\* boot_desired: the configuration, or under the Runtime policy the file.
BootDesired(s) ==
  IF s \in conf.runtime /\ saved \notin {Missing, Bad} THEN s \in saved
  ELSE s \in conf.enabled

\* The next service of ManagedService::ALL, or the next phase.
Advance(next) == IF at = 1 THEN at' = 2 /\ UNCHANGED boot ELSE at' = 1 /\ boot' = next

\* apply_boot_intents: an update, and so a write of the whole state, per service.
Intents ==
  /\ boot = "intents"
  /\ desired' = With(Order[at], BootDesired(Order[at])) /\ Store(desired')
  /\ Advance("reconcile")
  /\ UNCHANGED <<conf, saved, handle, front, op, ops, crashes, asked, spoiled, odd>>

\* A call on s starts: it meets the others on s.
Meet(c, o) ==
  op' = [d \in Callers \cup {Boot} |->
           IF d = c THEN [o EXCEPT !.met = ~Idle(o.svc)]
           ELSE IF op[d].pc # "idle" /\ op[d].svc = o.svc THEN [op[d] EXCEPT !.met = TRUE]
           ELSE op[d]]

Expect(o) ==
  asked' = IF Records(o.svc, o.cmd) THEN [asked EXCEPT ![o.svc] = @ \cup {Target(o)}] ELSE asked

\* reconcile_service: nothing, or a start or a stop.
Reconcile ==
  LET s == Order[at]
      o == [NoOp EXCEPT !.cmd = IF s \in desired THEN "start" ELSE "stop", !.svc = s,
                        !.pc = IF s \in desired THEN "start" ELSE "stop"]
  IN /\ boot = "reconcile" /\ op[Boot].pc = "idle"
     /\ (s \in desired) # Running(s)
     /\ Meet(Boot, o) /\ Expect(o)
     /\ Advance("up")
     /\ UNCHANGED <<saved, desired, file, handle, front, bounds, history, odd>>

ReconcileNothing ==
  LET s == Order[at] IN
  /\ boot = "reconcile" /\ op[Boot].pc = "idle"
  /\ (s \in desired) = Running(s)
  /\ Advance("up")
  /\ UNCHANGED <<saved, desired, file, handle, front, op, bounds, asked, history, odd>>

Crash ==
  /\ crashes < MaxCrashes /\ crashes' = crashes + 1
  /\ boot' = "load" /\ at' = 1 /\ saved' = Missing
  /\ desired' = InitDesired(conf) /\ handle' = Fresh(conf)
  /\ slot' = 0 /\ told' = {} /\ odd' = {} /\ stale' = FALSE
  /\ ftask' = [g \in Gens |-> IF ftask[g] = "none" THEN "none" ELSE "done"]
  /\ op' = [c \in Callers \cup {Boot} |-> NoOp]
  /\ \/ UNCHANGED file
        /\ spoiled' = (spoiled \/ stale \/ (boot = "intents" /\ at = 2))
     \/ \* in the middle of a write
        /\ boot = "intents" \/ \E c \in Callers \cup {Boot} : op[c].pc \in {"record", "rerecord"}
        /\ file' = Bad /\ spoiled' = TRUE
  /\ UNCHANGED <<conf, gen, ops, faults, asked>>

----------------------------------------------------------------------------
(* A control call. *)

\* Over a connection of frontend task via, or from the terminal (0) once booted.
Begin(c, cmd, s, via) ==
  LET o == [NoOp EXCEPT !.pc = IF cmd = "start" THEN "start" ELSE "stop",
                        !.cmd = cmd, !.svc = s, !.via = via]
  IN /\ op[c].pc = "idle" /\ ops < MaxOps /\ ops' = ops + 1
     /\ IF c \notin Remote THEN via = 0 /\ boot = "up" /\ op[Boot].pc = "idle"
        ELSE via # 0 /\ conf.front = "websocket" /\ ftask[via] = "up"
     /\ s = "handle" /\ cmd # "stop" => s \in conf.ready
     /\ Meet(c, o) /\ Expect(o)
     /\ UNCHANGED <<conf, boot, at, saved, desired, file, handle, front, crashes, faults,
                    history, odd>>

\* The call returns; alone on its service, it settles what to expect.
Return(c) ==
  LET o == op[c] IN
  /\ op' = [op EXCEPT ![c] = NoOp]
  /\ asked' = IF Records(o.svc, o.cmd) /\ ~o.met
              THEN [asked EXCEPT ![o.svc] = {Target(o)}] ELSE asked
  /\ odd' = IF o.met THEN odd \cup {o.svc} ELSE odd

Goto(c, pc, g) == op' = [op EXCEPT ![c].pc = pc, ![c].gen = g]
AfterStop(c) == Goto(c, IF op[c].cmd = "stop" THEN "record" ELSE "start", 0)

\* stop_task takes the task out of the slot and tells it; the handle sends Stop.
Stop(c) ==
  LET o == op[c] IN
  /\ o.pc = "stop"
  /\ IF o.svc = "front"
     THEN /\ IF slot = 0 THEN AfterStop(c) /\ UNCHANGED told
             ELSE Goto(c, "await", slot) /\ told' = told \cup {slot}
          /\ slot' = 0 /\ UNCHANGED handle
     ELSE /\ IF Running("handle") THEN Goto(c, "await", 0) /\ handle' = "stopping"
             ELSE AfterStop(c) /\ UNCHANGED handle
          /\ UNCHANGED <<slot, told>>
  /\ UNCHANGED <<boot, at, saved, desired, file, gen, ftask, bounds, asked, history, odd>>

\* The join handle of the task resolves; the polls of the handle find it gone.
Stopped(c) ==
  LET o == op[c] IN
  /\ o.pc = "await"
  /\ IF o.svc = "front" THEN Finished(o.gen) ELSE handle = "stopped"
  /\ AfterStop(c)
  /\ UNCHANGED <<boot, at, saved, desired, file, handle, front, bounds, asked, history, odd>>

\* The polls of the handle run out.
StopTimeout(c) ==
  /\ op[c].pc = "await" /\ op[c].svc = "handle" /\ Running("handle")
  /\ AfterStop(c)
  /\ UNCHANGED <<boot, at, saved, desired, file, handle, front, bounds, asked, history, odd>>

\* Mutant: a connection that waits for its own frontend to stop is not aborted.
CutOffOthers(c) ==
  LET o == op[c] IN
  /\ o.pc = "await" /\ o.via # 0 /\ ftask[o.via] \in {"drain", "failed", "done", "dead"}
  /\ o.svc = "front" => o.gen # o.via
  /\ op' = [op EXCEPT ![c] = NoOp]
  /\ odd' = odd \cup {o.svc}
  /\ UNCHANGED <<boot, at, saved, desired, file, handle, front, bounds, asked, history>>

\* The connection the call came over is aborted at its next await: the call ends there.
CutOff(c) ==
  LET o == op[c] IN
  /\ o.pc = "await" /\ o.via # 0 /\ ftask[o.via] \in {"drain", "failed", "done", "dead"}
  /\ op' = [op EXCEPT ![c] = NoOp]
  /\ odd' = odd \cup {o.svc}
  /\ UNCHANGED <<boot, at, saved, desired, file, handle, front, bounds, asked, history>>

\* start() of the handle does nothing while an old task is still there.
StartHandle(c) ==
  LET o == op[c] IN
  /\ o.pc = "start" /\ o.svc = "handle"
  /\ IF "handle" \notin conf.ready
     THEN Return(c) /\ UNCHANGED handle
     ELSE /\ handle' = IF handle = "stopped" THEN "running" ELSE handle
          /\ odd' = IF handle = "stopping" THEN odd \cup {"handle"} ELSE odd
          /\ Goto(c, "record", 0) /\ UNCHANGED asked
  /\ UNCHANGED <<boot, at, saved, desired, file, front, bounds, history>>

\* start_websocket_service and start_discord_service, through start_task.
StartFront(c) ==
  LET o == op[c]
      Unready == IF o.cmd = "start" THEN Return(c) ELSE
                   Goto(c, "rerecord", 0) /\ UNCHANGED <<asked, odd>>
  IN /\ o.pc = "start" /\ o.svc = "front"
     /\ IF "front" \notin conf.ready
        THEN Unready /\ UNCHANGED front
        ELSE /\ IF Running("front") THEN UNCHANGED front
                ELSE /\ gen + 1 \in Gens /\ gen' = gen + 1 /\ slot' = gen + 1
                     /\ ftask' = [ftask EXCEPT ![gen + 1] = "new"]
                     /\ UNCHANGED told
             /\ Goto(c, "record", 0) /\ UNCHANGED <<asked, odd>>
     /\ UNCHANGED <<boot, at, saved, desired, file, handle, bounds, history>>

\* record_service_outcome; the restart of a frontend records once more.
Record(c) ==
  LET o == op[c]
      Again == o.pc = "record" /\ o.svc = "front" /\ o.cmd = "restart"
      d == With(o.svc, Target(o))
  IN /\ o.pc \in {"record", "rerecord"}
     /\ desired' = d /\ Store(d)
     /\ IF Again THEN Goto(c, "rerecord", 0) /\ UNCHANGED <<asked, odd>> ELSE Return(c)
     /\ UNCHANGED <<conf, boot, at, saved, handle, front, ops, crashes, spoiled>>

CallStep(c) ==
  Stop(c) \/ Stopped(c) \/ StopTimeout(c) \/ CutOff(c) \/ StartHandle(c)
  \/ StartFront(c) \/ Record(c)

----------------------------------------------------------------------------
(* The tasks. *)

HandleEnds ==
  /\ handle = "stopping" /\ handle' = "stopped"
  /\ UNCHANGED <<boot, at, saved, desired, file, front, op, bounds, asked, history, odd>>

Fault == faults < MaxFaults /\ faults' = faults + 1

HandlePanics ==
  /\ handle = "running" /\ handle' = "stopped" /\ Fault
  /\ odd' = odd \cup {"handle"}
  /\ UNCHANGED <<conf, boot, at, saved, desired, file, front, op, ops, crashes, asked, history>>

Move(g, from, to) ==
  /\ ftask[g] = from /\ ftask' = [ftask EXCEPT ![g] = to]
  /\ UNCHANGED <<conf, boot, at, saved, desired, file, handle, gen, told, op, ops, crashes, asked,
                 history>>

\* start_ws binds its port, which an older task may still hold; Discord connects.
Opens(g) ==
  /\ conf.front = "websocket" => \A h \in Gens : ~Busy(h)
  /\ Move(g, "new", "up") /\ UNCHANGED <<slot, faults, odd>>

OpenFails(g) ==
  /\ IF conf.front = "websocket" /\ \E h \in Gens : Busy(h) THEN UNCHANGED faults ELSE Fault
  /\ odd' = odd \cup {"front"}
  /\ Move(g, "new", "failed") /\ UNCHANGED slot

\* accept fails, or the Discord connection does.
Breaks(g) ==
  /\ Fault /\ odd' = odd \cup {"front"}
  /\ Move(g, "up", "failed") /\ UNCHANGED slot

Panics(g) ==
  /\ Fault /\ odd' = odd \cup {"front"}
  /\ Move(g, "up", "dead") /\ UNCHANGED slot

\* The Discord loop waits for a session: in dispatch or in send_control, with no timeout.
Waits(g) ==
  /\ conf.front = "discord" /\ Move(g, "up", "wait") /\ UNCHANGED <<slot, faults, odd>>

\* The session takes the message, or answers.
Heard(g) == Move(g, "wait", "up") /\ UNCHANGED <<slot, faults, odd>>

\* The loop sees the shutdown flag: abort_all.  Where it waits for a session it does not
\* look; back at its select!, it may still take up what else is there.
Drains(g) ==
  /\ g \in told /\ Move(g, "up", "drain") /\ UNCHANGED <<slot, faults, odd>>

Calling(g) == \E c \in Callers : op[c].pc # "idle" /\ op[c].via = g

\* join_next until no connection is left; the listener closes.  A task that failed
\* drops its connections the same way, without waiting.
Drained(g) ==
  /\ ~Calling(g) /\ Move(g, "drain", "ending") /\ UNCHANGED <<slot, faults, odd>>

\* Mutant: the slot is emptied whoever is in it.
FinishAny(g) ==
  /\ ftask[g] \in {"ending", "failed"}
  /\ slot' = 0
  /\ Move(g, ftask[g], "done") /\ UNCHANGED <<faults, odd>>

\* finish_frontend_task empties the slot if the generation is still its own.
Finish(g) ==
  /\ ftask[g] \in {"ending", "failed"}
  /\ slot' = IF slot = g THEN 0 ELSE slot
  /\ Move(g, ftask[g], "done") /\ UNCHANGED <<faults, odd>>

FrontStep(g) == Opens(g) \/ OpenFails(g) \/ Drained(g) \/ Finish(g)
BootStep == Load \/ Intents \/ Reconcile \/ ReconcileNothing

Next ==
  \/ BootStep \/ Crash \/ HandleEnds \/ HandlePanics
  \/ \E c \in Callers, cmd \in Commands, s \in Services, via \in Gens \cup {0} :
       Begin(c, cmd, s, via)
  \/ \E c \in Callers \cup {Boot} : CallStep(c)
  \/ \E g \in Gens : FrontStep(g) \/ Drains(g) \/ Breaks(g) \/ Panics(g) \/ Waits(g) \/ Heard(g)

Spec == Init /\ [][Next]_vars

\* Calls, the start-up and the tasks are polled; a pass of the handle ends.  A select!
\* picks at random among what is ready, so a loop that comes back to it sees its flag; no
\* session need ever answer.
FairSpec ==
  /\ Spec /\ WF_vars(BootStep) /\ WF_vars(HandleEnds)
  /\ \A c \in Callers \cup {Boot} : WF_vars(CallStep(c))
  /\ \A g \in Gens : WF_vars(FrontStep(g)) /\ SF_vars(Drains(g))

----------------------------------------------------------------------------
\* A frontend task that nobody told to stop is the one in its slot, so that a stop can
\* reach it, whatever starts, stops and ends of tasks interleave (finish, generations).
NoOrphan == \A g \in Gens : ftask[g] \in {"new", "up", "wait"} /\ g \notin told => slot = g

\* Once booted and with no call under way, a configured service runs exactly if it is
\* desired, unless calls on it overlapped, one was cut off, or it failed since the
\* boot; and even then no frontend runs out of the reach of a stop.
Agreement ==
  /\ NoOrphan
  /\ boot = "up" => \A s \in conf.ready \ odd :
       Idle(s) /\ ~(s = "handle" /\ handle = "stopping") => (s \in desired) = Running(s)

\* Under the Runtime policy the file holds what the last call on the service asked for,
\* across restarts; a failed write, or a crash in a write or in the middle of the
\* start-up's, is all that can lose it (service_state.rs, boot_desired).
IntentKept ==
  boot \in {"reconcile", "up"} /\ ~stale /\ ~spoiled =>
    \A s \in conf.runtime : (s \in file) \in asked[s]

\* No wait of the Discord loop for a session lasts for ever.
SessionsAnswer == \A g \in Gens : []<>(ftask[g] # "wait")

\* A control call returns, or its connection is gone: also the call that stops the
\* frontend it came over, whose task waits for its connections; but one that stops a
\* Discord whose loop a session keeps waiting has no timeout (stop_task).
ControlReturns ==
  SessionsAnswer => \A c \in Callers : (op[c].pc # "idle") ~> (op[c].pc = "idle")
=============================================================================
