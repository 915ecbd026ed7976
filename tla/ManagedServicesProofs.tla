------------------------ MODULE ManagedServicesProofs ------------------------
(***************************************************************************)
(* Proofs about ManagedServices, for any callers, configurations and       *)
(* bounds: a service runs if it is desired, a stop can reach every         *)
(* frontend task, and the file keeps what was asked for.                   *)
(***************************************************************************)
EXTENDS ManagedServices, TLAPS

\* The steps of a frontend's task.
TaskStep(g) ==
  FrontStep(g) \/ Drains(g) \/ Breaks(g) \/ Panics(g) \/ Waits(g) \/ Heard(g)

All == Callers \cup {Boot}
Active(c) == op[c].pc # "idle"
Ops == [pc : OpPcs, cmd : Commands, svc : Services, gen : Gens \cup {0}, via : Gens \cup {0},
        met : BOOLEAN]

\* The slot holds the newest task that nobody told to stop, and until a fault that task
\* has not ended.
Fronts ==
  /\ NoOrphan
  /\ \A g \in Gens : (ftask[g] # "none" \/ g \in told \/ g = slot) => g <= gen
  /\ slot \notin told
  /\ slot # 0 /\ "front" \notin odd => ftask[slot] \in {"new", "up", "wait"}

\* The start-up has dealt with the handle.
PastHandle == boot = "up" \/ (boot = "reconcile" /\ at = 2)

\* Until the boot is over there is no frontend and so no connection, and only the
\* start-up calls: first on the handle, which nothing stopped before that.
Booting ==
  /\ boot # "up" =>
       /\ slot = 0 /\ \A g \in Gens : ftask[g] \in {"none", "done"}
       /\ \A c \in Callers : ~Active(c)
       /\ Active(Boot) => PastHandle /\ op[Boot].svc = "handle"
  /\ ~PastHandle => handle # "stopping"

\* Calls on a service that overlap know of it.
Alone ==
  \A c, d \in All :
    Active(c) /\ Active(d) /\ op[c].svc = op[d].svc /\ c # d => op[c].met /\ op[d].met

\* Where a call is tells its command, and it records only what changes desired.
Phase(c) ==
  /\ op[c].pc \in {"record", "rerecord"} => Records(op[c].svc, op[c].cmd)
  /\ op[c].pc = "start" => op[c].cmd # "stop"
  /\ op[c].pc = "rerecord" => op[c].cmd = "restart" /\ op[c].svc = "front"
Phases == \A c \in All : Phase(c)

\* What a call that met no other has achieved so far.
Achieved(c) ==
  Active(c) /\ ~op[c].met /\ op[c].svc \in conf.ready \ odd =>
    IF op[c].svc = "front"
    THEN /\ op[c].pc = "await" => slot = 0
         /\ op[c].pc = "record" => (slot = 0 <=> op[c].cmd = "stop")
         /\ op[c].pc = "rerecord" => slot # 0
    ELSE /\ op[c].pc = "await" => handle # "running"
         /\ op[c].pc = "record" => (handle # "running" <=> op[c].cmd = "stop")
Progress == \A c \in All : Achieved(c)

\* A service no call is at does what is desired of it, once reconciled.
Up(s) == IF s = "handle" THEN handle = "running" ELSE slot # 0
Settled(s) ==
  s \in conf.ready \ odd /\ Idle(s) /\ (boot = "up" \/ (s = "handle" /\ PastHandle)) =>
    (s \in desired <=> Up(s))
Settles ==
  /\ "handle" \in conf.ready => handle # "none"
  /\ \A s \in Services : Settled(s)

RunInv == TypeOK /\ Fronts /\ Booting /\ Alone /\ Phases /\ Progress /\ Settles

\* What a file says is still what callers may expect.
Kept(f) ==
  /\ f # Bad
  /\ \A s \in conf.runtime : (IF f = Missing THEN s \in conf.enabled ELSE s \in f) \in asked[s]

\* Calls under way are expected; what is desired is, once the intents are known; and
\* the file says what is desired, or what was asked for when it was last written.
Expected ==
  \A c \in All : Active(c) /\ Records(op[c].svc, op[c].cmd) =>
    Target(op[c]) \in asked[op[c].svc]
Remembered ==
  ~spoiled =>
    /\ boot = "load" \/ (boot = "intents" /\ at = 1) => Kept(file)
    /\ boot = "intents" => Kept(saved)
    /\ boot = "intents" /\ at = 2 /\ "handle" \in conf.runtime =>
         ("handle" \in desired) \in asked["handle"]
    /\ boot \in {"reconcile", "up"} =>
         \A s \in conf.runtime : (s \in desired) \in asked[s]
Written == ~stale /\ boot \in {"reconcile", "up"} => file = desired
IntentInv == RunInv /\ Expected /\ Remembered /\ Written

----------------------------------------------------------------------------
(* The constants, and the shapes of a step of the calls. *)

LEMMA ServiceFacts ==
  /\ Boot \notin Callers /\ Boot \in All /\ Callers \subseteq All
  /\ MaxOps \in Nat /\ MaxCrashes \in Nat /\ MaxFaults \in Nat
  /\ Gens \subseteq Nat /\ 0 \notin Gens
  /\ NoOp \in Ops /\ NoOp.pc = "idle"
  /\ \A c \in Confs : /\ c.ready \subseteq Services /\ c.runtime \subseteq Services
                       /\ c.enabled \subseteq Services
<1>1. Boot \notin Callers /\ MaxOps \in Nat /\ MaxCrashes \in Nat /\ MaxFaults \in Nat
  BY ServicesAssumption
<1>2. Gens \subseteq Nat /\ 0 \notin Gens
  BY <1>1 DEF Gens
<1>3. NoOp \in Ops /\ NoOp.pc = "idle"
  BY DEF NoOp, Ops, OpPcs, Commands, Services
<1>4. \A c \in Confs : /\ c.ready \subseteq Services /\ c.runtime \subseteq Services
                       /\ c.enabled \subseteq Services
  BY ServicesAssumption
<1> QED  BY <1>1, <1>2, <1>3, <1>4 DEF All

\* The operations have their types, field by field.
LEMMA OpTypes ==
  ASSUME TypeOK
  PROVE  /\ op \in [All -> Ops]
         /\ \A c \in All : /\ op[c] \in Ops /\ op[c].pc \in OpPcs /\ op[c].cmd \in Commands
                          /\ op[c].svc \in Services /\ op[c].met \in BOOLEAN
                          /\ op[c].gen \in Gens \cup {0} /\ op[c].via \in Gens \cup {0}
<1>1. op \in [All -> Ops]
  BY DEF TypeOK, All, Ops
<1>2. \A o \in Ops : /\ o.pc \in OpPcs /\ o.cmd \in Commands /\ o.svc \in Services
                    /\ o.met \in BOOLEAN /\ o.gen \in Gens \cup {0} /\ o.via \in Gens \cup {0}
  BY DEF Ops
<1> QED  BY <1>1, <1>2

\* Only call c moves; it goes on, or it ends.
Keeps(c) == op' \in [All -> Ops] /\ \A d \in All \ {c} : op'[d] = op[d]
Goes(c) ==
  /\ Keeps(c) /\ op'[c].pc # "idle"
  /\ op'[c].cmd = op[c].cmd /\ op'[c].svc = op[c].svc /\ op'[c].met = op[c].met
Ends(c) == Keeps(c) /\ op'[c] = NoOp

LEMMA GotoGoes ==
  ASSUME TypeOK, NEW c \in All, NEW pc \in OpPcs \ {"idle"}, NEW g \in Gens \cup {0},
         Goto(c, pc, g)
  PROVE  Goes(c) /\ op'[c].pc = pc
<1>1. op \in [All -> Ops] /\ op[c] \in Ops
  BY OpTypes
<1>2. op' = [op EXCEPT ![c].pc = pc, ![c].gen = g]
  BY DEF Goto
<1>3. [[op[c] EXCEPT !.pc = pc] EXCEPT !.gen = g] \in Ops
  BY <1>1 DEF Ops
<1>4. /\ op'[c] = [[op[c] EXCEPT !.pc = pc] EXCEPT !.gen = g]
      /\ \A d \in All \ {c} : op'[d] = op[d]
  BY <1>1, <1>2 DEF Ops
<1>5. op' \in [All -> Ops]
  BY <1>1, <1>2, <1>3 DEF Ops
<1> QED  BY <1>1, <1>4, <1>5 DEF Goes, Keeps, Ops

LEMMA ReturnEnds ==
  ASSUME TypeOK, NEW c \in All, op' = [op EXCEPT ![c] = NoOp]
  PROVE  Ends(c)
BY OpTypes, ServiceFacts DEF Ends, Keeps

\* Nothing else is under way on the service of a call that met no other.
LEMMA OnlyCall ==
  ASSUME Alone, NEW c \in All, Active(c), op[c].met # TRUE, NEW d \in All \ {c}, Active(d)
  PROVE  op[d].svc # op[c].svc
BY DEF Alone

\* A call is under way only once the start-up is past the handle.
LEMMA CallsLate ==
  ASSUME Booting, NEW c \in All, Active(c)
  PROVE  PastHandle /\ (boot = "up" \/ (c = Boot /\ op[c].svc = "handle"))
BY DEF Booting, PastHandle, All

\* Calls that move or end overlap no more than before.
LEMMA CallFrame ==
  ASSUME TypeOK, Alone, NEW c \in All, Active(c), Goes(c) \/ Ends(c)
  PROVE  /\ Alone'
         /\ op' \in [All -> Ops]
         /\ \A d \in All : op'[d].pc # "idle" => Active(d) /\ op'[d].svc = op[d].svc
                                              /\ op'[d].cmd = op[d].cmd /\ op'[d].met = op[d].met
         /\ \A d \in All \ {c} : op'[d] = op[d]
         /\ \A s \in Services : s # op[c].svc => (Idle(s)' <=> Idle(s))
         /\ \A s \in Services : s = op[c].svc => ~Idle(s) /\ (Goes(c) => ~Idle(s)')
<1>1. \A d \in All \ {c} : op'[d] = op[d]
  BY DEF Goes, Ends, Keeps
<1>2. op'[c].pc # "idle" => op'[c].cmd = op[c].cmd /\ op'[c].svc = op[c].svc
                            /\ op'[c].met = op[c].met
  BY ServiceFacts DEF Goes, Ends
<1>3. \A d \in All : op'[d].pc # "idle" => Active(d) /\ op'[d].svc = op[d].svc
                                        /\ op'[d].cmd = op[d].cmd /\ op'[d].met = op[d].met
  BY <1>1, <1>2 DEF Active
<1>4. Alone'
  BY <1>3 DEF Alone, Active
<1>5. ASSUME NEW s \in Services, s # op[c].svc  PROVE  Idle(s)' <=> Idle(s)
  BY <1>1, <1>2, <1>5 DEF Idle, All
<1>6. \A s \in Services : s = op[c].svc => ~Idle(s) /\ (Goes(c) => ~Idle(s)')
  BY DEF Idle, Goes, All, Active
<1> QED  BY <1>1, <1>3, <1>4, <1>5, <1>6 DEF Goes, Ends, Keeps, Idle

----------------------------------------------------------------------------
(* The start-up and crashes keep RunInv. *)

LEMMA DesiredTypes ==
  ASSUME TypeOK, NEW s \in Services, NEW on \in BOOLEAN
  PROVE  /\ With(s, on) \in SUBSET Services
         /\ s \in With(s, on) <=> on
         /\ \A r \in Services \ {s} : r \in With(s, on) <=> r \in desired
BY DEF TypeOK, With

\* The phases of the start-up in which no call begins.
LEMMA QuietBoot ==
  ASSUME RunInv, UNCHANGED <<conf, handle, slot, gen, ftask, told, op, odd>>
  PROVE  Fronts' /\ Alone' /\ Phases' /\ Progress'
<1>1. Fronts'
  BY DEF RunInv, Fronts, NoOrphan
<1>2. Alone'
  BY DEF RunInv, Alone, Active
<1>3. Phases'
  BY DEF RunInv, Phases, Phase, Records
<1>4. Progress'
  BY DEF RunInv, Progress, Achieved, Active
<1> QED  BY <1>1, <1>2, <1>3, <1>4

LEMMA LoadRuns ==
  ASSUME RunInv, Load
  PROVE  RunInv'
<1>1. /\ UNCHANGED <<conf, handle, slot, gen, ftask, told, op, odd>>
      /\ UNCHANGED <<desired, file, asked>>
      /\ boot = "load" /\ boot' = "intents" /\ at' = 1
  BY DEF Load, front, bounds
<1>2. TypeOK'
  BY <1>1 DEF RunInv, TypeOK
<1>3. Booting'
  BY <1>1 DEF RunInv, Booting, PastHandle, Active
<1>4. Settles'
  BY <1>1 DEF RunInv, Settles, Settled, Up, Services, PastHandle
<1> QED  BY <1>1, <1>2, <1>3, <1>4, QuietBoot DEF RunInv

LEMMA IntentsRun ==
  ASSUME RunInv, Intents
  PROVE  RunInv'
<1>1. /\ UNCHANGED <<conf, handle, slot, gen, ftask, told, op, odd>> /\ UNCHANGED asked
      /\ boot = "intents" /\ Store(desired') /\ Advance("reconcile")
      /\ desired' = With(Order[at], BootDesired(Order[at]))
  BY DEF Intents, front
<1>2. at \in 1..2 /\ Order[at] \in Services /\ BootDesired(Order[at]) \in BOOLEAN
  <2>1. at \in 1..2 /\ Order[at] \in Services
    BY DEF RunInv, TypeOK, Order, Services
  <2>2. \A s \in Services : BootDesired(s) \in BOOLEAN
    <3> SUFFICES ASSUME NEW s \in Services  PROVE  BootDesired(s) \in BOOLEAN
      OBVIOUS
    <3>1. CASE s \in conf.runtime /\ saved \notin {Missing, Bad}
      BY <3>1 DEF BootDesired
    <3>2. CASE ~(s \in conf.runtime /\ saved \notin {Missing, Bad})
      <4>1. BootDesired(s) = (s \in conf.enabled)
        BY <3>2, Zenon DEF BootDesired
      <4> QED  BY <4>1
    <3> QED  BY <3>1, <3>2
  <2> QED  BY <2>1, <2>2
<1>3. desired' \in SUBSET Services
  BY <1>1, <1>2, DesiredTypes DEF RunInv
<1>4. /\ boot' \in {"intents", "reconcile"} /\ at' \in 1..2
      /\ boot' = "reconcile" => at' = 1
  BY <1>1, <1>2 DEF Advance
<1>5. file' = desired' \/ file' = file
  BY <1>1 DEF Store
<1>6. TypeOK'
  BY <1>1, <1>3, <1>4, <1>5 DEF RunInv, TypeOK
<1>7. Booting'
  BY <1>1, <1>4 DEF RunInv, Booting, PastHandle, Active
<1>8. Settles'
  BY <1>1, <1>4 DEF RunInv, Settles, Settled, Up, Services, PastHandle
<1> QED  BY <1>1, <1>6, <1>7, <1>8, QuietBoot DEF RunInv

\* Before the start-up is over no call is under way in its idle moments.
LEMMA ReconcileFacts ==
  ASSUME RunInv, boot = "reconcile", op[Boot].pc = "idle"
  PROVE  /\ \A c \in All : ~Active(c)
         /\ \A s \in Services : Idle(s)
         /\ slot = 0 /\ ~Running("front")
         /\ at = 1 => handle # "stopping"
         /\ at \in 1..2 /\ Order[at] = (IF at = 1 THEN "handle" ELSE "front")
<1>1. /\ slot = 0 /\ \A c \in Callers : ~Active(c)
      /\ at = 1 => handle # "stopping"
  BY DEF RunInv, Booting, PastHandle
<1>2. \A c \in All : ~Active(c)
  BY <1>1 DEF All, Active
<1>3. \A s \in Services : Idle(s)
  BY <1>2 DEF Idle, All, Active
<1>4. ~Running("front")
  BY <1>1 DEF Running
<1> QED  BY <1>1, <1>2, <1>3, <1>4 DEF RunInv, TypeOK, Order

LEMMA ReconcileNothingRuns ==
  ASSUME RunInv, ReconcileNothing
  PROVE  RunInv'
<1>1. /\ UNCHANGED <<conf, handle, slot, gen, ftask, told, op, odd>>
      /\ UNCHANGED <<desired, file, asked>>
      /\ boot = "reconcile" /\ op[Boot].pc = "idle" /\ Advance("up")
      /\ (Order[at] \in desired) = Running(Order[at])
  BY DEF ReconcileNothing, front, bounds
<1>2. /\ \A c \in All : ~Active(c)
      /\ \A s \in Services : Idle(s)
      /\ slot = 0 /\ ~Running("front")
      /\ at = 1 => handle # "stopping"
      /\ at \in 1..2 /\ Order[at] = (IF at = 1 THEN "handle" ELSE "front")
  BY <1>1, ReconcileFacts
<1>3. \/ at = 1 /\ at' = 2 /\ boot' = "reconcile"
      \/ at = 2 /\ at' = 1 /\ boot' = "up"
  BY <1>1, <1>2 DEF Advance
<1>4. TypeOK'
  BY <1>1, <1>3 DEF RunInv, TypeOK
<1>5. Booting'
  BY <1>1, <1>2, <1>3 DEF RunInv, Booting, PastHandle, Active, All
<1>6. "handle" \in conf.ready \ odd => ("handle" \in desired <=> handle = "running")
  <2>1. CASE at = 1
    BY <1>1, <1>2, <2>1 DEF Running
  <2>2. CASE at = 2
    BY <1>1, <1>2, <2>2 DEF RunInv, Settles, Settled, Up, Services, PastHandle
  <2> QED  BY <1>2, <2>1, <2>2
<1>7. at = 2 => "front" \notin desired
  BY <1>1, <1>2 DEF Running
<1>8. Settles'
  BY <1>1, <1>2, <1>3, <1>6, <1>7 DEF RunInv, Settles, Settled, Up, Services, PastHandle
<1> QED  BY <1>1, <1>4, <1>5, <1>8, QuietBoot DEF RunInv

\* A call that meets others tells them, and itself.
LEMMA MeetFacts ==
  ASSUME TypeOK, Alone, NEW c \in All, NEW o \in Ops, ~Active(c), o.pc # "idle", Meet(c, o)
  PROVE  /\ op' \in [All -> Ops]
         /\ op'[c].pc = o.pc /\ op'[c].cmd = o.cmd /\ op'[c].svc = o.svc
         /\ \A d \in All \ {c} :
              /\ op'[d].pc = op[d].pc /\ op'[d].cmd = op[d].cmd /\ op'[d].svc = op[d].svc
              /\ op'[d].met \in BOOLEAN /\ (op[d].met = TRUE => op'[d].met = TRUE)
         /\ Alone'
         /\ ~Idle(o.svc)'
         /\ \A s \in Services : Idle(s)' => Idle(s) /\ s # o.svc
         /\ \A s \in Services : s # o.svc /\ Idle(s) => Idle(s)'
<1>1. op \in [All -> Ops] /\ \A d \in All : op[d].met \in BOOLEAN
  BY OpTypes
<1>2. Idle(o.svc) \in BOOLEAN /\ \A p \in Ops : [p EXCEPT !.met = TRUE] \in Ops
  BY DEF Idle, Ops
<1>3. [o EXCEPT !.met = ~Idle(o.svc)] \in Ops
  BY <1>2 DEF Ops
<1>4. op' = [d \in All |->
               IF d = c THEN [o EXCEPT !.met = ~Idle(o.svc)]
               ELSE IF op[d].pc # "idle" /\ op[d].svc = o.svc THEN [op[d] EXCEPT !.met = TRUE]
               ELSE op[d]]
  BY DEF Meet, All
<1>5. op' \in [All -> Ops]
  BY <1>1, <1>2, <1>3, <1>4
<1>6. /\ op'[c].pc = o.pc /\ op'[c].cmd = o.cmd /\ op'[c].svc = o.svc
      /\ op'[c].met = ~Idle(o.svc)
  BY <1>4 DEF Ops
<1>7. \A d \in All \ {c} :
        /\ op'[d].pc = op[d].pc /\ op'[d].cmd = op[d].cmd /\ op'[d].svc = op[d].svc
        /\ op'[d].met \in BOOLEAN
        /\ op[d].met = TRUE \/ (op[d].pc # "idle" /\ op[d].svc = o.svc) => op'[d].met = TRUE
  BY <1>1, <1>4 DEF Ops
<1>8. Alone'
  <2> SUFFICES ASSUME NEW d \in All, NEW e \in All, Active(d)', Active(e)',
                      op'[d].svc = op'[e].svc, d # e
               PROVE  op'[d].met /\ op'[e].met
    BY DEF Alone
  <2>1. CASE d # c /\ e # c
    BY <1>1, <1>7, <2>1 DEF Alone, Active
  <2>2. CASE d = c
    BY <1>6, <1>7, <2>2 DEF Idle, Active, All
  <2>3. CASE e = c
    BY <1>6, <1>7, <2>3 DEF Idle, Active, All
  <2> QED  BY <2>1, <2>2, <2>3
<1>9. ~Idle(o.svc)' /\ \A s \in Services : Idle(s)' => Idle(s) /\ s # o.svc
  BY <1>6, <1>7 DEF Idle, All, Active
<1>10. \A s \in Services : s # o.svc /\ Idle(s) => Idle(s)'
  BY <1>6, <1>7 DEF Idle, All
<1> QED  BY <1>5, <1>6, <1>7, <1>8, <1>9, <1>10

\* Callers come to expect more.
LEMMA ExpectFacts ==
  ASSUME asked \in [Services -> SUBSET BOOLEAN], NEW o \in Ops, Expect(o)
  PROVE  /\ asked' \in [Services -> SUBSET BOOLEAN]
         /\ \A s \in Services : asked[s] \subseteq asked'[s]
         /\ Records(o.svc, o.cmd) => Target(o) \in asked'[o.svc]
BY DEF Expect, Target, Ops

LEMMA ReconcileRuns ==
  ASSUME RunInv, Reconcile
  PROVE  RunInv'
<1>1. PICK o \in Ops :
        /\ o.svc = Order[at] /\ o.pc \in {"start", "stop"} /\ o.pc = o.cmd
        /\ Meet(Boot, o) /\ Expect(o)
  <2>1. Order[at] \in Services
    BY DEF RunInv, TypeOK, Order, Services
  <2>2. [NoOp EXCEPT !.cmd = IF Order[at] \in desired THEN "start" ELSE "stop",
                     !.svc = Order[at],
                     !.pc = IF Order[at] \in desired THEN "start" ELSE "stop"] \in Ops
    BY <2>1 DEF NoOp, Ops, OpPcs, Commands
  <2> QED  BY <2>2 DEF Reconcile, NoOp
<1>2. /\ UNCHANGED <<conf, handle, slot, gen, ftask, told, odd>> /\ UNCHANGED <<desired, file>>
      /\ boot = "reconcile" /\ op[Boot].pc = "idle" /\ Advance("up")
  BY DEF Reconcile, front, bounds
<1>3. /\ \A c \in All : ~Active(c)
      /\ \A s \in Services : Idle(s)
      /\ slot = 0
      /\ at \in 1..2 /\ Order[at] = (IF at = 1 THEN "handle" ELSE "front")
  BY <1>2, ReconcileFacts
<1>4. \/ at = 1 /\ at' = 2 /\ boot' = "reconcile"
      \/ at = 2 /\ at' = 1 /\ boot' = "up"
  BY <1>2, <1>3 DEF Advance
<1>5. /\ op' \in [All -> Ops] /\ op'[Boot].pc = o.pc /\ op'[Boot].cmd = o.cmd
      /\ op'[Boot].svc = o.svc
      /\ \A d \in All \ {Boot} : op'[d].pc = op[d].pc
      /\ Alone'
      /\ \A s \in Services : Idle(s)' => s # o.svc
  BY <1>1, <1>2, MeetFacts, ServiceFacts, ZenonT(60) DEF RunInv, Active
<1>6. \A d \in All \ {Boot} : op'[d].pc = "idle"
  BY <1>3, <1>5 DEF Active
<1>7. TypeOK'
  BY <1>1, <1>2, <1>4, <1>5, ExpectFacts DEF RunInv, TypeOK, All, Ops
<1>8. Fronts'
  BY <1>2 DEF RunInv, Fronts, NoOrphan
<1>9. Booting'
  BY <1>1, <1>2, <1>3, <1>4, <1>5, <1>6, ServiceFacts DEF RunInv, Booting, PastHandle, Active
<1>10. Phases'
  BY <1>1, <1>5, <1>6 DEF Phases, Phase
<1>11. Progress'
  BY <1>1, <1>5, <1>6 DEF Progress, Achieved, Active
<1>12. Settles'
  <2>1. boot' = "up" => PastHandle /\ o.svc = "front"
    BY <1>1, <1>2, <1>3, <1>4 DEF PastHandle
  <2>2. boot' = "reconcile" => o.svc = "handle"
    BY <1>1, <1>3, <1>4
  <2> QED  BY <1>2, <1>3, <1>4, <1>5, <2>1, <2>2
           DEF RunInv, Settles, Settled, Up, Services, PastHandle
<1> QED  BY <1>5, <1>7, <1>8, <1>9, <1>10, <1>11, <1>12 DEF RunInv

LEMMA CrashRuns ==
  ASSUME RunInv, Crash
  PROVE  RunInv'
<1>1. /\ boot' = "load" /\ at' = 1 /\ desired' = InitDesired(conf) /\ handle' = Fresh(conf)
      /\ slot' = 0 /\ told' = {} /\ odd' = {} /\ UNCHANGED <<conf, gen, asked>>
      /\ ftask' = [g \in Gens |-> IF ftask[g] = "none" THEN "none" ELSE "done"]
      /\ op' = [c \in All |-> NoOp]
      /\ file' = file \/ file' = Bad
  BY DEF Crash, All
<1>2. \A c \in All : op'[c] = NoOp /\ op'[c].pc = "idle"
  BY <1>1, ServiceFacts
<1>3. /\ conf.ready \subseteq Services
      /\ handle' \in {"running", "none"} /\ ("handle" \in conf.ready => handle' = "running")
  BY <1>1, ServiceFacts DEF RunInv, TypeOK, Fresh
<1>4. TypeOK'
  BY <1>1, <1>3, ServiceFacts DEF RunInv, TypeOK, InitDesired, FrontPcs, Ops, All
<1>5. Fronts'
  BY <1>1, ServiceFacts DEF RunInv, Fronts, NoOrphan
<1>6. Booting'
  BY <1>1, <1>2, <1>3, ServiceFacts DEF Booting, PastHandle, Active
<1>7. Alone' /\ Phases' /\ Progress'
  BY <1>2 DEF Alone, Phases, Phase, Progress, Achieved, Active
<1>8. Settles'
  BY <1>1, <1>3 DEF Settles, Settled, Up, Services, PastHandle
<1> QED  BY <1>4, <1>5, <1>6, <1>7, <1>8 DEF RunInv

LEMMA BeginRuns ==
  ASSUME RunInv, NEW c \in Callers, NEW cmd \in Commands, NEW s \in Services,
         NEW via \in Gens \cup {0}, Begin(c, cmd, s, via)
  PROVE  RunInv'
<1>1. PICK o \in Ops :
        /\ o.svc = s /\ o.cmd = cmd /\ o.pc = (IF cmd = "start" THEN "start" ELSE "stop")
        /\ Meet(c, o) /\ Expect(o)
  <2>1. [NoOp EXCEPT !.pc = IF cmd = "start" THEN "start" ELSE "stop",
                     !.cmd = cmd, !.svc = s, !.via = via] \in Ops
    BY DEF NoOp, Ops, OpPcs, Commands
  <2> QED  BY <2>1 DEF Begin, NoOp
<1>2. /\ UNCHANGED <<conf, boot, at, desired, file, handle, slot, gen, ftask, told, odd>>
      /\ ~Active(c) /\ c \in All
      /\ c \notin Remote => boot = "up"
      /\ c \in Remote => via # 0 /\ ftask[via] = "up"
  BY ServiceFacts DEF Begin, Active, front
<1>3. boot = "up"
  BY <1>2 DEF RunInv, Booting
<1>4. /\ op' \in [All -> Ops]
      /\ op'[c].pc = o.pc /\ op'[c].cmd = o.cmd /\ op'[c].svc = o.svc
      /\ \A d \in All \ {c} :
           /\ op'[d].pc = op[d].pc /\ op'[d].cmd = op[d].cmd /\ op'[d].svc = op[d].svc
           /\ op'[d].met \in BOOLEAN /\ (op[d].met = TRUE => op'[d].met = TRUE)
      /\ Alone'
      /\ \A r \in Services : Idle(r)' => Idle(r)
  BY <1>1, <1>2, MeetFacts DEF RunInv
<1>5. TypeOK'
  BY <1>1, <1>2, <1>4, ExpectFacts DEF RunInv, TypeOK, All, Ops
<1>6. Fronts'
  BY <1>2 DEF RunInv, Fronts, NoOrphan
<1>7. Booting'
  BY <1>2, <1>3 DEF RunInv, Booting, PastHandle
<1>8. Phases'
  <2> SUFFICES ASSUME NEW d \in All
               PROVE  /\ op'[d].pc \in {"record", "rerecord"} => Records(op[d].svc, op[d].cmd)'
                      /\ op'[d].pc = "start" => op'[d].cmd # "stop"
                      /\ op'[d].pc = "rerecord" => op'[d].cmd = "restart" /\ op'[d].svc = "front"
    BY DEF Phases, Phase
  <2>1. CASE d = c
    BY <1>1, <1>4, <2>1
  <2>2. CASE d # c
    BY <1>2, <1>4, <2>2 DEF RunInv, Phases, Phase, Records
  <2> QED  BY <2>1, <2>2
<1>9. Progress'
  <2>1. op'[c].pc \in {"start", "stop"}
    BY <1>1, <1>4
  <2>2. \A d \in All \ {c} : Active(d)' /\ ~op'[d].met => Active(d) /\ ~op[d].met
    BY <1>4, OpTypes DEF RunInv, Active
  <2> QED  BY <1>2, <1>4, <2>1, <2>2 DEF RunInv, Progress, Achieved, Active
<1>10. Settles'
  BY <1>2, <1>4 DEF RunInv, Settles, Settled, Up, Services, PastHandle
<1> QED  BY <1>4, <1>5, <1>6, <1>7, <1>8, <1>9, <1>10 DEF RunInv

----------------------------------------------------------------------------
(* The steps of a call keep RunInv. *)

\* A step of a call changes only its own service.
Local(c) ==
  /\ Goes(c) \/ Ends(c)
  /\ UNCHANGED <<conf, boot, at>>
  /\ odd \subseteq odd' /\ odd' \subseteq odd \cup {op[c].svc}
  /\ \A s \in Services \ {op[c].svc} : s \in desired' <=> s \in desired
  /\ op[c].svc = "front" => UNCHANGED handle
  /\ op[c].svc = "handle" => UNCHANGED <<slot, ftask>>

LEMMA CallElsewhere ==
  ASSUME RunInv, NEW c \in All, Active(c), Local(c)
  PROVE  /\ op' \in [All -> Ops]
         /\ Alone'
         /\ \A d \in All \ {c} : Phase(d)' /\ Achieved(d)'
         /\ \A s \in Services : s # op[c].svc \/ Goes(c) => Settled(s)'
<1>1. /\ TypeOK /\ Alone /\ op[c].svc \in Services
      /\ UNCHANGED <<conf, boot, at>> /\ odd \subseteq odd'
  BY OpTypes DEF RunInv, Local
<1>2. /\ Alone' /\ op' \in [All -> Ops]
      /\ \A d \in All : op'[d].pc # "idle" => Active(d) /\ op'[d].svc = op[d].svc
                                            /\ op'[d].cmd = op[d].cmd /\ op'[d].met = op[d].met
      /\ \A d \in All \ {c} : op'[d] = op[d]
      /\ \A s \in Services : s # op[c].svc => (Idle(s)' <=> Idle(s))
      /\ \A s \in Services : s = op[c].svc /\ Goes(c) => ~Idle(s)'
  BY <1>1, CallFrame DEF Local, Idle
<1>3. ASSUME NEW d \in All \ {c}  PROVE  Phase(d)'
  <2>1. Phase(d) /\ op'[d] = op[d]
    BY <1>2, <1>3 DEF RunInv, Phases
  <2> QED  BY <1>1, <2>1 DEF Phase, Records
<1>4. ASSUME NEW d \in All \ {c}  PROVE  Achieved(d)'
  <2>1. Achieved(d) /\ op'[d] = op[d] /\ op[d].svc \in Services
    BY <1>1, <1>2, <1>4, OpTypes DEF RunInv, Progress
  <2>2. Active(d) /\ ~op[d].met => op[d].svc # op[c].svc
    BY <1>1, <1>4 DEF Alone
  <2>3. op[d].svc # op[c].svc => IF op[d].svc = "front" THEN slot' = slot ELSE handle' = handle
    BY <1>1, <2>1 DEF Local, Services
  <2> QED  BY <1>1, <2>1, <2>2, <2>3 DEF Achieved, Active
<1>5. ASSUME NEW s \in Services, s # op[c].svc \/ Goes(c)  PROVE  Settled(s)'
  <2>1. CASE s = op[c].svc
    BY <1>2, <1>5, <2>1 DEF Settled, Idle
  <2>2. CASE s # op[c].svc
    <3>1. Settled(s) /\ (Idle(s)' <=> Idle(s)) /\ (s \in desired' <=> s \in desired)
      BY <1>2, <2>2 DEF RunInv, Settles, Local
    <3>2. Up(s)' <=> Up(s)
      BY <1>1, <2>2 DEF Local, Services, Up
    <3> QED  BY <1>1, <3>1, <3>2 DEF Settled, PastHandle
  <2> QED  BY <2>1, <2>2
<1> QED  BY <1>2, <1>3, <1>4, <1>5

LEMMA CallBooting ==
  ASSUME RunInv, NEW c \in All, Active(c), Local(c)
  PROVE  Booting'
<1>1. PastHandle /\ (boot = "up" \/ (c = Boot /\ op[c].svc = "handle"))
  BY CallsLate DEF RunInv
<1>2. UNCHANGED <<boot, at>> /\ PastHandle'
  BY <1>1 DEF Local, PastHandle
<1>3. CASE boot = "up"
  BY <1>2, <1>3 DEF Booting
<1>4. CASE boot # "up"
  <2>1. slot' = slot /\ ftask' = ftask
    BY <1>1, <1>4 DEF Local
  <2>2. \A d \in All : op'[d].pc # "idle" => Active(d) /\ op'[d].svc = op[d].svc
    BY CallFrame DEF RunInv, Local
  <2> QED  BY <1>1, <1>2, <1>4, <2>1, <2>2, ServiceFacts DEF RunInv, Booting, Active
<1> QED  BY <1>3, <1>4

\* What is left to show of a step of a call.
LEMMA CallRuns ==
  ASSUME RunInv, NEW c \in All, Active(c), Local(c), TypeOK', Fronts',
         Phase(c)', Achieved(c)', \A s \in Services : s = op[c].svc /\ Ends(c) => Settled(s)',
         "handle" \in conf.ready => handle' # "none"
  PROVE  RunInv'
<1>1. /\ Alone'
      /\ \A d \in All \ {c} : Phase(d)' /\ Achieved(d)'
      /\ \A s \in Services : s # op[c].svc \/ Goes(c) => Settled(s)'
  BY CallElsewhere DEF Phase, Achieved, Settled
<1>2. Booting'
  BY CallBooting
<1>3. Phases' /\ Progress'
  BY <1>1 DEF Phases, Progress, Phase, Achieved
<1>4. \A s \in Services : Settled(s)'
  BY <1>1 DEF Settled, Local
<1>5. Settles'
  BY <1>4 DEF Settles, Settled, Local
<1> QED  BY <1>1, <1>2, <1>3, <1>5 DEF RunInv

LEMMA AfterStopFacts ==
  ASSUME TypeOK, NEW c \in All, Active(c), AfterStop(c), UNCHANGED conf
  PROVE  /\ Goes(c)
         /\ op'[c].pc = (IF op[c].cmd = "stop" THEN "record" ELSE "start")
         /\ Phase(c)'
<1>1. (IF op[c].cmd = "stop" THEN "record" ELSE "start") \in OpPcs \ {"idle"}
  BY DEF OpPcs
<1>2. Goes(c) /\ op'[c].pc = (IF op[c].cmd = "stop" THEN "record" ELSE "start")
  BY <1>1, GotoGoes DEF AfterStop
<1>3. Phase(c)'
  BY <1>2 DEF Phase, Records, Goes
<1> QED  BY <1>2, <1>3

LEMMA StopFrontRuns ==
  ASSUME RunInv, NEW c \in All, op[c].svc = "front", Stop(c)
  PROVE  RunInv'
<1>1. /\ UNCHANGED <<conf, boot, at, desired, file, handle, gen, ftask, asked, odd>>
      /\ Active(c) /\ TypeOK /\ slot' = 0
      /\ \/ slot = 0 /\ AfterStop(c) /\ told' = told
         \/ slot # 0 /\ Goto(c, "await", slot) /\ told' = told \cup {slot}
  BY DEF Stop, front, bounds, Active, RunInv
<1>2. /\ Goes(c) /\ Phase(c)' /\ told' \subseteq Gens
      /\ \/ slot = 0 /\ op'[c].pc \in {"record", "start"} /\ told' = told
              /\ (op'[c].pc = "record" => op[c].cmd = "stop")
         \/ slot # 0 /\ op'[c].pc = "await" /\ told' = told \cup {slot}
  <2>1. CASE slot = 0
    BY <1>1, <2>1, AfterStopFacts DEF TypeOK
  <2>2. CASE slot # 0
    <3>1. "await" \in OpPcs \ {"idle"} /\ slot \in Gens
      BY <1>1, <2>2 DEF OpPcs, TypeOK
    <3>2. Goes(c) /\ op'[c].pc = "await"
      BY <1>1, <2>2, <3>1, GotoGoes
    <3>3. Phase(c)'
      BY <3>2 DEF Phase
    <3> QED  BY <1>1, <2>2, <3>1, <3>2, <3>3 DEF TypeOK
  <2> QED  BY <2>1, <2>2
<1>3. Local(c)
  BY <1>1, <1>2 DEF Local
<1>4. op' \in [All -> Ops]
  BY <1>1, <1>3, CallElsewhere
<1>5. TypeOK'
  BY <1>1, <1>2, <1>4 DEF TypeOK, All, Ops
<1>6. Fronts'
  BY <1>1, <1>2, ServiceFacts DEF RunInv, Fronts, NoOrphan
<1>7. Achieved(c)'
  BY <1>1, <1>2 DEF Achieved, Goes
<1>8. "handle" \in conf.ready => handle' # "none"
  BY <1>1 DEF RunInv, Settles
<1> QED  BY <1>1, <1>2, <1>3, <1>5, <1>6, <1>7, <1>8, CallRuns, ServiceFacts DEF Goes, Ends

LEMMA StopHandleRuns ==
  ASSUME RunInv, NEW c \in All, op[c].svc # "front", Stop(c)
  PROVE  RunInv'
<1>1. /\ UNCHANGED <<conf, boot, at, desired, file, gen, ftask, slot, told, asked, odd>>
      /\ Active(c) /\ TypeOK /\ op[c].svc = "handle"
      /\ \/ Running("handle") /\ Goto(c, "await", 0) /\ handle' = "stopping"
         \/ ~Running("handle") /\ AfterStop(c) /\ handle' = handle
  <2>1. op[c].svc = "handle"
    BY OpTypes DEF RunInv, Services
  <2> QED  BY <2>1 DEF Stop, front, bounds, Active, RunInv
<1>2. /\ Goes(c) /\ Phase(c)' /\ handle' # "running"
      /\ op'[c].pc \in {"record", "start", "await"}
      /\ op'[c].pc = "record" => op[c].cmd = "stop"
      /\ handle' \in {handle, "stopping"}
  <2>1. CASE Running("handle")
    <3>1. "await" \in OpPcs \ {"idle"}
      BY DEF OpPcs
    <3>2. Goes(c) /\ op'[c].pc = "await"
      BY <1>1, <2>1, <3>1, GotoGoes
    <3> QED  BY <1>1, <2>1, <3>2 DEF Phase
  <2>2. CASE ~Running("handle")
    BY <1>1, <2>2, AfterStopFacts DEF Running
  <2> QED  BY <2>1, <2>2
<1>3. Local(c)
  BY <1>1, <1>2 DEF Local
<1>4. op' \in [All -> Ops]
  BY <1>1, <1>3, CallElsewhere
<1>5. TypeOK'
  BY <1>1, <1>2, <1>4 DEF TypeOK, All, Ops
<1>6. Fronts'
  BY <1>1 DEF RunInv, Fronts, NoOrphan
<1>7. Achieved(c)'
  BY <1>1, <1>2 DEF Achieved, Goes
<1>8. "handle" \in conf.ready => handle' # "none"
  BY <1>2 DEF RunInv, Settles
<1> QED  BY <1>1, <1>2, <1>3, <1>5, <1>6, <1>7, <1>8, CallRuns, ServiceFacts DEF Goes, Ends

\* A stop is over, or its caller gives up waiting.
LEMMA StoppedRuns ==
  ASSUME RunInv, NEW c \in All, Stopped(c) \/ StopTimeout(c)
  PROVE  RunInv'
<1>1. /\ UNCHANGED <<conf, boot, at, desired, file, handle, slot, gen, ftask, told, asked, odd>>
      /\ Active(c) /\ TypeOK /\ op[c].pc = "await" /\ AfterStop(c)
  BY DEF Stopped, StopTimeout, front, bounds, Active, RunInv
<1>2. /\ Goes(c) /\ Phase(c)'
      /\ op'[c].pc \in {"record", "start"}
      /\ op'[c].pc = "record" => op[c].cmd = "stop"
  BY <1>1, AfterStopFacts
<1>3. Local(c)
  BY <1>1, <1>2 DEF Local
<1>4. op' \in [All -> Ops]
  BY <1>1, <1>3, CallElsewhere
<1>5. TypeOK'
  BY <1>1, <1>2, <1>4 DEF TypeOK, All, Ops
<1>6. Fronts'
  BY <1>1 DEF RunInv, Fronts, NoOrphan
<1>7. Achieved(c)'
  <2>1. Achieved(c)
    BY DEF RunInv, Progress
  <2> QED  BY <1>1, <1>2, <2>1 DEF Achieved, Goes, Active
<1>8. "handle" \in conf.ready => handle' # "none"
  BY <1>1 DEF RunInv, Settles
<1> QED  BY <1>1, <1>2, <1>3, <1>5, <1>6, <1>7, <1>8, CallRuns, ServiceFacts DEF Goes, Ends

LEMMA CutOffRuns ==
  ASSUME RunInv, NEW c \in All, CutOff(c)
  PROVE  RunInv'
<1>1. /\ UNCHANGED <<conf, boot, at, desired, file, handle, slot, gen, ftask, told, asked>>
      /\ Active(c) /\ TypeOK /\ op' = [op EXCEPT ![c] = NoOp]
      /\ odd' = odd \cup {op[c].svc} /\ op[c].svc \in Services
  BY OpTypes DEF CutOff, front, bounds, Active, RunInv
<1>2. Ends(c) /\ op'[c].pc = "idle"
  BY <1>1, ReturnEnds, ServiceFacts DEF Ends
<1>3. Local(c)
  BY <1>1, <1>2 DEF Local
<1>4. op' \in [All -> Ops]
  BY <1>1, <1>3, CallElsewhere
<1>5. TypeOK'
  BY <1>1, <1>4 DEF TypeOK, All, Ops
<1>6. Fronts'
  BY <1>1 DEF RunInv, Fronts, NoOrphan
<1>7. Achieved(c)' /\ Phase(c)'
  BY <1>2 DEF Achieved, Active, Phase
<1>8. "handle" \in conf.ready => handle' # "none"
  BY <1>1 DEF RunInv, Settles
<1>9. \A s \in Services : s = op[c].svc => Settled(s)'
  BY <1>1 DEF Settled
<1> QED  BY <1>1, <1>3, <1>5, <1>6, <1>7, <1>8, <1>9, CallRuns DEF Settled

\* A call returns: what it met others for is odd, and alone it settles what to expect.
LEMMA ReturnFacts ==
  ASSUME TypeOK, NEW c \in All, Return(c)
  PROVE  /\ Ends(c) /\ op'[c].pc = "idle"
         /\ odd' = (IF op[c].met THEN odd \cup {op[c].svc} ELSE odd)
         /\ odd' \subseteq Services
         /\ asked' \in [Services -> SUBSET BOOLEAN]
         /\ \A s \in Services \ {op[c].svc} : asked'[s] = asked[s]
         /\ IF Records(op[c].svc, op[c].cmd) /\ ~op[c].met
            THEN \A s \in Services : s = op[c].svc => asked'[s] = {Target(op[c])}
            ELSE asked' = asked
<1>1. /\ op[c].svc \in Services /\ op[c].met \in BOOLEAN /\ odd \subseteq Services
      /\ asked \in [Services -> SUBSET BOOLEAN] /\ Target(op[c]) \in BOOLEAN
  BY OpTypes DEF TypeOK, Target
<1>2. Ends(c) /\ op'[c].pc = "idle"
  BY ReturnEnds, ServiceFacts DEF Return, Ends
<1>3. /\ odd' = (IF op[c].met THEN odd \cup {op[c].svc} ELSE odd)
      /\ asked' = IF Records(op[c].svc, op[c].cmd) /\ ~op[c].met
                  THEN [asked EXCEPT ![op[c].svc] = {Target(op[c])}] ELSE asked
  BY DEF Return
<1> QED  BY <1>1, <1>2, <1>3

LEMMA StartHandleRuns ==
  ASSUME RunInv, NEW c \in All, StartHandle(c)
  PROVE  RunInv'
<1>1. /\ UNCHANGED <<conf, boot, at, desired, file, slot, gen, ftask, told>>
      /\ Active(c) /\ TypeOK /\ op[c].pc = "start" /\ op[c].svc = "handle"
      /\ Phase(c)
      /\ \/ "handle" \notin conf.ready /\ Return(c) /\ UNCHANGED handle
         \/ /\ "handle" \in conf.ready /\ Goto(c, "record", 0) /\ UNCHANGED asked
            /\ handle' = IF handle = "stopped" THEN "running" ELSE handle
            /\ odd' = IF handle = "stopping" THEN odd \cup {"handle"} ELSE odd
  BY DEF StartHandle, front, bounds, Active, RunInv, Phases
<1>2. CASE "handle" \notin conf.ready
  <2>1. /\ Ends(c) /\ op'[c].pc = "idle" /\ UNCHANGED handle
        /\ odd' = (IF op[c].met THEN odd \cup {op[c].svc} ELSE odd)
        /\ odd' \subseteq Services /\ asked' \in [Services -> SUBSET BOOLEAN]
    BY <1>1, <1>2, ReturnFacts
  <2>2. Local(c)
    BY <1>1, <2>1 DEF Local
  <2>3. op' \in [All -> Ops]
    BY <1>1, <2>2, CallElsewhere
  <2>4. TypeOK'
    BY <1>1, <2>1, <2>3 DEF TypeOK, All, Ops
  <2>5. Fronts'
    BY <1>1, <2>1 DEF RunInv, Fronts, NoOrphan
  <2>6. Achieved(c)' /\ Phase(c)'
    BY <2>1 DEF Achieved, Active, Phase
  <2>7. \A s \in Services : s = op[c].svc => Settled(s)'
    BY <1>1, <1>2 DEF Settled
  <2> QED  BY <1>1, <1>2, <2>2, <2>4, <2>5, <2>6, <2>7, CallRuns DEF Settled
<1>3. CASE "handle" \in conf.ready
  <2>1. /\ Goto(c, "record", 0) /\ UNCHANGED asked
        /\ handle' = IF handle = "stopped" THEN "running" ELSE handle
        /\ odd' = IF handle = "stopping" THEN odd \cup {"handle"} ELSE odd
    BY <1>1, <1>3
  <2>2. Goes(c) /\ op'[c].pc = "record"
    <3>1. "record" \in OpPcs \ {"idle"}
      BY DEF OpPcs
    <3> QED  BY <1>1, <2>1, <3>1, GotoGoes
  <2>3. Local(c)
    BY <1>1, <2>1, <2>2 DEF Local
  <2>4. op' \in [All -> Ops]
    BY <1>1, <2>3, CallElsewhere
  <2>5. TypeOK'
    BY <1>1, <2>1, <2>4 DEF TypeOK, All, Ops, Services
  <2>6. Fronts'
    BY <1>1, <2>1 DEF RunInv, Fronts, NoOrphan
  <2>7. Phase(c)'
    BY <1>1, <1>3, <2>2 DEF Phase, Records, Goes
  <2>8. /\ handle' # "none"
        /\ "handle" \notin odd' => handle' = "running"
    BY <1>3, <2>1 DEF RunInv, Settles, TypeOK
  <2>9. Achieved(c)'
    BY <1>1, <2>2, <2>8 DEF Achieved, Goes, Phase
  <2> QED  BY <1>1, <2>2, <2>3, <2>5, <2>6, <2>7, <2>8, <2>9, CallRuns, ServiceFacts
           DEF Goes, Ends
<1> QED  BY <1>2, <1>3

\* A start, or the restart of a Discord without token, finds nothing to start.
LEMMA UnreadyRuns ==
  ASSUME RunInv, NEW c \in All, StartFront(c), "front" \notin conf.ready
  PROVE  RunInv'
<1>1. /\ UNCHANGED <<conf, boot, at, desired, file, handle, slot, gen, ftask, told>>
      /\ Active(c) /\ TypeOK /\ op[c].pc = "start" /\ op[c].svc = "front"
      /\ Phase(c)
      /\ \/ op[c].cmd = "start" /\ Return(c)
         \/ op[c].cmd # "start" /\ Goto(c, "rerecord", 0) /\ UNCHANGED <<asked, odd>>
  BY DEF StartFront, front, bounds, Active, RunInv, Phases
<1>2. /\ Ends(c) \/ Goes(c)
      /\ odd \subseteq odd' /\ odd' \subseteq odd \cup {op[c].svc} /\ odd' \subseteq Services
      /\ asked' \in [Services -> SUBSET BOOLEAN]
      /\ op'[c].pc = "idle" \/ (Goes(c) /\ op'[c].pc = "rerecord" /\ op[c].cmd # "start")
  <2>1. CASE op[c].cmd = "start"
    BY <1>1, <2>1, ReturnFacts
  <2>2. CASE op[c].cmd # "start"
    <3>1. "rerecord" \in OpPcs \ {"idle"}
      BY DEF OpPcs
    <3>2. Goto(c, "rerecord", 0) /\ UNCHANGED <<asked, odd>>
      BY <1>1, <2>2
    <3> QED  BY <1>1, <2>2, <3>1, <3>2, GotoGoes DEF TypeOK
  <2> QED  BY <2>1, <2>2
<1>3. Local(c)
  BY <1>1, <1>2 DEF Local
<1>4. op' \in [All -> Ops]
  BY <1>1, <1>3, CallElsewhere
<1>5. TypeOK'
  BY <1>1, <1>2, <1>4 DEF TypeOK, All, Ops
<1>6. Fronts'
  BY <1>1, <1>2 DEF RunInv, Fronts, NoOrphan
<1>7. Phase(c)'
  <2>1. CASE op'[c].pc = "idle"
    BY <2>1 DEF Phase
  <2>2. CASE Goes(c) /\ op'[c].pc = "rerecord" /\ op[c].cmd # "start"
    <3>1. op[c].cmd = "restart"
      BY <1>1, <2>2, OpTypes DEF Phase, Commands
    <3> QED  BY <1>1, <2>2, <3>1 DEF Phase, Records, Goes
  <2> QED  BY <1>2, <2>1, <2>2
<1>8. Achieved(c)'
  <2>1. CASE op'[c].pc = "idle"
    BY <2>1 DEF Achieved, Active
  <2>2. CASE Goes(c)
    BY <1>1, <2>2 DEF Achieved, Goes
  <2> QED  BY <1>2, <2>1, <2>2
<1>9. \A s \in Services : s = op[c].svc => Settled(s)'
  BY <1>1 DEF Settled
<1>10. "handle" \in conf.ready => handle' # "none"
  BY <1>1 DEF RunInv, Settles
<1> QED  BY <1>1, <1>3, <1>5, <1>6, <1>7, <1>8, <1>9, <1>10, CallRuns DEF Settled

\* A new task goes into the slot, unless one is in it already and runs.
LEMMA StartTaskRuns ==
  ASSUME RunInv, NEW c \in All, StartFront(c), "front" \in conf.ready
  PROVE  RunInv'
<1>1. /\ UNCHANGED <<conf, boot, at, desired, file, handle, told, asked, odd>>
      /\ Active(c) /\ TypeOK /\ op[c].pc = "start" /\ op[c].svc = "front"
      /\ Phase(c) /\ Goto(c, "record", 0)
      /\ \/ Running("front") /\ UNCHANGED <<slot, gen, ftask>>
         \/ /\ ~Running("front") /\ gen + 1 \in Gens /\ gen' = gen + 1 /\ slot' = gen + 1
            /\ ftask' = [ftask EXCEPT ![gen + 1] = "new"]
  BY DEF StartFront, front, bounds, Active, RunInv, Phases
<1>2. Goes(c) /\ op'[c].pc = "record"
  <2>1. "record" \in OpPcs \ {"idle"}
    BY DEF OpPcs
  <2> QED  BY <1>1, <2>1, GotoGoes
<1>3. Local(c)
  BY <1>1, <1>2 DEF Local
<1>4. op' \in [All -> Ops]
  BY <1>1, <1>3, CallElsewhere
<1>5. /\ slot' # 0
      /\ slot' \in Gens \cup {0} /\ gen' \in Gens \cup {0} /\ ftask' \in [Gens -> FrontPcs]
  BY <1>1, ServiceFacts DEF TypeOK, Running, FrontPcs
<1>6. TypeOK'
  BY <1>1, <1>4, <1>5 DEF TypeOK, All, Ops
<1>7. Fronts'
  <2>1. CASE Running("front")
    BY <1>1, <2>1 DEF RunInv, Fronts, NoOrphan
  <2>2. CASE ~Running("front")
    <3>0. /\ gen + 1 \in Gens /\ gen' = gen + 1 /\ slot' = gen + 1 /\ UNCHANGED <<told, odd>>
          /\ ftask' = [ftask EXCEPT ![gen + 1] = "new"]
      BY <1>1, <2>2
    <3>7. DOMAIN ftask = Gens /\ gen \in Nat /\ \A g \in Gens : g \in Nat
      BY <1>1, ServiceFacts DEF TypeOK
    <3>1. /\ gen + 1 \in Gens /\ gen \in Nat /\ gen' = gen + 1 /\ slot' = gen + 1
          /\ ftask'[gen + 1] = "new"
          /\ \A g \in Gens : g # gen + 1 => ftask'[g] = ftask[g]
          /\ UNCHANGED <<told, odd>> /\ \A g \in Gens : g \in Nat
      BY <3>0, <3>7
    <3>2. /\ \A g \in Gens : ftask[g] \in {"new", "up", "wait"} /\ g \notin told => slot = g
          /\ \A g \in Gens : (ftask[g] # "none" \/ g \in told \/ g = slot) => g <= gen
      BY DEF RunInv, Fronts, NoOrphan
    <3>3. \A g \in Gens : ftask[g] \in {"new", "up", "wait"} => g \in told
      BY <2>2, <3>2, ServiceFacts DEF Running, Finished
    <3>4. NoOrphan'
      BY <3>1, <3>3 DEF NoOrphan
    <3>5. \A g \in Gens : (ftask'[g] # "none" \/ g \in told' \/ g = slot') => g <= gen'
      BY <3>1, <3>2
    <3>6. /\ slot' \notin told'
          /\ slot' # 0 /\ "front" \notin odd' => ftask'[slot'] \in {"new", "up", "wait"}
      BY <3>1, <3>2
    <3> QED  BY <3>4, <3>5, <3>6 DEF Fronts
  <2> QED  BY <2>1, <2>2
<1>8. Phase(c)'
  BY <1>1, <1>2 DEF Phase, Records, Goes
<1>9. Achieved(c)'
  BY <1>1, <1>2, <1>5 DEF Achieved, Goes, Phase
<1>10. "handle" \in conf.ready => handle' # "none"
  BY <1>1 DEF RunInv, Settles
<1> QED  BY <1>1, <1>2, <1>3, <1>6, <1>7, <1>8, <1>9, <1>10, CallRuns, ServiceFacts
         DEF Goes, Ends

LEMMA RecordRuns ==
  ASSUME RunInv, NEW c \in All, Record(c)
  PROVE  RunInv'
<1>1. /\ UNCHANGED <<conf, boot, at, handle, slot, gen, ftask, told>>
      /\ Active(c) /\ TypeOK /\ op[c].pc \in {"record", "rerecord"}
      /\ Phase(c) /\ Achieved(c) /\ op[c].svc \in Services /\ Target(op[c]) \in BOOLEAN
      /\ desired' = With(op[c].svc, Target(op[c])) /\ Store(desired')
      /\ IF op[c].pc = "record" /\ op[c].svc = "front" /\ op[c].cmd = "restart"
         THEN Goto(c, "rerecord", 0) /\ UNCHANGED <<asked, odd>> ELSE Return(c)
  BY OpTypes DEF Record, front, Active, RunInv, Phases, Progress, Target
<1>2. /\ desired' \subseteq Services
      /\ op[c].svc \in desired' <=> Target(op[c])
      /\ \A s \in Services \ {op[c].svc} : s \in desired' <=> s \in desired
  BY <1>1, DesiredTypes
<1>3. file' = desired' \/ file' = file
  BY <1>1 DEF Store
<1>4. CASE op[c].pc = "record" /\ op[c].svc = "front" /\ op[c].cmd = "restart"
  <2>1. Goes(c) /\ op'[c].pc = "rerecord" /\ UNCHANGED <<asked, odd>>
    <3>1. "rerecord" \in OpPcs \ {"idle"}
      BY DEF OpPcs
    <3> QED  BY <1>1, <1>4, <3>1, GotoGoes
  <2>2. Local(c)
    BY <1>1, <1>2, <2>1 DEF Local
  <2>3. op' \in [All -> Ops]
    BY <1>1, <2>2, CallElsewhere
  <2>4. TypeOK'
    BY <1>1, <1>2, <1>3, <2>1, <2>3 DEF TypeOK, All, Ops
  <2>5. Fronts'
    BY <1>1, <2>1 DEF RunInv, Fronts, NoOrphan
  <2>6. Phase(c)'
    BY <1>4, <2>1 DEF Phase, Records, Goes
  <2>7. Achieved(c)'
    BY <1>1, <1>4, <2>1 DEF Achieved, Goes, Active
  <2>8. "handle" \in conf.ready => handle' # "none"
    BY <1>1 DEF RunInv, Settles
  <2> QED  BY <1>1, <2>1, <2>2, <2>4, <2>5, <2>6, <2>7, <2>8, CallRuns, ServiceFacts
           DEF Goes, Ends
<1>5. CASE ~(op[c].pc = "record" /\ op[c].svc = "front" /\ op[c].cmd = "restart")
  <2>1. /\ Ends(c) /\ op'[c].pc = "idle"
        /\ odd' = (IF op[c].met THEN odd \cup {op[c].svc} ELSE odd)
        /\ odd' \subseteq Services /\ asked' \in [Services -> SUBSET BOOLEAN]
    BY <1>1, <1>5, ReturnFacts
  <2>2. Local(c)
    BY <1>1, <1>2, <2>1 DEF Local
  <2>3. op' \in [All -> Ops]
    BY <1>1, <2>2, CallElsewhere
  <2>4. TypeOK'
    BY <1>1, <1>2, <1>3, <2>1, <2>3 DEF TypeOK, All, Ops
  <2>5. Fronts'
    BY <1>1, <2>1 DEF RunInv, Fronts, NoOrphan
  <2>6. Achieved(c)' /\ Phase(c)'
    BY <2>1 DEF Achieved, Active, Phase
  <2>7. ASSUME NEW s \in Services, s = op[c].svc  PROVE  Settled(s)'
    <3>1. CASE op[c].met
      BY <2>1, <2>7, <3>1 DEF Settled
    <3>2. CASE ~op[c].met /\ s \in conf.ready \ odd
      <4>1. Target(op[c]) <=> Up(s)
        BY <1>1, <1>5, <2>7, <3>2 DEF Achieved, Active, Phase, Target, Up, Services
      <4>2. Up(s)' <=> Up(s)
        BY <1>1 DEF Up
      <4> QED  BY <1>2, <2>7, <4>1, <4>2 DEF Settled
    <3>3. CASE s \notin conf.ready \ odd
      BY <1>1, <2>1, <3>3 DEF Settled
    <3> QED  BY <3>1, <3>2, <3>3
  <2>8. "handle" \in conf.ready => handle' # "none"
    BY <1>1 DEF RunInv, Settles
  <2> QED  BY <1>1, <2>2, <2>4, <2>5, <2>6, <2>7, <2>8, CallRuns DEF Settled
<1> QED  BY <1>4, <1>5

----------------------------------------------------------------------------
(* The steps of the tasks keep RunInv. *)

LEMMA HandleRuns ==
  ASSUME RunInv, HandleEnds \/ HandlePanics
  PROVE  RunInv'
<1>1. /\ UNCHANGED <<conf, boot, at, desired, file, slot, gen, ftask, told, op, asked>>
      /\ handle' = "stopped"
      /\ \/ handle = "stopping" /\ odd' = odd
         \/ handle = "running" /\ odd' = odd \cup {"handle"}
  BY DEF HandleEnds, HandlePanics, front, bounds
<1>2. TypeOK'
  BY <1>1 DEF RunInv, TypeOK, Services
<1>3. Fronts'
  BY <1>1 DEF RunInv, Fronts, NoOrphan
<1>4. Booting'
  BY <1>1 DEF RunInv, Booting, PastHandle, Active
<1>5. Alone' /\ Phases'
  BY <1>1 DEF RunInv, Alone, Phases, Phase, Records, Active
<1>6. Progress'
  BY <1>1, OpTypes DEF RunInv, Progress, Achieved, Active, Services
<1>7. Settles'
  BY <1>1 DEF RunInv, Settles, Settled, Up, Services, PastHandle, Idle
<1> QED  BY <1>2, <1>3, <1>4, <1>5, <1>6, <1>7 DEF RunInv

\* A frontend task moves on, and only once the boot is over.
LEMMA MoveRuns ==
  ASSUME RunInv, NEW g \in Gens, NEW from \in FrontPcs \ {"none", "done"},
         NEW to \in FrontPcs \ {"none"}, Move(g, from, to),
         to = "up" => from \in {"new", "wait"}, to = "wait" => from = "up", to # "new",
         \/ odd' = odd /\ (to \in {"up", "wait"} \/ g # slot \/ "front" \in odd)
         \/ odd' = odd \cup {"front"},
         \/ slot' = slot
         \/ slot' = 0 /\ slot = g /\ to = "done" /\ from \in {"ending", "failed"}
  PROVE  RunInv'
<1>1. /\ UNCHANGED <<conf, boot, at, desired, file, handle, gen, told, op, asked>>
      /\ ftask[g] = from /\ ftask' \in [Gens -> FrontPcs]
      /\ ftask'[g] = to /\ \A h \in Gens : h # g => ftask'[h] = ftask[h]
      /\ odd \subseteq odd' /\ odd' \subseteq odd \cup {"front"}
  BY DEF RunInv, TypeOK, Move
<1>2. boot = "up"
  BY <1>1 DEF RunInv, Booting
<1>3. slot' = slot \/ "front" \in odd'
  BY <1>1 DEF RunInv, Fronts
<1>4. TypeOK'
  BY <1>1 DEF RunInv, TypeOK, Services
<1>5. Fronts'
  <2>1. /\ \A h \in Gens : ftask[h] \in {"new", "up", "wait"} /\ h \notin told => slot = h
        /\ \A h \in Gens : (ftask[h] # "none" \/ h \in told \/ h = slot) => h <= gen
        /\ slot \notin told
        /\ slot # 0 /\ "front" \notin odd => ftask[slot] \in {"new", "up", "wait"}
        /\ slot \in Gens \cup {0} /\ told \subseteq Gens
    BY DEF RunInv, TypeOK, Fronts, NoOrphan
  <2>2. \A h \in Gens : ftask'[h] \in {"new", "up", "wait"} => ftask[h] \in {"new", "up", "wait"}
    BY <1>1
  <2>3. NoOrphan'
    BY <1>1, <2>1, <2>2 DEF NoOrphan
  <2>4. \A h \in Gens : (ftask'[h] # "none" \/ h \in told' \/ h = slot') => h <= gen'
    BY <1>1, <2>1, ServiceFacts
  <2>5. slot' \notin told'
    BY <1>1, <2>1, ServiceFacts
  <2>6. slot' # 0 /\ "front" \notin odd' => ftask'[slot'] \in {"new", "up", "wait"}
    BY <1>1, <2>1
  <2> QED  BY <2>3, <2>4, <2>5, <2>6 DEF Fronts
<1>6. Booting'
  BY <1>1, <1>2 DEF Booting, PastHandle
<1>7. Alone' /\ Phases'
  BY <1>1 DEF RunInv, Alone, Phases, Phase, Records, Active
<1>8. Progress'
  BY <1>1, <1>3 DEF RunInv, Progress, Achieved, Active
<1>9. Settles'
  BY <1>1, <1>3 DEF RunInv, Settles, Settled, Up, Services, PastHandle, Idle
<1> QED  BY <1>4, <1>5, <1>6, <1>7, <1>8, <1>9 DEF RunInv

LEMMA FrontRuns ==
  ASSUME RunInv, NEW g \in Gens, TaskStep(g)
  PROVE  RunInv'
<1> USE DEF FrontPcs
<1>1. CASE Opens(g)
  BY <1>1, MoveRuns DEF Opens
<1>2. CASE OpenFails(g) \/ Breaks(g) \/ Panics(g)
  <2>1. /\ odd' = odd \cup {"front"} /\ slot' = slot
        /\ Move(g, "new", "failed") \/ Move(g, "up", "failed") \/ Move(g, "up", "dead")
    BY <1>2 DEF OpenFails, Breaks, Panics
  <2>2. CASE Move(g, "new", "failed")
    BY <2>1, <2>2, MoveRuns
  <2>3. CASE Move(g, "up", "failed")
    BY <2>1, <2>3, MoveRuns
  <2>4. CASE Move(g, "up", "dead")
    BY <2>1, <2>4, MoveRuns
  <2> QED  BY <2>1, <2>2, <2>3, <2>4
<1>3. CASE Drains(g)
  <2>1. g # slot
    BY <1>3 DEF Drains, RunInv, Fronts
  <2> QED  BY <1>3, <2>1, MoveRuns DEF Drains
<1>4. CASE Drained(g)
  <2>1. g # slot \/ "front" \in odd
    BY <1>4, ServiceFacts DEF Drained, Move, RunInv, Fronts
  <2> QED  BY <1>4, <2>1, MoveRuns DEF Drained
<1>5. CASE Finish(g)
  <2>1. g # slot \/ "front" \in odd
    BY <1>5, ServiceFacts DEF Finish, RunInv, Fronts
  <2>2. /\ ftask[g] \in {"ending", "failed"} /\ Move(g, ftask[g], "done") /\ odd' = odd
        /\ slot' = slot \/ (slot' = 0 /\ slot = g)
    BY <1>5 DEF Finish
  <2> QED  BY <2>1, <2>2, MoveRuns
<1>6. CASE Waits(g)
  BY <1>6, MoveRuns DEF Waits
<1>7. CASE Heard(g)
  BY <1>7, MoveRuns DEF Heard
<1> QED  BY <1>1, <1>2, <1>3, <1>4, <1>5, <1>6, <1>7 DEF FrontStep, TaskStep

\* RunInv is an inductive invariant: the types, the slot and the generations, what the
\* start-up leaves alone, which calls overlap, and what each call has achieved.
LEMMA RunInvInit == Init => RunInv
<1> SUFFICES ASSUME Init  PROVE  RunInv
  OBVIOUS
<1>1. /\ conf \in Confs /\ boot = "load" /\ at = 1 /\ desired = InitDesired(conf)
      /\ file = Missing /\ handle = Fresh(conf) /\ slot = 0 /\ gen = 0
      /\ ftask = [g \in Gens |-> "none"] /\ told = {} /\ odd = {}
      /\ op = [c \in All |-> NoOp]
      /\ asked = [s \in Services |-> {(s \in conf.enabled)}]
  BY DEF Init, All
<1>2. /\ conf.ready \subseteq Services
      /\ handle \in {"running", "none"} /\ ("handle" \in conf.ready => handle = "running")
  BY <1>1, ServiceFacts DEF Fresh
<1>3. \A c \in All : op[c] = NoOp /\ op[c].pc = "idle"
  BY <1>1, ServiceFacts
<1>4. asked \in [Services -> SUBSET BOOLEAN]
  BY <1>1
<1>5. TypeOK
  BY <1>1, <1>2, <1>4, ServiceFacts DEF TypeOK, InitDesired, FrontPcs, Ops, All
<1>6. Fronts
  BY <1>1, ServiceFacts DEF Fronts, NoOrphan
<1>7. Booting
  BY <1>1, <1>2, <1>3, ServiceFacts DEF Booting, PastHandle, Active
<1>8. Alone /\ Phases /\ Progress
  BY <1>3 DEF Alone, Phases, Phase, Progress, Achieved, Active
<1>9. Settles
  BY <1>1, <1>2 DEF Settles, Settled, PastHandle
<1> QED  BY <1>5, <1>6, <1>7, <1>8, <1>9 DEF RunInv

LEMMA RunInvStep == RunInv /\ [Next]_vars => RunInv'
<1> SUFFICES ASSUME RunInv, [Next]_vars  PROVE  RunInv'
  OBVIOUS
<1>1. CASE BootStep
  BY <1>1, LoadRuns, IntentsRun, ReconcileRuns, ReconcileNothingRuns DEF BootStep
<1>2. CASE Crash
  BY <1>2, CrashRuns
<1>3. CASE HandleEnds \/ HandlePanics
  BY <1>3, HandleRuns
<1>4. ASSUME NEW c \in Callers, NEW cmd \in Commands, NEW s \in Services,
             NEW via \in Gens \cup {0}, Begin(c, cmd, s, via)
      PROVE  RunInv'
  BY <1>4, BeginRuns
<1>5. ASSUME NEW c \in All, CallStep(c)  PROVE  RunInv'
  <2>1. CASE Stop(c)
    BY <2>1, StopFrontRuns, StopHandleRuns
  <2>2. CASE Stopped(c) \/ StopTimeout(c)
    BY <2>2, StoppedRuns
  <2>3. CASE CutOff(c)
    BY <2>3, CutOffRuns
  <2>4. CASE StartHandle(c)
    BY <2>4, StartHandleRuns
  <2>5. CASE StartFront(c)
    BY <2>5, UnreadyRuns, StartTaskRuns
  <2>6. CASE Record(c)
    BY <2>6, RecordRuns
  <2> QED  BY <1>5, <2>1, <2>2, <2>3, <2>4, <2>5, <2>6 DEF CallStep
<1>6. ASSUME NEW g \in Gens, TaskStep(g)  PROVE  RunInv'
  BY <1>6, FrontRuns
<1>7. CASE UNCHANGED vars
  <2>1. UNCHANGED <<conf, handle, slot, gen, ftask, told, op, odd>>
        /\ UNCHANGED <<boot, at, desired, file, asked>>
    BY <1>7 DEF vars
  <2>2. TypeOK' /\ Booting' /\ Settles'
    BY <2>1 DEF RunInv, TypeOK, Booting, PastHandle, Settles, Settled, Up, Active, Idle
  <2> QED  BY <2>1, <2>2, QuietBoot DEF RunInv
<1> QED  BY <1>1, <1>2, <1>3, <1>4, <1>5, <1>6, <1>7 DEF Next, All, TaskStep

\* In every reachable state of every instance, the types hold and the slot, the calls
\* and the services are as RunInv says (managed/mod.rs, managed/runtime.rs).
THEOREM RunInvInvariant == Spec => []RunInv
<1>1. Init => RunInv
  BY RunInvInit
<1>2. RunInv /\ [Next]_vars => RunInv'
  BY RunInvStep
<1> QED  BY <1>1, <1>2, PTL DEF Spec

\* Once booted and with no call under way, a configured service runs exactly if it is
\* desired, and no frontend task runs out of the reach of a stop.
THEOREM DesiredRuns == Spec => []Agreement
<1>1. RunInv => Agreement
  <2> SUFFICES ASSUME RunInv  PROVE  Agreement
    OBVIOUS
  <2>1. NoOrphan
    BY DEF RunInv, Fronts
  <2>2. ASSUME boot = "up", NEW s \in conf.ready \ odd, Idle(s),
               ~(s = "handle" /\ handle = "stopping")
        PROVE  (s \in desired) = Running(s)
    <3>1. s \in Services
      BY ServiceFacts DEF RunInv, TypeOK
    <3>2. s \in desired <=> Up(s)
      BY <2>2, <3>1 DEF RunInv, Settles, Settled
    <3>3. Running(s) <=> Up(s)
      BY <2>2, <3>1 DEF RunInv, Fronts, Running, Finished, Up, Services
    <3> QED  BY <3>2, <3>3 DEF Running
  <2> QED  BY <2>1, <2>2 DEF Agreement
<1> QED  BY <1>1, RunInvInvariant, PTL

----------------------------------------------------------------------------
(* The file keeps what was asked for. *)

\* Steps that change no intent.
LEMMA QuietIntent ==
  ASSUME Expected, Remembered, Written,
         UNCHANGED <<conf, boot, at, saved, desired, file, asked, stale, spoiled>>,
         \A d \in All : op'[d].pc # "idle" => /\ Active(d) /\ op'[d].svc = op[d].svc
                                            /\ op'[d].cmd = op[d].cmd
  PROVE  Expected' /\ Remembered' /\ Written'
<1>1. Expected'
  BY DEF Expected, Active, Records, Target
<1>2. Remembered'
  BY DEF Remembered, Kept
<1>3. Written'
  BY DEF Written
<1> QED  BY <1>1, <1>2, <1>3

\* A call intends nothing new before it records.
LEMMA CallIntent ==
  ASSUME IntentInv, NEW c \in All, CallStep(c), ~Record(c)
  PROVE  Expected' /\ Remembered' /\ Written'
<1>1. /\ UNCHANGED <<conf, boot, at, saved, desired, file, stale, spoiled>>
      /\ TypeOK /\ Alone /\ Phase(c)
  BY DEF CallStep, Stop, Stopped, StopTimeout, CutOff, StartHandle, StartFront, front, bounds,
         history, IntentInv, RunInv, Phases
<1>2. UNCHANGED asked /\ Active(c) /\ (Goes(c) \/ Ends(c))
  <2>1. CASE Stop(c)
    <3>1. "await" \in OpPcs \ {"idle"} /\ slot \in Gens \cup {0}
      BY <1>1 DEF OpPcs, TypeOK
    <3>2. AfterStop(c) \/ Goto(c, "await", slot) \/ Goto(c, "await", 0)
      BY <2>1 DEF Stop
    <3> QED  BY <1>1, <2>1, <3>1, <3>2, AfterStopFacts, GotoGoes DEF Stop, Active
  <2>2. CASE Stopped(c) \/ StopTimeout(c)
    BY <1>1, <2>2, AfterStopFacts DEF Stopped, StopTimeout, Active
  <2>3. CASE CutOff(c)
    BY <1>1, <2>3, ReturnEnds DEF CutOff, Active
  <2>4. CASE StartHandle(c)
    <3>1. "record" \in OpPcs \ {"idle"}
      BY DEF OpPcs
    <3>2. Active(c) /\ op[c].pc = "start" /\ op[c].svc = "handle"
      BY <2>4 DEF StartHandle, Active
    <3>3. CASE "handle" \notin conf.ready
      <4>1. ~Records(op[c].svc, op[c].cmd) /\ Return(c)
        BY <1>1, <2>4, <3>2, <3>3 DEF StartHandle, Records, Phase
      <4> QED  BY <1>1, <3>2, <4>1, ReturnFacts
    <3>4. CASE "handle" \in conf.ready
      BY <1>1, <2>4, <3>1, <3>2, <3>4, GotoGoes DEF StartHandle
    <3> QED  BY <3>3, <3>4
  <2>5. CASE StartFront(c)
    <3>1. "record" \in OpPcs \ {"idle"} /\ "rerecord" \in OpPcs \ {"idle"}
      BY DEF OpPcs
    <3>2. Active(c) /\ op[c].pc = "start" /\ op[c].svc = "front"
      BY <2>5 DEF StartFront, Active
    <3>3. CASE "front" \notin conf.ready /\ op[c].cmd = "start"
      <4>1. ~Records(op[c].svc, op[c].cmd) /\ Return(c)
        BY <2>5, <3>2, <3>3 DEF StartFront, Records
      <4> QED  BY <1>1, <3>2, <4>1, ReturnFacts
    <3>4. CASE ~("front" \notin conf.ready /\ op[c].cmd = "start")
      <4>1. (Goto(c, "record", 0) \/ Goto(c, "rerecord", 0)) /\ UNCHANGED asked
        BY <2>5, <3>4 DEF StartFront
      <4> QED  BY <1>1, <3>1, <3>2, <4>1, GotoGoes
    <3> QED  BY <3>3, <3>4
  <2> QED  BY <2>1, <2>2, <2>3, <2>4, <2>5 DEF CallStep
<1>3. \A d \in All : op'[d].pc # "idle" => /\ Active(d) /\ op'[d].svc = op[d].svc
                                         /\ op'[d].cmd = op[d].cmd
  BY <1>1, <1>2, CallFrame DEF Active
<1> QED  BY <1>1, <1>2, <1>3, QuietIntent DEF IntentInv

\* A call that records settles what to expect, if it met no other.
LEMMA RecordIntent ==
  ASSUME IntentInv, NEW c \in All, Record(c)
  PROVE  Expected' /\ Remembered' /\ Written'
<1>1. /\ UNCHANGED <<conf, boot, at, saved, spoiled>>
      /\ Active(c) /\ TypeOK /\ Alone /\ op[c].pc \in {"record", "rerecord"}
      /\ op[c].svc \in Services /\ Target(op[c]) \in BOOLEAN /\ Store(desired')
      /\ desired' = With(op[c].svc, Target(op[c]))
      /\ Records(op[c].svc, op[c].cmd)
      /\ (Goto(c, "rerecord", 0) /\ UNCHANGED asked) \/ Return(c)
  BY OpTypes DEF Record, front, Active, IntentInv, RunInv, Phases, Phase, Target
<1>2. /\ op[c].svc \in desired' <=> Target(op[c])
      /\ \A s \in Services \ {op[c].svc} : s \in desired' <=> s \in desired
  BY <1>1, DesiredTypes
<1>3. /\ Goes(c) \/ Ends(c)
      /\ \A s \in Services \ {op[c].svc} : asked'[s] = asked[s]
      /\ \/ asked' = asked
         \/ ~op[c].met /\ Ends(c) /\ \A s \in Services : s = op[c].svc =>
                                                          asked'[s] = {Target(op[c])}
  <2>1. CASE Return(c)
    BY <1>1, <2>1, ReturnFacts
  <2>2. CASE Goto(c, "rerecord", 0) /\ UNCHANGED asked
    <3>1. "rerecord" \in OpPcs \ {"idle"}
      BY DEF OpPcs
    <3> QED  BY <1>1, <2>2, <3>1, GotoGoes
  <2> QED  BY <1>1, <2>1, <2>2
<1>4. /\ \A d \in All : op'[d].pc # "idle" => /\ Active(d) /\ op'[d].svc = op[d].svc
                                           /\ op'[d].cmd = op[d].cmd
      /\ op'[c].pc # "idle" => Goes(c)
  <2>1. Ends(c) => op'[c].pc = "idle"
    BY ServiceFacts DEF Ends
  <2> QED  BY <1>1, <1>3, <2>1, CallFrame DEF Active
<1>5. Target(op[c]) \in asked[op[c].svc]
  BY <1>1 DEF IntentInv, Expected
<1>6. \A s \in Services : s = op[c].svc => Target(op[c]) \in asked'[s]
  BY <1>1, <1>3, <1>5
<1>7. Expected'
  <2> SUFFICES ASSUME NEW d \in All, Active(d)', Records(op[d].svc, op[d].cmd)'
               PROVE  Target(op[d])' \in (asked[op[d].svc])'
    BY DEF Expected
  <2>1. /\ Active(d) /\ op'[d].svc = op[d].svc /\ op'[d].cmd = op[d].cmd
        /\ op[d].svc \in Services
    BY <1>1, <1>4, OpTypes DEF Active
  <2>2. Target(op[d])' = Target(op[d]) /\ Records(op[d].svc, op[d].cmd)
    BY <1>1, <2>1 DEF Target, Records
  <2>3. Target(op[d]) \in asked[op[d].svc]
    BY <2>1, <2>2 DEF IntentInv, Expected
  <2>4. CASE asked' = asked
    BY <2>1, <2>2, <2>3, <2>4
  <2>5. CASE asked' # asked
    <3>1. ~op[c].met /\ Ends(c)
      BY <1>3, <2>5
    <3>2. d # c
      BY <3>1, ServiceFacts DEF Ends, Active
    <3>3. op[d].svc # op[c].svc
      BY <1>1, <2>1, <3>1, <3>2 DEF Alone
    <3> QED  BY <1>3, <2>1, <2>2, <2>3, <3>3
  <2> QED  BY <2>4, <2>5
<1>8. Remembered'
  <2>1. boot \in {"reconcile", "up"}
    BY <1>1, CallsLate DEF IntentInv, RunInv, PastHandle
  <2>2. conf.runtime \subseteq Services
    BY <1>1, ServiceFacts DEF TypeOK
  <2>3. ASSUME ~spoiled, NEW s \in conf.runtime  PROVE  (s \in desired') \in asked'[s]
    <3>1. (s \in desired) \in asked[s]
      BY <2>1, <2>3 DEF IntentInv, Remembered
    <3>2. CASE s = op[c].svc
      <4>1. (s \in desired') = Target(op[c])
        BY <1>1, <1>2, <3>2
      <4> QED  BY <1>1, <1>6, <3>2, <4>1
    <3>3. CASE s # op[c].svc
      <4>1. (s \in desired') = (s \in desired)
        BY <1>2, <2>2, <3>3
      <4> QED  BY <1>3, <2>2, <3>1, <3>3, <4>1
    <3> QED  BY <3>2, <3>3
  <2> QED  BY <1>1, <2>1, <2>3 DEF Remembered
<1>9. Written'
  BY <1>1 DEF Written, Store
<1> QED  BY <1>7, <1>8, <1>9

LEMMA LoadIntent ==
  ASSUME IntentInv, Load
  PROVE  Expected' /\ Remembered' /\ Written'
<1>1. /\ UNCHANGED <<conf, desired, file, op, asked, stale, spoiled>>
      /\ boot = "load" /\ boot' = "intents" /\ at' = 1 /\ saved' = file
  BY DEF Load, bounds, history
<1>2. Expected'
  BY <1>1 DEF IntentInv, Expected, Active, Records, Target
<1>3. Remembered'
  BY <1>1 DEF IntentInv, Remembered, Kept
<1>4. Written'
  BY <1>1 DEF Written
<1> QED  BY <1>2, <1>3, <1>4

LEMMA IntentsIntent ==
  ASSUME IntentInv, Intents
  PROVE  Expected' /\ Remembered' /\ Written'
<1>1. /\ UNCHANGED <<conf, saved, op, asked, spoiled>>
      /\ boot = "intents" /\ at \in 1..2 /\ Store(desired') /\ Advance("reconcile")
      /\ desired' = With(Order[at], BootDesired(Order[at]))
      /\ TypeOK
  BY DEF Intents, IntentInv, RunInv, TypeOK
<1>2. Expected'
  BY <1>1 DEF IntentInv, Expected, Active, Records, Target
<1>3. conf.runtime \subseteq Services
  BY <1>1, ServiceFacts DEF TypeOK
<1>4. ASSUME ~spoiled, NEW s \in conf.runtime  PROVE  BootDesired(s) \in asked[s]
  <2>1. saved # Bad /\ (IF saved = Missing THEN s \in conf.enabled ELSE s \in saved) \in asked[s]
    BY <1>1, <1>4 DEF IntentInv, Remembered, Kept
  <2>2. CASE saved = Missing
    <3>1. BootDesired(s) = (s \in conf.enabled)
      BY <2>2 DEF BootDesired
    <3> QED  BY <2>1, <2>2, <3>1
  <2>3. CASE saved # Missing
    <3>1. BootDesired(s) = (s \in saved)
      BY <1>4, <2>1, <2>3 DEF BootDesired
    <3> QED  BY <2>1, <2>3, <3>1
  <2> QED  BY <2>2, <2>3
<1>5. \A s \in Services :
        /\ s = Order[at] => (s \in desired' <=> BootDesired(s))
        /\ s # Order[at] => (s \in desired' <=> s \in desired)
  BY <1>1 DEF With, TypeOK
<1>6. CASE at = 1
  <2>1. boot' = "intents" /\ at' = 2 /\ Order[at] = "handle"
    BY <1>1, <1>6 DEF Advance, Order
  <2>2. ASSUME ~spoiled, "handle" \in conf.runtime
        PROVE  ("handle" \in desired') \in asked["handle"]
    <3>1. BootDesired("handle") \in asked["handle"]
      BY <1>4, <2>2
    <3>2. "handle" \in desired' <=> BootDesired("handle")
      BY <1>5, <2>1 DEF Services
    <3>3. ("handle" \in desired') = BootDesired("handle")
      BY <3>2 DEF BootDesired
    <3> QED  BY <3>1, <3>3
  <2>3. Remembered'
    BY <1>1, <2>1, <2>2 DEF IntentInv, Remembered, Kept
  <2> QED  BY <1>2, <2>1, <2>3 DEF Written
<1>7. CASE at = 2
  <2>1. boot' = "reconcile" /\ at' = 1 /\ Order[at] = "front"
    BY <1>1, <1>7 DEF Advance, Order
  <2>2. ASSUME ~spoiled, NEW s \in conf.runtime  PROVE  (s \in desired') \in asked[s]
    <3>1. CASE s = "front"
      <4>1. BootDesired("front") \in asked["front"]
        BY <1>4, <2>2, <3>1
      <4>2. "front" \in desired' <=> BootDesired("front")
        BY <1>5, <2>1 DEF Services
      <4>3. ("front" \in desired') = BootDesired("front")
        BY <4>2 DEF BootDesired
      <4> QED  BY <3>1, <4>1, <4>3
    <3>2. CASE s = "handle"
      <4>1. ("handle" \in desired) \in asked["handle"]
        BY <1>1, <1>7, <2>2, <3>2 DEF IntentInv, Remembered
      <4>2. ("handle" \in desired') = ("handle" \in desired)
        BY <1>5, <2>1 DEF Services
      <4> QED  BY <3>2, <4>1, <4>2
    <3> QED  BY <1>3, <3>1, <3>2 DEF Services
  <2>3. Remembered'
    BY <1>1, <2>1, <2>2 DEF Remembered
  <2>4. Written'
    BY <1>1 DEF Written, Store
  <2> QED  BY <1>2, <2>3, <2>4
<1> QED  BY <1>1, <1>6, <1>7

LEMMA ReconcileIntent ==
  ASSUME IntentInv, Reconcile \/ ReconcileNothing
  PROVE  Expected' /\ Remembered' /\ Written'
<1>1. /\ UNCHANGED <<conf, saved, desired, file, stale, spoiled>>
      /\ boot = "reconcile" /\ Advance("up") /\ op[Boot].pc = "idle"
      /\ asked \in [Services -> SUBSET BOOLEAN]
      /\ TypeOK /\ Alone /\ Boot \in All /\ ~Active(Boot)
  BY ServiceFacts DEF Reconcile, ReconcileNothing, bounds, history, IntentInv, RunInv, TypeOK,
                     Active
<1>2. boot' \in {"reconcile", "up"}
  BY <1>1 DEF Advance
<1>3. conf.runtime \subseteq Services
  BY <1>1, ServiceFacts DEF TypeOK
<1>4. CASE ReconcileNothing
  <2>1. UNCHANGED <<op, asked>>
    BY <1>4 DEF ReconcileNothing
  <2>2. Expected'
    BY <1>1, <2>1 DEF IntentInv, Expected, Active, Records, Target
  <2>3. Remembered' /\ Written'
    BY <1>1, <1>2, <2>1 DEF IntentInv, Remembered, Written
  <2> QED  BY <2>2, <2>3
<1>5. CASE Reconcile
  <2>1. PICK o \in Ops :
          /\ o.svc = Order[at] /\ o.pc \in {"start", "stop"} /\ o.pc = o.cmd
          /\ Meet(Boot, o) /\ Expect(o)
    <3>1. Order[at] \in Services
      BY <1>1 DEF TypeOK, Order, Services
    <3>2. [NoOp EXCEPT !.cmd = IF Order[at] \in desired THEN "start" ELSE "stop",
                       !.svc = Order[at],
                       !.pc = IF Order[at] \in desired THEN "start" ELSE "stop"] \in Ops
      BY <3>1 DEF NoOp, Ops, OpPcs, Commands
    <3> QED  BY <1>5, <3>2 DEF Reconcile, NoOp
  <2>2. /\ \A s \in Services : asked[s] \subseteq asked'[s]
        /\ Records(o.svc, o.cmd) => Target(o) \in asked'[o.svc]
    BY <1>1, <2>1, ExpectFacts
  <2>3. /\ op'[Boot].cmd = o.cmd /\ op'[Boot].svc = o.svc
        /\ \A d \in All \ {Boot} :
             /\ op'[d].pc = op[d].pc /\ op'[d].cmd = op[d].cmd /\ op'[d].svc = op[d].svc
    BY <1>1, <2>1, MeetFacts, ZenonT(60)
  <2>4. Expected'
    BY <1>1, <2>2, <2>3, OpTypes DEF IntentInv, Expected, Active, Records, Target
  <2>5. Remembered' /\ Written'
    BY <1>1, <1>2, <1>3, <2>2 DEF IntentInv, Remembered, Written
  <2> QED  BY <2>4, <2>5
<1> QED  BY <1>4, <1>5

LEMMA BeginIntent ==
  ASSUME IntentInv, NEW c \in Callers, NEW cmd \in Commands, NEW s \in Services,
         NEW via \in Gens \cup {0}, Begin(c, cmd, s, via)
  PROVE  Expected' /\ Remembered' /\ Written'
<1>1. PICK o \in Ops :
        /\ o.svc = s /\ o.cmd = cmd /\ o.pc # "idle" /\ Meet(c, o) /\ Expect(o)
  <2>1. [NoOp EXCEPT !.pc = IF cmd = "start" THEN "start" ELSE "stop",
                     !.cmd = cmd, !.svc = s, !.via = via] \in Ops
    BY DEF NoOp, Ops, OpPcs, Commands
  <2> QED  BY <2>1 DEF Begin, NoOp
<1>2. /\ UNCHANGED <<conf, boot, at, saved, desired, file, stale, spoiled>>
      /\ ~Active(c) /\ c \in All
      /\ TypeOK /\ Alone /\ asked \in [Services -> SUBSET BOOLEAN]
  BY ServiceFacts DEF Begin, Active, history, IntentInv, RunInv, TypeOK
<1>3. /\ \A r \in Services : asked[r] \subseteq asked'[r]
      /\ Records(o.svc, o.cmd) => Target(o) \in asked'[o.svc]
  BY <1>1, <1>2, ExpectFacts
<1>4. /\ op'[c].cmd = o.cmd /\ op'[c].svc = o.svc
      /\ \A d \in All \ {c} :
           /\ op'[d].pc = op[d].pc /\ op'[d].cmd = op[d].cmd /\ op'[d].svc = op[d].svc
  BY <1>1, <1>2, MeetFacts, ZenonT(60)
<1>5. Expected'
  BY <1>2, <1>3, <1>4, OpTypes DEF IntentInv, Expected, Active, Records, Target
<1>6. conf.runtime \subseteq Services /\ conf.enabled \subseteq Services
  BY <1>2, ServiceFacts DEF TypeOK
<1>7. Remembered'
  <2>1. boot = "up"
    BY ServiceFacts DEF Begin, IntentInv, RunInv, Booting
  <2> QED  BY <1>2, <1>3, <1>6, <2>1 DEF IntentInv, Remembered
<1>8. Written'
  BY <1>2 DEF IntentInv, Written
<1> QED  BY <1>5, <1>7, <1>8

\* A crash leaves the file as it was last written, or spoils it.
LEMMA CrashIntent ==
  ASSUME IntentInv, Crash
  PROVE  Expected' /\ Remembered' /\ Written'
<1>1. /\ boot' = "load" /\ UNCHANGED <<conf, asked>> /\ op' = [c \in All |-> NoOp]
      /\ \/ /\ file' = file
            /\ spoiled' = (spoiled \/ stale \/ (boot = "intents" /\ at = 2))
         \/ spoiled' = TRUE
      /\ boot \in {"load", "intents", "reconcile", "up"} /\ at \in 1..2
      /\ desired \in SUBSET Services
  BY DEF Crash, All, IntentInv, RunInv, TypeOK
<1>2. Expected'
  BY <1>1, ServiceFacts DEF Expected, Active
<1>3. ASSUME ~spoiled'  PROVE  Kept(file)'
  <2>1. file' = file /\ ~spoiled /\ ~stale /\ ~(boot = "intents" /\ at = 2)
    BY <1>1, <1>3
  <2>2. CASE boot = "load" \/ (boot = "intents" /\ at = 1)
    BY <1>1, <2>1, <2>2 DEF IntentInv, Remembered, Kept
  <2>3. CASE boot \in {"reconcile", "up"}
    <3>1. file = desired /\ \A s \in conf.runtime : (s \in desired) \in asked[s]
      BY <2>1, <2>3 DEF IntentInv, Remembered, Written
    <3>2. desired # Bad /\ desired # Missing
      BY <1>1, ServicesAssumption
    <3> QED  BY <1>1, <2>1, <3>1, <3>2 DEF Kept
  <2> QED  BY <1>1, <2>1, <2>2, <2>3
<1>4. Remembered'
  BY <1>1, <1>3 DEF Remembered
<1> QED  BY <1>1, <1>2, <1>4 DEF Written

LEMMA TasksIntent ==
  ASSUME IntentInv,
         HandleEnds \/ HandlePanics \/ UNCHANGED vars
         \/ \E g \in Gens : TaskStep(g)
  PROVE  Expected' /\ Remembered' /\ Written'
<1>1. /\ UNCHANGED <<conf, boot, at, saved, desired, file, asked, stale, spoiled>>
      /\ UNCHANGED op
  BY DEF HandleEnds, HandlePanics, TaskStep, FrontStep, Opens, OpenFails, Drains, Drained,
         Finish, Waits, Heard, Breaks, Panics, Move, bounds, history, vars
<1> QED  BY <1>1, QuietIntent DEF IntentInv, Active

LEMMA IntentStep == IntentInv /\ [Next]_vars => IntentInv'
<1> SUFFICES ASSUME IntentInv, [Next]_vars  PROVE  IntentInv'
  OBVIOUS
<1>1. RunInv'
  BY RunInvStep DEF IntentInv
<1>2. CASE BootStep
  <2>1. Expected' /\ Remembered' /\ Written'
    BY <1>2, LoadIntent, IntentsIntent, ReconcileIntent DEF BootStep
  <2> QED  BY <1>1, <2>1 DEF IntentInv
<1>3. CASE Crash
  BY <1>1, <1>3, CrashIntent DEF IntentInv
<1>4. ASSUME NEW c \in Callers, NEW cmd \in Commands, NEW s \in Services,
             NEW via \in Gens \cup {0}, Begin(c, cmd, s, via)
      PROVE  IntentInv'
  BY <1>1, <1>4, BeginIntent DEF IntentInv
<1>5. ASSUME NEW c \in All, CallStep(c)  PROVE  IntentInv'
  <2>1. Expected' /\ Remembered' /\ Written'
    BY <1>5, CallIntent, RecordIntent
  <2> QED  BY <1>1, <2>1 DEF IntentInv
<1>6. CASE HandleEnds \/ HandlePanics \/ UNCHANGED vars
           \/ \E g \in Gens : TaskStep(g)
  <2>1. Expected' /\ Remembered' /\ Written'
    BY <1>6, TasksIntent
  <2> QED  BY <1>1, <2>1 DEF IntentInv
<1> QED  BY <1>2, <1>3, <1>4, <1>5, <1>6 DEF Next, All, TaskStep

\* Under the Runtime policy the file holds what the last call on the service asked for,
\* across restarts, except after a failed write or a crash in a write or in the middle
\* of the start-up's.
THEOREM FileKeepsIntent == Spec => []IntentKept
<1>1. Init => IntentInv
  <2> SUFFICES ASSUME Init  PROVE  IntentInv
    OBVIOUS
  <2>1. \A c \in All : ~Active(c)
    BY ServiceFacts DEF Init, All, Active
  <2>2. /\ boot = "load" /\ file = Missing /\ conf \in Confs
        /\ asked = [s \in Services |-> {(s \in conf.enabled)}]
    BY DEF Init
  <2>3. Kept(file)
    <3>1. Missing # Bad /\ conf.runtime \subseteq Services
      BY <2>2, ServiceFacts, ServicesAssumption
    <3>2. \A s \in conf.runtime : (s \in conf.enabled) \in asked[s]
      BY <2>2, <3>1
    <3> QED  BY <2>2, <3>1, <3>2 DEF Kept
  <2> QED  BY <2>1, <2>2, <2>3, RunInvInit DEF IntentInv, Expected, Remembered, Written
<1>2. IntentInv /\ [Next]_vars => IntentInv'
  BY IntentStep
<1>3. IntentInv => IntentKept
  BY DEF IntentInv, Remembered, Written, IntentKept
<1> QED  BY <1>1, <1>2, <1>3, PTL DEF Spec
=============================================================================
