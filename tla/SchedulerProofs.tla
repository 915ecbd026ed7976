-------------------------- MODULE SchedulerProofs ---------------------------
(***************************************************************************)
(* Proofs about the two parts of a background service.  ServiceRunner, for *)
(* any callers and any number of calls and panics: as long as no two calls *)
(* overlap, at most one task is in its loop, and what start and stop       *)
(* answer is so.  CronJobs, for any jobs and schedules, any threshold and  *)
(* any bounds: repeated failures disable a job in time, no slot of a       *)
(* schedule runs twice, and what create and delete answered lasts.         *)
(***************************************************************************)
EXTENDS CronJobs, ServiceRunner, FiniteSetTheorems, TLAPS

-----------------------------------------------------------------------------
(* ServiceRunner.                                                          *)

Records == [pc : CallPcs, op : Ops \cup {"none"}, gen : Nat, ok : BOOLEAN]

\* Types, with the generation unbounded: that it stays within Gens is a matter of
\* who may still reserve one, which RoomLeft says of calls that do not overlap.
Loose ==
  /\ slot \in Nat /\ generation \in Nat
  /\ task \in [Gens -> TaskPcs]
  /\ stops \in SUBSET Nat
  /\ call \in [Callers -> Records]
  /\ ops \in 0..MaxOps /\ panics \in Nat
  /\ fresh \in BOOLEAN /\ alone \in BOOLEAN

\* What a call in progress has not yet answered, and where its operation can be.
CallSound ==
  \A c \in Callers :
    /\ call[c].pc # "idle" => ~call[c].ok
    /\ call[c].pc \in {"get", "send", "wait", "answer"} => call[c].op \in {"stop", "restart"}
    /\ call[c].pc \in {"check", "reserve", "install"} => call[c].op \in {"start", "restart"}

Alive(g) == task[g] \in {"idle", "busy", "left", "clearing"}

\* Calls that do not overlap are made one at a time.
OneCall ==
  \A c, d \in Callers : call[c].pc # "idle" /\ call[d].pc # "idle" => c = d

\* A call that may still reserve a generation has been counted.
MayReserve(c) ==
  \/ call[c].pc \in {"check", "reserve"}
  \/ call[c].pc \in {"get", "send", "wait", "answer"} /\ call[c].op = "restart"
RoomLeft ==
  /\ generation <= ops + 1
  /\ \A c \in Callers : MayReserve(c) => generation <= ops

\* The slot holds every task that has not ended; a call about to fill it found it
\* free of such; generations are used in order.
SlotHolds ==
  /\ slot <= generation
  /\ \A g \in Gens : Alive(g) => slot = g
  /\ \A g \in Gens : task[g] # "none" => g <= generation
  /\ \A g \in stops : g \in Gens /\ task[g] # "none"
  /\ slot # 0 => task[slot] # "none"
  /\ \A c \in Callers :
       /\ call[c].pc \in {"reserve", "install"} => \A g \in Gens : ~Alive(g)
       /\ call[c].pc = "install" =>
            call[c].gen = generation /\ generation \in Gens /\ task[generation] = "none"
       /\ call[c].pc = "send" => call[c].gen \in Gens /\ task[call[c].gen] # "none"

\* A start that answered true, and that nobody has undone, left a task behind that
\* has no Stop to read.
FreshSound ==
  fresh => /\ \E g \in Gens : InLoop(g) /\ g \notin stops
           /\ \A c \in Callers : call[c].pc # "idle" => call[c].op = "start"

AloneInv == alone => OneCall /\ RoomLeft /\ SlotHolds /\ FreshSound

RunnerInv == Loose /\ CallSound /\ AloneInv

\* The task spawned at the beginning is the only one.
LEMMA RunnerInvInit == RunnerInit => RunnerInv
<1> SUFFICES ASSUME RunnerInit PROVE RunnerInv
  OBVIOUS
<1> USE RunnerAssumption DEF RunnerInit, Gens
<1>1. Loose
  BY DEF Loose, Records, TaskPcs, CallPcs
<1>2. CallSound
  BY DEF CallSound
<1>3. AloneInv
  BY DEF AloneInv, OneCall, RoomLeft, MayReserve, SlotHolds, FreshSound, Alive, InLoop
<1> QED  BY <1>1, <1>2, <1>3 DEF RunnerInv

\* The three ways a call goes on, by what they make of its record.
Becomes(c, r) ==
  /\ call' \in [Callers -> Records]
  /\ call'[c] = r /\ \A d \in Callers \ {c} : call'[d] = call[d]
Record(pc, op, g, ok) == [pc |-> pc, op |-> op, gen |-> g, ok |-> ok]

\* A record is determined by its fields.
LEMMA RecordFields ==
  ASSUME NEW r \in Records
  PROVE  r = Record(r.pc, r.op, r.gen, r.ok)
BY DEF Records, Record

LEMMA CallMoves ==
  ASSUME Loose, NEW c \in Callers, NEW pc \in CallPcs, NEW g \in Nat, NEW ok \in BOOLEAN
  PROVE  /\ Goto(c, pc) => Becomes(c, Record(pc, call[c].op, call[c].gen, call[c].ok))
         /\ Hold(c, pc, g) => Becomes(c, Record(pc, call[c].op, g, call[c].ok))
         /\ Return(c, ok) => Becomes(c, Record("idle", call[c].op, 0, ok))
<1>1. call \in [Callers -> Records] /\ call[c] \in Records
  BY DEF Loose
<1>2. /\ call[c].op \in Ops \cup {"none"} /\ call[c].gen \in Nat /\ call[c].ok \in BOOLEAN
      /\ call[c] = Record(call[c].pc, call[c].op, call[c].gen, call[c].ok)
  BY <1>1 DEF Records, Record
<1>3. ASSUME NEW r \in Records, call' = [call EXCEPT ![c] = r] PROVE Becomes(c, r)
  BY <1>1, <1>3 DEF Becomes
<1>4. ASSUME NEW p \in CallPcs, NEW h \in Nat, NEW b \in BOOLEAN
      PROVE  Record(p, call[c].op, h, b) \in Records
  BY <1>2, <1>4 DEF Records, Record
<1>5. ASSUME Goto(c, pc)
      PROVE  Becomes(c, Record(pc, call[c].op, call[c].gen, call[c].ok))
  <2>1. [call[c] EXCEPT !.pc = pc] = Record(pc, call[c].op, call[c].gen, call[c].ok)
    BY <1>1 DEF Records, Record
  <2> QED  BY <2>1, <1>2, <1>3, <1>4, <1>5 DEF Goto
<1>6. ASSUME Hold(c, pc, g)
      PROVE  Becomes(c, Record(pc, call[c].op, g, call[c].ok))
  <2> DEFINE r == [call[c] EXCEPT !.pc = pc, !.gen = g]
  <2>1. r \in Records /\ r.pc = pc /\ r.op = call[c].op /\ r.gen = g /\ r.ok = call[c].ok
    BY <1>1 DEF Records
  <2>2. call' = [call EXCEPT ![c] = r]
    BY <1>6 DEF Hold
  <2> HIDE DEF r
  <2> QED  BY <2>1, <2>2, <1>3, RecordFields
<1>7. ASSUME Return(c, ok)
      PROVE  Becomes(c, Record("idle", call[c].op, 0, ok))
  <2> DEFINE r == [call[c] EXCEPT !.pc = "idle", !.gen = 0, !.ok = ok]
  <2>1. r \in Records /\ r.pc = "idle" /\ r.op = call[c].op /\ r.gen = 0 /\ r.ok = ok
    BY <1>1 DEF Records, CallPcs
  <2>2. call' = [call EXCEPT ![c] = r]
    BY <1>7 DEF Return
  <2> HIDE DEF r
  <2> QED  BY <2>1, <2>2, <1>3, RecordFields
<1> QED  BY <1>5, <1>6, <1>7

LEMMA StoppedMoves ==
  ASSUME Loose, NEW c \in Callers, NEW ok \in BOOLEAN, Stopped(c, ok)
  PROVE  IF call[c].op = "restart"
         THEN Becomes(c, Record("check", call[c].op, 0, call[c].ok))
         ELSE Becomes(c, Record("idle", call[c].op, 0, ok))
BY CallMoves DEF Stopped, CallPcs

\* Every step of a call keeps the invariant.
LEMMA CallKeepsInv ==
  ASSUME RunnerInv, NEW c \in Callers, CallStep(c) \/ \E op \in Ops : Begin(c, op)
  PROVE  RunnerInv'
<1> USE RunnerAssumption DEF RunnerInv, Gens
<1>0. /\ Purged \in Nat /\ Purged \in {0, slot} /\ call[c] \in Records
      /\ call[c].op \in Ops \cup {"none"} /\ call[c].gen \in Nat /\ call[c].ok \in BOOLEAN
      /\ Purged # 0 => task[Purged] # "done"
  BY DEF Purged, Loose, Records
<1>1. CASE \E op \in Ops : Begin(c, op)
  <2>1. PICK op \in Ops : Begin(c, op)
    BY <1>1
  <2>2. Becomes(c, Record(IF op = "start" THEN "check" ELSE "get", op, 0, FALSE))
    BY <2>1, <1>0 DEF Begin, Record, Records, CallPcs, Becomes, Loose
  <2>3. /\ ops < MaxOps /\ ops' = ops + 1 /\ fresh' = (fresh /\ op = "start")
        /\ alone' = (alone /\ \A d \in Callers : call[d].pc = "idle")
        /\ call[c].pc = "idle" /\ UNCHANGED <<slot, generation, task, stops, panics>>
    BY <2>1 DEF Begin
  <2>4. Loose'
    <3>1. fresh' \in BOOLEAN /\ alone' \in BOOLEAN
      BY <2>3 DEF Loose
    <3> QED  BY <2>2, <2>3, <3>1 DEF Loose, Becomes
  <2>5. CallSound'
    <3>1. CASE op = "start"
      BY <3>1, <2>2 DEF CallSound, Becomes, Record
    <3>2. CASE op # "start"
      BY <3>2, <2>2 DEF CallSound, Becomes, Record
    <3> QED  BY <3>1, <3>2
  <2>6. AloneInv'
    <3> SUFFICES ASSUME alone' PROVE (OneCall /\ RoomLeft /\ SlotHolds /\ FreshSound)'
      BY DEF AloneInv
    <3>1. alone /\ OneCall /\ RoomLeft /\ SlotHolds /\ FreshSound
      BY <2>3 DEF AloneInv, Loose
    <3>6. \A d \in Callers : call[d].pc = "idle"
      BY <2>3
    <3>2. OneCall'
      BY <2>2, <2>3 DEF Becomes, OneCall, Loose
    <3>3. RoomLeft'
      BY <3>1, <2>2, <2>3 DEF RoomLeft, Loose
    <3>4. SlotHolds'
      BY <3>1, <2>2, <2>3 DEF SlotHolds, Becomes, Record, Alive
    <3>5. FreshSound'
      <4> SUFFICES ASSUME fresh' PROVE FreshSound!2'
        BY DEF FreshSound
      <4>1. fresh /\ op = "start"
        BY <2>3
      <4> QED  BY <4>1, <3>1, <3>6, <2>2, <2>3 DEF FreshSound, Becomes, Record, InLoop
    <3> QED  BY <3>2, <3>3, <3>4, <3>5
  <2> QED  BY <2>4, <2>5, <2>6
<1>2. CASE Check(c)
  <2>1. IF Purged = 0 THEN Becomes(c, Record("reserve", call[c].op, call[c].gen, call[c].ok))
                      ELSE Becomes(c, Record("idle", call[c].op, 0, FALSE))
    BY <1>0, <1>2, CallMoves, StoppedMoves DEF Check, CallPcs
  <2>2. /\ call[c].pc = "check" /\ slot' = Purged
        /\ UNCHANGED <<generation, task, stops, ops, panics, fresh, alone>>
    BY <1>0, <1>2 DEF Check, Loose
  <2>3. Loose'
    BY <1>0, <2>1, <2>2 DEF Loose, TaskPcs, Becomes
  <2>4. CallSound'
    BY <1>0, <2>1, <2>2 DEF CallSound, Becomes, Record
  <2>5. AloneInv'
    <3> SUFFICES ASSUME alone' PROVE (OneCall /\ RoomLeft /\ SlotHolds /\ FreshSound)'
      BY DEF AloneInv
    <3>1. alone /\ OneCall /\ RoomLeft /\ SlotHolds /\ FreshSound
      BY <2>2 DEF AloneInv
    <3>2. OneCall'
      BY <3>1, <2>1, <2>2 DEF Becomes, OneCall, Record
    <3>3. RoomLeft'
      BY <3>1, <2>1, <2>2 DEF RoomLeft, MayReserve, Becomes, Record, Loose, CallSound, OneCall
    <3>4. SlotHolds'
      BY <3>1, <1>0, <2>1, <2>2
         DEF SlotHolds, RoomLeft, MayReserve, OneCall, Becomes, Record, Alive, Loose, Purged
    <3>5. FreshSound'
      BY <3>1, <1>0, <2>1, <2>2
         DEF FreshSound, SlotHolds, OneCall, Becomes, Record, InLoop, Alive, Loose, CallSound
    <3> QED  BY <3>2, <3>3, <3>4, <3>5
  <2> QED  BY <2>3, <2>4, <2>5
<1>3. CASE Reserve(c)
  <2>1. Becomes(c, Record("install", call[c].op, generation + 1, call[c].ok))
    BY <1>0, <1>3, CallMoves, StoppedMoves DEF Reserve, CallPcs, Loose
  <2>2. /\ call[c].pc = "reserve" /\ generation' = generation + 1
        /\ UNCHANGED <<slot, task, stops, ops, panics, fresh, alone>>
    BY <1>0, <1>3 DEF Reserve, Loose
  <2>3. Loose'
    BY <1>0, <2>1, <2>2 DEF Loose, TaskPcs, Becomes
  <2>4. CallSound'
    BY <1>0, <2>1, <2>2 DEF CallSound, Becomes, Record
  <2>5. AloneInv'
    <3> SUFFICES ASSUME alone' PROVE (OneCall /\ RoomLeft /\ SlotHolds /\ FreshSound)'
      BY DEF AloneInv
    <3>1. alone /\ OneCall /\ RoomLeft /\ SlotHolds /\ FreshSound
      BY <2>2 DEF AloneInv
    <3>2. OneCall'
      BY <3>1, <2>1, <2>2 DEF Becomes, OneCall, Record
    <3>3. RoomLeft'
      <4>1. \A d \in Callers : ~MayReserve(d)'
        BY <3>1, <2>1, <2>2 DEF MayReserve, Becomes, Record, OneCall
      <4>2. generation <= ops /\ generation \in Nat /\ ops \in Nat
        BY <3>1, <2>2 DEF RoomLeft, MayReserve, Loose
      <4>3. generation' = generation + 1 /\ ops' = ops
        BY <2>2
      <4>4. generation' <= ops' + 1
        BY <4>2, <4>3
      <4> QED  BY <4>1, <4>4 DEF RoomLeft, MayReserve
    <3>4. SlotHolds'
      <4>1. generation <= ops /\ generation \in Nat /\ ops \in 0..MaxOps /\ slot \in Nat
        BY <3>1, <2>2 DEF RoomLeft, MayReserve, Loose
      <4>2. generation + 1 \in Gens /\ task[generation + 1] = "none"
        BY <4>1, <3>1 DEF SlotHolds, Loose
      <4>3. \A g \in Gens : ~Alive(g)
        BY <3>1, <2>2 DEF SlotHolds
      <4>4. \A d \in Callers \ {c} : call'[d].pc = "idle"
        BY <3>1, <2>1, <2>2 DEF Becomes, OneCall
      <4>5. call'[c].pc = "install" /\ call'[c].gen = generation + 1
        BY <2>1 DEF Becomes, Record
      <4> QED  BY <4>1, <4>2, <4>3, <4>4, <4>5, <3>1, <2>2 DEF SlotHolds, Alive
    <3>5. FreshSound'
      BY <3>1, <1>0, <2>1, <2>2
         DEF FreshSound, SlotHolds, OneCall, Becomes, Record, InLoop, Alive, Loose, CallSound
    <3> QED  BY <3>2, <3>3, <3>4, <3>5
  <2> QED  BY <2>3, <2>4, <2>5
<1>4. CASE Install(c)
  <2>1. Becomes(c, Record("idle", call[c].op, 0, TRUE))
    BY <1>0, <1>4, CallMoves, StoppedMoves DEF Install, CallPcs
  <2>2. /\ call[c].pc = "install" /\ slot' = call[c].gen
        /\ task' = [task EXCEPT ![call[c].gen] = "idle"] /\ fresh' \in BOOLEAN
        /\ UNCHANGED <<generation, stops, ops, panics, alone>>
    BY <1>0, <1>4 DEF Install, Loose
  <2>3. Loose'
    BY <1>0, <2>1, <2>2 DEF Loose, TaskPcs, Becomes
  <2>4. CallSound'
    BY <1>0, <2>1, <2>2 DEF CallSound, Becomes, Record
  <2>5. AloneInv'
    <3> SUFFICES ASSUME alone' PROVE (OneCall /\ RoomLeft /\ SlotHolds /\ FreshSound)'
      BY DEF AloneInv
    <3>1. alone /\ OneCall /\ RoomLeft /\ SlotHolds /\ FreshSound
      BY <2>2 DEF AloneInv
    <3>2. OneCall'
      BY <3>1, <2>1, <2>2 DEF Becomes, OneCall, Record
    <3>3. RoomLeft'
      BY <3>1, <2>1, <2>2 DEF RoomLeft, MayReserve, Becomes, Record, Loose, CallSound, OneCall
    <3>4. SlotHolds'
      BY <3>1, <1>0, <2>1, <2>2, SMTT(60)
         DEF SlotHolds, RoomLeft, MayReserve, OneCall, Becomes, Record, Alive, Loose, Purged
    <3>5. FreshSound'
      <4>1. /\ generation \in Gens /\ task[generation] = "none" /\ generation \notin stops
            /\ slot' = generation /\ task' = [task EXCEPT ![generation] = "idle"]
        BY <3>1, <2>2 DEF SlotHolds
      <4>2. task'[generation] = "idle"
        BY <4>1 DEF Loose
      <4>3. InLoop(generation)' /\ generation \notin stops'
        BY <4>1, <4>2, <2>2 DEF InLoop
      <4>4. \A d \in Callers : call'[d].pc = "idle"
        BY <3>1, <2>1, <2>2 DEF Becomes, Record, OneCall
      <4> QED  BY <4>1, <4>3, <4>4, <2>2 DEF FreshSound
    <3> QED  BY <3>2, <3>3, <3>4, <3>5
  <2> QED  BY <2>3, <2>4, <2>5
<1>5. CASE Get(c)
  <2>1. IF Purged # 0 THEN Becomes(c, Record("send", call[c].op, Purged, call[c].ok))
        ELSE IF call[c].op = "restart" THEN Becomes(c, Record("check", call[c].op, 0, call[c].ok))
        ELSE Becomes(c, Record("idle", call[c].op, 0, FALSE))
    BY <1>0, <1>5, CallMoves, StoppedMoves DEF Get, CallPcs
  <2>2. /\ call[c].pc = "get" /\ slot' = Purged
        /\ UNCHANGED <<generation, task, stops, ops, panics, fresh, alone>>
    BY <1>0, <1>5 DEF Get, Loose
  <2>3. Loose'
    BY <1>0, <2>1, <2>2 DEF Loose, TaskPcs, Becomes
  <2>4. CallSound'
    BY <1>0, <2>1, <2>2 DEF CallSound, Becomes, Record
  <2>5. AloneInv'
    <3> SUFFICES ASSUME alone' PROVE (OneCall /\ RoomLeft /\ SlotHolds /\ FreshSound)'
      BY DEF AloneInv
    <3>1. alone /\ OneCall /\ RoomLeft /\ SlotHolds /\ FreshSound
      BY <2>2 DEF AloneInv
    <3>2. OneCall'
      BY <3>1, <2>1, <2>2 DEF Becomes, OneCall, Record
    <3>3. RoomLeft'
      BY <3>1, <2>1, <2>2 DEF RoomLeft, MayReserve, Becomes, Record, Loose, CallSound, OneCall
    <3>4. SlotHolds'
      BY <3>1, <1>0, <2>1, <2>2, SMTT(60)
         DEF SlotHolds, RoomLeft, MayReserve, OneCall, Becomes, Record, Alive, Loose, Purged
    <3>5. FreshSound'
      BY <3>1, <1>0, <2>1, <2>2
         DEF FreshSound, SlotHolds, OneCall, Becomes, Record, InLoop, Alive, Loose, CallSound
    <3> QED  BY <3>2, <3>3, <3>4, <3>5
  <2> QED  BY <2>3, <2>4, <2>5
<1>6. CASE SendStop(c)
  <2>1. IF task[call[c].gen] # "done"
        THEN Becomes(c, Record("wait", call[c].op, call[c].gen, call[c].ok))
        ELSE IF call[c].op = "restart" THEN Becomes(c, Record("check", call[c].op, 0, call[c].ok))
        ELSE Becomes(c, Record("idle", call[c].op, 0, FALSE))
    BY <1>0, <1>6, CallMoves, StoppedMoves DEF SendStop, CallPcs
  <2>2. /\ call[c].pc = "send" /\ slot' \in {slot, Purged}
        /\ stops' \in {stops, stops \cup {call[c].gen}}
        /\ UNCHANGED <<generation, task, ops, panics, fresh, alone>>
    BY <1>0, <1>6 DEF SendStop, Loose
  <2>3. Loose'
    BY <1>0, <2>1, <2>2 DEF Loose, TaskPcs, Becomes
  <2>4. CallSound'
    BY <1>0, <2>1, <2>2 DEF CallSound, Becomes, Record
  <2>5. AloneInv'
    <3> SUFFICES ASSUME alone' PROVE (OneCall /\ RoomLeft /\ SlotHolds /\ FreshSound)'
      BY DEF AloneInv
    <3>1. alone /\ OneCall /\ RoomLeft /\ SlotHolds /\ FreshSound
      BY <2>2 DEF AloneInv
    <3>2. OneCall'
      BY <3>1, <2>1, <2>2 DEF Becomes, OneCall, Record
    <3>3. RoomLeft'
      BY <3>1, <2>1, <2>2 DEF RoomLeft, MayReserve, Becomes, Record, Loose, CallSound, OneCall
    <3>4. SlotHolds'
      BY <3>1, <1>0, <2>1, <2>2
         DEF SlotHolds, RoomLeft, MayReserve, OneCall, Becomes, Record, Alive, Loose, Purged
    <3>5. FreshSound'
      BY <3>1, <1>0, <2>1, <2>2
         DEF FreshSound, SlotHolds, OneCall, Becomes, Record, InLoop, Alive, Loose, CallSound
    <3> QED  BY <3>2, <3>3, <3>4, <3>5
  <2> QED  BY <2>3, <2>4, <2>5
<1>7. CASE WaitStopped(c)
  <2>1. Becomes(c, Record("answer", call[c].op, call[c].gen, call[c].ok))
    BY <1>0, <1>7, CallMoves, StoppedMoves DEF WaitStopped, CallPcs
  <2>2. /\ call[c].pc = "wait" /\ slot' = 0 /\ Purged = 0
        /\ UNCHANGED <<generation, task, stops, ops, panics, fresh, alone>>
    BY <1>0, <1>7 DEF WaitStopped, Loose
  <2>3. Loose'
    BY <1>0, <2>1, <2>2 DEF Loose, TaskPcs, Becomes
  <2>4. CallSound'
    BY <1>0, <2>1, <2>2 DEF CallSound, Becomes, Record
  <2>5. AloneInv'
    <3> SUFFICES ASSUME alone' PROVE (OneCall /\ RoomLeft /\ SlotHolds /\ FreshSound)'
      BY DEF AloneInv
    <3>1. alone /\ OneCall /\ RoomLeft /\ SlotHolds /\ FreshSound
      BY <2>2 DEF AloneInv
    <3>2. OneCall'
      BY <3>1, <2>1, <2>2 DEF Becomes, OneCall, Record
    <3>3. RoomLeft'
      BY <3>1, <2>1, <2>2 DEF RoomLeft, MayReserve, Becomes, Record, Loose, CallSound, OneCall
    <3>4. SlotHolds'
      <4>1. \A g \in Gens : ~Alive(g)
        BY <3>1, <2>2 DEF SlotHolds, Purged, Alive
      <4> QED  BY <4>1, <3>1, <2>1, <2>2 DEF SlotHolds, Becomes, Record, Alive, Loose
    <3>5. FreshSound'
      BY <3>1, <1>0, <2>1, <2>2
         DEF FreshSound, SlotHolds, OneCall, Becomes, Record, InLoop, Alive, Loose, CallSound
    <3> QED  BY <3>2, <3>3, <3>4, <3>5
  <2> QED  BY <2>3, <2>4, <2>5
<1>8. CASE WaitTimeout(c)
  <2>1. Becomes(c, Record("answer", call[c].op, call[c].gen, call[c].ok))
    BY <1>0, <1>8, CallMoves, StoppedMoves DEF WaitTimeout, CallPcs
  <2>2. /\ call[c].pc = "wait"
        /\ UNCHANGED <<slot, generation, task, stops, ops, panics, fresh, alone>>
    BY <1>0, <1>8 DEF WaitTimeout, Loose
  <2>3. Loose'
    BY <1>0, <2>1, <2>2 DEF Loose, TaskPcs, Becomes
  <2>4. CallSound'
    BY <1>0, <2>1, <2>2 DEF CallSound, Becomes, Record
  <2>5. AloneInv'
    <3> SUFFICES ASSUME alone' PROVE (OneCall /\ RoomLeft /\ SlotHolds /\ FreshSound)'
      BY DEF AloneInv
    <3>1. alone /\ OneCall /\ RoomLeft /\ SlotHolds /\ FreshSound
      BY <2>2 DEF AloneInv
    <3>2. OneCall'
      BY <3>1, <2>1, <2>2 DEF Becomes, OneCall, Record
    <3>3. RoomLeft'
      BY <3>1, <2>1, <2>2 DEF RoomLeft, MayReserve, Becomes, Record, Loose, CallSound, OneCall
    <3>4. SlotHolds'
      BY <3>1, <1>0, <2>1, <2>2
         DEF SlotHolds, RoomLeft, MayReserve, OneCall, Becomes, Record, Alive, Loose, Purged
    <3>5. FreshSound'
      BY <3>1, <1>0, <2>1, <2>2
         DEF FreshSound, SlotHolds, OneCall, Becomes, Record, InLoop, Alive, Loose, CallSound
    <3> QED  BY <3>2, <3>3, <3>4, <3>5
  <2> QED  BY <2>3, <2>4, <2>5
<1>9. CASE Answer(c)
  <2>1. IF call[c].op = "restart" THEN Becomes(c, Record("check", call[c].op, 0, call[c].ok))
        ELSE Becomes(c, Record("idle", call[c].op, 0, Purged = 0))
    BY <1>0, <1>9, CallMoves, StoppedMoves DEF Answer, CallPcs
  <2>2. /\ call[c].pc = "answer" /\ slot' = Purged
        /\ UNCHANGED <<generation, task, stops, ops, panics, fresh, alone>>
    BY <1>0, <1>9 DEF Answer, Loose
  <2>3. Loose'
    BY <1>0, <2>1, <2>2 DEF Loose, TaskPcs, Becomes
  <2>4. CallSound'
    BY <1>0, <2>1, <2>2 DEF CallSound, Becomes, Record
  <2>5. AloneInv'
    <3> SUFFICES ASSUME alone' PROVE (OneCall /\ RoomLeft /\ SlotHolds /\ FreshSound)'
      BY DEF AloneInv
    <3>1. alone /\ OneCall /\ RoomLeft /\ SlotHolds /\ FreshSound
      BY <2>2 DEF AloneInv
    <3>2. OneCall'
      BY <3>1, <2>1, <2>2 DEF Becomes, OneCall, Record
    <3>3. RoomLeft'
      BY <3>1, <2>1, <2>2 DEF RoomLeft, MayReserve, Becomes, Record, Loose, CallSound, OneCall
    <3>4. SlotHolds'
      BY <3>1, <1>0, <2>1, <2>2
         DEF SlotHolds, RoomLeft, MayReserve, OneCall, Becomes, Record, Alive, Loose, Purged
    <3>5. FreshSound'
      BY <3>1, <1>0, <2>1, <2>2
         DEF FreshSound, SlotHolds, OneCall, Becomes, Record, InLoop, Alive, Loose, CallSound
    <3> QED  BY <3>2, <3>3, <3>4, <3>5
  <2> QED  BY <2>3, <2>4, <2>5
<1> QED  BY <1>1, <1>2, <1>3, <1>4, <1>5, <1>6, <1>7, <1>8, <1>9 DEF CallStep

\* So does every step of a task: it leaves its place in the slot only to end.
LEMMA TaskKeepsInv ==
  ASSUME RunnerInv, NEW g \in Gens,
         Work(g) \/ PassDone(g) \/ Leave(g) \/ Compare(g) \/ Clear(g) \/ Panic(g)
  PROVE  RunnerInv'
<1> USE RunnerAssumption DEF RunnerInv
<1> DEFINE To(from, to) == task[g] = from /\ task' = [task EXCEPT ![g] = to]
<1>1. /\ \/ To("idle", "busy") \/ To("busy", "idle")
         \/ To("idle", "left") /\ (g \in stops \/ ~HasSender(g))
         \/ To("left", "clearing") \/ (To("left", "done") /\ generation # g)
         \/ To("clearing", "done") /\ slot' = 0
         \/ To("busy", "done") /\ ~fresh'
      /\ task[g] # "clearing" => slot' = slot
      /\ slot' \in {0, slot} /\ panics' \in Nat /\ fresh' \in BOOLEAN /\ (fresh' => fresh)
      /\ UNCHANGED <<generation, stops, call, ops, alone>>
  <2>0. panics \in Nat /\ fresh \in BOOLEAN
    BY DEF Loose
  <2>1. CASE Work(g)
    BY <2>0, <2>1 DEF Work, Move
  <2>2. CASE PassDone(g)
    BY <2>0, <2>2 DEF PassDone, Move
  <2>3. CASE Leave(g)
    BY <2>0, <2>3 DEF Leave, Move
  <2>4. CASE Compare(g)
    <3>1. CASE generation = g
      BY <2>0, <2>4, <3>1 DEF Compare, Move
    <3>2. CASE generation # g
      BY <2>0, <2>4, <3>2 DEF Compare, Move
    <3> QED  BY <3>1, <3>2
  <2>5. CASE Clear(g)
    BY <2>0, <2>5 DEF Clear, Move
  <2>6. CASE Panic(g)
    <3>1. To("busy", "done") /\ ~fresh'
      BY <2>6 DEF Panic, Move
    <3>2. /\ panics' \in Nat /\ slot' = slot /\ fresh' = FALSE
          /\ UNCHANGED <<generation, stops, call, ops, alone>>
      BY <2>0, <2>6 DEF Panic
    <3> QED  BY <3>1, <3>2
  <2> QED  BY <2>1, <2>2, <2>3, <2>4, <2>5, <2>6
<1>2. Loose'
  <2>1. task' \in [Gens -> TaskPcs]
    BY <1>1 DEF Loose, TaskPcs
  <2> QED  BY <1>1, <2>1 DEF Loose
<1>3. CallSound'
  BY <1>1 DEF CallSound
<1>4. AloneInv'
  <2> SUFFICES ASSUME alone' PROVE (OneCall /\ RoomLeft /\ SlotHolds /\ FreshSound)'
    BY DEF AloneInv
  <2>1. alone /\ OneCall /\ RoomLeft /\ SlotHolds /\ FreshSound
    BY <1>1 DEF AloneInv
  <2>2. OneCall' /\ RoomLeft'
    BY <1>1, <2>1 DEF OneCall, RoomLeft, MayReserve
  <2>3. /\ task'[g] # "none" /\ \A h \in Gens \ {g} : task'[h] = task[h]
        /\ Alive(g)
    BY <1>1 DEF Loose, Alive
  <2>4. SlotHolds'
    BY <1>1, <2>1, <2>3 DEF SlotHolds, Alive, Loose
  <2>5. FreshSound'
    <3> SUFFICES ASSUME fresh' PROVE FreshSound!2'
      BY DEF FreshSound
    <3>1. fresh
      BY <1>1
    <3>2. PICK h \in Gens : InLoop(h) /\ h \notin stops
      BY <2>1, <3>1 DEF FreshSound
    <3>3. h = g /\ HasSender(g)
      BY <2>1, <2>3, <3>2 DEF SlotHolds, InLoop, Alive, HasSender
    <3>4. task'[g] \in {"idle", "busy"}
      BY <1>1, <3>2, <3>3 DEF InLoop, Loose
    <3> QED  BY <1>1, <2>1, <3>1, <3>2, <3>3, <3>4 DEF FreshSound, InLoop
  <2> QED  BY <2>2, <2>4, <2>5
<1> QED  BY <1>2, <1>3, <1>4

\* The invariant of the life cycle, for every value of the constants.
THEOREM RunnerInvInvariant == RunnerSpec => []RunnerInv
<1>1. RunnerInv /\ [RunnerNext]_runnervars => RunnerInv'
  <2> SUFFICES ASSUME RunnerInv, [RunnerNext]_runnervars PROVE RunnerInv'
    OBVIOUS
  <2>1. CASE RunnerNext
    BY <2>1, CallKeepsInv, TaskKeepsInv DEF RunnerNext
  <2>2. CASE UNCHANGED runnervars
    BY <2>2 DEF runnervars, RunnerInv, Loose, CallSound, AloneInv, OneCall, RoomLeft, MayReserve,
                SlotHolds, FreshSound, Alive, InLoop
  <2> QED  BY <2>1, <2>2
<1> QED  BY RunnerInvInit, <1>1, PTL DEF RunnerSpec

\* As long as no two calls overlapped, no two tasks of the delivery runner or of the
\* cron service are in their loops: a start finds the slot free only when the task it
\* held has ended.
THEOREM OneTaskAlone == RunnerSpec => []NoOverlap
<1>1. RunnerInv => NoOverlap
  <2> SUFFICES ASSUME RunnerInv, alone
               PROVE  Cardinality({g \in Gens : InLoop(g)}) <= 1
    BY DEF NoOverlap
  <2>1. {g \in Gens : InLoop(g)} \subseteq {slot}
    BY DEF RunnerInv, AloneInv, SlotHolds, InLoop, Alive
  <2>2. IsFiniteSet({slot}) /\ Cardinality({slot}) = 1
    BY FS_Singleton
  <2>3. Cardinality({g \in Gens : InLoop(g)}) <= Cardinality({slot})
    BY <2>1, <2>2, FS_Subset
  <2> QED  BY <2>2, <2>3
<1> QED  BY <1>1, RunnerInvInvariant, PTL

\* The only step by which a stop answers true is its last one, on a slot found empty.
LEMMA StopAnswers ==
  ASSUME RunnerInv, NEW c \in Callers, NEW d \in Callers,
         CallStep(d) \/ \E op \in Ops : Begin(d, op),
         call[c].op = "stop", call[c].pc # "idle", call'[c].ok
  PROVE  Purged = 0
<1> USE DEF RunnerInv
<1>0. /\ call[d].op \in Ops \cup {"none"} /\ call[d].gen \in Nat /\ call[d].ok \in BOOLEAN
      /\ Purged \in Nat /\ generation + 1 \in Nat /\ ~call[c].ok
  BY DEF Purged, Loose, Records, CallSound
<1> SUFFICES ASSUME Purged # 0 PROVE ~call'[c].ok
  OBVIOUS
<1>1. CASE \E op \in Ops : Begin(d, op)
  BY <1>0, <1>1 DEF Begin, Loose
<1>2. CASE Check(d)
  <2>1. Becomes(d, Record("idle", call[d].op, 0, FALSE))
    BY <1>0, <1>2, CallMoves DEF Check, CallPcs
  <2> QED  BY <2>1, <1>0 DEF Becomes, Record
<1>3. CASE Reserve(d)
  <2>1. Becomes(d, Record("install", call[d].op, generation + 1, call[d].ok))
    BY <1>0, <1>3, CallMoves DEF Reserve, CallPcs
  <2> QED  BY <2>1, <1>0 DEF Becomes, Record
<1>4. CASE Install(d)
  <2>1. Becomes(d, Record("idle", call[d].op, 0, TRUE))
    BY <1>0, <1>4, CallMoves DEF Install, CallPcs
  <2>2. call[d].pc = "install"
    BY <1>4 DEF Install
  <2>3. d # c
    BY <2>2 DEF CallSound
  <2> QED  BY <2>1, <2>3, <1>0 DEF Becomes
<1>5. CASE Get(d)
  <2>1. Becomes(d, Record("send", call[d].op, Purged, call[d].ok))
    BY <1>0, <1>5, CallMoves DEF Get, CallPcs
  <2> QED  BY <2>1, <1>0 DEF Becomes, Record
<1>6. CASE SendStop(d)
  <2>1. \/ Becomes(d, Record("wait", call[d].op, call[d].gen, call[d].ok))
        \/ Becomes(d, Record("check", call[d].op, 0, call[d].ok))
        \/ Becomes(d, Record("idle", call[d].op, 0, FALSE))
    BY <1>6, CallMoves, StoppedMoves DEF SendStop, CallPcs
  <2> QED  BY <2>1, <1>0 DEF Becomes, Record
<1>7. CASE WaitStopped(d) \/ WaitTimeout(d)
  <2>1. Becomes(d, Record("answer", call[d].op, call[d].gen, call[d].ok))
    BY <1>7, CallMoves DEF WaitStopped, WaitTimeout, CallPcs
  <2> QED  BY <2>1, <1>0 DEF Becomes, Record
<1>8. CASE Answer(d)
  <2>1. \/ Becomes(d, Record("check", call[d].op, 0, call[d].ok))
        \/ Becomes(d, Record("idle", call[d].op, 0, FALSE))
    BY <1>8, StoppedMoves DEF Answer
  <2> QED  BY <2>1, <1>0 DEF Becomes, Record
<1> QED  BY <1>1, <1>2, <1>3, <1>4, <1>5, <1>6, <1>7, <1>8 DEF CallStep

\* What start and stop answer is so, as long as no two calls overlapped: a task runs
\* after a start that answered true and before anything undoes it, and none is left
\* when a stop answers true.
THEOREM AnswersHold == RunnerSpec => AnswersSound
<1>1. RunnerInv => (alone /\ fresh => \E g \in Gens : InLoop(g))
  BY DEF RunnerInv, AloneInv, FreshSound
<1>2. RunnerInv /\ [RunnerNext]_runnervars =>
        [\A c \in Callers :
           alone /\ call[c].op = "stop" /\ call[c].pc # "idle" /\ call'[c].ok
             => \A g \in Gens : ~InLoop(g)]_runnervars
  <2> SUFFICES ASSUME RunnerInv, RunnerNext, NEW c \in Callers,
                      alone, call[c].op = "stop", call[c].pc # "idle", call'[c].ok,
                      NEW g \in Gens
               PROVE  ~InLoop(g)
    OBVIOUS
  <2>1. Loose /\ CallSound /\ SlotHolds
    BY DEF RunnerInv, AloneInv
  <2>2. call' # call
    BY <2>1 DEF CallSound
  <2>3. \E d \in Callers : CallStep(d) \/ \E op \in Ops : Begin(d, op)
    BY <2>2 DEF RunnerNext, Work, PassDone, Leave, Compare, Clear, Panic
  <2>4. Purged = 0
    BY <2>3, StopAnswers
  <2> QED  BY <2>1, <2>4 DEF SlotHolds, Purged, InLoop, Alive, Gens
<1> QED  BY <1>1, <1>2, RunnerInvInvariant, PTL DEF RunnerSpec, AnswersSound

-----------------------------------------------------------------------------
(* CronJobs.                                                               *)

\* compute_next gives None or a second later than the one it was asked about.
LEMMA AfterIsLater ==
  ASSUME NEW i \in Jobs, NEW t \in Nat
  PROVE  After(i, t) \in Nat /\ (After(i, t) # 0 => After(i, t) > t)
<1> DEFINE IsNext(s) == s > t /\ \A u \in Slots[i] : u > t => s <= u
<1>1. Slots[i] \subseteq Nat /\ Period[i] \in Nat
  BY CronAssumption
<1>2. CASE Period[i] > 0
  BY <1>1, <1>2 DEF After
<1>3. CASE ~(Period[i] > 0) /\ \E s \in Slots[i] : IsNext(s)
  <2>1. After(i, t) = CHOOSE s \in Slots[i] : IsNext(s)
    BY <1>3 DEF After
  <2>2. After(i, t) \in Slots[i] /\ IsNext(After(i, t))
    BY <1>3, <2>1
  <2> QED  BY <1>1, <2>2
<1>4. CASE ~(Period[i] > 0) /\ ~ \E s \in Slots[i] : IsNext(s)
  BY <1>4 DEF After
<1> QED  BY <1>2, <1>3, <1>4

\* Where the clock, the runs and the due times stand to each other: a job that
\* is not running right now is due after its last run; the running one ran at
\* the time its next slot will be computed from.
Running(i) == svc.pc = "run" /\ i = svc.cur
TimesOrdered ==
  /\ svc.now <= clock
  /\ \A i \in Jobs :
       /\ ranAt[i] <= clock
       /\ ~Running(i) /\ table[i].next # 0 => table[i].next > ranAt[i]
       /\ Running(i) => ranAt[i] = svc.now
       /\ i \in svc.left => ~Running(i) /\ table[i].next # 0

JobInv == TypeOK /\ DisabledInTime /\ TimesOrdered

\* A service that is off has no times to order.
LEMMA JobInvInit == Init => JobInv
<1> SUFFICES ASSUME Init PROVE JobInv
  OBVIOUS
<1>1. TypeOK
  BY DEF Init, TypeOK, Gone, Rest, Task
<1>2. DisabledInTime
  BY DEF Init, DisabledInTime, Gone
<1>3. TimesOrdered
  BY CronAssumption DEF Init, TimesOrdered, Running, Gone, Rest, Task
<1> QED  BY <1>1, <1>2, <1>3 DEF JobInv

\* What CRON.json is loaded as is typed, in order and below the threshold.
LEMMA LoadedSound ==
  ASSUME JobInv, NEW f \in Contents \cup {Bad}
  PROVE  /\ Loaded(f) \in [Jobs -> [in : BOOLEAN, on : BOOLEAN, errors : Nat, next : Nat]]
         /\ \A i \in Jobs : /\ Loaded(f)[i].errors = 0
                            /\ Loaded(f)[i].next # 0 => Loaded(f)[i].next > clock
<1>1. \A i \in Jobs : After(i, clock) \in Nat /\ (After(i, clock) # 0 => After(i, clock) > clock)
  BY AfterIsLater DEF JobInv, TypeOK
<1> QED  BY <1>1 DEF Loaded, Row, Gone, Contents

\* The two steps of a save keep the types.
LEMMA SaveTypes ==
  ASSUME TypeOK, Saved \/ \E i \in Jobs : Save(i)
  PROVE  /\ file' \in Contents \cup {Bad}
         /\ asked' \in [Jobs -> {"in", "out", "any"}]
         /\ budget' \in [cmds : Nat, faults : Nat, downs : Nat]
<1>1. Image \in Contents
  BY DEF Image, Contents
<1>2. file' \in Contents \cup {Bad}
  BY <1>1 DEF Save, Saved, TypeOK
<1>3. asked' \in [Jobs -> {"in", "out", "any"}]
  <2> DEFINE Answered(j) ==
        asked' = [asked EXCEPT ![j] = IF table'[j].in THEN "in" ELSE "out"]
  <2>1. asked' = asked \/ \E j : Answered(j)
    <3>1. CASE Saved
      <4>1. Answered(svc.cur)
        BY <3>1 DEF Saved, Reply
      <4> QED  BY <4>1
    <3>2. CASE \E j \in Jobs : Save(j)
      BY <3>2 DEF Save, Reply
    <3> QED  BY <3>1, <3>2
  <2>2. ASSUME NEW j, Answered(j) PROVE asked' \in [Jobs -> {"in", "out", "any"}]
    <3>1. PICK x \in {"in", "out"} : asked' = [asked EXCEPT ![j] = x]
      BY <2>2
    <3> QED  BY <3>1 DEF TypeOK
  <2> QED  BY <2>1, <2>2 DEF TypeOK
<1>4. budget' \in [cmds : Nat, faults : Nat, downs : Nat]
  <2>1. budget \in [cmds : Nat, faults : Nat, downs : Nat]
    BY DEF TypeOK
  <2>2. CASE budget' = [budget EXCEPT !.cmds = @ + 1]
    BY <2>1, <2>2
  <2>3. CASE budget' = [budget EXCEPT !.faults = @ + 1]
    BY <2>1, <2>3
  <2>4. CASE budget' = [budget EXCEPT !.cmds = @ + 1, !.faults = @ + 1]
    <3> DEFINE c == budget.cmds + 1
    <3> DEFINE f == budget.faults + 1
    <3>1. c \in Nat /\ f \in Nat
      BY <2>1
    <3>2. budget' = [budget EXCEPT !.cmds = c, !.faults = f]
      BY <2>4
    <3> HIDE DEF c, f
    <3> QED  BY <2>1, <3>1, <3>2
  <2>5. CASE budget' = budget
    BY <2>1, <2>5
  <2> QED  BY <2>2, <2>3, <2>4, <2>5 DEF Save, Saved, Command
<1> QED  BY <1>2, <1>3, <1>4

\* The commands and the environment keep the invariant.
LEMMA CommandsKeepJobInv ==
  ASSUME JobInv,
         \/ Advance \/ Saved \/ Load \/ Down
         \/ \E i \in Jobs : Create(i) \/ Delete(i) \/ Trigger(i)
  PROVE  JobInv'
<1> USE CronAssumption DEF JobInv
<1>1. CASE Advance
  BY <1>1 DEF Advance, TypeOK, DisabledInTime, TimesOrdered, Running
<1>2. CASE Load
  <2>1. PICK f \in Contents \cup {Bad} : table' = Loaded(f)
    BY <1>2 DEF Load, TypeOK
  <2>2. TypeOK'
    <3>1. table' \in [Jobs -> [in : BOOLEAN, on : BOOLEAN, errors : Nat, next : Nat]]
      BY <2>1, LoadedSound
    <3>2. budget' \in [cmds : Nat, faults : Nat, downs : Nat]
      BY <1>2 DEF Load, TypeOK, Command
    <3>3. svc' = Rest("idle") /\ UNCHANGED <<clock, file, ranAt, asked, cut>>
      BY <1>2 DEF Load
    <3> QED  BY <3>1, <3>2, <3>3 DEF TypeOK, Rest, Task
  <2>3. DisabledInTime'
    BY <2>1, LoadedSound DEF DisabledInTime
  <2>4. TimesOrdered'
    <3>1. svc' = Rest("idle") /\ clock' = clock /\ ranAt' = ranAt
      BY <1>2 DEF Load
    <3>2. clock \in Nat /\ \A i \in Jobs : ranAt[i] \in Nat
      BY DEF TypeOK
    <3> QED  BY <2>1, <3>1, <3>2, LoadedSound DEF TimesOrdered, Running, Rest, Task, TypeOK
  <2> QED  BY <2>2, <2>3, <2>4
<1>3. CASE Down
  <2>1. TypeOK'
    BY <1>3 DEF Down, TypeOK, Gone, Rest, Task
  <2>2. DisabledInTime' /\ TimesOrdered'
    BY <1>3 DEF Down, TypeOK, DisabledInTime, TimesOrdered, Running, Gone, Rest, Task
  <2> QED  BY <2>1, <2>2
<1>4. ASSUME NEW i \in Jobs, Create(i) \/ Delete(i) PROVE JobInv'
  <2>1. PICK row \in {Row(TRUE, 0, After(i, clock)), Gone} :
          table' = [table EXCEPT ![i] = row]
    BY <1>4 DEF Create, Delete
  <2>2. /\ row \in [in : BOOLEAN, on : BOOLEAN, errors : Nat, next : Nat]
        /\ row.errors = 0 /\ (row.next # 0 => row.next > clock)
    <3>1. /\ After(i, clock) \in Nat
          /\ After(i, clock) # 0 => After(i, clock) > clock
      BY AfterIsLater DEF TypeOK
    <3>2. CASE row = Gone
      BY <3>2 DEF Gone
    <3>3. CASE row = Row(TRUE, 0, After(i, clock))
      BY <3>1, <3>3 DEF Row
    <3> QED  BY <2>1, <3>2, <3>3
  <2>3. /\ file' \in Contents \cup {Bad} /\ asked' \in [Jobs -> {"in", "out", "any"}]
        /\ budget' \in [cmds : Nat, faults : Nat, downs : Nat]
        /\ svc' \in {svc, Task("save", clock, {}, {}, i, "user")}
    <3>1. Save(i)
      BY <1>4 DEF Create, Delete
    <3> QED  BY <3>1, SaveTypes DEF Save
  <2>4. clock' = clock /\ ranAt' = ranAt /\ cut' = cut /\ svc = Rest("idle")
    BY <1>4 DEF Create, Delete, TypeOK
  <2>5. TypeOK'
    <3>1. table' \in [Jobs -> [in : BOOLEAN, on : BOOLEAN, errors : Nat, next : Nat]]
      BY <2>1, <2>2 DEF TypeOK
    <3> QED  BY <3>1, <2>3, <2>4 DEF TypeOK, Rest, Task
  <2>6. DisabledInTime'
    BY <2>1, <2>2 DEF DisabledInTime, TypeOK
  <2>7. TimesOrdered'
    BY <2>1, <2>2, <2>3, <2>4 DEF TimesOrdered, Running, TypeOK, Rest, Task
  <2> QED  BY <2>5, <2>6, <2>7
<1>5. ASSUME NEW i \in Jobs, Trigger(i) PROVE JobInv'
  <2>1. TypeOK'
    BY <1>5 DEF Trigger, TypeOK, Command, Task
  <2>2. DisabledInTime' /\ TimesOrdered'
    BY <1>5 DEF Trigger, TypeOK, DisabledInTime, TimesOrdered, Running, Task
  <2> QED  BY <2>1, <2>2
<1>6. CASE Saved
  <2>1. /\ svc' = Rest("idle") /\ UNCHANGED <<clock, table, ranAt, cut>>
        /\ svc.pc = "save" /\ svc.cur \in Jobs
    BY <1>6 DEF Saved, TypeOK
  <2>2. /\ file' \in Contents \cup {Bad} /\ asked' \in [Jobs -> {"in", "out", "any"}]
        /\ budget' \in [cmds : Nat, faults : Nat, downs : Nat]
    BY <1>6, SaveTypes
  <2>3. TypeOK'
    BY <2>1, <2>2 DEF TypeOK, Rest, Task
  <2>4. DisabledInTime' /\ TimesOrdered'
    BY <2>1 DEF TypeOK, DisabledInTime, TimesOrdered, Running, Rest, Task
  <2> QED  BY <2>3, <2>4
<1> QED  BY <1>1, <1>2, <1>3, <1>4, <1>5, <1>6

\* So do the steps of a pass.
LEMMA PassKeepsJobInv ==
  ASSUME JobInv, Tick \/ Finish \/ EndPass \/ \E i \in Jobs : RunJob(i)
  PROVE  JobInv'
<1> USE CronAssumption DEF JobInv
<1>1. CASE Tick
  <2>1. TypeOK'
    BY <1>1 DEF Tick, TypeOK, Task, Rest
  <2>2. DisabledInTime' /\ TimesOrdered'
    BY <1>1 DEF Tick, TypeOK, DisabledInTime, TimesOrdered, Running, Task, Rest, Due
  <2> QED  BY <2>1, <2>2
<1>2. CASE Finish
  <2>1. svc.cur \in Jobs /\ svc.pc = "run"
    BY <1>2 DEF Finish, TypeOK
  <2> DEFINE j == svc.cur
  <2>2. /\ After(j, svc.now) \in Nat
        /\ After(j, svc.now) # 0 => After(j, svc.now) > svc.now
    BY <2>1, AfterIsLater DEF TypeOK
  <2>3. PICK row \in {Failed(table[j]), [table[j] EXCEPT !.errors = 0]} :
          table' = [table EXCEPT ![j] = [row EXCEPT !.next = After(j, svc.now)]]
    BY <1>2 DEF Finish
  <2>4. /\ row \in [in : BOOLEAN, on : BOOLEAN, errors : Nat, next : Nat]
        /\ row.on => row.errors < Threshold
    <3>1. table[j] \in [in : BOOLEAN, on : BOOLEAN, errors : Nat, next : Nat]
      BY <2>1 DEF TypeOK
    <3>2. CASE row = Failed(table[j])
      <4> DEFINE n == table[j].errors + 1
      <4>1. row = [in |-> table[j].in, on |-> table[j].on /\ n < Threshold,
                   errors |-> n, next |-> table[j].next]
        BY <3>1, <3>2 DEF Failed
      <4>2. n \in Nat
        BY <3>1
      <4> QED  BY <3>1, <4>1, <4>2
    <3>3. CASE row = [table[j] EXCEPT !.errors = 0]
      BY <3>1, <3>3
    <3> QED  BY <2>3, <3>2, <3>3
  <2>5. /\ svc' = [svc EXCEPT !.pc = "pass", !.cur = NoJob, !.done = svc'.done]
        /\ svc'.done \subseteq Jobs
    BY <1>2, <2>1 DEF Finish, TypeOK
  <2>6. UNCHANGED <<clock, file, ranAt, asked, cut, budget>>
    BY <1>2 DEF Finish
  <2>7. TypeOK'
    BY <2>1, <2>2, <2>3, <2>4, <2>5, <2>6 DEF TypeOK
  <2>8. DisabledInTime'
    BY <2>1, <2>3, <2>4 DEF DisabledInTime, TypeOK
  <2>9. TimesOrdered'
    <3>1. /\ svc'.now = svc.now /\ svc'.left = svc.left /\ svc'.cur = NoJob
          /\ clock' = clock /\ ranAt' = ranAt
      BY <2>5, <2>6 DEF TypeOK
    <3>2. ASSUME NEW i \in Jobs, i # j PROVE table'[i] = table[i]
      BY <2>3, <3>2 DEF TypeOK
    <3>3. table'[j].next = After(j, svc.now)
      BY <2>1, <2>3, <2>4 DEF TypeOK
    <3>4. ranAt[j] = svc.now /\ j \notin svc.left
      BY <2>1 DEF TimesOrdered, Running
    <3> SUFFICES ASSUME NEW i \in Jobs
                 PROVE  /\ ranAt[i] <= clock
                        /\ table'[i].next # 0 => table'[i].next > ranAt[i]
                        /\ i \in svc.left => table'[i].next # 0
      BY <3>1, CronAssumption DEF TimesOrdered, Running
    <3>5. CASE i = j
      BY <2>2, <3>3, <3>4, <3>5 DEF TimesOrdered, Running
    <3>6. CASE i # j
      BY <3>2, <3>6 DEF TimesOrdered, Running
    <3> QED  BY <3>5, <3>6
  <2> QED  BY <2>7, <2>8, <2>9
<1>3. CASE EndPass
  <2>1. TypeOK'
    BY <1>3 DEF EndPass, TypeOK, Gone, Rest, Task
  <2>2. DisabledInTime' /\ TimesOrdered'
    BY <1>3 DEF EndPass, TypeOK, DisabledInTime, TimesOrdered, Running, Gone, Rest, Task
  <2> QED  BY <2>1, <2>2
<1>4. ASSUME NEW i \in Jobs, RunJob(i) PROVE JobInv'
  <2>1. TypeOK'
    BY <1>4 DEF RunJob, TypeOK
  <2>2. DisabledInTime'
    BY <1>4 DEF RunJob, DisabledInTime
  <2>3. TimesOrdered'
    <3>1. /\ svc' = [svc EXCEPT !.pc = "run", !.cur = i, !.left = svc.left \ {i}]
          /\ svc.cur = NoJob /\ i \in svc.left
          /\ ranAt' = [ranAt EXCEPT ![i] = svc.now]
          /\ UNCHANGED <<clock, table>>
      BY <1>4 DEF RunJob, TypeOK
    <3>2. svc'.now = svc.now /\ svc'.left = svc.left \ {i} /\ svc'.cur = i
      BY <3>1 DEF TypeOK
    <3>3. ASSUME NEW k \in Jobs
          PROVE  ranAt'[k] = IF k = i THEN svc.now ELSE ranAt[k]
      BY <3>1 DEF TypeOK
    <3>4. svc.now \in Nat /\ clock \in Nat /\ svc.now <= clock
      BY DEF TypeOK, TimesOrdered
    <3> QED  BY <3>1, <3>2, <3>3, <3>4 DEF TimesOrdered, Running
  <2> QED  BY <2>1, <2>2, <2>3
<1> QED  BY <1>1, <1>2, <1>3, <1>4

\* The invariant holds for every value of the constants.
THEOREM JobInvInvariant == Spec => []JobInv
<1>1. JobInv /\ [Next]_vars => JobInv'
  <2> SUFFICES ASSUME JobInv, [Next]_vars PROVE JobInv'
    OBVIOUS
  <2>1. CASE Next
    BY <2>1, CommandsKeepJobInv, PassKeepsJobInv DEF Next
  <2>2. CASE UNCHANGED vars
    BY <2>2 DEF vars, JobInv, TypeOK, DisabledInTime, TimesOrdered, Running
  <2> QED  BY <2>1, <2>2
<1> QED  BY JobInvInit, <1>1, PTL DEF Spec

\* Repeated failures disable a job in time.
THEOREM FailuresDisable == Spec => []DisabledInTime
<1>1. JobInv => DisabledInTime
  BY DEF JobInv
<1> QED  BY <1>1, JobInvInvariant, PTL

\* No slot of a schedule runs twice, and none runs that had passed at the job's
\* last run.
THEOREM SlotsRunOnce == Spec => SlotOnce
<1>1. JobInv /\ [Next]_vars =>
        [\A i \in Jobs : svc.pc = "pass" /\ svc'.cur = i => table[i].next > ranAt[i]]_vars
  <2> SUFFICES ASSUME JobInv, Next, NEW i \in Jobs, svc.pc = "pass", svc'.cur = i
               PROVE  table[i].next > ranAt[i]
    OBVIOUS
  <2>1. svc.cur = NoJob
    BY DEF JobInv, TypeOK
  <2>2. i # NoJob
    BY CronAssumption
  <2>3. svc' # svc /\ svc' # Rest("idle") /\ svc' # Rest("off")
    BY <2>1, <2>2 DEF Rest, Task
  <2>4. \E k \in Jobs : RunJob(k)
    <3>1. ~Advance /\ ~Load /\ ~Down /\ ~EndPass /\ ~Saved
      BY <2>3 DEF Advance, Load, Down, EndPass, Saved
    <3>2. ~Tick /\ ~Finish /\ \A k \in Jobs : ~Create(k) /\ ~Delete(k) /\ ~Trigger(k)
      BY DEF Tick, Finish, Create, Delete, Trigger
    <3> QED  BY <3>1, <3>2 DEF Next
  <2>5. i \in svc.left
    <3>1. PICK k \in Jobs : RunJob(k)
      BY <2>4
    <3>2. svc'.cur = k
      BY <3>1 DEF RunJob, JobInv, TypeOK
    <3> QED  BY <3>1, <3>2 DEF RunJob
  <2> QED  BY <2>1, <2>2, <2>5 DEF JobInv, TimesOrdered
<1> QED  BY <1>1, JobInvInvariant, PTL DEF Spec, SlotOnce

\* While nothing has failed, CRON.json parses and agrees with the answers except in
\* the middle of a save, and the table, which the save writes, agrees with the answers
\* except of the job being saved.
Saving(i) == svc.pc = "save" /\ i = svc.cur
FileAgrees ==
  svc.pc # "save" =>
    /\ file # Bad
    /\ \A i \in Jobs : /\ asked[i] = "in" => file[i] # "out"
                       /\ asked[i] = "out" => file[i] = "out"
TableAgrees ==
  \A i \in Jobs : ~Saving(i) => /\ asked[i] = "in" /\ svc.pc # "off" => table[i].in
                                /\ asked[i] = "out" => ~table[i].in
Durable == budget.faults = 0 /\ ~cut => FileAgrees /\ TableAgrees

\* A fault counts.
LEMMA FaultCounts ==
  ASSUME TypeOK,
         \/ budget' = [budget EXCEPT !.faults = @ + 1]
         \/ budget' = [budget EXCEPT !.cmds = @ + 1, !.faults = @ + 1]
  PROVE  budget'.faults # 0
<1> DEFINE c == budget.cmds + 1
<1> DEFINE f == budget.faults + 1
<1>1. budget \in [cmds : Nat, faults : Nat, downs : Nat]
  BY DEF TypeOK
<1>2. f \in Nat /\ f # 0
  BY <1>1
<1>3. budget' = [budget EXCEPT !.faults = f] \/ budget' = [budget EXCEPT !.cmds = c, !.faults = f]
  OBVIOUS
<1> HIDE DEF c, f
<1> QED  BY <1>1, <1>2, <1>3

\* A counter of the bounds only grows.
LEMMA FaultsGrow ==
  ASSUME TypeOK, Next, budget'.faults = 0, ~cut'
  PROVE  budget.faults = 0 /\ ~cut
<1>1. budget \in [cmds : Nat, faults : Nat, downs : Nat]
  BY DEF TypeOK
<1>2. \/ budget' = budget
      \/ budget' = [budget EXCEPT !.cmds = @ + 1]
      \/ budget' = [budget EXCEPT !.faults = @ + 1]
      \/ budget' = [budget EXCEPT !.downs = @ + 1]
      \/ budget' = [budget EXCEPT !.cmds = @ + 1, !.faults = @ + 1]
  BY DEF Next, Advance, Saved, Load, Down, Tick, Finish, EndPass, Create, Delete, Trigger,
         RunJob, Command, Save
<1>3. cut' = cut \/ cut' = (cut \/ svc.pc = "save")
  BY DEF Next, Advance, Saved, Load, Down, Tick, Finish, EndPass, Create, Delete, Trigger,
         RunJob
<1>4. budget.faults = 0
  BY <1>1, <1>2, FaultCounts
<1>5. ~cut
  <2>1. CASE cut' = cut
    BY <2>1
  <2>2. CASE cut' = (cut \/ svc.pc = "save")
    BY <2>2
  <2> QED  BY <1>3, <2>1, <2>2
<1> QED  BY <1>4, <1>5

\* Without faults a save writes the table, and a load reads the file.
LEMMA SavesAndLoads ==
  ASSUME TypeOK, budget'.faults = 0
  PROVE  /\ \A i \in Jobs : Save(i) => /\ svc' = Task("save", clock, {}, {}, i, "user")
                                        /\ UNCHANGED asked
         /\ Saved => file' = Image
         /\ Load => table' = Loaded(file)
BY FaultCounts DEF Save, Saved, Load

\* What the commands answered stays true of the file and of a running service's table
\* with every step.
LEMMA DurableStep ==
  ASSUME TypeOK, TypeOK', Durable, Next
  PROVE  Durable'
<1> SUFFICES ASSUME budget'.faults = 0, ~cut'
             PROVE  FileAgrees' /\ TableAgrees'
  BY DEF Durable
<1>1. FileAgrees /\ TableAgrees
  BY FaultsGrow DEF Durable
<1>2. CASE Advance \/ Tick \/ \E i \in Jobs : Trigger(i) \/ RunJob(i)
  <2>1. /\ UNCHANGED <<table, file, asked>>
        /\ \/ svc.pc \notin {"off", "save"} /\ svc'.pc \notin {"off", "save"}
           \/ UNCHANGED svc
    <3>1. CASE Advance
      BY <3>1 DEF Advance
    <3>2. CASE Tick
      BY <3>2 DEF Tick, Task
    <3>3. CASE \E i \in Jobs : Trigger(i)
      BY <3>3 DEF Trigger, Task
    <3>4. CASE \E i \in Jobs : RunJob(i)
      BY <3>4 DEF RunJob, TypeOK
    <3> QED  BY <1>2, <3>1, <3>2, <3>3, <3>4
  <2> QED  BY <1>1, <2>1 DEF FileAgrees, TableAgrees, Saving
<1>3. CASE Load
  <2>1. /\ table' = Loaded(file) /\ UNCHANGED <<file, asked>>
        /\ svc.pc \in {"off", "idle"} /\ svc'.pc = "idle"
    BY <1>3, SavesAndLoads DEF Load, Rest, Task
  <2>2. \A i \in Jobs : table'[i].in <=> file[i] # "out"
    BY <1>1, <2>1 DEF FileAgrees, Loaded, Row, Gone
  <2> QED  BY <1>1, <2>1, <2>2 DEF FileAgrees, TableAgrees
<1>4. CASE Down
  <2>1. /\ svc'.pc = "off" /\ svc.pc # "save" /\ UNCHANGED <<file, asked>>
        /\ \A i \in Jobs : ~table'[i].in
    BY <1>4 DEF Down, Rest, Task, Gone
  <2> QED  BY <1>1, <2>1 DEF FileAgrees, TableAgrees
<1>5. CASE Finish
  <2>1. svc.cur \in Jobs
    BY <1>5 DEF Finish, TypeOK
  <2>2. \A i \in Jobs : table'[i].in = table[i].in
    <3>1. PICK row \in {Failed(table[svc.cur]), [table[svc.cur] EXCEPT !.errors = 0]} :
            table' = [table EXCEPT ![svc.cur] = [row EXCEPT !.next = After(svc.cur, svc.now)]]
      BY <1>5 DEF Finish
    <3>2. table[svc.cur] \in [in : BOOLEAN, on : BOOLEAN, errors : Nat, next : Nat]
      BY <2>1 DEF TypeOK
    <3>3. [row EXCEPT !.next = After(svc.cur, svc.now)].in = table[svc.cur].in
      BY <3>1, <3>2 DEF Failed
    <3> QED  BY <2>1, <3>1, <3>3 DEF TypeOK
  <2>3. svc.pc = "run" /\ svc'.pc = "pass" /\ UNCHANGED <<file, asked>>
    BY <1>5 DEF Finish, TypeOK
  <2> QED  BY <1>1, <2>2, <2>3 DEF FileAgrees, TableAgrees, Saving
<1>6. CASE EndPass
  <2>1. /\ svc.pc = "pass" /\ svc'.pc = "idle" /\ file' = file
        /\ \A i \in Jobs : \/ asked'[i] = "any"
                           \/ asked'[i] = asked[i] /\ table'[i] = table[i]
    BY <1>6 DEF EndPass, Rest, Task
  <2> QED  BY <1>1, <2>1 DEF FileAgrees, TableAgrees, Saving
<1>7. ASSUME NEW j \in Jobs, Create(j) \/ Delete(j)
      PROVE  FileAgrees' /\ TableAgrees'
  <2>1. /\ svc.pc = "idle" /\ svc'.pc = "save" /\ svc'.cur = j /\ asked' = asked
        /\ \A i \in Jobs \ {j} : table'[i] = table[i]
    <3>1. Save(j) /\ svc.pc = "idle" /\ \E row : table' = [table EXCEPT ![j] = row]
      BY <1>7 DEF Create, Delete
    <3>2. svc' = Task("save", clock, {}, {}, j, "user") /\ asked' = asked
      BY <3>1, SavesAndLoads
    <3> QED  BY <3>1, <3>2 DEF Task, TypeOK
  <2> QED  BY <1>1, <2>1 DEF FileAgrees, TableAgrees, Saving
<1>8. CASE Saved
  <2>1. /\ svc.pc = "save" /\ svc'.pc = "idle" /\ file' = Image /\ table' = table
        /\ svc.cur \in Jobs
    BY <1>8, SavesAndLoads DEF Saved, Rest, Task, TypeOK
  <2>2. \A i \in Jobs : asked'[i] = IF i = svc.cur THEN IF table[i].in THEN "in" ELSE "out"
                                    ELSE asked[i]
    <3>1. asked' = [asked EXCEPT ![svc.cur] = IF table[svc.cur].in THEN "in" ELSE "out"]
      <4>1. Reply(svc.cur)
        BY <1>8 DEF Saved
      <4> QED  BY <4>1, <2>1 DEF Reply
    <3> QED  BY <3>1, <2>1 DEF TypeOK
  <2>3. file' \in Contents /\ \A i \in Jobs : file'[i] = "out" <=> ~table[i].in
    BY <2>1 DEF Image, Contents
  <2>4. file' # Bad
    BY <2>3, CronAssumption DEF Contents
  <2>5. TableAgrees'
    BY <1>1, <2>1, <2>2 DEF TableAgrees, Saving
  <2> QED  BY <1>1, <2>1, <2>2, <2>3, <2>4, <2>5 DEF FileAgrees, TableAgrees, Saving
<1> QED  BY <1>2, <1>3, <1>4, <1>5, <1>6, <1>7, <1>8 DEF Next

\* What create and delete answered outlasts stops, crashes and reloads, as long as no
\* file operation fails and the service does not die in the middle of writing CRON.json.
THEOREM AnswersOutlast == Spec => []CommandsDurable
<1>1. Init => Durable
  BY CronAssumption
     DEF Init, Durable, FileAgrees, TableAgrees, Saving, Gone, Contents, Rest, Task
<1>2. JobInv /\ JobInv' /\ Durable /\ [Next]_vars => Durable'
  <2>1. CASE UNCHANGED vars
    BY <2>1 DEF vars, Durable, FileAgrees, TableAgrees, Saving
  <2> QED  BY <2>1, DurableStep DEF JobInv
<1>3. Durable => CommandsDurable
  BY DEF Durable, FileAgrees, TableAgrees, Saving, CommandsDurable
<1> QED  BY <1>1, <1>2, <1>3, JobInvInvariant, PTL DEF Spec
=============================================================================
