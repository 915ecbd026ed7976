-------------------------- MODULE WorktreesProofs --------------------------
(***************************************************************************)
(* Proofs about TaskGraph and Worktrees, for any agents, names and bounds  *)
(* and in every interleaving: the edges mirror but for a file written over *)
(* with an older copy, completion unblocks and a claim is sound; the index *)
(* lists every worktree, and a removal completes its task.                 *)
(***************************************************************************)
EXTENDS Worktrees, SequenceTheorems, TLAPS

\* The task graph; the count of the faults aside, which a failing index also raises.
graph == <<exist, file, op, aborts, stale, ever, claims>>

Operations ==
  [pc : OpPcs, id : Ids, base : Tasks, copy : Tasks, st : Statuses \cup {"none"},
   deps : SUBSET Refs, downs : SUBSET Refs, read : [Ids -> Tasks], todo : SUBSET Ids,
   met : BOOLEAN]

GraphTypes ==
  /\ exist \subseteq Ids /\ file \in [Ids -> Tasks]
  /\ op \in [Agents -> Operations] /\ aborts \in Nat
  /\ stale \subseteq Ids /\ ever \subseteq Ids /\ claims \in [Ids -> SUBSET Agents]

\* Operation o holds a copy of its task.
Holding == {"link", "saveDep", "saveDown", "clear", "save", "claim"}
Holds(o, i) == o.pc \in Holding /\ o.id = i

\* Operation o will not return before task d has been completed, unless a write fails.
Completes(o, d) == o.pc \in {"clear", "save"} /\ o.st = "completed" /\ o.id = d

\* What is true of an edge once either end has named the other, and remains so: task i is
\* among those that d blocks, or is about to be; i waits for d, or is about to, unless d has
\* been completed, or is about to be.  A file that was written over excuses both.
Linked(i, d) ==
  \/ aborts > 0 \/ i \in file[d].blocks \/ d \in stale
  \/ \E b \in Agents : Holds(op[b], d) /\ i \in op[b].copy.blocks
Waited(i, d) ==
  \/ aborts > 0 \/ d \in file[i].blockedBy \/ i \in stale \/ d \in ever
  \/ \E b \in Agents : Holds(op[b], i) /\ d \in op[b].copy.blockedBy
  \/ \E b \in Agents : Completes(op[b], d)

\* The edges of a version of task i: the ones in the sets are about to be written.
Sound(i, blockedBy, blocks) ==
  (\A d \in blockedBy : Linked(i, d)) /\ (\A d \in blocks : Waited(d, i))

Unwritten(o, pc) == IF o.pc = pc THEN o.todo ELSE {}
Copies(o) ==
  /\ o.pc \in Holding => Sound(o.id, o.copy.blockedBy \ Unwritten(o, "saveDep"),
                               o.copy.blocks \ Unwritten(o, "saveDown"))
  /\ \A i \in o.todo : Sound(i, o.read[i].blockedBy, o.read[i].blocks)

\* The fields of an operation, whatever the files have become.
Hand(a) ==
  LET o == op[a] IN
  /\ o.todo \subseteq exist /\ (o.pc \notin {"saveDep", "saveDown", "clear"} => o.todo = {})
  /\ o.pc \in Holding => /\ o.id \in exist
                         /\ o.base.blockedBy \subseteq o.copy.blockedBy
                         /\ o.base.blocks \subseteq o.copy.blocks
  /\ o.pc \in Holding \ {"claim"} => o.copy.owner = o.base.owner
  /\ o.pc = "claim" => /\ o.copy.owner = a /\ o.base.owner = NoOwner
                       /\ o.base.blockedBy = {} /\ o.copy.blockedBy = {}
  /\ o.pc = "saveDep" => \E d \in o.copy.blockedBy : o.todo = {d}
  /\ o.pc = "saveDown" => \E d \in o.copy.blocks : o.todo = {d}
  /\ o.pc = "clear" => o.st = "completed"
  /\ o.pc \in {"clear", "save"} /\ o.st = "completed" => o.copy.status = "completed"

\* An operation that met no other has the graph to itself; one that completes its task has
\* yet to clear every file that names it.
Alone(a) ==
  op[a].pc # "idle" /\ ~op[a].met => \A b \in Agents \ {a} : op[b].pc = "idle"
Clearing(a) ==
  LET o == op[a] IN
  o.pc \in {"clear", "save"} /\ o.st = "completed" /\ ~o.met =>
    \A i \in exist : o.id \in file[i].blockedBy => o.pc = "clear" /\ i \in o.todo

\* What does not exist has no content; a task that was claimed keeps an owner.
Owned ==
  \A i \in Ids : /\ i \notin exist => file[i] = New /\ claims[i] = {}
                 /\ claims[i] # {} /\ i \notin stale => file[i].owner # NoOwner

GraphInv ==
  /\ GraphTypes /\ Owned
  /\ \A i \in Ids : Sound(i, file[i].blockedBy, file[i].blocks)
  /\ \A a \in Agents : Hand(a) /\ Copies(op[a]) /\ Alone(a) /\ Clearing(a)

\* The constants of the module have the types they are used at.
LEMMA Values ==
  /\ New \in Tasks /\ Idle \in Operations /\ Ids \subseteq Refs
  /\ Idle.pc = "idle" /\ Idle.todo = {} /\ NoOwner \notin Agents
  /\ New.blockedBy = {} /\ New.blocks = {} /\ New.owner = NoOwner
<1>1. 1 \in Ids /\ Ids \subseteq Refs
  BY GraphAssumption DEF Ids, Refs
<1>2. New \in Tasks
  BY DEF New, Tasks, Statuses
<1>3. [i \in Ids |-> New] \in [Ids -> Tasks]
  BY <1>2
<1>4. Idle \in Operations
  BY <1>1, <1>2, <1>3 DEF Idle, Operations, OpPcs
<1> QED  BY <1>1, <1>2, <1>4, GraphAssumption DEF Idle, New

\* The records behind the state, field by field.
LEMMA TaskFields ==
  \A t \in Tasks : /\ t.status \in Statuses /\ t.blockedBy \subseteq Ids
                   /\ t.blocks \subseteq Ids /\ t.owner \in Agents \cup {NoOwner}
BY DEF Tasks

LEMMA OperationFields ==
  \A o \in Operations : /\ o.pc \in OpPcs /\ o.id \in Ids /\ o.base \in Tasks
                        /\ o.copy \in Tasks /\ o.st \in Statuses \cup {"none"}
                        /\ o.deps \subseteq Refs /\ o.downs \subseteq Refs
                        /\ o.read \in [Ids -> Tasks] /\ o.todo \subseteq Ids
                        /\ o.met \in BOOLEAN
BY DEF Operations

\* Two operations with the same fields, but for whether they met another.
Alike(o, n) ==
  /\ n.pc = o.pc /\ n.id = o.id /\ n.base = o.base /\ n.copy = o.copy /\ n.st = o.st
  /\ n.deps = o.deps /\ n.downs = o.downs /\ n.read = o.read /\ n.todo = o.todo

LEMMA MetFields ==
  ASSUME NEW o \in Operations, NEW m \in BOOLEAN, NEW n, n = [o EXCEPT !.met = m]
  PROVE  n \in Operations /\ Alike(o, n) /\ n.met = m
BY DEF Operations, Alike

\* What the beginning of an operation leaves of all of them.
LEMMA Started ==
  ASSUME GraphTypes, NEW a \in Agents, NEW o \in Operations, Start(a, o)
  PROVE  /\ op' \in [Agents -> Operations] /\ Alike(o, op'[a])
         /\ op'[a].met = (\E c \in Agents \ {a} : op[c].pc # "idle")
         /\ \A b \in Agents \ {a} :
              /\ Alike(op[b], op'[b]) /\ (op[b].met => op'[b].met)
              /\ op[b].pc # "idle" => op'[b].met
<1> DEFINE m == \E c \in Agents \ {a} : op[c].pc # "idle"
<1>0. op \in [Agents -> Operations] /\ m \in BOOLEAN
  BY DEF GraphTypes
<1>1. /\ op' = [b \in Agents |-> op'[b]]
      /\ op'[a] = [o EXCEPT !.met = m]
      /\ \A b \in Agents \ {a} :
           op'[b] = IF op[b].pc = "idle" THEN op[b] ELSE [op[b] EXCEPT !.met = TRUE]
  BY DEF Start
<1> HIDE DEF m
<1>2. op'[a] \in Operations /\ Alike(o, op'[a]) /\ op'[a].met = m
  BY <1>0, <1>1, MetFields
<1>3. ASSUME NEW b \in Agents \ {a}
      PROVE  /\ op'[b] \in Operations /\ Alike(op[b], op'[b]) /\ (op[b].met => op'[b].met)
             /\ op[b].pc # "idle" => op'[b].met
  <2>1. CASE op[b].pc = "idle"
    BY <1>0, <1>1, <2>1 DEF Alike
  <2>2. CASE op[b].pc # "idle"
    BY <1>0, <1>1, <2>2, MetFields
  <2> QED  BY <2>1, <2>2
<1>4. op' \in [Agents -> Operations]
  BY <1>1, <1>2, <1>3
<1> QED  BY <1>2, <1>3, <1>4 DEF m

\* An operation that begins holds a copy of the file, with the changes it makes.
Begun(a) ==
  LET n == op'[a] IN
  /\ op[a].pc = "idle" /\ UNCHANGED <<exist, file, aborts, stale, ever, claims>>
  /\ n.pc \in {"create", "link", "save", "claim"} /\ n.todo = {}
  /\ n.pc # "create" =>
       /\ n.id \in exist /\ n.base = file[n.id]
       /\ n.copy.blockedBy = file[n.id].blockedBy /\ n.copy.blocks = file[n.id].blocks
  /\ n.pc \in {"link", "save"} => n.copy.owner = file[n.id].owner
  /\ n.pc = "save" => n.st = "none"
  /\ n.pc = "claim" => /\ n.copy.owner = a /\ file[n.id].owner = NoOwner
                       /\ file[n.id].blockedBy = {}
  /\ n.met = (\E c \in Agents \ {a} : op[c].pc # "idle")
  /\ \A b \in Agents \ {a} : /\ Alike(op[b], op'[b]) /\ (op[b].met => op'[b].met)
                             /\ op[b].pc # "idle" => op'[b].met

LEMMA BegunIf ==
  ASSUME GraphTypes, NEW a \in Agents, NEW o \in Operations, Start(a, o),
         op[a].pc = "idle", UNCHANGED <<exist, file, aborts, stale, ever, claims>>,
         o.pc \in {"create", "link", "save", "claim"}, o.todo = {},
         o.pc # "create" =>
           /\ o.id \in exist /\ o.base = file[o.id]
           /\ o.copy.blockedBy = file[o.id].blockedBy /\ o.copy.blocks = file[o.id].blocks,
         o.pc \in {"link", "save"} => o.copy.owner = file[o.id].owner,
         o.pc = "save" => o.st = "none",
         o.pc = "claim" => /\ o.copy.owner = a /\ file[o.id].owner = NoOwner
                           /\ file[o.id].blockedBy = {}
  PROVE  Begun(a) /\ GraphTypes'
<1>1. /\ op' \in [Agents -> Operations] /\ Alike(o, op'[a])
      /\ op'[a].met = (\E c \in Agents \ {a} : op[c].pc # "idle")
      /\ \A b \in Agents \ {a} :
           /\ Alike(op[b], op'[b]) /\ (op[b].met => op'[b].met)
           /\ op[b].pc # "idle" => op'[b].met
  BY Started
<1>2. GraphTypes'
  BY <1>1 DEF GraphTypes
<1> DEFINE n == op'[a]
<1>3. /\ n.pc = o.pc /\ n.id = o.id /\ n.base = o.base /\ n.copy = o.copy /\ n.st = o.st
      /\ n.todo = o.todo
  BY <1>1 DEF Alike
<1>4. Begun(a)
  BY <1>1, <1>3 DEF Begun
<1> QED  BY <1>2, <1>4

LEMMA OperationBegins ==
  ASSUME GraphTypes, NEW a \in Agents, Begins(a)
  PROVE  Begun(a) /\ GraphTypes'
<1>0. (\A i \in Ids : file[i] \in Tasks) /\ exist \subseteq Ids
  BY DEF GraphTypes
<1>1. CASE BeginCreate(a)
  <2> DEFINE o(id) == [Idle EXCEPT !.pc = "create", !.id = id]
  <2>1. PICK id \in Ids : Start(a, o(id))
    BY <1>1 DEF BeginCreate
  <2>2. o(id) \in Operations
    BY Values DEF Operations, OpPcs
  <2>3. o(id).pc = "create" /\ o(id).todo = {}
    BY DEF Idle
  <2> HIDE DEF o
  <2> QED  BY <1>1, <2>1, <2>2, <2>3, BegunIf DEF BeginCreate, CanStart
<1>2. ASSUME NEW id \in Ids, NEW st \in Statuses \cup {"none"}, NEW deps \in SUBSET Refs,
             NEW downs \in SUBSET Refs, BeginUpdate(a, id, st, deps, downs)
      PROVE  Begun(a) /\ GraphTypes'
  <2> DEFINE o == [Idle EXCEPT !.pc = "link", !.id = id, !.base = file[id],
                     !.copy = file[id], !.st = st, !.deps = deps, !.downs = downs]
  <2>1. o \in Operations
    BY <1>0, Values DEF Operations, OpPcs
  <2>2. o.pc = "link" /\ o.todo = {} /\ o.id = id /\ o.base = file[id] /\ o.copy = file[id]
    BY DEF Idle
  <2>3. Start(a, o)
    BY <1>2 DEF BeginUpdate
  <2> HIDE DEF o
  <2> QED  BY <1>2, <2>1, <2>2, <2>3, BegunIf DEF BeginUpdate, CanStart
<1>3. ASSUME NEW id \in Ids, BeginClaim(a, id)
      PROVE  Begun(a) /\ GraphTypes'
  <2> DEFINE c == [file[id] EXCEPT !.owner = a, !.status = "in_progress"]
             o == [Idle EXCEPT !.pc = "claim", !.id = id, !.base = file[id], !.copy = c]
  <2>1. c \in Tasks /\ c.owner = a /\ c.blockedBy = file[id].blockedBy
        /\ c.blocks = file[id].blocks
    <3>1. \A t \in Tasks :
            LET u == [t EXCEPT !.owner = a, !.status = "in_progress"] IN
            u \in Tasks /\ u.owner = a /\ u.blockedBy = t.blockedBy /\ u.blocks = t.blocks
      BY DEF Tasks, Statuses
    <3> QED  BY <1>0, <3>1
  <2> HIDE DEF c
  <2>2. o \in Operations
    BY <1>0, <2>1, Values DEF Operations, OpPcs
  <2>3. o.pc = "claim" /\ o.todo = {} /\ o.id = id /\ o.base = file[id] /\ o.copy = c
    BY DEF Idle
  <2>4. Start(a, o)
    BY <1>3 DEF BeginClaim, c
  <2> HIDE DEF o
  <2> QED  BY <1>3, <2>1, <2>2, <2>3, <2>4, BegunIf DEF BeginClaim, CanStart
<1>4. ASSUME NEW id \in Ids, NEW bind \in BOOLEAN, BindWorktree(a, id, bind)
      PROVE  Begun(a) /\ GraphTypes'
  <2> DEFINE c == [file[id] EXCEPT !.tree = bind,
                     !.status = IF bind /\ @ = "pending" THEN "in_progress" ELSE @]
             o == [Idle EXCEPT !.pc = "save", !.id = id, !.base = file[id], !.copy = c]
  <2>1. c \in Tasks /\ c.owner = file[id].owner /\ c.blockedBy = file[id].blockedBy
        /\ c.blocks = file[id].blocks
    <3>1. \A t \in Tasks, s \in Statuses :
            LET u == [t EXCEPT !.tree = bind, !.status = s] IN
            /\ u \in Tasks /\ u.owner = t.owner /\ u.blockedBy = t.blockedBy
            /\ u.blocks = t.blocks
      BY DEF Tasks
    <3>2. \A t \in Tasks : (IF bind /\ t.status = "pending" THEN "in_progress" ELSE t.status)
                              \in Statuses
      BY TaskFields DEF Statuses
    <3>3. PICK s \in Statuses : c = [file[id] EXCEPT !.tree = bind, !.status = s]
      BY <1>0, <3>2 DEF Tasks
    <3> HIDE DEF c
    <3> QED  BY <1>0, <3>1, <3>3
  <2> HIDE DEF c
  <2>2. o \in Operations
    BY <1>0, <2>1, Values DEF Operations, OpPcs
  <2>3. /\ o.pc = "save" /\ o.todo = {} /\ o.id = id /\ o.base = file[id] /\ o.copy = c
        /\ o.st = "none"
    BY DEF Idle
  <2>4. Start(a, o)
    BY <1>4 DEF BindWorktree, c
  <2> HIDE DEF o
  <2> QED  BY <1>4, <2>1, <2>2, <2>3, <2>4, BegunIf DEF BindWorktree, CanStart
<1> QED  BY <1>1, <1>2, <1>3, <1>4 DEF Begins

\* What a step of an operation under way leaves of all of them, and of the files.
LEMMA SetFacts ==
  ASSUME GraphTypes, NEW a \in Agents, NEW n \in Operations, Set(a, n)
  PROVE  /\ op' \in [Agents -> Operations] /\ op'[a] = n
         /\ \A b \in Agents \ {a} : op'[b] = op[b]
BY DEF GraphTypes, Set

LEMMA WriteFacts ==
  ASSUME GraphTypes, NEW i \in Ids, NEW t \in Tasks, NEW read, Write(i, t, read)
  PROVE  /\ file' \in [Ids -> Tasks] /\ file'[i] = t
         /\ \A j \in Ids \ {i} : file'[j] = file[j]
         /\ stale \subseteq stale' /\ stale' \subseteq Ids
         /\ i \in stale' \/ read = file[i]
BY DEF GraphTypes, Write

\* The operation goes on, or returns, and the others wait.
Waiting(a) == \A b \in Agents \ {a} : op'[b] = op[b]
Returns(a) == op[a].pc # "idle" /\ op'[a] = Idle /\ Waiting(a)
Proceeds(a) ==
  LET o == op[a]  n == op'[a] IN
  /\ n.id = o.id /\ n.base = o.base /\ n.st = o.st /\ n.met = o.met
  /\ n.copy.owner = o.copy.owner /\ Waiting(a)
  /\ UNCHANGED <<exist, aborts, ever, claims>>

\* A blocker is pushed on the copy; its other end is there, or is written next.
VisitedDep(a, d) ==
  LET o == op[a]  n == op'[a] IN
  /\ n.copy.blocks = o.copy.blocks /\ n.copy.blockedBy = o.copy.blockedBy \cup {d}
  /\ \/ o.id \in file[d].blocks /\ n.pc = "link" /\ n.todo = o.todo
     \/ n.pc = "saveDep" /\ n.todo = {d} /\ n.read[d] = file[d]

LEMMA DepVisited ==
  ASSUME GraphTypes, NEW a \in Agents, VisitDep(a)
  PROVE  /\ op[a].pc = "link" /\ Proceeds(a) /\ UNCHANGED <<file, stale>> /\ GraphTypes'
         /\ \E d \in exist : VisitedDep(a, d)
<1> DEFINE o == op[a]  n == op'[a]
<1>0. o \in Operations /\ o.id \in Ids /\ o.copy \in Tasks /\ exist \subseteq Ids
      /\ o.pc = "link"
  BY OperationFields, SMTT(60) DEF GraphTypes, VisitDep
<1>1. PICK d \in o.deps \cap exist :
        LET linked == [o EXCEPT !.copy.blockedBy = @ \cup {d}, !.deps = @ \ {d}] IN
        Set(a, IF o.id \in file[d].blocks THEN linked
               ELSE [linked EXCEPT !.pc = "saveDep", !.todo = {d}, !.read[d] = file[d]])
  BY DEF VisitDep
<1> DEFINE c == [o.copy EXCEPT !.blockedBy = @ \cup {d}]
           linked == [o EXCEPT !.copy.blockedBy = @ \cup {d}, !.deps = @ \ {d}]
           saving == [linked EXCEPT !.pc = "saveDep", !.todo = {d}, !.read[d] = file[d]]
<1>2. /\ c \in Tasks /\ c.blocks = o.copy.blocks /\ c.owner = o.copy.owner
      /\ c.blockedBy = o.copy.blockedBy \cup {d}
  BY <1>0 DEF Tasks
<1>3. linked = [o EXCEPT !.copy = c, !.deps = @ \ {d}]
  BY <1>0 DEF Operations
<1> HIDE DEF c, linked
<1>4. /\ linked \in Operations /\ linked.pc = "link" /\ linked.id = o.id
      /\ linked.base = o.base /\ linked.st = o.st /\ linked.met = o.met
      /\ linked.copy = c /\ linked.todo = o.todo
  BY <1>0, <1>2, <1>3 DEF Operations
<1>5. /\ saving \in Operations /\ saving.pc = "saveDep" /\ saving.id = linked.id
      /\ saving.base = linked.base /\ saving.st = linked.st /\ saving.met = linked.met
      /\ saving.copy = linked.copy /\ saving.todo = {d} /\ saving.read[d] = file[d]
  <2>1. d \in Ids /\ file[d] \in Tasks
    BY <1>0 DEF GraphTypes
  <2> QED  BY <1>4, <2>1 DEF Operations, OpPcs
<1> HIDE DEF saving
<1>6. Set(a, IF o.id \in file[d].blocks THEN linked ELSE saving)
  BY <1>1 DEF linked, saving
<1>7. UNCHANGED <<exist, file, ops, faults, aborts, stale, ever, claims>>
  BY DEF VisitDep
<1>8. /\ op' \in [Agents -> Operations] /\ Waiting(a)
      /\ n = IF o.id \in file[d].blocks THEN linked ELSE saving
  BY <1>4, <1>5, <1>6, SetFacts DEF Waiting
<1>9. GraphTypes'
  BY <1>7, <1>8 DEF GraphTypes
<1>10. Proceeds(a)
  BY <1>2, <1>4, <1>5, <1>7, <1>8 DEF Proceeds
<1>11. VisitedDep(a, d)
  BY <1>2, <1>4, <1>5, <1>8 DEF VisitedDep
<1> QED  BY <1>0, <1>7, <1>9, <1>10, <1>11

\* A dependent is pushed on the copy; its other end is there, or is written next.
VisitedDown(a, d) ==
  LET o == op[a]  n == op'[a] IN
  /\ n.copy.blockedBy = o.copy.blockedBy /\ n.copy.blocks = o.copy.blocks \cup {d}
  /\ \/ o.id \in file[d].blockedBy /\ n.pc = "link" /\ n.todo = o.todo
     \/ n.pc = "saveDown" /\ n.todo = {d} /\ n.read[d] = file[d]

LEMMA DownVisited ==
  ASSUME GraphTypes, NEW a \in Agents, VisitDown(a)
  PROVE  /\ op[a].pc = "link" /\ Proceeds(a) /\ UNCHANGED <<file, stale>> /\ GraphTypes'
         /\ \E d \in exist : VisitedDown(a, d)
<1> DEFINE o == op[a]  n == op'[a]
<1>0. o \in Operations /\ o.id \in Ids /\ o.copy \in Tasks /\ exist \subseteq Ids
      /\ o.pc = "link"
  BY OperationFields, SMTT(60) DEF GraphTypes, VisitDown
<1>1. PICK d \in o.downs \cap exist :
        LET linked == [o EXCEPT !.copy.blocks = @ \cup {d}, !.downs = @ \ {d}] IN
        Set(a, IF o.id \in file[d].blockedBy THEN linked
               ELSE [linked EXCEPT !.pc = "saveDown", !.todo = {d}, !.read[d] = file[d]])
  BY DEF VisitDown
<1> DEFINE c == [o.copy EXCEPT !.blocks = @ \cup {d}]
           linked == [o EXCEPT !.copy.blocks = @ \cup {d}, !.downs = @ \ {d}]
           saving == [linked EXCEPT !.pc = "saveDown", !.todo = {d}, !.read[d] = file[d]]
<1>2. /\ c \in Tasks /\ c.blockedBy = o.copy.blockedBy /\ c.owner = o.copy.owner
      /\ c.blocks = o.copy.blocks \cup {d}
  BY <1>0 DEF Tasks
<1>3. linked = [o EXCEPT !.copy = c, !.downs = @ \ {d}]
  BY <1>0 DEF Operations
<1> HIDE DEF c, linked
<1>4. /\ linked \in Operations /\ linked.pc = "link" /\ linked.id = o.id
      /\ linked.base = o.base /\ linked.st = o.st /\ linked.met = o.met
      /\ linked.copy = c /\ linked.todo = o.todo
  BY <1>0, <1>2, <1>3 DEF Operations
<1>5. /\ saving \in Operations /\ saving.pc = "saveDown" /\ saving.id = linked.id
      /\ saving.base = linked.base /\ saving.st = linked.st /\ saving.met = linked.met
      /\ saving.copy = linked.copy /\ saving.todo = {d} /\ saving.read[d] = file[d]
  <2>1. d \in Ids /\ file[d] \in Tasks
    BY <1>0 DEF GraphTypes
  <2> QED  BY <1>4, <2>1 DEF Operations, OpPcs
<1> HIDE DEF saving
<1>6. Set(a, IF o.id \in file[d].blockedBy THEN linked ELSE saving)
  BY <1>1 DEF linked, saving
<1>7. UNCHANGED <<exist, file, ops, faults, aborts, stale, ever, claims>>
  BY DEF VisitDown
<1>8. /\ op' \in [Agents -> Operations] /\ Waiting(a)
      /\ n = IF o.id \in file[d].blockedBy THEN linked ELSE saving
  BY <1>4, <1>5, <1>6, SetFacts DEF Waiting
<1>9. GraphTypes'
  BY <1>7, <1>8 DEF GraphTypes
<1>10. Proceeds(a)
  BY <1>2, <1>4, <1>5, <1>7, <1>8 DEF Proceeds
<1>11. VisitedDown(a, d)
  BY <1>2, <1>4, <1>5, <1>8 DEF VisitedDown
<1> QED  BY <1>0, <1>7, <1>9, <1>10, <1>11

\* The neighbour's copy is written with the other end of the edge.
SavedNeighbour(a, d) ==
  LET o == op[a]  n == op'[a]  t == file'[d] IN
  /\ o.pc \in {"saveDep", "saveDown"} /\ d \in o.todo /\ n.pc = "link" /\ n.todo = {}
  /\ n.copy = o.copy /\ t.owner = o.read[d].owner
  /\ o.pc = "saveDep" => /\ t.blocks = o.read[d].blocks \cup {o.id}
                         /\ t.blockedBy = o.read[d].blockedBy
  /\ o.pc = "saveDown" => /\ t.blockedBy = o.read[d].blockedBy \cup {o.id}
                          /\ t.blocks = o.read[d].blocks
  /\ \A j \in Ids \ {d} : file'[j] = file[j]
  /\ stale \subseteq stale' /\ (d \in stale' \/ o.read[d] = file[d])

LEMMA NeighbourSaved ==
  ASSUME GraphTypes, NEW a \in Agents, SaveNeighbour(a)
  PROVE  Proceeds(a) /\ GraphTypes' /\ \E d \in Ids : SavedNeighbour(a, d)
<1> DEFINE o == op[a]  n == op'[a]
           back == [o EXCEPT !.pc = "link", !.todo = {}, !.read = Idle.read]
           wt(d) == IF o.pc = "saveDep" THEN [o.read[d] EXCEPT !.blocks = @ \cup {o.id}]
                    ELSE [o.read[d] EXCEPT !.blockedBy = @ \cup {o.id}]
<1>0. /\ o \in Operations /\ o.id \in Ids /\ o.todo \subseteq Ids /\ o.read \in [Ids -> Tasks]
      /\ Idle.read \in [Ids -> Tasks]
  BY OperationFields, Values DEF GraphTypes
<1>1. PICK d \in o.todo : Write(d, wt(d), o.read[d])
  BY DEF SaveNeighbour
<1>2. o.pc \in {"saveDep", "saveDown"} /\ Set(a, back)
      /\ UNCHANGED <<exist, ops, faults, aborts, ever, claims>>
  BY DEF SaveNeighbour
<1>3. /\ back \in Operations /\ back.pc = "link" /\ back.todo = {} /\ back.id = o.id
      /\ back.base = o.base /\ back.st = o.st /\ back.met = o.met /\ back.copy = o.copy
  BY <1>0 DEF Operations, OpPcs
<1> HIDE DEF back
<1>4. d \in Ids /\ o.read[d] \in Tasks
  BY <1>0
<1>5. /\ wt(d) \in Tasks /\ wt(d).owner = o.read[d].owner
      /\ o.pc = "saveDep" => /\ wt(d).blocks = o.read[d].blocks \cup {o.id}
                             /\ wt(d).blockedBy = o.read[d].blockedBy
      /\ o.pc = "saveDown" => /\ wt(d).blockedBy = o.read[d].blockedBy \cup {o.id}
                              /\ wt(d).blocks = o.read[d].blocks
  <2>1. \A t \in Tasks, i \in Ids :
          LET u == [t EXCEPT !.blocks = @ \cup {i}] IN
          u \in Tasks /\ u.owner = t.owner /\ u.blocks = t.blocks \cup {i}
          /\ u.blockedBy = t.blockedBy
    BY DEF Tasks
  <2>2. \A t \in Tasks, i \in Ids :
          LET u == [t EXCEPT !.blockedBy = @ \cup {i}] IN
          u \in Tasks /\ u.owner = t.owner /\ u.blockedBy = t.blockedBy \cup {i}
          /\ u.blocks = t.blocks
    BY DEF Tasks
  <2>3. CASE o.pc = "saveDep"
    BY <1>0, <1>4, <2>1, <2>3
  <2>4. CASE o.pc = "saveDown"
    BY <1>0, <1>4, <2>2, <2>4
  <2> QED  BY <1>2, <2>3, <2>4
<1>6. op' \in [Agents -> Operations] /\ n = back /\ Waiting(a)
  BY <1>2, <1>3, SetFacts DEF Waiting
<1> HIDE DEF wt
<1>7. /\ file' \in [Ids -> Tasks] /\ file'[d] = wt(d) /\ \A j \in Ids \ {d} : file'[j] = file[j]
      /\ stale \subseteq stale' /\ stale' \subseteq Ids /\ (d \in stale' \/ o.read[d] = file[d])
  BY <1>1, <1>4, <1>5, WriteFacts
<1>8. GraphTypes'
  BY <1>2, <1>6, <1>7 DEF GraphTypes
<1>9. Proceeds(a)
  BY <1>2, <1>3, <1>6 DEF Proceeds
<1>10. SavedNeighbour(a, d)
  BY <1>2, <1>3, <1>4, <1>5, <1>6, <1>7 DEF SavedNeighbour
<1> QED  BY <1>4, <1>8, <1>9, <1>10

\* The status is set on the copy, and the tasks that name a completed one are read.
StatusApplied(a) ==
  LET o == op[a]  n == op'[a] IN
  /\ o.pc = "link" /\ n.pc \in {"clear", "save"}
  /\ n.copy.blockedBy = o.copy.blockedBy /\ n.copy.blocks = o.copy.blocks
  /\ n.st = "completed" => n.copy.status = "completed"
  /\ n.pc = "save" => n.todo = {}
  /\ n.pc = "clear" => n.st = "completed"
  /\ n.st = "completed" => n.todo = {i \in exist : o.id \in file[i].blockedBy}
  /\ n.todo \subseteq exist /\ \A i \in n.todo : n.read[i] = file[i]

LEMMA StatusIsApplied ==
  ASSUME GraphTypes, NEW a \in Agents, ApplyStatus(a)
  PROVE  Proceeds(a) /\ UNCHANGED <<file, stale>> /\ GraphTypes' /\ StatusApplied(a)
<1> DEFINE o == op[a]  n == op'[a]
           waiting == IF o.st = "completed"
                      THEN {i \in exist : o.id \in file[i].blockedBy} ELSE {}
           rd == [i \in Ids |-> IF i \in waiting THEN file[i] ELSE New]
           st == IF o.st = "none" THEN o.copy.status ELSE o.st
           pc == IF waiting = {} THEN "save" ELSE "clear"
           c == [o.copy EXCEPT !.status = st]
           w == [o EXCEPT !.pc = pc, !.copy = c, !.todo = waiting, !.read = rd]
<1>0. /\ o \in Operations /\ o.id \in Ids /\ o.copy \in Tasks /\ o.copy.status \in Statuses
      /\ o.st \in Statuses \cup {"none"} /\ exist \subseteq Ids /\ o.pc = "link"
      /\ file \in [Ids -> Tasks]
  BY OperationFields, TaskFields DEF GraphTypes, ApplyStatus
<1>1. /\ waiting \subseteq exist /\ rd \in [Ids -> Tasks] /\ st \in Statuses
      /\ pc \in {"save", "clear"} /\ (pc = "save" <=> waiting = {})
      /\ \A i \in waiting : rd[i] = file[i]
  BY <1>0, Values
<1>2. /\ waiting # {} => o.st = "completed"
      /\ o.st = "completed" =>
           st = "completed" /\ waiting = {i \in exist : o.id \in file[i].blockedBy}
  OBVIOUS
<1>3. Set(a, w)
  <2>1. Set(a, [o EXCEPT !.pc = pc, !.copy.status = st, !.todo = waiting, !.read = rd])
    BY <1>0 DEF ApplyStatus, Operations, Tasks
  <2> HIDE DEF waiting, rd, st, pc
  <2>2. [o EXCEPT !.pc = pc, !.copy.status = st, !.todo = waiting, !.read = rd] = w
    BY <1>0 DEF Operations
  <2> QED  BY <2>1, <2>2
<1> HIDE DEF waiting, rd, st, pc
<1>4. /\ c \in Tasks /\ c.blockedBy = o.copy.blockedBy /\ c.blocks = o.copy.blocks
      /\ c.owner = o.copy.owner /\ c.status = st
  BY <1>0, <1>1 DEF Tasks
<1> HIDE DEF c
<1>5. /\ w \in Operations /\ w.pc = pc /\ w.copy = c /\ w.todo = waiting /\ w.read = rd
      /\ w.id = o.id /\ w.base = o.base /\ w.st = o.st /\ w.met = o.met
  BY <1>0, <1>1, <1>4 DEF Operations, OpPcs
<1> HIDE DEF w
<1>6. op' \in [Agents -> Operations] /\ n = w /\ Waiting(a)
  BY <1>3, <1>5, SetFacts DEF Waiting
<1>7. UNCHANGED <<exist, file, ops, faults, aborts, stale, ever, claims>>
  BY DEF ApplyStatus
<1>8. GraphTypes'
  BY <1>6, <1>7 DEF GraphTypes
<1>9. Proceeds(a)
  BY <1>4, <1>5, <1>6, <1>7 DEF Proceeds
<1>10. StatusApplied(a)
  BY <1>0, <1>1, <1>2, <1>4, <1>5, <1>6 DEF StatusApplied
<1> QED  BY <1>7, <1>8, <1>9, <1>10

\* A listed copy is written back without the blocker.
Unblocked(a, i) ==
  LET o == op[a]  n == op'[a]  t == file'[i] IN
  /\ o.pc = "clear" /\ i \in o.todo /\ n.copy = o.copy
  /\ n.todo = o.todo \ {i} /\ n.pc \in {"clear", "save"} /\ (n.pc = "save" <=> n.todo = {})
  /\ \A j \in n.todo : n.read[j] = o.read[j]
  /\ t.blockedBy = o.read[i].blockedBy \ {o.id} /\ t.blocks = o.read[i].blocks
  /\ t.owner = o.read[i].owner
  /\ \A j \in Ids \ {i} : file'[j] = file[j]
  /\ stale \subseteq stale' /\ (i \in stale' \/ o.read[i] = file[i])

LEMMA NextUnblocked ==
  ASSUME GraphTypes, NEW a \in Agents, ClearNext(a)
  PROVE  Proceeds(a) /\ GraphTypes' /\ \E i \in Ids : Unblocked(a, i)
<1> DEFINE o == op[a]  n == op'[a]
<1>0. /\ o \in Operations /\ o.id \in Ids /\ o.todo \subseteq Ids /\ o.read \in [Ids -> Tasks]
      /\ o.pc = "clear"
  BY OperationFields, SMTT(60) DEF GraphTypes, ClearNext
<1>1. PICK i \in o.todo :
        /\ Write(i, [o.read[i] EXCEPT !.blockedBy = @ \ {o.id}], o.read[i])
        /\ Set(a, [o EXCEPT !.pc = IF o.todo = {i} THEN "save" ELSE "clear",
                            !.todo = @ \ {i}, !.read[i] = New])
  BY DEF ClearNext
<1> DEFINE pc == IF o.todo = {i} THEN "save" ELSE "clear"
           w == [o EXCEPT !.pc = pc, !.todo = @ \ {i}, !.read[i] = New]
           t == [o.read[i] EXCEPT !.blockedBy = @ \ {o.id}]
<1>2. i \in Ids /\ o.read[i] \in Tasks /\ New \in Tasks
  BY <1>0, Values
<1>3. /\ t \in Tasks /\ t.owner = o.read[i].owner /\ t.blocks = o.read[i].blocks
      /\ t.blockedBy = o.read[i].blockedBy \ {o.id}
  <2>1. \A u \in Tasks, j \in Ids :
          LET v == [u EXCEPT !.blockedBy = @ \ {j}] IN
          v \in Tasks /\ v.owner = u.owner /\ v.blockedBy = u.blockedBy \ {j}
          /\ v.blocks = u.blocks
    BY DEF Tasks
  <2> QED  BY <1>0, <1>2, <2>1
<1>4. pc \in {"clear", "save"} /\ (pc = "save" <=> o.todo \ {i} = {})
  BY <1>1
<1> HIDE DEF pc, t
<1>5. /\ w \in Operations /\ w.pc = pc /\ w.copy = o.copy /\ w.todo = o.todo \ {i}
      /\ w.id = o.id /\ w.base = o.base /\ w.st = o.st /\ w.met = o.met
      /\ \A j \in Ids \ {i} : w.read[j] = o.read[j]
  BY <1>0, <1>2, <1>4 DEF Operations, OpPcs
<1> HIDE DEF w
<1>6. Set(a, w) /\ Write(i, t, o.read[i])
  BY <1>1 DEF pc, w, t
<1>7. op' \in [Agents -> Operations] /\ n = w /\ Waiting(a)
  BY <1>5, <1>6, SetFacts DEF Waiting
<1>8. /\ file' \in [Ids -> Tasks] /\ file'[i] = t /\ \A j \in Ids \ {i} : file'[j] = file[j]
      /\ stale \subseteq stale' /\ stale' \subseteq Ids /\ (i \in stale' \/ o.read[i] = file[i])
  BY <1>2, <1>3, <1>6, WriteFacts
<1>9. UNCHANGED <<exist, ops, faults, aborts, ever, claims>>
  BY DEF ClearNext
<1>10. GraphTypes'
  BY <1>7, <1>8, <1>9 DEF GraphTypes
<1>11. Proceeds(a)
  BY <1>5, <1>7, <1>9 DEF Proceeds
<1>12. Unblocked(a, i)
  BY <1>0, <1>1, <1>3, <1>4, <1>5, <1>7, <1>8 DEF Unblocked
<1> QED  BY <1>2, <1>10, <1>11, <1>12

\* The saves with which an operation returns: of a new task, and of the copy.
Created(a) ==
  LET i == op[a].id IN
  /\ exist' = exist \cup {i} /\ file'[i] = New /\ stale' = stale \cup ({i} \cap exist)
  /\ \A j \in Ids \ {i} : file'[j] = file[j]
  /\ UNCHANGED <<aborts, ever, claims>>
Saved(a) ==
  LET o == op[a] IN
  /\ o.pc \in {"save", "claim"} /\ file'[o.id] = o.copy
  /\ \A j \in Ids \ {o.id} : file'[j] = file[j]
  /\ stale \subseteq stale' /\ (o.id \in stale' \/ o.base = file[o.id])
  /\ UNCHANGED <<exist, aborts>>
  /\ IF o.pc = "claim" THEN ever' = ever /\ claims' = [claims EXCEPT ![o.id] = @ \cup {a}]
     ELSE /\ claims' = claims /\ ever \subseteq ever'
          /\ o.copy.status = "completed" => o.id \in ever'
Aborted(a) == UNCHANGED <<exist, file, stale, ever, claims>> /\ aborts' = aborts + 1

LEMMA OperationReturns ==
  ASSUME GraphTypes, NEW a \in Agents,
         \/ SaveCreate(a) \/ SaveTask(a) \/ SaveClaim(a)
         \/ UnknownTask(a) \/ TornRead(a) \/ WriteError(a)
  PROVE  /\ Returns(a) /\ GraphTypes'
         /\ (op[a].pc = "create" /\ Created(a)) \/ Saved(a) \/ Aborted(a)
<1> DEFINE o == op[a]
<1>0. o \in Operations /\ o.id \in Ids /\ o.copy \in Tasks /\ Idle \in Operations
      /\ New \in Tasks /\ aborts \in Nat /\ aborts + 1 \in Nat
  BY OperationFields, Values DEF GraphTypes
<1>1. Set(a, Idle) /\ op[a].pc # "idle"
  BY DEF SaveCreate, SaveTask, SaveClaim, UnknownTask, TornRead, WriteError, Writing
<1>2. Returns(a) /\ op' \in [Agents -> Operations]
  BY <1>0, <1>1, SetFacts DEF Returns, Waiting
<1>3. CASE SaveCreate(a)
  <2>1. Created(a) /\ o.pc = "create" /\ file' \in [Ids -> Tasks]
    BY <1>0, <1>3 DEF SaveCreate, Created, GraphTypes
  <2>2. exist' \subseteq Ids /\ stale' \subseteq Ids
    BY <1>0, <1>3 DEF SaveCreate, GraphTypes
  <2>3. GraphTypes'
    BY <1>2, <1>3, <2>1, <2>2 DEF SaveCreate, GraphTypes
  <2> QED  BY <1>2, <2>1, <2>3
<1>4. CASE SaveTask(a) \/ SaveClaim(a)
  <2>1. Write(o.id, o.copy, o.base)
    BY <1>4 DEF SaveTask, SaveClaim
  <2>2. /\ file' \in [Ids -> Tasks] /\ file'[o.id] = o.copy
        /\ \A j \in Ids \ {o.id} : file'[j] = file[j]
        /\ stale \subseteq stale' /\ stale' \subseteq Ids
        /\ (o.id \in stale' \/ o.base = file[o.id])
    BY <1>0, <2>1, WriteFacts
  <2>3. Saved(a)
    BY <1>4, <2>2 DEF SaveTask, SaveClaim, Saved
  <2>4. claims' \in [Ids -> SUBSET Agents] /\ ever' \subseteq Ids
    BY <1>0, <1>4 DEF SaveTask, SaveClaim, GraphTypes
  <2>5. GraphTypes'
    BY <1>2, <1>4, <2>2, <2>4 DEF SaveTask, SaveClaim, GraphTypes
  <2> QED  BY <1>2, <2>3, <2>5
<1>5. CASE UnknownTask(a) \/ TornRead(a) \/ WriteError(a)
  <2>1. Aborted(a)
    BY <1>5 DEF UnknownTask, TornRead, WriteError, Aborted
  <2>2. GraphTypes'
    BY <1>0, <1>2, <2>1 DEF Aborted, GraphTypes
  <2> QED  BY <1>2, <2>1, <2>2
<1> QED  BY <1>3, <1>4, <1>5

----------------------------------------------------------------------------
(* The edges, in every interleaving.                                       *)

\* What a step of agent a keeps of the edges that the files and the copies have.
FilesKept(a) ==
  \A i \in Ids \ stale' :
    /\ file[i].blocks \subseteq file'[i].blocks
    /\ \A d \in file[i].blockedBy : d \in file'[i].blockedBy \/ Completes(op'[a], d)
CopyKept(a) ==
  \A i \in Ids : Holds(op[a], i) =>
    \/ /\ Holds(op'[a], i) /\ op[a].copy.blockedBy \subseteq op'[a].copy.blockedBy
       /\ op[a].copy.blocks \subseteq op'[a].copy.blocks
    \/ file'[i] = op[a].copy
CompletionKept(a) ==
  \A d \in Ids : Completes(op[a], d) => Completes(op'[a], d) \/ d \in ever'
Keeps(a) ==
  /\ aborts > 0 => aborts' > 0
  /\ stale \subseteq stale' /\ ever \subseteq ever'
  /\ \A b \in Agents \ {a} : Alike(op[b], op'[b])
  /\ aborts' > 0 \/ (FilesKept(a) /\ CopyKept(a) /\ CompletionKept(a))

\* So what was true of an edge remains true.
LEMMA EdgesStay ==
  ASSUME NEW a \in Agents, Keeps(a), NEW i \in Ids, NEW d \in Ids
  PROVE  (Linked(i, d) => Linked(i, d)') /\ (Waited(i, d) => Waited(i, d)')
<1> SUFFICES ASSUME ~(aborts' > 0)
             PROVE  (Linked(i, d) => Linked(i, d)') /\ (Waited(i, d) => Waited(i, d)')
  BY DEF Linked, Waited
<1>1. /\ ~(aborts > 0) /\ stale \subseteq stale' /\ ever \subseteq ever'
      /\ FilesKept(a) /\ CopyKept(a) /\ CompletionKept(a)
  BY DEF Keeps
<1>2. ASSUME NEW b \in Agents \ {a}
      PROVE  /\ op'[b].copy = op[b].copy /\ (Holds(op'[b], i) <=> Holds(op[b], i))
             /\ (Holds(op'[b], d) <=> Holds(op[b], d))
             /\ (Completes(op'[b], d) <=> Completes(op[b], d))
  BY DEF Keeps, Alike, Holds, Completes
<1>3. ASSUME Linked(i, d) PROVE Linked(i, d)'
  <2>1. CASE i \in file[d].blocks \/ d \in stale
    BY <1>1, <2>1 DEF FilesKept, Linked
  <2>2. ASSUME NEW b \in Agents, Holds(op[b], d), i \in op[b].copy.blocks PROVE Linked(i, d)'
    <3>1. CASE b = a
      <4>1. CASE Holds(op'[a], d) /\ i \in op'[a].copy.blocks
        BY <4>1 DEF Linked
      <4>2. CASE i \in file'[d].blocks
        BY <4>2 DEF Linked
      <4> QED  BY <1>1, <2>2, <3>1, <4>1, <4>2 DEF CopyKept
    <3>2. CASE b # a
      <4>1. Holds(op'[b], d) /\ i \in op'[b].copy.blocks
        BY <1>2, <2>2, <3>2
      <4> QED  BY <4>1 DEF Linked
    <3> QED  BY <3>1, <3>2
  <2> QED  BY <1>1, <1>3, <2>1, <2>2 DEF Linked
<1>4. ASSUME Waited(i, d) PROVE Waited(i, d)'
  <2>1. CASE d \in file[i].blockedBy \/ i \in stale \/ d \in ever
    BY <1>1, <2>1 DEF FilesKept, Waited
  <2>2. ASSUME NEW b \in Agents, Holds(op[b], i), d \in op[b].copy.blockedBy
        PROVE  Waited(i, d)'
    <3>1. CASE b = a
      <4>1. CASE Holds(op'[a], i) /\ d \in op'[a].copy.blockedBy
        BY <4>1 DEF Waited
      <4>2. CASE d \in file'[i].blockedBy
        BY <4>2 DEF Waited
      <4> QED  BY <1>1, <2>2, <3>1, <4>1, <4>2 DEF CopyKept
    <3>2. CASE b # a
      <4>1. Holds(op'[b], i) /\ d \in op'[b].copy.blockedBy
        BY <1>2, <2>2, <3>2
      <4> QED  BY <4>1 DEF Waited
    <3> QED  BY <3>1, <3>2
  <2>3. ASSUME NEW b \in Agents, Completes(op[b], d) PROVE Waited(i, d)'
    <3>1. CASE b = a
      BY <1>1, <2>3, <3>1 DEF CompletionKept, Waited
    <3>2. CASE b # a
      BY <1>2, <2>3, <3>2 DEF Waited
    <3> QED  BY <3>1, <3>2
  <2> QED  BY <1>1, <1>4, <2>1, <2>2, <2>3 DEF Waited
<1> QED  BY <1>3, <1>4

\* Each step keeps them.
LEMMA BegunKeeps ==
  ASSUME GraphTypes, NEW a \in Agents, Begun(a)
  PROVE  Keeps(a)
<1>1. FilesKept(a)
  BY DEF Begun, FilesKept
<1>2. CopyKept(a) /\ CompletionKept(a)
  BY DEF Begun, CopyKept, CompletionKept, Holds, Completes, Holding
<1> QED  BY <1>1, <1>2 DEF Begun, Keeps

LEMMA LinkKeeps ==
  ASSUME GraphTypes, NEW a \in Agents, Proceeds(a), UNCHANGED <<file, stale>>,
         op[a].pc = "link", op'[a].pc \in Holding,
         op[a].copy.blockedBy \subseteq op'[a].copy.blockedBy,
         op[a].copy.blocks \subseteq op'[a].copy.blocks
  PROVE  Keeps(a)
<1>1. FilesKept(a)
  BY DEF FilesKept
<1>2. CopyKept(a) /\ CompletionKept(a)
  BY DEF Proceeds, CopyKept, CompletionKept, Holds, Completes
<1>3. \A b \in Agents \ {a} : Alike(op[b], op'[b])
  BY DEF Proceeds, Waiting, Alike
<1> QED  BY <1>1, <1>2, <1>3 DEF Proceeds, Keeps

LEMMA NeighbourKeeps ==
  ASSUME GraphTypes, NEW a \in Agents, Proceeds(a), NEW d \in Ids, SavedNeighbour(a, d)
  PROVE  Keeps(a)
<1>1. FilesKept(a)
  <2>1. ASSUME NEW i \in Ids \ stale'
        PROVE  /\ file[i].blocks \subseteq file'[i].blocks
               /\ file[i].blockedBy \subseteq file'[i].blockedBy
    <3>1. CASE i = d
      BY <2>1, <3>1 DEF SavedNeighbour
    <3>2. CASE i # d
      BY <2>1, <3>2 DEF SavedNeighbour
    <3> QED  BY <3>1, <3>2
  <2> QED  BY <2>1 DEF FilesKept
<1>2. CopyKept(a) /\ CompletionKept(a)
  BY DEF Proceeds, SavedNeighbour, CopyKept, CompletionKept, Holds, Completes, Holding
<1>3. \A b \in Agents \ {a} : Alike(op[b], op'[b])
  BY DEF Proceeds, Waiting, Alike
<1> QED  BY <1>1, <1>2, <1>3 DEF Proceeds, SavedNeighbour, Keeps

LEMMA UnblockedKeeps ==
  ASSUME GraphTypes, NEW a \in Agents, Hand(a), Proceeds(a), NEW i \in Ids, Unblocked(a, i)
  PROVE  Keeps(a)
<1>1. Completes(op'[a], op[a].id)
  BY DEF Hand, Proceeds, Unblocked, Completes
<1>2. FilesKept(a)
  <2>1. ASSUME NEW j \in Ids \ stale'
        PROVE  /\ file[j].blocks \subseteq file'[j].blocks
               /\ file[j].blockedBy \ {op[a].id} \subseteq file'[j].blockedBy
    <3>1. CASE j = i
      BY <2>1, <3>1 DEF Unblocked
    <3>2. CASE j # i
      BY <2>1, <3>2 DEF Unblocked
    <3> QED  BY <3>1, <3>2
  <2> QED  BY <1>1, <2>1 DEF FilesKept
<1>3. CopyKept(a)
  BY DEF Proceeds, Unblocked, CopyKept, Holds, Holding
<1>4. CompletionKept(a)
  BY <1>1 DEF CompletionKept, Completes
<1>5. \A b \in Agents \ {a} : Alike(op[b], op'[b])
  BY DEF Proceeds, Waiting, Alike
<1> QED  BY <1>2, <1>3, <1>4, <1>5 DEF Proceeds, Unblocked, Keeps

LEMMA ReturnKeeps ==
  ASSUME GraphTypes, GraphTypes', Owned, NEW a \in Agents, Hand(a), Returns(a),
         (op[a].pc = "create" /\ Created(a)) \/ Saved(a) \/ Aborted(a)
  PROVE  Keeps(a)
<1>0. op[a] \in Operations /\ op[a].id \in Ids /\ aborts \in Nat
  BY OperationFields DEF GraphTypes
<1>1. \A b \in Agents \ {a} : Alike(op[b], op'[b])
  BY DEF Returns, Waiting, Alike
<1>2. CASE Aborted(a)
  BY <1>0, <1>1, <1>2 DEF Aborted, Keeps
<1>3. CASE op[a].pc = "create" /\ Created(a)
  <2>1. FilesKept(a)
    <3>1. ASSUME NEW i \in Ids \ stale'
          PROVE  /\ file[i].blocks \subseteq file'[i].blocks
                 /\ file[i].blockedBy \subseteq file'[i].blockedBy
      <4>1. CASE i = op[a].id
        BY <1>0, <1>3, <3>1, <4>1 DEF Created, Owned
      <4>2. CASE i # op[a].id
        BY <1>3, <3>1, <4>2 DEF Created
      <4> QED  BY <4>1, <4>2
    <3> QED  BY <3>1 DEF FilesKept
  <2>2. CopyKept(a) /\ CompletionKept(a)
    BY <1>3 DEF CopyKept, CompletionKept, Holds, Completes, Holding
  <2> QED  BY <1>1, <1>3, <2>1, <2>2 DEF Created, Keeps
<1>4. CASE Saved(a)
  <2> DEFINE o == op[a]
  <2>1. /\ o.base.blockedBy \subseteq o.copy.blockedBy /\ o.base.blocks \subseteq o.copy.blocks
        /\ o.pc = "save" /\ o.st = "completed" => o.copy.status = "completed"
    BY <1>4 DEF Hand, Saved, Holding
  <2>2. FilesKept(a)
    <3>1. ASSUME NEW i \in Ids \ stale'
          PROVE  /\ file[i].blocks \subseteq file'[i].blocks
                 /\ file[i].blockedBy \subseteq file'[i].blockedBy
      <4>1. CASE i = o.id
        BY <1>4, <2>1, <3>1, <4>1 DEF Saved
      <4>2. CASE i # o.id
        BY <1>4, <3>1, <4>2 DEF Saved
      <4> QED  BY <4>1, <4>2
    <3> QED  BY <3>1 DEF FilesKept
  <2>3. CopyKept(a)
    BY <1>4 DEF CopyKept, Holds, Saved
  <2>4. CompletionKept(a)
    BY <1>4, <2>1 DEF CompletionKept, Completes, Saved
  <2> QED  BY <1>1, <1>4, <2>2, <2>3, <2>4 DEF Saved, Keeps
<1> QED  BY <1>2, <1>3, <1>4

\* What the invariant says of the files, and of an operation among others.
FilesSound == \A i \in Ids : Sound(i, file[i].blockedBy, file[i].blocks)
Fit(a) == Owned /\ FilesSound /\ Hand(a) /\ Copies(op[a]) /\ Clearing(a)

\* The edges of the versions that the invariant speaks of.
LEMMA Edges ==
  ASSUME GraphTypes, NEW a \in Agents, Fit(a), Keeps(a)
  PROVE  /\ \A i \in Ids : /\ \A d \in file[i].blockedBy : Linked(i, d)'
                           /\ \A d \in file[i].blocks : Waited(d, i)'
         /\ \A i \in Ids : Holds(op[a], i) =>
              /\ \A d \in op[a].copy.blockedBy \ Unwritten(op[a], "saveDep") : Linked(i, d)'
              /\ \A d \in op[a].copy.blocks \ Unwritten(op[a], "saveDown") : Waited(d, i)'
         /\ \A i \in op[a].todo : /\ \A d \in op[a].read[i].blockedBy : Linked(i, d)'
                                  /\ \A d \in op[a].read[i].blocks : Waited(d, i)'
<1> DEFINE o == op[a]
<1>0. /\ \A i \in Ids : file[i].blockedBy \subseteq Ids /\ file[i].blocks \subseteq Ids
      /\ o.id \in Ids /\ o.todo \subseteq Ids
      /\ o.copy.blockedBy \subseteq Ids /\ o.copy.blocks \subseteq Ids
      /\ \A i \in Ids : o.read[i].blockedBy \subseteq Ids /\ o.read[i].blocks \subseteq Ids
  <2>1. o \in Operations /\ \A i \in Ids : file[i] \in Tasks
    BY DEF GraphTypes
  <2>2. o.id \in Ids /\ o.todo \subseteq Ids /\ o.copy \in Tasks /\ o.read \in [Ids -> Tasks]
    BY <2>1, OperationFields
  <2> QED  BY <2>1, <2>2, TaskFields
<1>1. \A i, d \in Ids : (Linked(i, d) => Linked(i, d)') /\ (Waited(i, d) => Waited(i, d)')
  BY EdgesStay
<1>2. \A i \in Ids : /\ \A d \in file[i].blockedBy : Linked(i, d)
                     /\ \A d \in file[i].blocks : Waited(d, i)
  BY DEF Fit, FilesSound, Sound
<1>3. \A i \in Ids : Holds(o, i) =>
        /\ \A d \in o.copy.blockedBy \ Unwritten(o, "saveDep") : Linked(i, d)
        /\ \A d \in o.copy.blocks \ Unwritten(o, "saveDown") : Waited(d, i)
  BY DEF Fit, Copies, Sound, Holds
<1>4. \A i \in o.todo : /\ \A d \in o.read[i].blockedBy : Linked(i, d)
                        /\ \A d \in o.read[i].blocks : Waited(d, i)
  BY DEF Fit, Copies, Sound
<1> QED  BY <1>0, <1>1, <1>2, <1>3, <1>4, Zenon

\* The edges of the copies in the next state.
LEMMA CopiesAre ==
  ASSUME NEW a \in Agents, NEW n, n = op'[a],
         n.pc \in Holding =>
           \E k \in Ids :
             /\ k = n.id
             /\ \A d \in n.copy.blockedBy \ Unwritten(n, "saveDep") : Linked(k, d)'
             /\ \A d \in n.copy.blocks \ Unwritten(n, "saveDown") : Waited(d, k)',
         \A i \in n.todo : /\ \A d \in n.read[i].blockedBy : Linked(i, d)'
                           /\ \A d \in n.read[i].blocks : Waited(d, i)'
  PROVE  Copies(op[a])'
BY DEF Copies, Sound, Unwritten

\* A step that writes no file leaves them in order.
LEMMA FilesUntouched ==
  ASSUME GraphTypes, NEW a \in Agents, Fit(a), Keeps(a), UNCHANGED file,
         UNCHANGED <<exist, claims>>
  PROVE  FilesSound' /\ Owned'
<1>1. FilesSound'
  BY Edges DEF FilesSound, Sound
<1>2. Owned'
  BY DEF Fit, Owned, Keeps
<1> QED  BY <1>1, <1>2

LEMMA BegunFit ==
  ASSUME GraphTypes, NEW a \in Agents, Fit(a), Begun(a)
  PROVE  Fit(a)'
<1> DEFINE n == op'[a]
<1>0. Keeps(a)
  BY BegunKeeps
<1>1. FilesSound' /\ Owned'
  BY <1>0, FilesUntouched DEF Begun
<1>2. Hand(a)'
  BY DEF Begun, Hand, Holding
<1>3. Copies(op[a])'
  <2>1. n.todo = {} /\ Unwritten(n, "saveDep") = {} /\ Unwritten(n, "saveDown") = {}
    BY DEF Begun, Unwritten
  <2>2. ASSUME n.pc \in Holding, NEW k \in Ids, k = n.id
        PROVE  /\ \A d \in n.copy.blockedBy : Linked(k, d)'
               /\ \A d \in n.copy.blocks : Waited(d, k)'
    <3>1. n.copy.blockedBy = file[k].blockedBy /\ n.copy.blocks = file[k].blocks
      BY <2>2 DEF Begun, Holding
    <3> QED  BY <1>0, <3>1, Edges
  <2>3. n.pc \in Holding => n.id \in Ids
    BY DEF Begun, Holding, GraphTypes
  <2> QED  BY <2>1, <2>2, <2>3, CopiesAre
<1>4. Clearing(a)'
  BY DEF Begun, Clearing
<1> QED  BY <1>1, <1>2, <1>3, <1>4 DEF Fit

LEMMA VisitedDepFit ==
  ASSUME GraphTypes, NEW a \in Agents, Fit(a), op[a].pc = "link", Proceeds(a),
         UNCHANGED <<file, stale>>, NEW d \in exist, VisitedDep(a, d)
  PROVE  Fit(a)'
<1> DEFINE o == op[a]  n == op'[a]
<1>0. /\ Keeps(a) /\ Hand(a) /\ d \in Ids /\ o.id \in exist /\ o.todo = {}
      /\ n.pc \in {"link", "saveDep"}
  <2>1. Hand(a) /\ d \in Ids /\ o.id \in exist /\ o.todo = {} /\ n.pc \in {"link", "saveDep"}
    BY DEF Fit, Hand, Holding, GraphTypes, VisitedDep
  <2>2. n.pc \in Holding
    BY <2>1 DEF Holding
  <2> QED  BY <2>1, <2>2, LinkKeeps DEF VisitedDep
<1>1. FilesSound' /\ Owned'
  BY <1>0, FilesUntouched DEF Proceeds
<1>2. Hand(a)'
  <2>1. n.pc = "saveDep" => d \in n.copy.blockedBy /\ n.todo = {d}
    BY DEF VisitedDep
  <2>2. n.pc # "saveDep" => n.todo = {}
    BY <1>0 DEF VisitedDep
  <2>3. /\ n.base.blockedBy \subseteq n.copy.blockedBy /\ n.base.blocks \subseteq n.copy.blocks
        /\ n.id \in exist' /\ n.copy.owner = n.base.owner /\ n.todo \subseteq exist'
    BY <1>0 DEF VisitedDep, Proceeds, Hand, Holding
  <2> QED  BY <1>0, <2>1, <2>2, <2>3 DEF Hand, Holding
<1>3. Copies(op[a])'
  <2>1. PICK k \in Ids : k = o.id
    BY <1>0 DEF GraphTypes
  <2>2. /\ \A e \in o.copy.blockedBy : Linked(k, e)'
        /\ \A e \in o.copy.blocks : Waited(e, k)'
    <3>1. Holds(o, k) /\ Unwritten(o, "saveDep") = {} /\ Unwritten(o, "saveDown") = {}
      BY <2>1 DEF Unwritten, Holding, Holds
    <3>2. /\ \A e \in o.copy.blockedBy \ Unwritten(o, "saveDep") : Linked(k, e)'
          /\ \A e \in o.copy.blocks \ Unwritten(o, "saveDown") : Waited(e, k)'
      BY <1>0, <3>1, Edges
    <3> QED  BY <3>1, <3>2
  <2>3. n.pc # "saveDep" => Linked(k, d)'
    <3>1. n.pc # "saveDep" => k \in file'[d].blocks
      BY <2>1 DEF VisitedDep
    <3> QED  BY <3>1 DEF Linked
  <2>4. /\ \A e \in n.copy.blockedBy \ Unwritten(n, "saveDep") : Linked(k, e)'
        /\ \A e \in n.copy.blocks \ Unwritten(n, "saveDown") : Waited(e, k)'
    <3>1. n.copy.blocks = o.copy.blocks /\ n.copy.blockedBy = o.copy.blockedBy \cup {d}
          /\ (n.pc = "saveDep" => Unwritten(n, "saveDep") = {d})
      BY DEF VisitedDep, Unwritten
    <3> QED  BY <2>2, <2>3, <3>1
  <2>5. \A i \in n.todo : /\ \A e \in n.read[i].blockedBy : Linked(i, e)'
                          /\ \A e \in n.read[i].blocks : Waited(e, i)'
    <3>1. \A i \in n.todo : i = d /\ n.read[i] = file[i]
      BY <1>0 DEF VisitedDep
    <3> QED  BY <1>0, <3>1, Edges
  <2>6. k = n.id
    BY <2>1 DEF Proceeds
  <2> QED  BY <2>4, <2>5, <2>6, CopiesAre
<1>4. Clearing(a)'
  BY <1>0 DEF Clearing
<1> QED  BY <1>1, <1>2, <1>3, <1>4 DEF Fit

LEMMA VisitedDownFit ==
  ASSUME GraphTypes, NEW a \in Agents, Fit(a), op[a].pc = "link", Proceeds(a),
         UNCHANGED <<file, stale>>, NEW d \in exist, VisitedDown(a, d)
  PROVE  Fit(a)'
<1> DEFINE o == op[a]  n == op'[a]
<1>0. /\ Keeps(a) /\ Hand(a) /\ d \in Ids /\ o.id \in exist /\ o.todo = {}
      /\ n.pc \in {"link", "saveDown"}
  <2>1. Hand(a) /\ d \in Ids /\ o.id \in exist /\ o.todo = {} /\ n.pc \in {"link", "saveDown"}
    BY DEF Fit, Hand, Holding, GraphTypes, VisitedDown
  <2>2. n.pc \in Holding
    BY <2>1 DEF Holding
  <2> QED  BY <2>1, <2>2, LinkKeeps DEF VisitedDown
<1>1. FilesSound' /\ Owned'
  BY <1>0, FilesUntouched DEF Proceeds
<1>2. Hand(a)'
  <2>1. n.pc = "saveDown" => d \in n.copy.blocks /\ n.todo = {d}
    BY DEF VisitedDown
  <2>2. n.pc # "saveDown" => n.todo = {}
    BY <1>0 DEF VisitedDown
  <2>3. /\ n.base.blockedBy \subseteq n.copy.blockedBy /\ n.base.blocks \subseteq n.copy.blocks
        /\ n.id \in exist' /\ n.copy.owner = n.base.owner /\ n.todo \subseteq exist'
    BY <1>0 DEF VisitedDown, Proceeds, Hand, Holding
  <2> QED  BY <1>0, <2>1, <2>2, <2>3 DEF Hand, Holding
<1>3. Copies(op[a])'
  <2>1. PICK k \in Ids : k = o.id
    BY <1>0 DEF GraphTypes
  <2>2. /\ \A e \in o.copy.blockedBy : Linked(k, e)'
        /\ \A e \in o.copy.blocks : Waited(e, k)'
    <3>1. Holds(o, k) /\ Unwritten(o, "saveDep") = {} /\ Unwritten(o, "saveDown") = {}
      BY <2>1 DEF Unwritten, Holding, Holds
    <3>2. /\ \A e \in o.copy.blockedBy \ Unwritten(o, "saveDep") : Linked(k, e)'
          /\ \A e \in o.copy.blocks \ Unwritten(o, "saveDown") : Waited(e, k)'
      BY <1>0, <3>1, Edges
    <3> QED  BY <3>1, <3>2
  <2>3. n.pc # "saveDown" => Waited(d, k)'
    <3>1. n.pc # "saveDown" => k \in file'[d].blockedBy
      BY <2>1 DEF VisitedDown
    <3> QED  BY <3>1 DEF Waited
  <2>4. /\ \A e \in n.copy.blockedBy \ Unwritten(n, "saveDep") : Linked(k, e)'
        /\ \A e \in n.copy.blocks \ Unwritten(n, "saveDown") : Waited(e, k)'
    <3>1. n.copy.blockedBy = o.copy.blockedBy /\ n.copy.blocks = o.copy.blocks \cup {d}
          /\ (n.pc = "saveDown" => Unwritten(n, "saveDown") = {d})
      BY DEF VisitedDown, Unwritten
    <3> QED  BY <2>2, <2>3, <3>1
  <2>5. \A i \in n.todo : /\ \A e \in n.read[i].blockedBy : Linked(i, e)'
                          /\ \A e \in n.read[i].blocks : Waited(e, i)'
    <3>1. \A i \in n.todo : i = d /\ n.read[i] = file[i]
      BY <1>0 DEF VisitedDown
    <3> QED  BY <1>0, <3>1, Edges
  <2>6. k = n.id
    BY <2>1 DEF Proceeds
  <2> QED  BY <2>4, <2>5, <2>6, CopiesAre
<1>4. Clearing(a)'
  BY <1>0 DEF Clearing
<1> QED  BY <1>1, <1>2, <1>3, <1>4 DEF Fit

\* A step that writes one file with the edges of an older version, and one that is good.
LEMMA FileWritten ==
  ASSUME GraphTypes, NEW a \in Agents, Fit(a), Keeps(a), NEW i \in Ids,
         \A j \in Ids \ {i} : file'[j] = file[j],
         \A d \in file'[i].blockedBy : Linked(i, d)',
         \A d \in file'[i].blocks : Waited(d, i)'
  PROVE  FilesSound'
<1>1. ASSUME NEW j \in Ids
      PROVE  /\ \A d \in file'[j].blockedBy : Linked(j, d)'
             /\ \A d \in file'[j].blocks : Waited(d, j)'
  <2>1. CASE j = i
    BY <2>1
  <2>2. CASE j # i
    <3>1. file'[j] = file[j]
      BY <2>2
    <3> QED  BY <3>1, Edges
  <2> QED  BY <2>1, <2>2
<1> QED  BY <1>1 DEF FilesSound, Sound

\* A file that is not written over keeps the owner it had when it was read.
LEMMA StillOwned ==
  ASSUME GraphTypes, NEW a \in Agents, Owned, NEW i \in exist, UNCHANGED <<exist, claims>>,
         \A j \in Ids \ {i} : file'[j] = file[j], stale \subseteq stale',
         i \in stale' \/ file'[i].owner = file[i].owner
  PROVE  Owned'
<1>1. ASSUME NEW j \in Ids
      PROVE  /\ j \notin exist => file'[j] = New /\ claims[j] = {}
             /\ claims[j] # {} /\ j \notin stale' => file'[j].owner # NoOwner
  <2>1. CASE j = i
    BY <2>1 DEF Owned
  <2>2. CASE j # i
    BY <2>2 DEF Owned
  <2> QED  BY <2>1, <2>2
<1> QED  BY <1>1 DEF Owned

LEMMA NeighbourFit ==
  ASSUME GraphInv, NEW a \in Agents, Fit(a), Proceeds(a), NEW d \in Ids,
         SavedNeighbour(a, d)
  PROVE  Fit(a)'
<1> DEFINE o == op[a]  n == op'[a]
<1>0. /\ GraphTypes /\ Keeps(a) /\ Hand(a) /\ Owned /\ o.id \in exist /\ o.id \in Ids /\ d \in exist
      /\ o.pc \in {"saveDep", "saveDown"} /\ o.todo = {d} /\ o.pc \in Holding
      /\ o.pc = "saveDep" => d \in o.copy.blockedBy
      /\ o.pc = "saveDown" => d \in o.copy.blocks
  <2>1. GraphTypes /\ Keeps(a) /\ Hand(a) /\ Owned
    BY NeighbourKeeps DEF GraphInv, Fit
  <2> QED  BY <2>1 DEF Hand, Holding, SavedNeighbour, GraphTypes
<1>1. n.pc = "link" /\ n.todo = {} /\ n.id = o.id /\ n.copy = o.copy /\ n.base = o.base
      /\ exist' = exist
  BY DEF SavedNeighbour, Proceeds
<1>2. /\ \A e \in o.read[d].blockedBy : Linked(d, e)'
      /\ \A e \in o.read[d].blocks : Waited(e, d)'
  BY <1>0, Edges
<1>11. PICK k \in Ids : k = o.id
  BY <1>0
<1>3. /\ \A e \in o.copy.blockedBy \ Unwritten(o, "saveDep") : Linked(k, e)'
      /\ \A e \in o.copy.blocks \ Unwritten(o, "saveDown") : Waited(e, k)'
  <2>1. Holds(o, k)
    BY <1>0, <1>11 DEF Holds
  <2> QED  BY <1>0, <2>1, Edges
<1>4. /\ o.pc = "saveDep" => Linked(k, d)' /\ Waited(k, d)'
      /\ o.pc = "saveDown" => Waited(d, k)' /\ Linked(d, k)'
  <2>1. Holds(n, k)
    BY <1>1, <1>11 DEF Holds, Holding
  <2>2. CASE o.pc = "saveDep"
    <3>1. k \in file'[d].blocks /\ d \in n.copy.blockedBy
      BY <1>0, <1>1, <1>11, <2>2 DEF SavedNeighbour
    <3>2. Linked(k, d)'
      BY <3>1 DEF Linked
    <3>3. Waited(k, d)'
      BY <2>1, <3>1 DEF Waited
    <3> QED  BY <2>2, <3>2, <3>3
  <2>3. CASE o.pc = "saveDown"
    <3>1. k \in file'[d].blockedBy /\ d \in n.copy.blocks
      BY <1>0, <1>1, <1>11, <2>3 DEF SavedNeighbour
    <3>2. Waited(d, k)'
      BY <3>1 DEF Waited
    <3>3. Linked(d, k)'
      BY <2>1, <3>1 DEF Linked
    <3> QED  BY <2>3, <3>2, <3>3
  <2> QED  BY <1>0, <2>2, <2>3
<1>5. FilesSound'
  <2>1. /\ \A e \in file'[d].blockedBy : Linked(d, e)'
        /\ \A e \in file'[d].blocks : Waited(e, d)'
    BY <1>0, <1>2, <1>4, <1>11 DEF SavedNeighbour
  <2> QED  BY <1>0, <2>1, FileWritten DEF SavedNeighbour
<1>6. Owned'
  BY <1>0, StillOwned DEF SavedNeighbour, Proceeds
<1>7. Hand(a)'
  BY <1>0, <1>1 DEF Hand, Holding
<1>8. Copies(op[a])'
  <2>1. /\ \A e \in n.copy.blockedBy : Linked(k, e)'
        /\ \A e \in n.copy.blocks : Waited(e, k)'
    BY <1>0, <1>1, <1>3, <1>4 DEF Unwritten
  <2>2. Unwritten(n, "saveDep") = {} /\ Unwritten(n, "saveDown") = {}
    BY <1>1 DEF Unwritten
  <2> QED  BY <1>1, <1>11, <2>1, <2>2, CopiesAre
<1>9. Clearing(a)'
  BY <1>1 DEF Clearing
<1> QED  BY <1>5, <1>6, <1>7, <1>8, <1>9 DEF Fit

LEMMA StatusFit ==
  ASSUME GraphInv, NEW a \in Agents, Fit(a), Proceeds(a), UNCHANGED <<file, stale>>,
         StatusApplied(a)
  PROVE  Fit(a)'
<1> DEFINE o == op[a]  n == op'[a]
<1>0. /\ GraphTypes /\ Keeps(a) /\ Hand(a) /\ o.id \in exist /\ o.id \in Ids
      /\ n.pc \in Holding /\ o.pc = "link"
  <2>1. GraphTypes /\ Hand(a) /\ o.pc = "link" /\ n.pc \in Holding
    BY DEF GraphInv, Fit, StatusApplied, Holding
  <2>2. Keeps(a)
    BY <2>1, LinkKeeps DEF StatusApplied
  <2> QED  BY <2>1, <2>2 DEF Hand, Holding, GraphTypes
<1>1. FilesSound' /\ Owned'
  BY <1>0, FilesUntouched DEF Proceeds
<1>2. Hand(a)'
  <2>1. /\ n.base.blockedBy \subseteq n.copy.blockedBy /\ n.base.blocks \subseteq n.copy.blocks
        /\ n.id \in exist' /\ n.copy.owner = n.base.owner /\ n.todo \subseteq exist'
    BY <1>0 DEF StatusApplied, Proceeds, Hand, Holding
  <2>2. /\ n.pc \in {"clear", "save"} /\ (n.pc = "save" => n.todo = {})
        /\ (n.pc = "clear" => n.st = "completed")
        /\ (n.st = "completed" => n.copy.status = "completed")
    BY DEF StatusApplied
  <2> QED  BY <2>1, <2>2 DEF Hand, Holding
<1>3. Copies(op[a])'
  <2>1. PICK k \in Ids : k = o.id
    BY <1>0
  <2>2. Holds(o, k) /\ Unwritten(o, "saveDep") = {} /\ Unwritten(o, "saveDown") = {}
    BY <1>0, <2>1 DEF Unwritten, Holding, Holds
  <2>3. /\ \A e \in o.copy.blockedBy : Linked(k, e)'
        /\ \A e \in o.copy.blocks : Waited(e, k)'
    <3>1. /\ \A e \in o.copy.blockedBy \ Unwritten(o, "saveDep") : Linked(k, e)'
          /\ \A e \in o.copy.blocks \ Unwritten(o, "saveDown") : Waited(e, k)'
      BY <1>0, <2>2, Edges
    <3> QED  BY <2>2, <3>1
  <2>4. \A i \in n.todo : /\ \A e \in n.read[i].blockedBy : Linked(i, e)'
                          /\ \A e \in n.read[i].blocks : Waited(e, i)'
    <3>1. \A i \in n.todo : i \in Ids /\ n.read[i] = file[i]
      BY <1>0 DEF StatusApplied, GraphTypes
    <3> QED  BY <1>0, <3>1, Edges
  <2>5. k = n.id /\ n.copy.blockedBy = o.copy.blockedBy /\ n.copy.blocks = o.copy.blocks
    BY <2>1 DEF Proceeds, StatusApplied
  <2> QED  BY <2>3, <2>4, <2>5, CopiesAre
<1>4. Clearing(a)'
  BY DEF Clearing, Proceeds, StatusApplied
<1> QED  BY <1>1, <1>2, <1>3, <1>4 DEF Fit

LEMMA UnblockedFit ==
  ASSUME GraphInv, NEW a \in Agents, Fit(a), Proceeds(a), NEW i \in Ids, Unblocked(a, i)
  PROVE  Fit(a)'
<1> DEFINE o == op[a]  n == op'[a]
<1>0. /\ GraphTypes /\ Keeps(a) /\ Hand(a) /\ Owned /\ o.id \in exist /\ o.id \in Ids
      /\ i \in exist /\ i \in o.todo /\ o.pc = "clear" /\ n.pc \in {"clear", "save"}
  <2>1. GraphTypes /\ Hand(a) /\ Owned
    BY DEF GraphInv, Fit
  <2>2. Keeps(a)
    BY <2>1, UnblockedKeeps
  <2> QED  BY <2>1, <2>2 DEF Hand, Holding, GraphTypes, Unblocked
<1>1. /\ n.id = o.id /\ n.copy = o.copy /\ n.base = o.base /\ n.st = o.st /\ n.met = o.met
      /\ exist' = exist /\ n.todo = o.todo \ {i}
  BY DEF Unblocked, Proceeds
<1>2. FilesSound'
  <2>1. /\ \A e \in o.read[i].blockedBy : Linked(i, e)'
        /\ \A e \in o.read[i].blocks : Waited(e, i)'
    BY <1>0, Edges
  <2>2. /\ \A e \in file'[i].blockedBy : Linked(i, e)'
        /\ \A e \in file'[i].blocks : Waited(e, i)'
    BY <2>1 DEF Unblocked
  <2> QED  BY <1>0, <2>2, FileWritten DEF Unblocked
<1>3. Owned'
  BY <1>0, StillOwned DEF Unblocked, Proceeds
<1>4. Hand(a)'
  BY <1>0, <1>1 DEF Hand, Holding, Unblocked
<1>5. Copies(op[a])'
  <2>1. PICK k \in Ids : k = o.id
    BY <1>0
  <2>2. Holds(o, k) /\ Unwritten(o, "saveDep") = {} /\ Unwritten(o, "saveDown") = {}
        /\ Unwritten(n, "saveDep") = {} /\ Unwritten(n, "saveDown") = {}
    BY <1>0, <2>1 DEF Unwritten, Holding, Holds
  <2>3. /\ \A e \in o.copy.blockedBy \ Unwritten(o, "saveDep") : Linked(k, e)'
        /\ \A e \in o.copy.blocks \ Unwritten(o, "saveDown") : Waited(e, k)'
    BY <1>0, <2>2, Edges
  <2>4. /\ \A e \in n.copy.blockedBy \ Unwritten(n, "saveDep") : Linked(k, e)'
        /\ \A e \in n.copy.blocks \ Unwritten(n, "saveDown") : Waited(e, k)'
    BY <1>1, <2>2, <2>3
  <2>5. \A j \in n.todo : /\ \A e \in n.read[j].blockedBy : Linked(j, e)'
                          /\ \A e \in n.read[j].blocks : Waited(e, j)'
    <3>1. \A j \in n.todo : j \in o.todo /\ n.read[j] = o.read[j]
      BY <1>1 DEF Unblocked
    <3> QED  BY <1>0, <3>1, Edges
  <2> QED  BY <1>1, <2>1, <2>4, <2>5, CopiesAre
<1>6. Clearing(a)'
  <2> SUFFICES ASSUME n.st = "completed", ~n.met, NEW j \in exist, n.id \in file'[j].blockedBy
               PROVE  n.pc = "clear" /\ j \in n.todo
    BY <1>1 DEF Clearing
  <2>1. j # i
    BY <1>1 DEF Unblocked
  <2>2. j \in Ids /\ o.id \in file[j].blockedBy
    BY <1>0, <1>1, <2>1 DEF Unblocked, GraphTypes
  <2>3. j \in o.todo
    BY <1>0, <1>1, <2>2 DEF Fit, Clearing
  <2> QED  BY <1>0, <1>1, <2>1, <2>3 DEF Unblocked
<1> QED  BY <1>2, <1>3, <1>4, <1>5, <1>6 DEF Fit

LEMMA ReturnFit ==
  ASSUME GraphInv, GraphTypes', NEW a \in Agents, Fit(a), Returns(a),
         (op[a].pc = "create" /\ Created(a)) \/ Saved(a) \/ Aborted(a)
  PROVE  Fit(a)'
<1> DEFINE o == op[a]
<1>0. /\ GraphTypes /\ Hand(a) /\ Owned /\ Keeps(a) /\ o.id \in Ids /\ exist \subseteq Ids
      /\ file \in [Ids -> Tasks]
  <2>1. GraphTypes /\ Hand(a) /\ Owned
    BY DEF GraphInv, Fit
  <2> QED  BY <2>1, ReturnKeeps, OperationFields DEF GraphTypes
<1>1. op'[a].pc = "idle" /\ op'[a].todo = {}
  BY Values DEF Returns
<1>2. Hand(a)' /\ Clearing(a)'
  BY <1>1 DEF Hand, Clearing, Holding
<1>3. Copies(op[a])'
  BY <1>1, CopiesAre DEF Holding
<1>4. CASE Aborted(a)
  BY <1>0, <1>2, <1>3, <1>4, FilesUntouched DEF Aborted, Fit
<1>5. CASE o.pc = "create" /\ Created(a)
  <2>1. FilesSound'
    <3>1. file'[o.id] = New
      BY <1>5 DEF Created
    <3>2. \A j \in Ids \ {o.id} : file'[j] = file[j]
      BY <1>5 DEF Created
    <3> QED  BY <1>0, <3>1, <3>2, FileWritten, Values
  <2>2. Owned'
    BY <1>0, <1>5 DEF Created, Owned
  <2> QED  BY <1>2, <1>3, <2>1, <2>2 DEF Fit
<1>6. CASE Saved(a)
  <2>0. o.pc \in Holding /\ o.id \in exist
    BY <1>0, <1>6 DEF Saved, Hand, Holding
  <2>1. FilesSound'
    <3>1. PICK k \in Ids : k = o.id
      BY <1>0
    <3>2. Holds(o, k) /\ Unwritten(o, "saveDep") = {} /\ Unwritten(o, "saveDown") = {}
      BY <1>6, <2>0, <3>1 DEF Unwritten, Holds, Saved
    <3>3. /\ \A e \in o.copy.blockedBy \ Unwritten(o, "saveDep") : Linked(k, e)'
          /\ \A e \in o.copy.blocks \ Unwritten(o, "saveDown") : Waited(e, k)'
      BY <1>0, <3>2, Edges
    <3>4. /\ file'[k] = o.copy /\ \A j \in Ids \ {k} : file'[j] = file[j]
      BY <1>6, <3>1 DEF Saved
    <3> QED  BY <1>0, <3>2, <3>3, <3>4, FileWritten
  <2>2. Owned'
    <3>1. CASE o.pc = "claim"
      <4>1. /\ file'[o.id].owner = a /\ a # NoOwner /\ exist' = exist
            /\ claims' = [claims EXCEPT ![o.id] = @ \cup {a}]
        BY <1>0, <1>6, <3>1, Values DEF Saved, Hand
      <4>2. ASSUME NEW j \in Ids
            PROVE  /\ j \notin exist' => file'[j] = New /\ claims'[j] = {}
                   /\ claims'[j] # {} /\ j \notin stale' => file'[j].owner # NoOwner
        <5>1. CASE j = o.id
          BY <2>0, <4>1, <5>1
        <5>2. CASE j # o.id
          <6>1. file'[j] = file[j] /\ claims'[j] = claims[j] /\ stale \subseteq stale'
            BY <1>0, <1>6, <4>1, <5>2 DEF Saved, GraphTypes
          <6> QED  BY <1>0, <4>1, <6>1 DEF Owned
        <5> QED  BY <5>1, <5>2
      <4> QED  BY <4>2 DEF Owned
    <3>2. CASE o.pc # "claim"
      <4>1. file'[o.id].owner = o.base.owner /\ UNCHANGED <<exist, claims>>
        BY <1>0, <1>6, <2>0, <3>2 DEF Saved, Hand
      <4> QED  BY <1>0, <1>6, <2>0, <4>1, StillOwned DEF Saved
    <3> QED  BY <3>1, <3>2
  <2> QED  BY <1>2, <1>3, <2>1, <2>2 DEF Fit
<1> QED  BY <1>4, <1>5, <1>6

\* The other operations are as they were, and what they hold is as sound.
LEMMA OthersFit ==
  ASSUME GraphInv, NEW a \in Agents, Keeps(a), exist \subseteq exist',
         NEW b \in Agents \ {a}
  PROVE  Hand(b)' /\ Copies(op[b])'
<1> DEFINE o == op[b]  n == op'[b]
<1>0. /\ n.pc = o.pc /\ n.id = o.id /\ n.base = o.base /\ n.copy = o.copy /\ n.st = o.st
      /\ n.read = o.read /\ n.todo = o.todo
  BY DEF Keeps, Alike
<1>1. Hand(b) /\ Copies(o) /\ GraphTypes /\ o \in Operations
  BY DEF GraphInv, GraphTypes
<1>2. Hand(b)'
  BY <1>0, <1>1 DEF Hand
<1>3. /\ o.id \in Ids /\ o.todo \subseteq Ids
      /\ o.copy.blockedBy \subseteq Ids /\ o.copy.blocks \subseteq Ids
      /\ \A i \in Ids : o.read[i].blockedBy \subseteq Ids /\ o.read[i].blocks \subseteq Ids
  <2>1. o.id \in Ids /\ o.todo \subseteq Ids /\ o.copy \in Tasks /\ o.read \in [Ids -> Tasks]
    BY <1>1, OperationFields
  <2> QED  BY <2>1, TaskFields
<1>4. \A i, d \in Ids : (Linked(i, d) => Linked(i, d)') /\ (Waited(i, d) => Waited(i, d)')
  BY EdgesStay
<1>5. PICK k \in Ids : k = o.id
  BY <1>3
<1>6. o.pc \in Holding => /\ \A d \in o.copy.blockedBy \ Unwritten(o, "saveDep") : Linked(k, d)
                          /\ \A d \in o.copy.blocks \ Unwritten(o, "saveDown") : Waited(d, k)
  BY <1>1, <1>5 DEF Copies, Sound
<1>7. \A i \in o.todo : /\ \A d \in o.read[i].blockedBy : Linked(i, d)
                        /\ \A d \in o.read[i].blocks : Waited(d, i)
  BY <1>1 DEF Copies, Sound
<1>8. n.pc \in Holding =>
        /\ \A d \in n.copy.blockedBy \ Unwritten(n, "saveDep") : Linked(k, d)'
        /\ \A d \in n.copy.blocks \ Unwritten(n, "saveDown") : Waited(d, k)'
  <2>1. Unwritten(n, "saveDep") = Unwritten(o, "saveDep")
        /\ Unwritten(n, "saveDown") = Unwritten(o, "saveDown")
    BY <1>0 DEF Unwritten
  <2> QED  BY <1>0, <1>3, <1>4, <1>6, <2>1, Zenon
<1>9. \A i \in n.todo : /\ \A d \in n.read[i].blockedBy : Linked(i, d)'
                        /\ \A d \in n.read[i].blocks : Waited(d, i)'
  BY <1>0, <1>3, <1>4, <1>7, Zenon
<1>10. Copies(op[b])'
  BY <1>0, <1>5, <1>8, <1>9, CopiesAre
<1> QED  BY <1>2, <1>10

\* An operation meets the ones under way as it begins, and the ones that begin before it
\* returns.
LEMMA MetNone ==
  ASSUME GraphInv, NEW a \in Agents,
         \/ Begun(a)
         \/ /\ op[a].pc # "idle" /\ Waiting(a)
            /\ Returns(a) \/ op'[a].met = op[a].met
  PROVE  \A b \in Agents : Alone(b)' /\ (b # a => Clearing(b)')
<1>0. \A b \in Agents : Alone(b) /\ Clearing(b)
  BY DEF GraphInv
<1>1. CASE Begun(a)
  <2>1. ASSUME NEW b \in Agents \ {a}
        PROVE  /\ op'[b].pc = op[b].pc /\ (op[b].pc # "idle" => op'[b].met)
    BY <1>1 DEF Begun, Alike
  <2>2. Alone(a)'
    BY <1>1, <2>1 DEF Alone, Begun
  <2>3. ASSUME NEW b \in Agents \ {a} PROVE Alone(b)' /\ Clearing(b)'
    BY <2>1, <2>3 DEF Alone, Clearing
  <2> QED  BY <2>2, <2>3
<1>2. CASE op[a].pc # "idle" /\ Waiting(a) /\ (Returns(a) \/ op'[a].met = op[a].met)
  <2>1. ASSUME NEW b \in Agents \ {a}
        PROVE  op'[b] = op[b] /\ (op[b].pc # "idle" => op[b].met)
    BY <1>0, <1>2 DEF Waiting, Alone
  <2>2. Alone(a)'
    BY <1>0, <1>2, <2>1, Values DEF Alone, Returns
  <2>3. ASSUME NEW b \in Agents \ {a} PROVE Alone(b)' /\ Clearing(b)'
    BY <2>1, <2>3 DEF Alone, Clearing
  <2> QED  BY <2>2, <2>3
<1> QED  BY <1>1, <1>2

LEMMA GraphStep ==
  ASSUME GraphInv, NEW a \in Agents, Begins(a) \/ Goes(a)
  PROVE  GraphInv'
<1>0. GraphTypes /\ Fit(a)
  BY DEF GraphInv, Fit, FilesSound
<1> DEFINE After == /\ GraphTypes' /\ Fit(a)' /\ Keeps(a) /\ exist \subseteq exist'
                    /\ \/ Begun(a)
                       \/ /\ op[a].pc # "idle" /\ Waiting(a)
                          /\ Returns(a) \/ op'[a].met = op[a].met
<1>1. ASSUME Begins(a) PROVE After
  <2>1. Begun(a) /\ GraphTypes'
    BY <1>0, <1>1, OperationBegins
  <2> QED  BY <1>0, <2>1, BegunFit, BegunKeeps DEF Begun
<1>2. ASSUME VisitDep(a) \/ VisitDown(a) PROVE After
  <2>1. CASE VisitDep(a)
    <3>1. /\ op[a].pc = "link" /\ Proceeds(a) /\ UNCHANGED <<file, stale>> /\ GraphTypes'
      BY <1>0, <2>1, DepVisited
    <3>2. PICK d \in exist : VisitedDep(a, d)
      BY <1>0, <2>1, DepVisited
    <3>3. Fit(a)'
      BY <1>0, <3>1, <3>2, VisitedDepFit
    <3>4. Keeps(a)
      BY <1>0, <3>1, <3>2, LinkKeeps DEF VisitedDep, Holding
    <3> QED  BY <3>1, <3>3, <3>4 DEF Proceeds
  <2>2. CASE VisitDown(a)
    <3>1. /\ op[a].pc = "link" /\ Proceeds(a) /\ UNCHANGED <<file, stale>> /\ GraphTypes'
      BY <1>0, <2>2, DownVisited
    <3>2. PICK d \in exist : VisitedDown(a, d)
      BY <1>0, <2>2, DownVisited
    <3>3. Fit(a)'
      BY <1>0, <3>1, <3>2, VisitedDownFit
    <3>4. Keeps(a)
      BY <1>0, <3>1, <3>2, LinkKeeps DEF VisitedDown, Holding
    <3> QED  BY <3>1, <3>3, <3>4 DEF Proceeds
  <2> QED  BY <1>2, <2>1, <2>2
<1>3. ASSUME SaveNeighbour(a) PROVE After
  <2>1. Proceeds(a) /\ GraphTypes'
    BY <1>0, <1>3, NeighbourSaved
  <2>2. PICK d \in Ids : SavedNeighbour(a, d)
    BY <1>0, <1>3, NeighbourSaved
  <2>3. Fit(a)' /\ Keeps(a)
    BY <1>0, <2>1, <2>2, NeighbourFit, NeighbourKeeps
  <2> QED  BY <2>1, <2>2, <2>3 DEF Proceeds, SavedNeighbour
<1>4. ASSUME ApplyStatus(a) PROVE After
  <2>1. Proceeds(a) /\ UNCHANGED <<file, stale>> /\ GraphTypes' /\ StatusApplied(a)
    BY <1>0, <1>4, StatusIsApplied
  <2>2. Fit(a)'
    BY <1>0, <2>1, StatusFit
  <2>3. Keeps(a)
    BY <1>0, <2>1, LinkKeeps DEF StatusApplied, Holding
  <2> QED  BY <2>1, <2>2, <2>3 DEF Proceeds, StatusApplied
<1>5. ASSUME ClearNext(a) PROVE After
  <2>1. Proceeds(a) /\ GraphTypes'
    BY <1>0, <1>5, NextUnblocked
  <2>2. PICK i \in Ids : Unblocked(a, i)
    BY <1>0, <1>5, NextUnblocked
  <2>3. Fit(a)' /\ Keeps(a)
    BY <1>0, <2>1, <2>2, UnblockedFit, UnblockedKeeps DEF Fit
  <2> QED  BY <2>1, <2>2, <2>3 DEF Proceeds, Unblocked
<1>6. ASSUME \/ SaveCreate(a) \/ SaveTask(a) \/ SaveClaim(a)
             \/ UnknownTask(a) \/ TornRead(a) \/ WriteError(a)
      PROVE  After
  <2>1. /\ Returns(a) /\ GraphTypes'
        /\ (op[a].pc = "create" /\ Created(a)) \/ Saved(a) \/ Aborted(a)
    BY <1>0, <1>6, OperationReturns
  <2>2. Fit(a)'
    BY <1>0, <2>1, ReturnFit
  <2>3. Keeps(a)
    BY <1>0, <2>1, ReturnKeeps DEF Fit
  <2>4. exist \subseteq exist'
    BY <2>1 DEF Created, Saved, Aborted
  <2> QED  BY <2>1, <2>2, <2>3, <2>4 DEF Returns
<1>7. After
  BY <1>1, <1>2, <1>3, <1>4, <1>5, <1>6 DEF Goes
<1>8. \A b \in Agents \ {a} : Hand(b)' /\ Copies(op[b])'
  BY <1>7, OthersFit
<1>9. \A b \in Agents : Alone(b)' /\ (b # a => Clearing(b)')
  BY <1>7, MetNone
<1>10. \A b \in Agents : (Hand(b) /\ Copies(op[b]) /\ Alone(b) /\ Clearing(b))'
  BY <1>7, <1>8, <1>9 DEF Fit
<1> QED  BY <1>7, <1>10 DEF GraphInv, Fit, FilesSound

\* Nothing waits and no operation is under way at first.
LEMMA GraphInit == Init => GraphInv
<1> SUFFICES ASSUME Init PROVE GraphInv
  OBVIOUS
<1>1. /\ exist \subseteq Ids /\ file = [i \in Ids |-> New] /\ op = [a \in Agents |-> Idle]
      /\ aborts = 0 /\ stale = {} /\ ever = {} /\ claims = [i \in Ids |-> {}]
  BY GraphAssumption DEF Init, Ids
<1>2. GraphTypes
  BY <1>1, Values DEF GraphTypes
<1>3. Owned /\ \A i \in Ids : file[i] = New
  BY <1>1 DEF Owned
<1>4. \A a \in Agents : op[a] = Idle /\ Idle.pc = "idle" /\ Idle.todo = {}
  BY <1>1, Values
<1>5. \A i \in Ids : Sound(i, file[i].blockedBy, file[i].blocks)
  BY <1>3, Values DEF Sound
<1>6. ASSUME NEW a \in Agents PROVE Hand(a) /\ Copies(op[a]) /\ Alone(a) /\ Clearing(a)
  BY <1>4 DEF Hand, Copies, Alone, Clearing, Holding
<1> QED  BY <1>2, <1>3, <1>5, <1>6 DEF GraphInv

LEMMA GoesTypes ==
  ASSUME GraphTypes, NEW a \in Agents, Goes(a)
  PROVE  GraphTypes'
BY DepVisited, DownVisited, NeighbourSaved, StatusIsApplied, NextUnblocked, OperationReturns
   DEF Goes

LEMMA GraphStutters ==
  ASSUME GraphInv, UNCHANGED graph
  PROVE  GraphInv'
<1>1. (\A i, d : Linked(i, d)' <=> Linked(i, d)) /\ (\A i, d : Waited(i, d)' <=> Waited(i, d))
  BY DEF graph, Linked, Waited
<1> QED
  BY <1>1 DEF graph, GraphInv, GraphTypes, Owned, Sound, Copies, Unwritten, Hand, Alone, Clearing

\* A load that fails outside of the task operations changes nothing but the history.
Failed == aborts' = aborts + 1 /\ UNCHANGED <<exist, file, op, stale, ever, claims>>

LEMMA ErrorKeeps ==
  ASSUME GraphInv, Failed
  PROVE  GraphInv'
<1>1. /\ aborts \in Nat /\ aborts' > 0 /\ aborts' \in Nat
      /\ UNCHANGED <<exist, file, op, stale, ever, claims>>
  BY DEF GraphInv, GraphTypes, Failed
<1>2. (\A i, d : Linked(i, d)') /\ (\A i, d : Waited(i, d)')
  BY <1>1 DEF Linked, Waited
<1> QED
  BY <1>1, <1>2 DEF GraphInv, GraphTypes, Owned, Sound, Copies, Unwritten, Hand, Alone, Clearing

\* What the worktrees' operations do to the graph are operations on it, or a failed load.
LEMMA TreeStepGraph ==
  ASSUME GraphTypes, NEW a \in Agents, TreeStep(a)
  PROVE  (UNCHANGED graph \/ Begins(a) \/ Failed) /\ (op' = op \/ Begins(a))
<1>1. CASE Bind(a) \/ Unbind(a) \/ Complete(a)
  <2>1. exist \subseteq Ids
    BY DEF GraphTypes
  <2>2. CASE NotFound(a) \/ TornLoad(a)
    BY <2>2 DEF NotFound, TornLoad, graph, vars, Failed
  <2>3. CASE \E bind \in BOOLEAN : act[a].task \in exist /\ BindWorktree(a, act[a].task, bind)
    BY <2>1, <2>3 DEF Begins
  <2>4. CASE act[a].task \in exist /\ BeginUpdate(a, act[a].task, "completed", {}, {})
    <3>1. "completed" \in Statuses \cup {"none"} /\ {} \in SUBSET Refs
      BY DEF Statuses
    <3> QED  BY <2>1, <2>4, <3>1 DEF Begins
  <2>5. TRUE \in BOOLEAN /\ FALSE \in BOOLEAN
    BY SMTT(60)
  <2> QED  BY <1>1, <2>2, <2>3, <2>4, <2>5 DEF Bind, Unbind, Complete
<1>2. CASE ~Bind(a) /\ ~Unbind(a) /\ ~Complete(a)
  BY <1>2 DEF TreeStep, BeginTree, GitAdd, LoadIndex, PushEntry, Finished, BeginRemoval,
              GitRemove, MarkRemoved, BeginKeep, Keep, IndexError, graph, vars
<1> QED  BY <1>1, <1>2

LEMMA TreesUseGraph ==
  ASSUME GraphTypes, [WorktreesNext]_allvars
  PROVE  UNCHANGED graph \/ (\E a \in Agents : Begins(a) \/ Goes(a)) \/ Failed
<1>1. CASE UNCHANGED allvars \/ DeleteBranch
  BY <1>1 DEF allvars, DeleteBranch, graph, vars
<1>2. ASSUME NEW a \in Agents, TaskStep(a) PROVE Begins(a) \/ Goes(a)
  BY <1>2 DEF TaskStep
<1> QED  BY <1>1, <1>2, TreeStepGraph DEF WorktreesNext

\* A claim that returns has saved its task, whoever else takes a step.
LEMMA ClaimSteps ==
  ASSUME GraphInv, [WorktreesNext]_allvars, NEW a \in Agents, claims' # claims,
         op[a].pc = "claim", op'[a].pc = "idle"
  PROVE  SaveClaim(a)
<1>1. PICK b \in Agents : SaveClaim(b)
  <2>1. GraphTypes
    BY DEF GraphInv
  <2>2. ASSUME NEW b \in Agents, Begins(b) PROVE claims' = claims
    BY <2>1, <2>2, OperationBegins DEF Begun
  <2>3. PICK b \in Agents : Goes(b)
    BY <2>1, <2>2, TreesUseGraph DEF graph, Failed
  <2>4. ~SaveClaim(b) => claims' = claims
    BY <2>3 DEF Goes, SaveCreate, VisitDep, VisitDown, SaveNeighbour, UnknownTask, TornRead,
                ApplyStatus, ClearNext, SaveTask, WriteError
  <2> QED  BY <2>3, <2>4
<1>2. b = a
  <2>1. op'[a] = op[a] \/ b = a
    BY <1>1 DEF SaveClaim, Set, GraphInv, GraphTypes
  <2> QED  BY <2>1
<1> QED  BY <1>1, <1>2

\* The graph stays in order, whatever the operations on it interleave, for every value of
\* the constants.
THEOREM GraphInvInvariant == WorktreesSpec => []GraphInv
<1>1. WorktreesInit => GraphInv
  BY GraphInit DEF WorktreesInit
<1>2. GraphInv /\ [WorktreesNext]_allvars => GraphInv'
  <2> SUFFICES ASSUME GraphInv, [WorktreesNext]_allvars PROVE GraphInv'
    OBVIOUS
  <2>1. GraphTypes
    BY DEF GraphInv
  <2> QED  BY <2>1, TreesUseGraph, GraphStep, GraphStutters, ErrorKeeps
<1> QED  BY <1>1, <1>2, PTL DEF WorktreesSpec

\* As long as no operation has returned an error, between operations every task that waits
\* is listed by the one it waits for, unless that one's file was written over.
THEOREM EdgesMirror == WorktreesSpec => []EdgesMirrored
<1>1. GraphInv => EdgesMirrored
  <2> SUFFICES ASSUME GraphInv, aborts = 0, Quiet, NEW i \in exist,
                      NEW d \in file[i].blockedBy
               PROVE  i \in file[d].blocks \/ d \in stale
    BY DEF EdgesMirrored
  <2>1. i \in Ids /\ Sound(i, file[i].blockedBy, file[i].blocks)
    BY DEF GraphInv, GraphTypes
  <2>2. Linked(i, d)
    BY <2>1 DEF Sound
  <2>3. \A b \in Agents : ~Holds(op[b], d)
    BY DEF Quiet, Holds, Holding
  <2> QED  BY <2>2, <2>3 DEF Linked
<1>2. WorktreesSpec => []GraphInv
  BY GraphInvInvariant
<1> QED  BY <1>1, <1>2, PTL

\* When an update to completed that met no other operation returns, no other task waits
\* for the completed one, whatever has left the edges it found on the disk.
THEOREM CompletionUnblocks == WorktreesSpec => UnblocksOnComplete
<1>1. GraphInv /\ [WorktreesNext]_allvars =>
        [\A a \in Agents :
           op[a].pc = "save" /\ op[a].st = "completed" /\ op'[a].pc = "idle"
             /\ faults' = faults /\ ~op[a].met
             => \A i \in exist \ {op[a].id} : op[a].id \notin file[i].blockedBy]_vars
  <2> SUFFICES ASSUME GraphInv, NEW a \in Agents, op[a].pc = "save", ~op[a].met,
                      op[a].st = "completed", NEW i \in exist \ {op[a].id}
               PROVE  op[a].id \notin file[i].blockedBy
    OBVIOUS
  <2>1. Clearing(a)
    BY DEF GraphInv
  <2> QED  BY <2>1 DEF Clearing
<1>2. WorktreesSpec => []GraphInv
  BY GraphInvInvariant
<1> QED  BY <1>1, <1>2, PTL DEF WorktreesSpec, UnblocksOnComplete

\* A claim that writes over nothing is of a task that nobody has claimed; if it met no
\* other operation, every task known to block the claimed one has been completed.
THEOREM ClaimsAreSound == WorktreesSpec => ClaimSound
<1>1. GraphInv /\ [WorktreesNext]_allvars =>
        [\A a \in Agents : /\ claims' # claims /\ op[a].pc = "claim" /\ op'[a].pc = "idle"
                           /\ op[a].id \notin stale'
           => /\ claims[op[a].id] \subseteq {a}
              /\ aborts = 0 /\ ~op[a].met =>
                   \A d \in exist : op[a].id \in file[d].blocks => d \in ever]_vars
  <2> SUFFICES ASSUME GraphInv, [WorktreesNext]_allvars, NEW a \in Agents,
                      claims' # claims, op[a].pc = "claim", op'[a].pc = "idle",
                      op[a].id \notin stale'
               PROVE  /\ claims[op[a].id] \subseteq {a}
                      /\ aborts = 0 /\ ~op[a].met =>
                           \A d \in exist : op[a].id \in file[d].blocks => d \in ever
    OBVIOUS
  <2> DEFINE o == op[a]
  <2>0. /\ GraphTypes /\ Owned /\ Hand(a) /\ Alone(a) /\ o.id \in Ids /\ exist \subseteq Ids
        /\ \A i \in Ids : Sound(i, file[i].blockedBy, file[i].blocks)
    BY OperationFields DEF GraphInv, GraphTypes
  <2>1. o.base = file[o.id] /\ o.id \notin stale
    <3>1. SaveClaim(a)
      BY <2>0, ClaimSteps
    <3> QED  BY <3>1 DEF SaveClaim, Write
  <2>2. claims[o.id] = {}
    BY <2>0, <2>1 DEF Hand, Owned
  <2>3. ASSUME aborts = 0, ~o.met, NEW d \in exist, o.id \in file[d].blocks
        PROVE  d \in ever
    <3>1. Waited(o.id, d)
      BY <2>0, <2>3 DEF Sound
    <3>2. file[o.id].blockedBy = {} /\ o.copy.blockedBy = {}
      BY <2>0, <2>1 DEF Hand
    <3>3. \A b \in Agents : Holds(op[b], o.id) => b = a
      BY <2>0, <2>3 DEF Alone, Holds, Holding
    <3>4. \A b \in Agents : ~Completes(op[b], d)
      BY <2>0, <2>3 DEF Alone, Completes
    <3> QED  BY <2>1, <2>3, <3>1, <3>2, <3>3, <3>4 DEF Waited
  <2> QED  BY <2>2, <2>3
<1>2. WorktreesSpec => []GraphInv
  BY GraphInvInvariant
<1> QED  BY <1>1, <1>2, PTL DEF WorktreesSpec, ClaimSound

----------------------------------------------------------------------------
(* The worktrees, in every interleaving. *)

Acts ==
  [pc : {"idle", "add", "load", "push", "bind", "bound", "remove", "mark", "complete",
         "unbind", "keep"},
   name : Names, task : Refs \cup {NoTask}, copy : Seq(Entries),
   complete : BOOLEAN, known : BOOLEAN]

TreeTypes ==
  /\ GraphTypes /\ index \in Seq(Entries)
  /\ act \in [Agents -> Acts] /\ torn \in BOOLEAN

\* A worktree that an agent is about to list, and one that is listed.
Adding(n) == \E a \in Agents : act[a].name = n /\ act[a].pc \in {"load", "push"}
Listed(n) == \E i \in DOMAIN index : index[i].name = n /\ index[i].status # "removed"

\* While the index is written in order it only grows, so that a copy of it that is still
\* good was made after everything it lists; what is about to be marked as removed is gone,
\* or its name is in use again by an agent that has yet to list it or has listed it since.
CopiesOlder ==
  \A a \in Agents : act[a].pc \in {"push", "remove", "mark", "keep"} =>
    Len(act[a].copy) <= Len(index)
Gone(n, copy) == n \notin trees \/ Adding(n) \/ Len(copy) < Len(index)
MarksGone ==
  \A a \in Agents : act[a].pc = "mark" => Gone(act[a].name, act[a].copy)
AllListed == \A n \in trees : Listed(n) \/ Adding(n)

Indexed == ~torn => CopiesOlder /\ MarksGone /\ AllListed

TreesInv == TreeTypes /\ Indexed

LEMMA NoActFacts ==
  /\ NoAct \in Acts /\ NoAct.pc = "idle" /\ NoAct.complete = FALSE /\ NoAct.task = NoTask
  /\ <<>> \in Seq(Entries)
<1>1. <<>> \in Seq(Entries)
  OBVIOUS
<1>2. (CHOOSE n \in Names : TRUE) \in Names
  BY WorktreesAssumption
<1> QED  BY <1>1, <1>2 DEF NoAct, Acts

LEMMA ActFields ==
  \A o \in Acts : /\ o.name \in Names /\ o.task \in Refs \cup {NoTask}
                  /\ o.copy \in Seq(Entries) /\ o.complete \in BOOLEAN
                  /\ o.known \in BOOLEAN
BY DEF Acts

\* Entry i of an index with another status is an entry still.
Marked(ix, i, st) == [ix EXCEPT ![i].status = st]

LEMMA StatusChanges ==
  ASSUME NEW ix \in Seq(Entries), NEW n, NEW i \in Found(ix, n),
         NEW st \in {"removed", "kept"}, NEW jx, jx = Marked(ix, i, st)
  PROVE  /\ jx \in Seq(Entries) /\ Len(jx) = Len(ix) /\ DOMAIN jx = DOMAIN ix
         /\ i \in DOMAIN ix /\ ix[i].name = n
         /\ jx[i].name = n /\ jx[i].status = st
         /\ \A j \in DOMAIN ix \ {i} : jx[j] = ix[j]
<1>1. i \in 1..Len(ix) /\ DOMAIN ix = 1..Len(ix) /\ ix[i].name = n /\ ix[i] \in Entries
  BY ElementOfSeq DEF Found
<1>2. jx = [ix EXCEPT ![i] = [ix[i] EXCEPT !.status = st]]
  BY DEF Marked
<1>3. [ix[i] EXCEPT !.status = st] \in Entries
  BY <1>1 DEF Entries
<1>4. jx \in Seq(Entries) /\ Len(jx) = Len(ix)
  BY <1>1, <1>2, <1>3, ExceptSeq
<1>5. jx[i] = [ix[i] EXCEPT !.status = st] /\ DOMAIN jx = DOMAIN ix
      /\ \A j \in DOMAIN ix \ {i} : jx[j] = ix[j]
  BY <1>1, <1>2
<1>6. [ix[i] EXCEPT !.status = st].name = n /\ [ix[i] EXCEPT !.status = st].status = st
  BY <1>1 DEF Entries
<1> QED  BY <1>1, <1>4, <1>5, <1>6

LEMMA EntryAppends ==
  ASSUME NEW ix \in Seq(Entries), NEW e \in Entries
  PROVE  /\ Append(ix, e) \in Seq(Entries) /\ Len(Append(ix, e)) = Len(ix) + 1
         /\ Len(ix) \in Nat
         /\ DOMAIN ix = 1..Len(ix) /\ DOMAIN Append(ix, e) = 1..(Len(ix) + 1)
         /\ Append(ix, e)[Len(ix) + 1] = e
         /\ \A j \in DOMAIN ix : Append(ix, e)[j] = ix[j]
BY AppendProperties, LenProperties

\* What a step of agent a leaves: the others, and the types of its own act.
Acted(a) == act'[a] \in Acts /\ \A b \in Agents \ {a} : act'[b] = act[b]

LEMMA TreeTypesKept ==
  ASSUME TreeTypes, GraphTypes', NEW a \in Agents, TreeStep(a)
  PROVE  TreeTypes' /\ Acted(a)
<1> USE DEF Do, To
<1>0. /\ act \in [Agents -> Acts] /\ act[a] \in Acts /\ index \in Seq(Entries)
      /\ torn \in BOOLEAN
  BY SMTT(60) DEF TreeTypes
<1>1. \A o \in Acts :
        /\ \A pc \in {"load", "mark", "bound", "unbind"} : [o EXCEPT !.pc = pc] \in Acts
        /\ \A ix \in Seq(Entries), pc \in {"push", "bind", "complete"} :
             [o EXCEPT !.pc = pc, !.copy = ix] \in Acts
  BY DEF Acts
<1>2. ASSUME NEW o \in Acts, act' = [act EXCEPT ![a] = o]
      PROVE  act' \in [Agents -> Acts] /\ Acted(a)
  BY <1>0, <1>2 DEF Acted
<1>3. act' \in [Agents -> Acts] /\ Acted(a)
  <2> DEFINE goes(o) == act' = [act EXCEPT ![a] = o]
  <2>1. CASE BeginTree(a)
    <3>1. PICK n \in Names, t \in Refs \cup {NoTask} :
            goes([NoAct EXCEPT !.pc = "add", !.name = n, !.task = t])
      BY <2>1 DEF BeginTree
    <3>2. [NoAct EXCEPT !.pc = "add", !.name = n, !.task = t] \in Acts
      BY NoActFacts DEF Acts
    <3> QED  BY <3>1, <3>2, <1>2
  <2>2. CASE BeginRemoval(a)
    <3>1. PICK n \in Names, complete \in BOOLEAN : \E i \in Found(index, n) :
            goes([NoAct EXCEPT !.pc = "remove", !.name = n, !.task = index[i].task,
                               !.copy = index, !.complete = complete,
                               !.known = index[i].task \in exist])
      BY <2>2 DEF BeginRemoval
    <3>2. PICK i \in Found(index, n) :
            goes([NoAct EXCEPT !.pc = "remove", !.name = n, !.task = index[i].task,
                               !.copy = index, !.complete = complete,
                               !.known = index[i].task \in exist])
      BY <3>1
    <3>3. index[i].task \in Refs \cup {NoTask}
      <4>1. i \in 1..Len(index)
        BY <1>0 DEF Found
      <4>2. index[i] \in Entries
        BY <1>0, <4>1, ElementOfSeq
      <4> QED  BY <4>2 DEF Entries
    <3>4. \A k \in BOOLEAN :
            [NoAct EXCEPT !.pc = "remove", !.name = n, !.task = index[i].task,
                          !.copy = index, !.complete = complete, !.known = k] \in Acts
      BY <1>0, <3>3, NoActFacts DEF Acts
    <3>5. (index[i].task \in exist) \in BOOLEAN
      OBVIOUS
    <3> QED  BY <3>2, <3>4, <3>5, <1>2
  <2>3. CASE BeginKeep(a)
    <3>1. PICK n \in Names : goes([NoAct EXCEPT !.pc = "keep", !.name = n, !.copy = index])
      BY <2>3 DEF BeginKeep
    <3>2. [NoAct EXCEPT !.pc = "keep", !.name = n, !.copy = index] \in Acts
      BY <1>0, NoActFacts DEF Acts
    <3> QED  BY <3>1, <3>2, <1>2
  <2>4. CASE ~BeginTree(a) /\ ~BeginRemoval(a) /\ ~BeginKeep(a)
    <3>1. \/ goes(NoAct)
          \/ \E pc \in {"load", "mark", "bound", "unbind"} : goes([act[a] EXCEPT !.pc = pc])
          \/ \E ix \in {index, <<>>}, pc \in {"push", "bind", "complete"} :
               goes([act[a] EXCEPT !.pc = pc, !.copy = ix])
      BY <2>4, ZenonT(60) DEF TreeStep, GitAdd, LoadIndex, PushEntry, Bind, Finished, GitRemove,
                  MarkRemoved, Complete, Unbind, Keep, IndexError
    <3>2. PICK o \in Acts : goes(o)
      BY <3>1, <1>0, <1>1, NoActFacts
    <3> QED  BY <3>2, <1>2
  <2> QED  BY <2>1, <2>2, <2>3, <2>4
<1>4. index' \in Seq(Entries) /\ torn' \in BOOLEAN
  <2>1. CASE PushEntry(a)
    <3> DEFINE e == [name |-> act[a].name, task |-> act[a].task, status |-> "active"]
    <3>1. e \in Entries /\ act[a].copy \in Seq(Entries)
      BY <1>0, ActFields DEF Entries
    <3>2. index' = Append(act[a].copy, e) /\ torn' = (torn \/ act[a].copy # index)
      BY <2>1 DEF PushEntry, Overwrite
    <3> QED  BY <1>0, <3>1, <3>2, EntryAppends
  <2>2. CASE MarkRemoved(a) \/ Keep(a)
    <3>1. PICK i \in Found(act[a].copy, act[a].name), st \in {"removed", "kept"} :
            Overwrite(a, Marked(act[a].copy, i, st))
      BY <2>2 DEF MarkRemoved, Keep, Marked
    <3>2. act[a].copy \in Seq(Entries)
      BY <1>0, ActFields
    <3>3. Marked(act[a].copy, i, st) \in Seq(Entries)
      BY <3>1, <3>2, StatusChanges
    <3> QED  BY <1>0, <3>1, <3>3 DEF Overwrite
  <2>3. CASE ~PushEntry(a) /\ ~MarkRemoved(a) /\ ~Keep(a)
    <3>1. index' = index /\ torn' \in {torn, TRUE}
      BY <2>3 DEF TreeStep, BeginTree, GitAdd, LoadIndex, Bind, Finished, BeginRemoval,
                  GitRemove, Complete, Unbind, BeginKeep, IndexError
    <3> QED  BY <1>0, <3>1
  <2> QED  BY <2>1, <2>2, <2>3
<1> QED  BY <1>3, <1>4 DEF TreeTypes

\* A step of a that leaves the index as it is and forgets no worktree.
LEMMA IndexedKept ==
  ASSUME TreesInv, TreeTypes', NEW a \in Agents, Acted(a), UNCHANGED <<index, torn>>,
         act'[a].pc \in {"push", "remove", "mark", "keep"} =>
           \/ Len(act'[a].copy) <= Len(index)
           \/ act'[a].copy = act[a].copy /\ act[a].pc \in {"push", "remove", "mark", "keep"},
         act'[a].pc = "mark" => act'[a].name \notin trees',
         act[a].pc \in {"load", "push"} =>
           act'[a].pc \in {"load", "push"} /\ act'[a].name = act[a].name,
         \A n \in trees' : n \in trees \/ (act'[a].name = n /\ act'[a].pc = "load")
  PROVE  Indexed'
<1> SUFFICES ASSUME ~torn PROVE CopiesOlder' /\ MarksGone' /\ AllListed'
  BY DEF Indexed
<1>1. /\ act[a] \in Acts /\ act'[a] \in Acts /\ \A b \in Agents \ {a} : act'[b] = act[b]
      /\ index \in Seq(Entries) /\ Len(index) \in Nat
      /\ CopiesOlder /\ MarksGone /\ AllListed
  BY LenProperties DEF Acted, TreesInv, TreeTypes, Indexed
<1>2. \A n : Adding(n) => Adding(n)'
  BY <1>1 DEF Adding
<1>3. \A n : act'[a].name = n /\ act'[a].pc = "load" => Adding(n)'
  BY DEF Adding
<1>4. \A n : Listed(n)' <=> Listed(n)
  BY DEF Listed
<1>5. CopiesOlder'
  BY <1>1 DEF CopiesOlder
<1>6. AllListed'
  BY <1>1, <1>2, <1>3, <1>4 DEF AllListed, Adding, Listed
<1>7. ASSUME NEW b \in Agents, act'[b].pc = "mark", NEW n, n = act'[b].name,
             NEW c, c = act'[b].copy
      PROVE  Gone(n, c)'
  <2>1. CASE b = a
    BY <1>7, <2>1 DEF Gone
  <2>2. CASE b # a
    <3>1. Gone(n, c)
      BY <1>1, <1>7, <2>2 DEF MarksGone
    <3> QED  BY <1>2, <1>3, <3>1 DEF Gone, Adding
  <2> QED  BY <2>1, <2>2
<1>8. MarksGone'
  BY <1>7 DEF MarksGone, Gone, Adding
<1> QED  BY <1>5, <1>6, <1>8

\* A new entry lists the worktree; every copy made before it is stale.
LEMMA PushIndexed ==
  ASSUME TreesInv, TreeTypes', NEW a \in Agents, Acted(a), PushEntry(a)
  PROVE  Indexed'
<1> SUFFICES ASSUME ~torn' PROVE CopiesOlder' /\ MarksGone' /\ AllListed'
  BY DEF Indexed
<1> DEFINE e == [name |-> act[a].name, task |-> act[a].task, status |-> "active"]
<1>1. /\ act[a] \in Acts /\ act'[a] \in Acts /\ \A b \in Agents \ {a} : act'[b] = act[b]
      /\ index \in Seq(Entries) /\ ~torn /\ act[a].copy = index /\ e \in Entries
      /\ act[a].pc = "push" /\ act'[a].pc \in {"idle", "bind"} /\ trees' = trees
      /\ index' = Append(index, e) /\ CopiesOlder /\ MarksGone /\ AllListed
  <2>1. /\ act[a] \in Acts /\ act'[a] \in Acts /\ \A b \in Agents \ {a} : act'[b] = act[b]
        /\ index \in Seq(Entries) /\ act \in [Agents -> Acts]
    BY DEF Acted, TreesInv, TreeTypes
  <2>2. /\ ~torn /\ act[a].copy = index /\ index' = Append(act[a].copy, e)
        /\ act[a].pc = "push" /\ trees' = trees
    BY DEF PushEntry, Overwrite
  <2>3. act'[a].pc \in {"idle", "bind"}
    <3>1. act'[a] = NoAct \/ act'[a] = [act[a] EXCEPT !.pc = "bind", !.copy = <<>>]
      BY <2>1 DEF PushEntry, Do
    <3>2. [act[a] EXCEPT !.pc = "bind", !.copy = <<>>].pc = "bind"
      BY <2>1 DEF Acts
    <3> QED  BY <3>1, <3>2, NoActFacts
  <2>4. e \in Entries
    BY <2>1, ActFields DEF Entries
  <2> QED  BY <2>1, <2>2, <2>3, <2>4 DEF TreesInv, Indexed
<1>2. /\ Len(index') = Len(index) + 1 /\ Len(index) \in Nat
      /\ DOMAIN index = 1..Len(index) /\ DOMAIN index' = 1..(Len(index) + 1)
      /\ index'[Len(index) + 1] = e /\ \A j \in DOMAIN index : index'[j] = index[j]
  BY <1>1, EntryAppends
<1>3. \A n : Listed(n) \/ n = act[a].name => Listed(n)'
  <2>1. \A n : Listed(n) => Listed(n)'
    BY <1>2 DEF Listed
  <2>2. e.name = act[a].name /\ e.status # "removed"
    OBVIOUS
  <2> HIDE DEF e
  <2>3. \A n : n = act[a].name => Listed(n)'
    BY <1>2, <2>2 DEF Listed
  <2> QED  BY <2>1, <2>3
<1>4. \A n : Adding(n) => Adding(n)' \/ n = act[a].name
  BY <1>1 DEF Adding
<1>5. AllListed'
  BY <1>1, <1>3, <1>4 DEF AllListed, Listed, Adding
<1>6. \A b \in Agents : act'[b].pc \in {"push", "remove", "mark", "keep"} =>
        /\ act'[b] = act[b] /\ Len(act[b].copy) \in Nat
        /\ Len(act[b].copy) <= Len(index)
  <2>1. \A b \in Agents : Len(act[b].copy) \in Nat
    BY ActFields, LenProperties DEF TreesInv, TreeTypes
  <2> QED  BY <1>1, <2>1 DEF CopiesOlder
<1>7. CopiesOlder'
  BY <1>2, <1>6 DEF CopiesOlder
<1>8. MarksGone'
  BY <1>2, <1>6 DEF MarksGone, Gone
<1> QED  BY <1>5, <1>7, <1>8

\* What is marked as removed is gone or is being listed again, and what is kept is listed.
LEMMA MarkIndexed ==
  ASSUME TreesInv, TreeTypes', NEW a \in Agents, Acted(a), MarkRemoved(a) \/ Keep(a)
  PROVE  Indexed'
<1> SUFFICES ASSUME ~torn' PROVE CopiesOlder' /\ MarksGone' /\ AllListed'
  BY DEF Indexed
<1>1. /\ act[a] \in Acts /\ act'[a] \in Acts /\ \A b \in Agents \ {a} : act'[b] = act[b]
      /\ index \in Seq(Entries) /\ act \in [Agents -> Acts] /\ trees' = trees
      /\ act'[a].pc \in {"complete", "idle"} /\ act[a].pc \in {"mark", "keep"}
  <2>1. /\ act[a] \in Acts /\ act'[a] \in Acts /\ \A b \in Agents \ {a} : act'[b] = act[b]
        /\ index \in Seq(Entries) /\ act \in [Agents -> Acts]
    BY DEF Acted, TreesInv, TreeTypes
  <2>2. trees' = trees /\ act[a].pc \in {"mark", "keep"}
    BY DEF MarkRemoved, Keep
  <2>3. act'[a] = NoAct \/ act'[a] = [act[a] EXCEPT !.pc = "complete", !.copy = <<>>]
    BY <2>1 DEF MarkRemoved, Keep, Do
  <2>4. [act[a] EXCEPT !.pc = "complete", !.copy = <<>>].pc = "complete"
    BY <2>1 DEF Acts
  <2> QED  BY <2>1, <2>2, <2>3, <2>4, NoActFacts
<1>2. /\ ~torn /\ act[a].copy = index /\ CopiesOlder /\ MarksGone /\ AllListed
      /\ \E i \in Found(index, act[a].name), st \in {"removed", "kept"} :
           index' = Marked(index, i, st) /\ (st = "removed" => act[a].pc = "mark")
  BY DEF MarkRemoved, Keep, Overwrite, Marked, TreesInv, Indexed
<1>3. PICK i \in Found(index, act[a].name), st \in {"removed", "kept"} :
        index' = Marked(index, i, st) /\ (st = "removed" => act[a].pc = "mark")
  BY <1>2
<1>4. /\ Len(index') = Len(index) /\ DOMAIN index' = DOMAIN index
      /\ i \in DOMAIN index /\ index[i].name = act[a].name
      /\ index'[i].name = act[a].name /\ index'[i].status = st
      /\ \A j \in DOMAIN index \ {i} : index'[j] = index[j]
  BY <1>1, <1>3, StatusChanges
<1>5. \A n : Adding(n) <=> Adding(n)'
  BY <1>1 DEF Adding
<1>6. \A n : Listed(n) /\ (n # act[a].name \/ st = "kept") => Listed(n)'
  BY <1>4 DEF Listed
<1>7. st = "removed" => act[a].name \notin trees \/ Adding(act[a].name)
  BY <1>1, <1>2, <1>3, LenProperties DEF MarksGone, Gone
<1>8. AllListed'
  BY <1>1, <1>2, <1>5, <1>6, <1>7 DEF AllListed, Listed, Adding
<1>9. CopiesOlder'
  BY <1>1, <1>2, <1>4 DEF CopiesOlder
<1>10. ASSUME NEW b \in Agents, act'[b].pc = "mark", NEW n, n = act'[b].name,
              NEW c, c = act'[b].copy
       PROVE  Gone(n, c)'
  <2>1. act'[b] = act[b] /\ Gone(n, c)
    BY <1>1, <1>2, <1>10 DEF MarksGone
  <2> QED  BY <1>1, <1>4, <1>5, <2>1 DEF Gone, Adding
<1>11. MarksGone'
  BY <1>10 DEF MarksGone, Gone, Adding
<1> QED  BY <1>8, <1>9, <1>11

\* The other steps leave the index alone, or leave it torn.
LEMMA TreeStepIndexed ==
  ASSUME TreesInv, TreeTypes', NEW a \in Agents, Acted(a), TreeStep(a)
  PROVE  Indexed'
<1> DEFINE o == act[a]  n == act'[a]
<1> USE DEF Do, To
<1>0. act \in [Agents -> Acts] /\ o \in Acts
  BY DEF TreesInv, TreeTypes
<1>1. \A pc : [o EXCEPT !.pc = pc].pc = pc /\ [o EXCEPT !.pc = pc].name = o.name
              /\ [o EXCEPT !.pc = pc].copy = o.copy
  BY <1>0 DEF Acts
<1>2. CASE PushEntry(a)
  BY <1>2, PushIndexed
<1>3. CASE MarkRemoved(a) \/ Keep(a)
  BY <1>3, MarkIndexed
<1>4. CASE IndexError(a)
  BY <1>4 DEF IndexError, Indexed
<1>5. CASE GitAdd(a)
  <2>1. o.pc = "add" /\ UNCHANGED <<index, torn>>
    BY <1>5 DEF GitAdd
  <2>2. \/ n = NoAct /\ trees' = trees
        \/ n = [o EXCEPT !.pc = "load"] /\ trees' = trees \cup {o.name}
    BY <1>0, <1>5 DEF GitAdd
  <2>3. \/ n.pc = "idle" /\ trees' = trees
        \/ n.pc = "load" /\ n.name = o.name /\ trees' = trees \cup {o.name}
    BY <1>1, <2>2, NoActFacts, ZenonT(60)
  <2> QED  BY <2>1, <2>3, IndexedKept
<1>6. CASE LoadIndex(a)
  <2>1. PICK ix \in {index, <<>>} : n = [o EXCEPT !.pc = "push", !.copy = ix]
    BY <1>0, <1>6 DEF LoadIndex
  <2>2. o.pc = "load" /\ UNCHANGED <<index, trees, torn>>
    BY <1>6 DEF LoadIndex
  <2>3. n.pc = "push" /\ n.name = o.name /\ n.copy = ix
    BY <1>0, <2>1 DEF Acts
  <2>4. Len(ix) <= Len(index)
    BY <2>1, LenProperties DEF TreesInv, TreeTypes
  <2> QED  BY <2>2, <2>3, <2>4, IndexedKept
<1>7. CASE BeginRemoval(a) \/ BeginKeep(a)
  <2>1. o.pc = "idle" /\ UNCHANGED <<index, trees, torn>>
    BY <1>7 DEF BeginRemoval, BeginKeep, StartAct
  <2>2. n.pc \in {"remove", "keep"} /\ n.copy = index
    <3>1. CASE BeginRemoval(a)
      <4>1. PICK x \in Names, c \in BOOLEAN : \E i \in Found(index, x) :
              n = [NoAct EXCEPT !.pc = "remove", !.name = x, !.task = index[i].task,
                                !.copy = index, !.complete = c,
                                !.known = index[i].task \in exist]
        BY <1>0, <3>1 DEF BeginRemoval
      <4> QED  BY <4>1 DEF NoAct
    <3>2. CASE BeginKeep(a)
      <4>1. PICK x \in Names : n = [NoAct EXCEPT !.pc = "keep", !.name = x, !.copy = index]
        BY <1>0, <3>2 DEF BeginKeep
      <4> QED  BY <4>1 DEF NoAct
    <3> QED  BY <1>7, <3>1, <3>2
  <2>3. Len(n.copy) <= Len(index)
    BY <2>2, LenProperties DEF TreesInv, TreeTypes
  <2> QED  BY <2>1, <2>2, <2>3, IndexedKept
<1>8. CASE GitRemove(a)
  <2>1. o.pc = "remove" /\ UNCHANGED <<index, torn>>
    BY <1>8 DEF GitRemove
  <2>2. \/ n = NoAct /\ trees' = trees
        \/ n = [o EXCEPT !.pc = "mark"] /\ trees' = trees \ {o.name}
    BY <1>0, <1>8 DEF GitRemove
  <2>3. \/ n.pc = "idle" /\ trees' = trees
        \/ n.pc = "mark" /\ n.name = o.name /\ n.copy = o.copy /\ trees' = trees \ {o.name}
    BY <1>1, <2>2, NoActFacts, ZenonT(60)
  <2> QED  BY <2>1, <2>3, IndexedKept
<1>9. CASE BeginTree(a)
  <2>1. o.pc = "idle" /\ UNCHANGED <<index, trees, torn>>
    BY <1>9 DEF BeginTree, StartAct
  <2>2. n.pc = "add"
    BY <1>0, <1>9 DEF BeginTree, NoAct
  <2> QED  BY <2>1, <2>2, IndexedKept
<1>10. CASE Bind(a) \/ Finished(a) \/ Complete(a) \/ Unbind(a)
  <2>1. o.pc \in {"bind", "bound", "complete", "unbind"} /\ UNCHANGED <<index, trees, torn>>
    BY <1>10 DEF Bind, Finished, Complete, Unbind
  <2>2. n.pc \in {"bound", "idle", "unbind"}
    BY <1>0, <1>1, <1>10, NoActFacts DEF Bind, Finished, Complete, Unbind
  <2> QED  BY <2>1, <2>2, IndexedKept
<1> QED  BY <1>2, <1>3, <1>4, <1>5, <1>6, <1>7, <1>8, <1>9, <1>10 DEF TreeStep

\* No index that was written in order forgets a worktree, in any interleaving of any number
\* of agents, with names that are used again.
THEOREM TreesInvInvariant == WorktreesSpec => []TreesInv
<1>1. WorktreesInit => TreesInv
  <2> SUFFICES ASSUME WorktreesInit PROVE TreesInv
    OBVIOUS
  <2>1. TreeTypes
    BY GraphInit, NoActFacts DEF WorktreesInit, TreeTypes, GraphInv
  <2>2. Indexed
    BY NoActFacts DEF WorktreesInit, Indexed, CopiesOlder, MarksGone, AllListed
  <2> QED  BY <2>1, <2>2 DEF TreesInv
<1>2. TreesInv /\ [WorktreesNext]_allvars => TreesInv'
  <2> SUFFICES ASSUME TreesInv, [WorktreesNext]_allvars PROVE TreesInv'
    OBVIOUS
  <2>1. GraphTypes'
    <3>1. GraphTypes
      BY DEF TreesInv, TreeTypes
    <3>2. CASE UNCHANGED graph
      BY <3>1, <3>2 DEF graph, GraphTypes
    <3>3. CASE Failed
      BY <3>1, <3>3 DEF Failed, GraphTypes
    <3> QED  BY <3>1, <3>2, <3>3, TreesUseGraph, OperationBegins, GoesTypes
  <2>2. ASSUME NEW a \in Agents, TreeStep(a) PROVE TreesInv'
    BY <2>1, <2>2, TreeTypesKept, TreeStepIndexed DEF TreesInv
  <2>3. CASE UNCHANGED <<index, trees, act, torn>>
    BY <2>1, <2>3 DEF TreesInv, TreeTypes, Indexed, CopiesOlder, MarksGone, Gone, AllListed,
                      Listed, Adding
  <2> QED  BY <2>2, <2>3 DEF WorktreesNext, TaskStep, DeleteBranch, allvars, wvars
<1> QED  BY <1>1, <1>2, PTL DEF WorktreesSpec

\* So each of git's worktrees is in the index, not as removed, or about to be put there.
THEOREM TreesStayListed == WorktreesSpec => []TreesListed
<1>1. TreesInv => TreesListed
  BY DEF TreesInv, Indexed, AllListed, Listed, Adding, TreesListed
<1> QED  BY <1>1, TreesInvInvariant, PTL

----------------------------------------------------------------------------
(* A removal that completes its task. *)

\* Agent a's update of its task to completed is under way: it names no other task, so that
\* only a write can fail.
Completing(a) ==
  LET o == op[a] IN
  /\ o.pc \in {"link", "clear", "save"} /\ o.id = act[a].task
  /\ o.st = "completed" /\ o.deps = {} /\ o.downs = {}
  /\ o.pc # "link" => o.copy.status = "completed"

Removal(a) ==
  /\ act[a].pc \in {"add", "load", "push", "bind"} => ~act[a].complete
  /\ act[a].pc \in {"remove", "mark", "complete"} /\ act[a].known => act[a].task \in exist
  /\ act[a].pc = "unbind" /\ act[a].known => act[a].task \in ever \/ Completing(a)
  /\ act[a].pc = "bound" /\ act[a].complete /\ act[a].known => act[a].task \in ever

RemovalInv == TreeTypes /\ (aborts = 0 => \A a \in Agents : Removal(a))

\* No error is forgotten, nor a task, nor its completion.
LEMMA HistoryGrows ==
  ASSUME TreeTypes, [WorktreesNext]_allvars
  PROVE  ever \subseteq ever' /\ exist \subseteq exist' /\ (aborts' = 0 => aborts = 0)
<1>0. GraphTypes /\ aborts \in Nat
  BY DEF TreeTypes, GraphTypes
<1>1. CASE UNCHANGED graph
  BY <1>1, SMTT(60) DEF graph
<1>2. CASE Failed
  BY <1>0, <1>2 DEF Failed
<1>3. ASSUME NEW a \in Agents, Begins(a)
      PROVE  ever \subseteq ever' /\ exist \subseteq exist' /\ (aborts' = 0 => aborts = 0)
  BY <1>0, <1>3, OperationBegins DEF Begun
<1>4. ASSUME NEW a \in Agents, Goes(a)
      PROVE  ever \subseteq ever' /\ exist \subseteq exist' /\ (aborts' = 0 => aborts = 0)
  <2>1. aborts' \in {aborts, aborts + 1} /\ ever \subseteq ever' /\ exist \subseteq exist'
    BY <1>4 DEF Goes, SaveCreate, VisitDep, VisitDown, SaveNeighbour, UnknownTask, TornRead,
                    ApplyStatus, ClearNext, SaveTask, SaveClaim, WriteError
  <2> QED  BY <1>0, <2>1
<1> QED  BY <1>0, <1>1, <1>2, <1>3, <1>4, TreesUseGraph

\* The update goes on to its save, unless a write fails.
LEMMA CompletingGoes ==
  ASSUME TreeTypes, NEW a \in Agents, Completing(a), Goes(a), aborts' = 0, UNCHANGED act
  PROVE  act[a].task \in ever' \/ Completing(a)'
<1> DEFINE o == op[a]  n == op'[a]
<1>0. /\ GraphTypes /\ o \in Operations /\ aborts \in Nat
      /\ o.pc \in {"link", "clear", "save"} /\ o.id = act[a].task
      /\ o.st = "completed" /\ o.deps = {} /\ o.downs = {}
      /\ (o.pc # "link" => o.copy.status = "completed") /\ o.copy \in Tasks
  BY OperationFields DEF TreeTypes, GraphTypes, Completing
<1>1. ~SaveCreate(a) /\ ~VisitDep(a) /\ ~VisitDown(a) /\ ~SaveNeighbour(a)
      /\ ~UnknownTask(a) /\ ~TornRead(a) /\ ~SaveClaim(a) /\ ~WriteError(a)
  BY <1>0 DEF SaveCreate, VisitDep, VisitDown, SaveNeighbour, UnknownTask, TornRead, SaveClaim,
              WriteError
<1>2. CASE ApplyStatus(a)
  <2>1. Proceeds(a) /\ StatusApplied(a)
    BY <1>0, <1>2, StatusIsApplied
  <2>2. n.deps = {} /\ n.downs = {}
    BY <1>0, <1>2 DEF ApplyStatus, Set, GraphTypes, Operations
  <2> QED  BY <1>0, <2>1, <2>2 DEF Completing, Proceeds, StatusApplied
<1>3. CASE ClearNext(a)
  <2>1. Proceeds(a) /\ \E i \in Ids : Unblocked(a, i)
    BY <1>0, <1>3, NextUnblocked
  <2>2. n.deps = {} /\ n.downs = {}
    BY <1>0, <1>3 DEF ClearNext, Set, GraphTypes, Operations
  <2> QED  BY <1>0, <2>1, <2>2 DEF Completing, Proceeds, Unblocked
<1>4. CASE SaveTask(a)
  BY <1>0, <1>4 DEF SaveTask
<1> QED  BY <1>1, <1>2, <1>3, <1>4 DEF Goes

\* The acts of an agent: a removal that completes its task begins the update and goes on
\* when the update has returned.
LEMMA RemovalSteps ==
  ASSUME TreeTypes, TreeTypes', NEW a \in Agents, Removal(a), Acted(a), TreeStep(a),
         ever \subseteq ever', exist \subseteq exist', aborts' = 0
  PROVE  Removal(a)'
<1> DEFINE o == act[a]  n == act'[a]
<1> USE DEF Do, To
<1>0. /\ act \in [Agents -> Acts] /\ o \in Acts /\ op \in [Agents -> Operations]
  BY DEF TreeTypes, GraphTypes
<1>1. \A pc : /\ [o EXCEPT !.pc = pc].pc = pc /\ [o EXCEPT !.pc = pc].task = o.task
              /\ [o EXCEPT !.pc = pc].complete = o.complete
              /\ [o EXCEPT !.pc = pc].known = o.known
  BY <1>0 DEF Acts
<1>2. CASE BeginTree(a)
  <2>1. n.pc = "add" /\ n.complete = FALSE
    BY <1>0, <1>2 DEF BeginTree, NoAct
  <2> QED  BY <2>1 DEF Removal
<1>3. CASE GitAdd(a) \/ LoadIndex(a) \/ PushEntry(a)
  <2>1. o.pc \in {"add", "load", "push"}
    BY <1>3 DEF GitAdd, LoadIndex, PushEntry
  <2>2. \/ n = NoAct \/ n = [o EXCEPT !.pc = "load"]
        \/ \E ix \in {index, <<>>} : n = [o EXCEPT !.pc = "push", !.copy = ix]
        \/ n = [o EXCEPT !.pc = "bind", !.copy = <<>>]
    BY <1>0, <1>3 DEF GitAdd, LoadIndex, PushEntry
  <2>3. n.pc \in {"idle", "load", "push", "bind"} /\ (n.pc # "idle" => n.complete = o.complete)
    BY <1>0, <2>2, NoActFacts DEF Acts
  <2> QED  BY <2>1, <2>3 DEF Removal
<1>4. CASE Bind(a)
  <2>1. o.pc = "bind" /\ n.pc = "bound" /\ n.complete = o.complete
    BY <1>0, <1>1, <1>4 DEF Bind
  <2> QED  BY <2>1 DEF Removal
<1>5. CASE Finished(a) \/ Keep(a) \/ IndexError(a)
  <2>1. n.pc = "idle"
    BY <1>0, <1>5, NoActFacts DEF Finished, Keep, IndexError
  <2> QED  BY <2>1 DEF Removal
<1>6. CASE BeginRemoval(a) \/ BeginKeep(a)
  <2>1. CASE BeginRemoval(a)
    <3>1. PICK x \in Names, c \in BOOLEAN : \E i \in Found(index, x) :
            n = [NoAct EXCEPT !.pc = "remove", !.name = x, !.task = index[i].task,
                              !.copy = index, !.complete = c,
                              !.known = index[i].task \in exist]
      BY <1>0, <2>1 DEF BeginRemoval
    <3>2. n.pc = "remove" /\ (n.known => n.task \in exist)
      BY <3>1 DEF NoAct
    <3> QED  BY <3>2 DEF Removal
  <2>2. CASE BeginKeep(a)
    <3>1. n.pc = "keep"
      BY <1>0, <2>2 DEF BeginKeep, NoAct
    <3> QED  BY <3>1 DEF Removal
  <2> QED  BY <1>6, <2>1, <2>2
<1>7. CASE GitRemove(a) \/ MarkRemoved(a)
  <2>1. \/ n = NoAct \/ n = [o EXCEPT !.pc = "mark"]
        \/ n = [o EXCEPT !.pc = "complete", !.copy = <<>>]
    BY <1>0, <1>7 DEF GitRemove, MarkRemoved
  <2>2. /\ n.pc \in {"idle", "mark", "complete"} /\ o.pc \in {"remove", "mark"}
        /\ n.pc # "idle" => n.task = o.task /\ n.known = o.known
    BY <1>0, <1>7, <2>1, NoActFacts DEF Acts, GitRemove, MarkRemoved
  <2> QED  BY <2>2 DEF Removal
<1>8. CASE Complete(a)
  <2>1. n.pc = "unbind" /\ n.task = o.task /\ n.known = o.known /\ o.pc = "complete"
    BY <1>0, <1>1, <1>8 DEF Complete
  <2>2. CASE o.known
    <3>1. BeginUpdate(a, o.task, "completed", {}, {})
      <4>1. o.task \in exist /\ aborts \in Nat
        BY <2>1, <2>2 DEF Removal, TreeTypes, GraphTypes
      <4>2. ~NotFound(a) /\ ~TornLoad(a)
        BY <4>1 DEF NotFound, TornLoad
      <4> QED  BY <1>8, <4>2 DEF Complete
    <3> DEFINE w == [Idle EXCEPT !.pc = "link", !.id = o.task, !.base = file[o.task],
                       !.copy = file[o.task], !.st = "completed", !.deps = {}, !.downs = {}]
    <3>2. Start(a, w)
      BY <3>1 DEF BeginUpdate
    <3>3. o.task \in Ids /\ file[o.task] \in Tasks
      BY <3>1 DEF BeginUpdate, TreeTypes, GraphTypes
    <3>4. /\ w \in Operations /\ w.pc = "link" /\ w.id = o.task /\ w.st = "completed"
          /\ w.deps = {} /\ w.downs = {}
      BY <3>3, Values DEF Operations, OpPcs, Idle, Statuses
    <3> HIDE DEF w
    <3>5. Alike(w, op'[a])
      BY <3>2, <3>4, Started DEF TreeTypes
    <3>6. Completing(a)'
      BY <2>1, <3>4, <3>5 DEF Completing, Alike
    <3> QED  BY <2>1, <3>6 DEF Removal
  <2>3. CASE ~o.known
    BY <2>1, <2>3 DEF Removal
  <2> QED  BY <2>2, <2>3
<1>9. CASE Unbind(a)
  <2>1. /\ o.pc = "unbind" /\ n.pc = "bound" /\ n.task = o.task /\ n.known = o.known
        /\ op[a].pc = "idle"
    BY <1>0, <1>1, <1>9 DEF Unbind
  <2>2. o.known => o.task \in ever
    BY <2>1 DEF Removal, Completing
  <2> QED  BY <2>1, <2>2 DEF Removal
<1> QED  BY <1>2, <1>3, <1>4, <1>5, <1>6, <1>7, <1>8, <1>9 DEF TreeStep

\* The operations of the other agents.
LEMMA OthersWait ==
  ASSUME GraphTypes, NEW a \in Agents, NEW b \in Agents \ {a}, Begins(a) \/ Goes(a)
  PROVE  Alike(op[b], op'[b])
<1>1. CASE Begins(a)
  BY <1>1, OperationBegins DEF Begun
<1>2. CASE Goes(a)
  <2>1. op'[b] = op[b]
    BY <1>2 DEF GraphTypes, Goes, SaveCreate, VisitDep, VisitDown, SaveNeighbour, UnknownTask,
                TornRead, ApplyStatus, ClearNext, SaveTask, SaveClaim, WriteError, Set
  <2> QED  BY <2>1 DEF Alike
<1> QED  BY <1>1, <1>2

\* A removal with complete_task of a task that existed as it began has completed the task
\* when it returns, unless an operation on the graph failed; no other agent can undo what
\* is in its way.
THEOREM RemovalInvInvariant == WorktreesSpec => []RemovalInv
<1>1. WorktreesInit /\ TreesInv => RemovalInv
  BY NoActFacts DEF WorktreesInit, RemovalInv, Removal, TreesInv
<1>2. RemovalInv /\ TreesInv' /\ [WorktreesNext]_allvars => RemovalInv'
  <2> SUFFICES ASSUME TreeTypes, TreeTypes', [WorktreesNext]_allvars, aborts' = 0,
                      aborts = 0, NEW b \in Agents, Removal(b)
               PROVE  Removal(b)'
    BY HistoryGrows DEF RemovalInv, TreesInv
  <2>0. /\ ever \subseteq ever' /\ exist \subseteq exist' /\ GraphTypes /\ GraphTypes'
    BY HistoryGrows DEF TreeTypes
  <2>1. ASSUME act'[b] = act[b], Alike(op[b], op'[b]) PROVE Removal(b)'
    BY <2>0, <2>1 DEF Removal, Completing, Alike
  <2>2. ASSUME NEW a \in Agents, TreeStep(a) PROVE Removal(b)'
    <3>1. Acted(a)
      BY <2>0, <2>2, TreeTypesKept
    <3>2. CASE a = b
      BY <2>0, <2>2, <3>1, <3>2, RemovalSteps
    <3>3. CASE a # b
      <4>1. Alike(op[b], op'[b])
        <5>1. CASE op' = op
          BY <5>1 DEF Alike
        <5>2. CASE Begins(a)
          BY <2>0, <3>3, <5>2, OthersWait
        <5>3. op' = op \/ Begins(a)
          BY <2>0, <2>2, TreeStepGraph
        <5> QED  BY <5>1, <5>2, <5>3
      <4> QED  BY <2>1, <3>1, <3>3, <4>1 DEF Acted
    <3> QED  BY <3>2, <3>3
  <2>3. ASSUME NEW a \in Agents, TaskStep(a) PROVE Removal(b)'
    <3>1. act' = act /\ (Goes(a) \/ (act[a].pc = "idle" /\ Begins(a)))
      BY <2>3 DEF TaskStep, wvars
    <3>2. CASE a = b /\ Goes(a)
      BY <2>0, <3>1, <3>2, CompletingGoes DEF Removal
    <3>3. CASE a = b /\ act[a].pc = "idle"
      BY <3>1, <3>3 DEF Removal
    <3>4. CASE a # b
      BY <2>0, <2>1, <3>1, <3>4, OthersWait
    <3> QED  BY <3>1, <3>2, <3>3, <3>4
  <2>4. CASE UNCHANGED <<act, op>>
    BY <2>1, <2>4 DEF Alike
  <2> QED  BY <2>2, <2>3, <2>4 DEF WorktreesNext, DeleteBranch, allvars, wvars, vars
<1> QED  BY <1>1, <1>2, TreesInvInvariant, PTL DEF WorktreesSpec

\* The action property follows at the moment the removal returns.
THEOREM RemovalsComplete == WorktreesSpec => RemovalCompletes
<1>1. RemovalInv /\ [WorktreesNext]_allvars =>
        [\A a \in Agents :
           act[a].complete /\ act[a].known /\ act[a].pc = "bound" /\ act'[a].pc = "idle"
             /\ aborts = 0 => act[a].task \in ever]_allvars
  BY DEF RemovalInv, Removal
<1> QED  BY <1>1, RemovalInvInvariant, PTL DEF WorktreesSpec, RemovalCompletes
============================================================================
