----------------------------- MODULE TaskGraph -----------------------------
(***************************************************************************)
(* The file-per-task graph of team/task/graph.rs, shared by the lead and   *)
(* its teammates without a lock.  Every file write is a step of its own,   *)
(* with the copies an operation holds between its reads and its writes;    *)
(* operations of different agents interleave, and an update may name its   *)
(* own task.  The vectors of ids are sets: duplicates are never pushed.    *)
(***************************************************************************)
EXTENDS Integers, FiniteSets

CONSTANTS
  Agents,      \* callers of the TaskManager
  MaxTasks,    \* bound: tasks created
  MaxOps,      \* bound: operations
  MaxChanges,  \* bound: blockers, dependents and status one update names
  MaxFaults,   \* bound: file writes that return an error
  NoOwner

ASSUME GraphAssumption ==
  /\ MaxTasks \in Nat \ {0} /\ {MaxOps, MaxChanges, MaxFaults} \subseteq Nat
  /\ NoOwner \notin Agents

Ids == 1..MaxTasks
Refs == 1..(MaxTasks + 1)          \* ids a caller may name; the last never exists
Statuses == {"pending", "in_progress", "completed"}
Tasks == [status : Statuses, blockedBy : SUBSET Ids, blocks : SUBSET Ids,
          owner : Agents \cup {NoOwner}, tree : BOOLEAN]

New == [status |-> "pending", blockedBy |-> {}, blocks |-> {},
        owner |-> NoOwner, tree |-> FALSE]

VARIABLES
  exist,    \* ids with a file
  file,     \* its content
  op,       \* the operation each agent has under way
  ops, faults,
  aborts,   \* history: operations that returned an error part of the way
  stale,    \* history: tasks whose file was written over with an older copy
  ever,     \* history: tasks that have been completed at least once
  claims    \* history: agents whose claim of the task succeeded

vars == <<exist, file, op, ops, faults, aborts, stale, ever, claims>>

\* An operation on task id: the task as loaded and its in-memory copy, the new status,
\* the blockers and dependents still to visit, the copies of other tasks it has read,
\* and of those the ones still to write; history: whether it met another operation.
Idle == [pc |-> "idle", id |-> 1, base |-> New, copy |-> New, st |-> "none",
         deps |-> {}, downs |-> {}, read |-> [i \in Ids |-> New], todo |-> {},
         met |-> FALSE]

OpPcs == {"idle", "create", "link", "saveDep", "saveDown", "clear", "save", "claim"}

TypeOK ==
  /\ exist \in SUBSET Ids /\ file \in [Ids -> Tasks]
  /\ op \in [Agents -> [pc : OpPcs, id : Ids, base : Tasks, copy : Tasks,
                        st : Statuses \cup {"none"}, deps : SUBSET Refs,
                        downs : SUBSET Refs, read : [Ids -> Tasks], todo : SUBSET Ids,
                        met : BOOLEAN]]
  /\ ops \in 0..MaxOps /\ faults \in 0..MaxFaults /\ aborts \in Nat
  /\ stale \in SUBSET Ids /\ ever \in SUBSET Ids /\ claims \in [Ids -> SUBSET Agents]

\* Tasks of an earlier run of the program may be on disk.
Init ==
  /\ exist \in {1..n : n \in 0..MaxTasks} /\ file = [i \in Ids |-> New]
  /\ op = [a \in Agents |-> Idle]
  /\ ops = 0 /\ faults = 0 /\ aborts = 0
  /\ stale = {} /\ ever = {} /\ claims = [i \in Ids |-> {}]

Quiet == \A a \in Agents : op[a].pc = "idle"

CanStart(a) == op[a].pc = "idle" /\ ops < MaxOps /\ ops' = ops + 1

\* An operation begins, beside those of other agents.
Start(a, o) ==
  op' = [b \in Agents |->
           IF b = a THEN [o EXCEPT !.met = \E c \in Agents \ {a} : op[c].pc # "idle"]
           ELSE IF op[b].pc = "idle" THEN op[b]
           ELSE [op[b] EXCEPT !.met = TRUE]]
Set(a, o) == op' = [op EXCEPT ![a] = o]

\* save: the file is written, whatever it has become since it was read.
Write(i, t, read) ==
  /\ file' = [file EXCEPT ![i] = t]
  /\ stale' = IF read = file[i] THEN stale ELSE stale \cup {i}

----------------------------------------------------------------------------
\* create: next_id reads the directory, save writes the file.
BeginCreate(a) ==
  /\ CanStart(a)
  /\ \E id \in Ids : /\ exist = 1..(id - 1)
                     /\ Start(a, [Idle EXCEPT !.pc = "create", !.id = id])
  /\ UNCHANGED <<exist, file, faults, aborts, stale, ever, claims>>

SaveCreate(a) ==
  /\ op[a].pc = "create"
  /\ exist' = exist \cup {op[a].id}
  /\ file' = [file EXCEPT ![op[a].id] = New]
  /\ stale' = stale \cup ({op[a].id} \cap exist)
  /\ Set(a, Idle)
  /\ UNCHANGED <<ops, faults, aborts, ever, claims>>

\* update: the task is loaded, and stays in memory until the final save.
BeginUpdate(a, id, st, deps, downs) ==
  /\ CanStart(a)
  /\ id \in exist
  /\ Cardinality(deps) + Cardinality(downs) + Cardinality({st} \ {"none"}) <= MaxChanges
  /\ Start(a, [Idle EXCEPT !.pc = "link", !.id = id, !.base = file[id], !.copy = file[id],
                           !.st = st, !.deps = deps, !.downs = downs])
  /\ UNCHANGED <<exist, file, faults, aborts, stale, ever, claims>>

\* The next of add_blocked_by: pushed, then loaded; a missing task is an error.
VisitDep(a) ==
  LET o == op[a] IN
  /\ o.pc = "link"
  /\ \E d \in o.deps \cap exist :
       LET linked == [o EXCEPT !.copy.blockedBy = @ \cup {d}, !.deps = @ \ {d}] IN
       Set(a, IF o.id \in file[d].blocks THEN linked
              ELSE [linked EXCEPT !.pc = "saveDep", !.todo = {d}, !.read[d] = file[d]])
  /\ UNCHANGED <<exist, file, ops, faults, aborts, stale, ever, claims>>

\* Mutant: the dependent is not added to the task's own blocks.
VisitDownOneSided(a) ==
  LET o == op[a] IN
  /\ o.pc = "link" /\ o.deps = {}
  /\ \E d \in o.downs \cap exist :
       Set(a, [o EXCEPT !.downs = @ \ {d}, !.pc = "saveDown", !.todo = {d},
                        !.read[d] = file[d]])
  /\ UNCHANGED <<exist, file, ops, faults, aborts, stale, ever, claims>>

\* The next of add_blocks, once add_blocked_by is done.
VisitDown(a) ==
  LET o == op[a] IN
  /\ o.pc = "link" /\ o.deps = {}
  /\ \E d \in o.downs \cap exist :
       LET linked == [o EXCEPT !.copy.blocks = @ \cup {d}, !.downs = @ \ {d}] IN
       Set(a, IF o.id \in file[d].blockedBy THEN linked
              ELSE [linked EXCEPT !.pc = "saveDown", !.todo = {d}, !.read[d] = file[d]])
  /\ UNCHANGED <<exist, file, ops, faults, aborts, stale, ever, claims>>

SaveNeighbour(a) ==
  LET o == op[a] IN
  /\ o.pc \in {"saveDep", "saveDown"}
  /\ \E d \in o.todo :
       Write(d, IF o.pc = "saveDep"
                THEN [o.read[d] EXCEPT !.blocks = @ \cup {o.id}]
                ELSE [o.read[d] EXCEPT !.blockedBy = @ \cup {o.id}], o.read[d])
  /\ Set(a, [o EXCEPT !.pc = "link", !.todo = {}, !.read = Idle.read])
  /\ UNCHANGED <<exist, ops, faults, aborts, ever, claims>>

\* A named task does not exist: the call returns, and the copy is dropped.
UnknownTask(a) ==
  LET o == op[a] IN
  /\ o.pc = "link"
  /\ IF o.deps # {} THEN o.deps \ exist # {} ELSE o.downs \ exist # {}
  /\ Set(a, Idle)
  /\ aborts' = aborts + 1
  /\ UNCHANGED <<exist, file, ops, faults, stale, ever, claims>>

\* A file is read while another operation writes it, and does not parse.
Writing == {"create", "saveDep", "saveDown", "clear", "save", "claim"}
TornRead(a) ==
  LET o == op[a] IN
  /\ o.pc = "link" /\ (o.deps # {} \/ o.downs # {} \/ o.st = "completed")
  /\ \E b \in Agents \ {a} : op[b].pc \in Writing
  /\ Set(a, Idle)
  /\ aborts' = aborts + 1
  /\ UNCHANGED <<exist, file, ops, faults, stale, ever, claims>>

\* Mutant: completion trusts the task's own blocks instead of all files.
ApplyStatusByBlocks(a) ==
  LET o == op[a]
      waiting == IF o.st = "completed" THEN (o.copy.blocks \cap exist) \ {o.id} ELSE {} IN
  /\ o.pc = "link" /\ o.deps = {} /\ o.downs = {}
  /\ Set(a, [o EXCEPT !.pc = IF waiting = {} THEN "save" ELSE "clear",
                      !.copy.status = IF o.st = "none" THEN @ ELSE o.st,
                      !.todo = waiting,
                      !.read = [i \in Ids |-> IF i \in waiting THEN file[i] ELSE New]])
  /\ UNCHANGED <<exist, file, ops, faults, aborts, stale, ever, claims>>

\* The status; completion lists the tasks that name this one as a blocker.
ApplyStatus(a) ==
  LET o == op[a]
      done == o.st = "completed"
      waiting == IF done THEN {i \in exist : o.id \in file[i].blockedBy} ELSE {} IN
  /\ o.pc = "link" /\ o.deps = {} /\ o.downs = {}
  /\ Set(a, [o EXCEPT !.pc = IF waiting = {} THEN "save" ELSE "clear",
                      !.copy.status = IF o.st = "none" THEN @ ELSE o.st,
                      !.todo = waiting,
                      !.read = [i \in Ids |-> IF i \in waiting THEN file[i] ELSE New]])
  /\ UNCHANGED <<exist, file, ops, faults, aborts, stale, ever, claims>>

\* clear_dependency: the listed copies are written back without the blocker.
ClearNext(a) ==
  LET o == op[a] IN
  /\ o.pc = "clear"
  /\ \E i \in o.todo :
       /\ \A j \in o.todo : i <= j
       /\ Write(i, [o.read[i] EXCEPT !.blockedBy = @ \ {o.id}], o.read[i])
       /\ Set(a, [o EXCEPT !.pc = IF o.todo = {i} THEN "save" ELSE "clear",
                           !.todo = @ \ {i}, !.read[i] = New])
  /\ UNCHANGED <<exist, ops, faults, aborts, ever, claims>>

\* The final save of update, of bind_worktree and of unbind_worktree.
SaveTask(a) ==
  LET o == op[a] IN
  /\ o.pc = "save"
  /\ Write(o.id, o.copy, o.base)
  /\ ever' = IF o.copy.status = "completed" THEN ever \cup {o.id} ELSE ever
  /\ Set(a, Idle)
  /\ UNCHANGED <<exist, ops, faults, aborts, claims>>

\* bind_worktree also starts a pending task; unbind_worktree only unbinds.
BindWorktree(a, id, bind) ==
  /\ CanStart(a)
  /\ id \in exist
  /\ Start(a, [Idle EXCEPT !.pc = "save", !.id = id, !.base = file[id],
       !.copy = [file[id] EXCEPT !.tree = bind,
                   !.status = IF bind /\ @ = "pending" THEN "in_progress" ELSE @]])
  /\ UNCHANGED <<exist, file, faults, aborts, stale, ever, claims>>

\* Mutant: the owner is not checked.
ClaimOwned(a, id) ==
  /\ CanStart(a) /\ id \in exist
  /\ file[id].status = "pending" /\ file[id].blockedBy = {}
  /\ Start(a, [Idle EXCEPT !.pc = "claim", !.id = id, !.base = file[id],
       !.copy = [file[id] EXCEPT !.owner = a, !.status = "in_progress"]])
  /\ UNCHANGED <<exist, file, faults, aborts, stale, ever, claims>>

\* claim: the load passes the three checks ...
BeginClaim(a, id) ==
  /\ CanStart(a)
  /\ id \in exist
  /\ file[id].status = "pending"
  /\ file[id].owner = NoOwner
  /\ file[id].blockedBy = {}
  /\ Start(a, [Idle EXCEPT !.pc = "claim", !.id = id, !.base = file[id],
       !.copy = [file[id] EXCEPT !.owner = a, !.status = "in_progress"]])
  /\ UNCHANGED <<exist, file, faults, aborts, stale, ever, claims>>

\* ... and the save makes the caller believe it owns the task.
SaveClaim(a) ==
  LET o == op[a] IN
  /\ o.pc = "claim"
  /\ Write(o.id, o.copy, o.base)
  /\ claims' = [claims EXCEPT ![o.id] = @ \cup {a}]
  /\ Set(a, Idle)
  /\ UNCHANGED <<exist, ops, faults, aborts, ever>>

\* A write returns an error: the operation returns it where it stands.
WriteError(a) ==
  /\ op[a].pc \in Writing
  /\ faults < MaxFaults
  /\ faults' = faults + 1
  /\ aborts' = aborts + 1
  /\ Set(a, Idle)
  /\ UNCHANGED <<exist, file, ops, stale, ever, claims>>

\* A step of agent a's operation, or its beginning.
Begins(a) ==
  \/ BeginCreate(a)
  \/ \E id \in Ids, st \in Statuses \cup {"none"}, deps, downs \in SUBSET Refs :
       BeginUpdate(a, id, st, deps, downs)
  \/ \E id \in Ids : \/ BeginClaim(a, id)
                     \/ \E bind \in BOOLEAN : BindWorktree(a, id, bind)
Goes(a) ==
  \/ SaveCreate(a)
  \/ VisitDep(a) \/ VisitDown(a) \/ SaveNeighbour(a) \/ UnknownTask(a) \/ TornRead(a)
  \/ ApplyStatus(a) \/ ClearNext(a) \/ SaveTask(a)
  \/ SaveClaim(a) \/ WriteError(a)

Next == \E a \in Agents : Begins(a) \/ Goes(a)

Spec == Init /\ [][Next]_vars

----------------------------------------------------------------------------
(* Properties.                                                             *)

\* "Dependency edges are bidirectional" (graph.rs:100): between operations, a task that
\* waits for another is listed among the tasks the other blocks, unless an operation
\* returned an error part of the way or the blocker's file was written over with an
\* older copy, however the operations of several agents interleave.
EdgesMirrored ==
  Quiet /\ aborts = 0 =>
    \A i \in exist : \A d \in file[i].blockedBy : i \in file[d].blocks \/ d \in stale

\* "When status is set to completed, the task's ID is automatically removed from
\* the blockedBy list of all other tasks" (graph.rs:96): when an update that met no
\* other operation returns, no other task waits for the completed one, whatever
\* interleaved before.
UnblocksOnComplete ==
  [][\A a \in Agents :
       op[a].pc = "save" /\ op[a].st = "completed" /\ op'[a].pc = "idle"
         /\ faults' = faults /\ ~op[a].met
         => \A i \in exist \ {op[a].id} : op[a].id \notin file[i].blockedBy]_vars

\* A task is handed out once, even after it was reset to pending, unless its file was
\* written over with an older copy, as when claims of it overlap ("not atomic under
\* concurrent access", graph.rs:257).  A claim that met no other operation is of a task
\* all of whose known blockers have been completed: clearing at completion is the only
\* other way to lose one.
ClaimSound ==
  [][\A a \in Agents : /\ claims' # claims /\ op[a].pc = "claim" /\ op'[a].pc = "idle"
                       /\ op[a].id \notin stale'
       => /\ claims[op[a].id] \subseteq {a}
          /\ aborts = 0 /\ ~op[a].met =>
               \A d \in exist : op[a].id \in file[d].blocks => d \in ever]_vars
============================================================================
