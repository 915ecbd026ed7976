----------------------------- MODULE Worktrees -----------------------------
(***************************************************************************)
(* Git worktrees of the agents (team/worktree.rs and its tool handlers) on *)
(* top of the task graph: index.json is read and rewritten without a lock, *)
(* around git commands that may fail; creating a worktree binds its task,  *)
(* removing one may complete it.                                           *)
(***************************************************************************)
EXTENDS TaskGraph, Sequences

CONSTANTS
  Names,     \* names of worktrees
  MaxTrees,  \* bound: worktree operations
  NoTask

ASSUME WorktreesAssumption == MaxTrees \in Nat /\ NoTask \notin Refs /\ Names # {}

VARIABLES
  index,     \* index.json: [name, task, status] in order of creation
  trees,     \* names git has a worktree for
  branches,  \* names with a branch wt/<name>
  act,       \* the worktree operation each agent has under way
  acts,
  torn       \* history: an index was written from a stale copy, or a write failed

wvars == <<index, trees, branches, act, acts, torn>>
allvars == <<vars, wvars>>

\* A worktree may be bound to a task that does not exist.
Entries == [name : Names, task : Refs \cup {NoTask}, status : {"active", "removed", "kept"}]

\* An operation under way; history: whether the task of a removal existed as it began.
NoAct == [pc |-> "idle", name |-> CHOOSE n \in Names : TRUE, task |-> NoTask,
          copy |-> <<>>, complete |-> FALSE, known |-> FALSE]

WorktreesTypeOK ==
  /\ TypeOK /\ index \in Seq(Entries)
  /\ trees \subseteq Names /\ branches \subseteq Names
  /\ \A a \in Agents :
       /\ act[a].pc \in {"idle", "add", "load", "push", "bind", "bound",
                         "remove", "mark", "complete", "unbind", "keep"}
       /\ act[a].name \in Names /\ act[a].task \in Refs \cup {NoTask}
       /\ act[a].copy \in Seq(Entries)
       /\ act[a].complete \in BOOLEAN /\ act[a].known \in BOOLEAN
  /\ acts \in 0..MaxTrees /\ torn \in BOOLEAN

WorktreesInit ==
  /\ Init /\ index = <<>> /\ trees = {} /\ branches = {}
  /\ act = [a \in Agents |-> NoAct] /\ acts = 0 /\ torn = FALSE

Do(a, o) == act' = [act EXCEPT ![a] = o]
To(a, pc) == act' = [act EXCEPT ![a].pc = pc]

\* The agent is free: neither a task nor a worktree operation is under way.
StartAct(a) ==
  /\ op[a].pc = "idle" /\ act[a].pc = "idle"
  /\ acts < MaxTrees /\ acts' = acts + 1
  /\ ops + acts < MaxOps

\* The first entry of a name is the one that is found.
Found(ix, n) == {i \in DOMAIN ix : ix[i].name = n /\ \A j \in 1..(i - 1) : ix[j].name # n}

\* save_index writes the whole index, whatever it has become since it was read.
Indexing == {"push", "mark", "keep"}
Overwrite(a, ix) == index' = ix /\ torn' = (torn \/ act[a].copy # index)

----------------------------------------------------------------------------
BeginTree(a) ==
  /\ StartAct(a)
  /\ \E n \in Names, t \in Refs \cup {NoTask} :
       Do(a, [NoAct EXCEPT !.pc = "add", !.name = n, !.task = t])
  /\ UNCHANGED <<vars, index, trees, branches, torn>>

\* git worktree add -b: refused when the branch or the directory is there.
GitAdd(a) ==
  LET n == act[a].name IN
  /\ act[a].pc = "add"
  /\ IF n \in branches \cup trees
     THEN Do(a, NoAct) /\ UNCHANGED <<trees, branches>>
     ELSE To(a, "load") /\ trees' = trees \cup {n} /\ branches' = branches \cup {n}
  /\ UNCHANGED <<vars, index, acts, torn>>

\* An index that another operation is writing does not parse, and counts as empty.
LoadIndex(a) ==
  /\ act[a].pc = "load"
  /\ \E copy \in {index} \cup {<<>> : b \in {c \in Agents \ {a} : act[c].pc \in Indexing}} :
       Do(a, [act[a] EXCEPT !.pc = "push", !.copy = copy])
  /\ UNCHANGED <<vars, index, trees, branches, acts, torn>>

PushEntry(a) ==
  /\ act[a].pc = "push"
  /\ Overwrite(a, Append(act[a].copy,
                         [name |-> act[a].name, task |-> act[a].task, status |-> "active"]))
  /\ IF act[a].task = NoTask THEN Do(a, NoAct)
     ELSE Do(a, [act[a] EXCEPT !.pc = "bind", !.copy = <<>>])
  /\ UNCHANGED <<vars, trees, branches, acts>>

\* The task is not found, or its file is being written: the error is ignored.
NotFound(a) == act[a].task \notin exist /\ UNCHANGED vars
TornLoad(a) ==
  /\ \E b \in Agents \ {a} : op[b].pc \in Writing
  /\ aborts' = aborts + 1
  /\ UNCHANGED <<exist, file, op, ops, faults, stale, ever, claims>>

\* handle_worktree_create: bind_worktree on the task.
Bind(a) ==
  /\ act[a].pc = "bind" /\ To(a, "bound")
  /\ \/ act[a].task \in exist /\ BindWorktree(a, act[a].task, TRUE)
     \/ NotFound(a) \/ TornLoad(a)
  /\ UNCHANGED <<index, trees, branches, acts, torn>>
Finished(a) ==
  /\ act[a].pc = "bound" /\ op[a].pc = "idle"
  /\ Do(a, NoAct)
  /\ UNCHANGED <<vars, index, trees, branches, acts, torn>>

----------------------------------------------------------------------------
\* remove: the index is read before the git command and written after it.
BeginRemoval(a) ==
  /\ StartAct(a)
  /\ \E n \in Names, complete \in BOOLEAN : \E i \in Found(index, n) :
       /\ index[i].status # "removed"
       /\ Do(a, [NoAct EXCEPT !.pc = "remove", !.name = n, !.task = index[i].task,
                              !.copy = index, !.complete = complete,
                              !.known = index[i].task \in exist])
  /\ UNCHANGED <<vars, index, trees, branches, torn>>

\* Mutant: the result of the git command is not looked at.
GitRemoveUnchecked(a) ==
  /\ act[a].pc = "remove" /\ To(a, "mark")
  /\ trees' \in {trees, trees \ {act[a].name}}
  /\ UNCHANGED <<vars, index, branches, acts, torn>>

\* git worktree remove fails without a worktree, and for one with changes.
GitRemove(a) ==
  LET n == act[a].name IN
  /\ act[a].pc = "remove"
  /\ \/ n \in trees /\ trees' = trees \ {n} /\ To(a, "mark")
     \/ Do(a, NoAct) /\ UNCHANGED trees
  /\ UNCHANGED <<vars, index, branches, acts, torn>>

MarkRemoved(a) ==
  /\ act[a].pc = "mark"
  /\ \E i \in Found(act[a].copy, act[a].name) :
       Overwrite(a, [act[a].copy EXCEPT ![i].status = "removed"])
  /\ IF act[a].complete /\ act[a].task # NoTask
     THEN Do(a, [act[a] EXCEPT !.pc = "complete", !.copy = <<>>])
     ELSE Do(a, NoAct)
  /\ UNCHANGED <<vars, trees, branches, acts>>

\* Mutant: the task is unbound and not completed.
CompleteSkipped(a) ==
  /\ act[a].pc = "complete" /\ To(a, "unbind")
  /\ UNCHANGED <<vars, index, trees, branches, acts, torn>>

\* handle_worktree_remove: update to completed, then unbind_worktree; errors of
\* either are ignored.
Complete(a) ==
  /\ act[a].pc = "complete" /\ To(a, "unbind")
  /\ \/ act[a].task \in exist /\ BeginUpdate(a, act[a].task, "completed", {}, {})
     \/ NotFound(a) \/ TornLoad(a)
  /\ UNCHANGED <<index, trees, branches, acts, torn>>
Unbind(a) ==
  /\ act[a].pc = "unbind" /\ op[a].pc = "idle" /\ To(a, "bound")
  /\ \/ act[a].task \in exist /\ BindWorktree(a, act[a].task, FALSE)
     \/ NotFound(a) \/ TornLoad(a)
  /\ UNCHANGED <<index, trees, branches, acts, torn>>

\* keep: the status is set whatever it was, a removed entry's too.
BeginKeep(a) ==
  /\ StartAct(a)
  /\ \E n \in Names :
       /\ Found(index, n) # {}
       /\ Do(a, [NoAct EXCEPT !.pc = "keep", !.name = n, !.copy = index])
  /\ UNCHANGED <<vars, index, trees, branches, torn>>
Keep(a) ==
  /\ act[a].pc = "keep"
  /\ \E i \in Found(act[a].copy, act[a].name) :
       Overwrite(a, [act[a].copy EXCEPT ![i].status = "kept"])
  /\ Do(a, NoAct)
  /\ UNCHANGED <<vars, trees, branches, acts>>

\* save_index fails: the operation returns, and git has done its part.
IndexError(a) ==
  /\ act[a].pc \in Indexing
  /\ faults < MaxFaults /\ faults' = faults + 1
  /\ Do(a, NoAct) /\ torn' = TRUE
  /\ UNCHANGED <<exist, file, op, ops, aborts, stale, ever, claims, index, trees, branches, acts>>

\* The user deletes a branch, after which its name may be used again.
DeleteBranch ==
  /\ \E n \in branches \ trees : branches' = branches \ {n}
  /\ UNCHANGED <<vars, index, trees, act, acts, torn>>

TreeStep(a) ==
  \/ BeginTree(a) \/ GitAdd(a) \/ LoadIndex(a) \/ PushEntry(a) \/ Bind(a) \/ Finished(a)
  \/ BeginRemoval(a) \/ GitRemove(a) \/ MarkRemoved(a) \/ Complete(a) \/ Unbind(a)
  \/ BeginKeep(a) \/ Keep(a) \/ IndexError(a)
TaskStep(a) ==
  /\ \/ act[a].pc = "idle" /\ ops + acts < MaxOps /\ Begins(a)
     \/ Goes(a)
  /\ UNCHANGED wvars

WorktreesNext == DeleteBranch \/ \E a \in Agents : TreeStep(a) \/ TaskStep(a)
WorktreesSpec == WorktreesInit /\ [][WorktreesNext]_allvars

----------------------------------------------------------------------------
\* No worktree of git is forgotten: as long as no index was written from a stale
\* copy and no write failed, each is in the index with a status other than
\* removed, or about to be put there; whatever is removed, kept, refused by git,
\* or created again under the name of a removed one.
TreesListed ==
  ~torn => \A n \in trees :
    \/ \E i \in DOMAIN index : index[i].name = n /\ index[i].status # "removed"
    \/ \E a \in Agents : act[a].name = n /\ act[a].pc \in {"load", "push"}

\* A worktree removed with complete_task has completed its task, through the update that
\* unblocks the tasks behind it, if the task existed when the removal began and no
\* operation on the graph returned an error: the handler answers the same without.
RemovalCompletes ==
  [][\A a \in Agents :
       act[a].complete /\ act[a].known /\ act[a].pc = "bound" /\ act'[a].pc = "idle"
         /\ aborts = 0 => act[a].task \in ever]_allvars
============================================================================
