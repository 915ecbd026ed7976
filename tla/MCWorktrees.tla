---------------------------- MODULE MCWorktrees ----------------------------
(* Instances of Worktrees for TLC.  team is who acts in a behaviour: all   *)
(* the agents, whose task and worktree operations interleave and whose     *)
(* updates name one thing each, or one agent alone, whose updates name     *)
(* several blockers and dependents and a status at once.                   *)
EXTENDS Worktrees, TLC

\* Agents run the same code on the same files.
AgentSymmetry == Permutations(Agents)

VARIABLE team

Alone == {{a} : a \in Agents}

\* Updates that name at most one blocker, dependent or status begin.
Modest ==
  \A a \in Agents : op[a].pc = "idle" /\ op'[a].pc = "link" =>
    Cardinality(op'[a].deps) + Cardinality(op'[a].downs)
      + Cardinality({op'[a].st} \ {"none"}) <= 1

MCInit == WorktreesInit /\ team \in {Agents} \cup Alone

MCNext ==
  /\ \/ team = Agents /\ WorktreesNext /\ Modest
     \/ team \in Alone /\ \E a \in team : TaskStep(a)
  /\ UNCHANGED team

MCSpec == MCInit /\ [][MCNext]_<<allvars, team>>
============================================================================
