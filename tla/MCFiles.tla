------------------------------ MODULE MCFiles ------------------------------
(* Instances of MessageBus and of SessionFiles for TLC.  The two have no   *)
(* state in common: part says which of them a behaviour is about, and the  *)
(* other one stays as it began.                                            *)
EXTENDS MessageBus, SessionFiles, TLC

Symmetry ==
  Permutations(Senders) \cup Permutations(Readers)
    \cup Permutations(Sessions) \cup Permutations(Paths) \cup Permutations(Ids)

VARIABLE part

MCInit == BusInit /\ FilesInit /\ part \in {"inbox", "files"}

MCNext ==
  \/ part = "inbox" /\ BusNext /\ UNCHANGED <<filevars, part>>
  \/ part = "files" /\ FilesNext /\ UNCHANGED <<busvars, part>>

MCSpec == MCInit /\ [][MCNext]_<<busvars, filevars, part>>
============================================================================
