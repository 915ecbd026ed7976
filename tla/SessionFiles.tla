---------------------------- MODULE SessionFiles ----------------------------
(***************************************************************************)
(* What the sessions of one process do to the files they share: the tools  *)
(* read_file, write_file and edit_file (tool/exec/file.rs) on the files of *)
(* the working directory, and /new, /save and /load (session/store.rs) on  *)
(* sessions.json and the transcripts.  No lock guards any of them.  Each   *)
(* session remembers what it read: the mtime of every file for the write   *)
(* guard, and sessions.json, which it reads once, when it is opened, and   *)
(* writes back whole.                                                      *)
(*                                                                         *)
(* std::fs::write truncates and then writes: two steps.  Every change of a *)
(* file of the working directory gives it a new version, which stands for  *)
(* its content and its mtime.                                              *)
(***************************************************************************)
EXTENDS Naturals, FiniteSets, Functions

CONSTANTS
  Sessions,    \* session tasks, each with a store of its own
  Paths,       \* files that safe_path accepts
  Ids,         \* ids of saved sessions, each with a label that is no prefix of another
  MaxTracked,  \* max_tracked_files
  MaxOps,      \* bound: tools, commands and turns begun
  MaxChanges,  \* bound: changes of files by others
  MaxFaults,   \* bound: writes that fail, and crashes
  NoId,        \* no saved session; the messages of a session that has none
  Torn         \* a sessions.json that does not parse: empty or garbled

ASSUME SessionFilesAssumption ==
  /\ IsFiniteSet(Paths) /\ MaxTracked \in Nat \ {0}
  /\ {MaxOps, MaxChanges, MaxFaults} \subseteq Nat
  /\ NoId \notin Ids /\ \A ids \in SUBSET Ids : Torn # ids

VARIABLES
  disk,      \* disk[p]: the version of a file, 0 when there is none
  clock,     \* the last version given
  tracked,   \* tracked[s]: read_file_state, the mtimes by path
  seen,      \* history: the version that s last read of each path
  index,     \* the ids in sessions.json, or Torn
  script,    \* script[id]: the conversations whose messages the transcript holds
  own,       \* own[s]: SessionStore.index
  current,   \* current[s]: SessionStore.current_id
  talk,      \* talk[s]: the conversations whose messages are in the history
  act,       \* act[s]: the operation s is in
  created,   \* history: ids created
  unknown,   \* history: the created ids that s could not find in sessions.json
  saved,     \* history: ids whose /save was answered
  excused,   \* history: ids that a session that could not know them, or a failed or
             \* overlapping write, took out of sessions.json
  ops, changes, faults   \* counters of the bounds

tools == <<disk, clock, tracked, seen>>
names == <<index, script, own, current, talk>>
past == <<created, unknown, saved, excused>>
filevars == <<tools, names, act, past, ops, changes, faults>>

Act(do, of, version, warned) ==
  [do |-> do, of |-> of, version |-> version, warned |-> warned]
Idle == Act("idle", NoId, 0, FALSE)
Ended == Act("closed", NoId, 0, FALSE)
Steps == {"idle", "closed", "read", "edit", "write", "fill", "save", "list", "index"}

Listed == IF index = Torn THEN {} ELSE index

FilesTypeOK ==
  /\ disk \in [Paths -> 0..clock] /\ clock \in Nat
  /\ \A s \in Sessions : DOMAIN tracked[s] \subseteq Paths
  /\ seen \in [Sessions -> [Paths -> 0..clock]]
  /\ index = Torn \/ index \subseteq Ids
  /\ script \in [Ids -> SUBSET (Ids \cup {NoId})] /\ own \in [Sessions -> SUBSET Ids]
  /\ current \in [Sessions -> Ids \cup {NoId}]
  /\ talk \in [Sessions -> SUBSET (Ids \cup {NoId})]
  /\ \A s \in Sessions : act[s].do \in Steps
  /\ saved \subseteq created /\ excused \subseteq created

FilesInit ==
  /\ disk \in [Paths -> {0, 1}] /\ clock = 1
  /\ tracked = [s \in Sessions |-> << >>] /\ seen = [s \in Sessions |-> [p \in Paths |-> 0]]
  /\ index = {} /\ script = [i \in Ids |-> {}]
  /\ own = [s \in Sessions |-> {}] /\ current = [s \in Sessions |-> NoId]
  /\ talk = [s \in Sessions |-> {}] /\ act = [s \in Sessions |-> Ended]
  /\ created = {} /\ unknown = [s \in Sessions |-> {}] /\ saved = {} /\ excused = {}
  /\ ops = 0 /\ changes = 0 /\ faults = 0

\* An idle session begins an operation; an operation goes on, or ends.
Begin(s) == act[s].do = "idle" /\ ops < MaxOps /\ ops' = ops + 1 /\ UNCHANGED <<changes, faults>>
In(s, do) == act[s].do = do /\ UNCHANGED <<ops, changes>>
Go(s, do) == act' = [act EXCEPT ![s].do = do]
EndAct(s) == act' = [act EXCEPT ![s] = Idle]
Fault == faults < MaxFaults /\ faults' = faults + 1

\* The file at path p changes.
Touch(p) == clock' = clock + 1 /\ disk' = [disk EXCEPT ![p] = clock + 1]

----------------------------------------------------------------------------
(* read_file, write_file and edit_file. *)

\* ReadFile::exec: the metadata; a file that is not there counts as the epoch.
ReadStat(s, p) ==
  /\ Begin(s) /\ act' = [act EXCEPT ![s] = Act("read", p, disk[p], FALSE)]
  /\ UNCHANGED <<tools, names, past>>

\* track_read_file: a full table is emptied first.
Track(s, p, version) ==
  LET kept == IF Cardinality(DOMAIN tracked[s]) >= MaxTracked THEN {} ELSE DOMAIN tracked[s]
  IN tracked' = [tracked EXCEPT ![s] =
                   [q \in kept \cup {p} |-> IF q = p THEN version ELSE tracked[s][q]]]

\* Mutant: the content is read first, and the metadata after it.
BodyThenStat(s) ==
  LET p == act[s].of IN
  /\ In(s, "read") /\ EndAct(s) /\ UNCHANGED <<faults, disk, clock, names, past>>
  /\ IF act[s].version = 0 THEN UNCHANGED <<tracked, seen>>
     ELSE Track(s, p, disk[p]) /\ seen' = [seen EXCEPT ![s][p] = act[s].version]

\* ... then the content, which may have changed since.
ReadBody(s) ==
  LET p == act[s].of IN
  /\ In(s, "read") /\ EndAct(s) /\ UNCHANGED <<faults, disk, clock, names, past>>
  /\ IF disk[p] = 0 THEN UNCHANGED <<tracked, seen>>
     ELSE Track(s, p, act[s].version) /\ seen' = [seen EXCEPT ![s][p] = disk[p]]

\* check_write_guard: a file that exists must have been read; one that has changed since
\* is written all the same, with a warning.
Guard(s, p, do) ==
  /\ Begin(s)
  /\ disk[p] # 0 => p \in DOMAIN tracked[s]
  /\ act' = [act EXCEPT ![s] =
               Act(do, p, disk[p], disk[p] # 0 /\ tracked[s][p] # disk[p])]
  /\ UNCHANGED <<tools, names, past>>

\* EditFile::exec: the content is read and its one match replaced, or the tool fails.
Patch(s) ==
  /\ In(s, "edit") /\ UNCHANGED <<faults, tools, names, past>>
  /\ \/ disk[act[s].of] # 0 /\ Go(s, "write")
     \/ EndAct(s)

\* fs::write.
TruncateFile(s) ==
  /\ In(s, "write") /\ Go(s, "fill") /\ Touch(act[s].of)
  /\ UNCHANGED <<faults, tracked, seen, names, past>>
FillFile(s) ==
  /\ In(s, "fill") /\ EndAct(s) /\ Touch(act[s].of)
  /\ UNCHANGED <<faults, tracked, seen, names, past>>

\* It fails, before or after the file is truncated.
WriteFails(s) ==
  /\ In(s, "write") \/ In(s, "fill")
  /\ Fault /\ EndAct(s) /\ UNCHANGED <<tools, names, past>>

\* bash, a teammate, the user: a file is changed or removed.
Change(p) ==
  /\ changes < MaxChanges /\ changes' = changes + 1
  /\ \/ Touch(p)
     \/ disk' = [disk EXCEPT ![p] = 0] /\ UNCHANGED clock
  /\ UNCHANGED <<tracked, seen, names, act, past, ops, faults>>

----------------------------------------------------------------------------
(* The session store. *)

\* SessionStore::new: a sessions.json that does not parse counts as an empty one.
OpenSession(s) ==
  /\ In(s, "closed") /\ EndAct(s)
  /\ own' = [own EXCEPT ![s] = Listed] /\ unknown' = [unknown EXCEPT ![s] = created \ Listed]
  /\ UNCHANGED <<faults, tools, index, script, current, talk, created, saved, excused>>

\* A turn adds messages to the history.
Turn(s) ==
  /\ Begin(s) /\ talk' = [talk EXCEPT ![s] = @ \cup {current[s]}]
  /\ UNCHANGED <<tools, index, script, own, current, act, past>>

\* /new: create adds an entry and saves the index.
New(s, id) ==
  /\ Begin(s) /\ id \notin created /\ created' = created \cup {id}
  /\ unknown' = [t \in Sessions |-> IF t = s THEN unknown[t] ELSE unknown[t] \cup {id}]
  /\ own' = [own EXCEPT ![s] = @ \cup {id}]
  /\ act' = [act EXCEPT ![s] = Act("list", id, 0, FALSE)]
  /\ UNCHANGED <<tools, index, script, current, talk, saved, excused>>

\* /save: the transcript is truncated,
Save(s) ==
  /\ Begin(s) /\ current[s] # NoId
  /\ script' = [script EXCEPT ![current[s]] = {}]
  /\ act' = [act EXCEPT ![s] = Act("save", current[s], 0, FALSE)]
  /\ UNCHANGED <<tools, index, own, current, talk, past>>

\* ... written, over what another session wrote meanwhile, and the index is saved.
FillScript(s) ==
  /\ In(s, "save") /\ Go(s, "list")
  /\ script' = [script EXCEPT ![act[s].of] = @ \cup talk[s]]
  /\ UNCHANGED <<faults, tools, index, own, current, talk, past>>

\* save_index.
TruncateIndex(s) ==
  /\ In(s, "list") /\ Go(s, "index") /\ index' = Torn
  /\ UNCHANGED <<faults, tools, script, own, current, talk, past>>

\* The file holds this session's index, or a mix with what another session has written
\* since it was truncated.  /new goes on to name the session and empty its history.
FillIndex(s) ==
  LET id == act[s].of IN
  /\ In(s, "index") /\ EndAct(s) /\ index' \in {own[s]} \cup (IF index = Torn THEN {} ELSE {Torn})
  /\ excused' = IF index' = Torn THEN created ELSE (excused \cup unknown[s]) \ own[s]
  /\ IF current[s] = id
     THEN saved' = saved \cup {id} /\ UNCHANGED <<current, talk>>
     ELSE /\ current' = [current EXCEPT ![s] = id] /\ talk' = [talk EXCEPT ![s] = {}]
          /\ UNCHANGED saved
  /\ UNCHANGED <<faults, tools, script, own, created, unknown>>

\* A write of the transcript or of the index fails, and with it the command.
CommandFails(s) ==
  /\ In(s, "save") \/ In(s, "list") \/ In(s, "index")
  /\ Fault /\ EndAct(s)
  /\ excused' = IF act[s].do = "index" /\ index = Torn THEN created ELSE excused
  /\ UNCHANGED <<tools, names, created, unknown, saved>>

\* Mutant: the session is named before the transcript is read.
LoadNamesFirst(s, id) ==
  /\ Begin(s) /\ id \in own[s]
  /\ current' = [current EXCEPT ![s] = id]
  /\ talk' \in {talk, [talk EXCEPT ![s] = script[id]]}
  /\ UNCHANGED <<tools, index, script, own, act, past>>

\* /load of a label in this session's index; a transcript that is not there is an empty
\* one.  A /load that fails changes nothing.
Load(s, id) ==
  /\ Begin(s) /\ id \in own[s]
  /\ current' = [current EXCEPT ![s] = id] /\ talk' = [talk EXCEPT ![s] = script[id]]
  /\ UNCHANGED <<tools, index, script, own, act, past>>

\* The process ends, whatever its sessions are writing, and starts again.
Crash ==
  /\ Fault /\ UNCHANGED <<disk, clock, index, script, own, created, unknown, saved, ops, changes>>
  /\ act' = [s \in Sessions |-> Ended] /\ tracked' = [s \in Sessions |-> << >>]
  /\ seen' = [s \in Sessions |-> [p \in Paths |-> 0]]
  /\ current' = [s \in Sessions |-> NoId] /\ talk' = [s \in Sessions |-> {}]
  /\ excused' = IF index = Torn THEN created ELSE excused

SessionStep(s) ==
  \/ \E p \in Paths : ReadStat(s, p) \/ Guard(s, p, "write") \/ Guard(s, p, "edit")
  \/ ReadBody(s) \/ Patch(s) \/ TruncateFile(s) \/ FillFile(s) \/ WriteFails(s)
  \/ OpenSession(s) \/ Turn(s) \/ Save(s) \/ FillScript(s)
  \/ TruncateIndex(s) \/ FillIndex(s) \/ CommandFails(s)
  \/ \E id \in Ids : New(s, id) \/ Load(s, id)

FilesNext ==
  \/ \E s \in Sessions : SessionStep(s)
  \/ \E p \in Paths : Change(p)
  \/ Crash

FilesSpec == FilesInit /\ [][FilesNext]_filevars

-----------------------------------------------------------------------------
(* Properties. *)

\* A file that a tool overwrites without a warning holds what the session last read of
\* it, unless it was changed in the moment between the guard and the write: the mtime
\* is taken before the content, so it never makes old content look new.
OverwritesSeen ==
  [][\A s \in Sessions :
       LET p == act[s].of IN
       act[s].do = "write" /\ act'[s].do = "fill" /\ ~act[s].warned
         /\ disk[p] \notin {0} /\ disk[p] = act[s].version
       => seen[s][p] = disk[p]]_filevars

\* A saved session stays in sessions.json unless a session that could not know it, or a
\* failed or overlapping write, took it out.
SavedListed ==
  (\A s \in Sessions : act[s].do # "index") => saved \ excused \subseteq Listed

\* A transcript holds the messages of its own conversation only, whatever commands fail
\* between the naming of a session and the change of its history.
TranscriptsApart == \A id \in Ids : script[id] \subseteq {id}

SavedSound == SavedListed /\ TranscriptsApart
=============================================================================
