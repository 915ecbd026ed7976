------------------------------ MODULE MessageBus ------------------------------
(***************************************************************************)
(* One inbox of src/team/manager/bus.rs, at the grain of its system calls. *)
(*                                                                         *)
(* The file is a sequence of records and newlines. send appends a record   *)
(* and then, in a write of its own, the newline (writeln! on an unbuffered *)
(* file); read_inbox reads the file and then truncates it. No lock guards  *)
(* either: agents are tasks of one process, and team_read_inbox lets any   *)
(* of them read any inbox.                                                 *)
(***************************************************************************)
EXTENDS Naturals, Sequences, FiniteSets

CONSTANTS
  Senders,   \* agents that send to this inbox
  Readers,   \* agents that read it
  MaxSends,  \* bound: messages of one sender
  MaxTotal,  \* bound: messages of all of them
  MaxCuts,   \* bound: sends cut short after the record
  NL,        \* the newline
  Closed     \* a reader without the file open

ASSUME BusAssumption ==
  {MaxSends, MaxTotal, MaxCuts} \subseteq Nat /\ NL \notin Senders \X (1..MaxSends)

VARIABLES
  file,      \* the inbox file
  sent,      \* sent[s]: messages s has begun to send
  half,      \* the senders whose record is written and whose newline is not
  cuts,      \* sends cut short
  buffer,    \* buffer[r]: what r has read and not yet truncated, or Closed
  received,  \* what each read_inbox that found a message returned, in that order
  touched,   \* the messages whose send met an unfinished line or an open reader
  crossed    \* the messages that were in the hands of a reader while another one read

busvars == <<file, sent, half, cuts, buffer, received, touched, crossed>>

Messages == Senders \X (1..MaxSends)
Sent == {m \in Messages : m[2] <= sent[m[1]]}

\* Where f parses: a line that is one record. Other lines are dropped.
Lines(f) ==
  {i \in DOMAIN f : f[i] # NL /\ (i > 1 => f[i - 1] = NL) /\ (i < Len(f) => f[i + 1] = NL)}

Parsed(f) == {f[i] : i \in Lines(f)}

BusTypeOK ==
  /\ file \in Seq(Messages \cup {NL})
  /\ sent \in [Senders -> 0..MaxSends] /\ half \subseteq Senders /\ cuts \in 0..MaxCuts
  /\ \A r \in Readers : buffer[r] # Closed => buffer[r] \in Seq(Messages \cup {NL})
  /\ received \in Seq(Seq(Messages \cup {NL})) /\ touched \subseteq Messages
  /\ crossed \subseteq Messages

BusInit ==
  /\ file = << >> /\ sent = [s \in Senders |-> 0] /\ half = {} /\ cuts = 0
  /\ buffer = [r \in Readers |-> Closed] /\ received = << >> /\ touched = {}
  /\ crossed = {}

\* The readers at work, and the record that a new one would share its line with.
Reading == {r \in Readers : buffer[r] # Closed}
Unfinished == {file[i] : i \in {Len(file)} \cap DOMAIN file} \ {NL}

\* send: the record is appended.
SendRecord(s) ==
  /\ s \notin half /\ sent[s] < MaxSends /\ Cardinality(Sent) < MaxTotal
  /\ sent' = [sent EXCEPT ![s] = @ + 1] /\ half' = half \cup {s}
  /\ file' = Append(file, <<s, sent'[s]>>)
  /\ touched' = touched \cup Unfinished
                 \cup (IF Unfinished # {} \/ Reading # {} THEN {<<s, sent'[s]>>} ELSE {})
  /\ UNCHANGED <<cuts, buffer, received, crossed>>

\* send: the newline is appended.
SendNewline(s) ==
  /\ s \in half /\ half' = half \ {s}
  /\ file' = Append(file, NL)
  /\ UNCHANGED <<sent, cuts, buffer, received, touched, crossed>>

\* send: the second write fails.
SendCut(s) ==
  /\ s \in half /\ half' = half \ {s}
  /\ cuts < MaxCuts /\ cuts' = cuts + 1
  /\ UNCHANGED <<file, sent, buffer, received, touched, crossed>>

\* The records in f.
Records(f) == {f[i] : i \in DOMAIN f} \ {NL}

\* read_inbox: the file is read.
ReadFile(r) ==
  /\ buffer[r] = Closed
  /\ buffer' = [buffer EXCEPT ![r] = file]
  /\ crossed' = crossed \cup (IF Reading = {} THEN {} ELSE
                   Records(file) \cup UNION {Records(buffer[q]) : q \in Reading})
  /\ UNCHANGED <<file, sent, half, cuts, received, touched>>

\* The answers after a read of the content f.
Answers(f) == IF Lines(f) = {} THEN received ELSE Append(received, f)

\* Mutant: the file is not truncated.
ReturnOnly(r) ==
  /\ buffer[r] # Closed
  /\ received' = Answers(buffer[r])
  /\ buffer' = [buffer EXCEPT ![r] = Closed]
  /\ UNCHANGED <<file, sent, half, cuts, touched, crossed>>

\* read_inbox: the file is truncated and what was read is returned.
Truncate(r) ==
  /\ buffer[r] # Closed
  /\ file' = << >>
  /\ received' = Answers(buffer[r])
  /\ buffer' = [buffer EXCEPT ![r] = Closed]
  /\ UNCHANGED <<sent, half, cuts, touched, crossed>>

BusNext ==
  \/ \E s \in Senders : SendRecord(s) \/ SendNewline(s) \/ SendCut(s)
  \/ \E r \in Readers : ReadFile(r) \/ Truncate(r)

BusSpec == BusInit /\ [][BusNext]_busvars

-----------------------------------------------------------------------------
(* Properties.                                                             *)

\* The messages returned: line i of the k-th answer, in the order of k and then of i.
Returned == UNION {{k} \X Lines(received[k]) : k \in DOMAIN received}
Message(x) == received[x[1]][x[2]]
Earlier(x, y) == x[1] < y[1] \/ (x[1] = y[1] /\ x[2] < y[2])

\* The messages of a sender are returned in the order it sent them, and none twice,
\* unless two reads overlapped: what the truncation through the open file leaves to go
\* wrong, and no more.
SeenInOrder ==
  \A x, y \in Returned :
    Earlier(x, y) /\ Message(x)[1] = Message(y)[1]
      => Message(x)[2] < Message(y)[2] \/ Message(y) \in crossed

\* A message is returned or waits in the file, unless its send overlapped a
\* read or another line: what the two-step send and read can lose, and no more.
LostOnlyByOverlap ==
  \A m \in Sent \ touched :
    \/ m \in Parsed(file)
    \/ \E k \in DOMAIN received : m \in Parsed(received[k])
    \/ \E r \in Readers : buffer[r] # Closed /\ m \in Parsed(buffer[r])

InboxSound == SeenInOrder /\ LostOnlyByOverlap
=============================================================================
