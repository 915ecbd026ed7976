------------------------------- MODULE Outbox -------------------------------
(***************************************************************************)
(* What the delivery queue promises its callers, without files, scans or   *)
(* tasks: an accepted message is owed chunk by chunk, and a chunk stops    *)
(* being owed only when it has been sent or has been refused MaxRetries    *)
(* times, and eventually does.  Chunks may be sent before their message is *)
(* accepted and more than once.                                            *)
(***************************************************************************)
EXTENDS Integers

CONSTANTS Msgs, ChunksOf, MaxRetries

Ids == UNION {{m} \X (1..ChunksOf[m]) : m \in Msgs}

VARIABLES accepted, owed, sent, refused

vars == <<accepted, owed, sent, refused>>

Init ==
  /\ accepted = {} /\ owed = {}
  /\ sent = [i \in Ids |-> 0] /\ refused = [i \in Ids |-> 0]

Settled(i) == sent[i] > 0 \/ refused[i] >= MaxRetries

\* The chunks of m not yet settled become owed.
Accept(m) ==
  /\ m \notin accepted
  /\ accepted' = accepted \cup {m}
  /\ \E S \in SUBSET ({m} \X (1..ChunksOf[m])) :
       /\ owed' = owed \cup S
       /\ \A c \in 1..ChunksOf[m] : <<m, c>> \in S \/ Settled(<<m, c>>)
  /\ UNCHANGED <<sent, refused>>

Send(i) ==
  /\ sent' = [sent EXCEPT ![i] = @ + 1]
  /\ UNCHANGED <<accepted, owed, refused>>

Refuse(i) ==
  /\ refused' = [refused EXCEPT ![i] = @ + 1]
  /\ UNCHANGED <<accepted, owed, sent>>

Settle(i) ==
  /\ i \in owed
  /\ Settled(i)
  /\ owed' = owed \ {i}
  /\ UNCHANGED <<accepted, sent, refused>>

Next ==
  \/ \E m \in Msgs : Accept(m)
  \/ \E i \in Ids : Send(i) \/ Refuse(i) \/ Settle(i)

\* Nothing stays owed for ever.
Settles == \A i \in Ids : (i \in owed) ~> (i \notin owed)

Spec == Init /\ [][Next]_vars /\ Settles
============================================================================
