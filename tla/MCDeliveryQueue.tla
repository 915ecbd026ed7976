-------------------------- MODULE MCDeliveryQueue --------------------------
(* An instance of DeliveryQueue for TLC: a message of two chunks and one   *)
(* of a single chunk.  Chunks is checked with it.                          *)
EXTENDS DeliveryQueue, Chunks, TLC

CONSTANTS m1, m2

OneOfEach == m1 :> 2 @@ m2 :> 1

\* The promise the queue keeps with a single runner: the chunks of an accepted
\* message stay owed until they are sent or refused MaxRetries times, whatever
\* crashes and file errors do, and do not stay owed for ever: the tick makes up
\* for lost Wake commands, and the retries end.
Promise ==
  INSTANCE Outbox WITH
    accepted <- {m \in Msgs : enq[m].pc = "accepted"},
    owed <- {i \in queue : enq[i[1]].pc = "accepted"}

RefinesOutbox == Promise!Spec
============================================================================
