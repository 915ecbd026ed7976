---------------------------- MODULE MCHeartbeat -----------------------------
EXTENDS Heartbeat

\* A day of four hours; the active hours span midnight, or end before it.
SomeSettings ==
  { [interval |-> 1, start |-> 3, end |-> 1],
    [interval |-> 2, start |-> 1, end |-> 3] }
=============================================================================
