\* An inbox: two senders and two readers; a send may be cut short.
\* The files: two sessions, two paths and two saved sessions; a change by others, and a
\* failed write or a crash.
SPECIFICATION MCSpec
CONSTANTS
  Senders = {s1, s2}
  Readers = {r1, r2}
  MaxSends = 2
  MaxTotal = 3
  MaxCuts = 1
  NL = NL
  Closed = Closed
  Sessions = {a, b}
  Paths = {p, q}
  Ids = {x, y}
  MaxTracked = 1
  MaxOps = 4
  MaxChanges = 1
  MaxFaults = 1
  NoId = NoId
  Torn = Torn
INVARIANTS InboxSound SavedSound
PROPERTY OverwritesSeen
SYMMETRY Symmetry
CHECK_DEADLOCK FALSE
