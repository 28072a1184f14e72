CONSTANTS
  c1 = c1
  c2 = c2
  a1 = a1
  a2 = a2
  Clients = {c1, c2}
  Ids = {2, 3}
  Addrs = {a1, a2}
  Behind <- MCBehind
  MaxSessions = 3
  MaxFaults = 0
SPECIFICATION Spec
CHECK_DEADLOCK FALSE
INVARIANTS
  EntriesBelong
  QueuedWhereHeard
  EndedHasMissed
PROPERTIES
  Relearned
