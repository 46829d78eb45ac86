\* Two connections with room for two messages each: three messages can fill one.
SPECIFICATION FairSpec
CONSTANTS
  c1 = c1  c2 = c2  ann = ann
  Conns = {c1, c2}
  Users = {ann}
  UserOf <- OneNamed
  Anonymous = Anonymous
  Joiners = {c2}
  Callers = {app}
  MaxBroadcasts = 2
  Directs = {d1}
  SendBuffer = 1
  None = None
INVARIANTS TypeOK EveryBroadcastInOrder NoPanicUnlessJoinedLate SendsToOpenConnections
PROPERTY PumpsEnd
CHECK_DEADLOCK FALSE
