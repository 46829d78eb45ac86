\* One slot for each connection: a broadcast finds a buffer full.
SPECIFICATION FairSpec
CONSTANTS
  c1 = c1  c2 = c2  ann = ann
  Conns = {c1, c2}
  Users = {ann}
  UserOf <- OneNamed
  Anonymous = Anonymous
  Joiners = {c2}
  Callers = {app}
  MaxBroadcasts = 2
  Directs = {}
  SendBuffer = 1
  None = None
PROPERTY BroadcastReachesAll
CHECK_DEADLOCK FALSE
