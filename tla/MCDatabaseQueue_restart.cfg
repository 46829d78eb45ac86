\* The process may stop once and is started again: are all accepted jobs settled?
SPECIFICATION FairSpec
CONSTANTS
  j1 = j1  j2 = j2
  w1 = w1  w2 = w2
  c1 = c1  c2 = c2
  Jobs = {j1, j2}
  Workers = {w1}
  Clients = {c1}
  Registered = {j1, j2}
  MaxAttempts <- OneRetryable
  MaxRows = 2
  MaxFaults = 0
  MaxOutages = 1
PROPERTY JobsSettle
CHECK_DEADLOCK FALSE
