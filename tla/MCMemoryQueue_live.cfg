\* As many jobs as the worker and the channel together can hold: a send may wait
\* for a slot, but never behind a worker that waits for the sender.
SPECIFICATION FairSpec
CONSTANTS
  j1 = j1  j2 = j2  j3 = j3
  w1 = w1  w2 = w2
  c1 = c1  c2 = c2
  Jobs = {j1, j2}
  Workers = {w1}
  Clients = {c1, c2}
  Capacity = 1
  MaxAttempts <- OneRetryable
  NoJob = NoJob
  NoOne = NoOne
PROPERTIES CloseReturns JobsSettle
CHECK_DEADLOCK FALSE
