\* One slot and one worker: a pusher waits for room under the read lock.
SPECIFICATION FairSpec
CONSTANTS
  j1 = j1  j2 = j2  j3 = j3
  w1 = w1  w2 = w2
  c1 = c1  c2 = c2
  Jobs = {j1, j2, j3}
  Workers = {w1}
  Clients = {c1}
  Capacity = 1
  MaxAttempts <- OneRetryable
  NoJob = NoJob
  NoOne = NoOne
PROPERTY CloseReturns
CHECK_DEADLOCK FALSE
