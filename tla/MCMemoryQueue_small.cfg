\* A channel of one slot, two workers, two clients: the contended queue.
SPECIFICATION Spec
CONSTANTS
  j1 = j1  j2 = j2  j3 = j3
  w1 = w1  w2 = w2
  c1 = c1  c2 = c2
  Jobs = {j1, j2, j3}
  Workers = {w1, w2}
  Clients = {c1, c2}
  Capacity = 1
  MaxAttempts <- OneRetryable
  NoJob = NoJob
  NoOne = NoOne
SYMMETRY Pools
INVARIANTS IndInv NoSendOnClosedChannel InOnePlace WorkersLeaveNothingBehind
PROPERTY KeepsTheLedger
CHECK_DEADLOCK FALSE
