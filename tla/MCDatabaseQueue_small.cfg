\* Two server processes poll the same tables; one statement may fail and one process stop.
SPECIFICATION FairSpec
CONSTANTS
  j1 = j1  j2 = j2
  w1 = w1  w2 = w2
  c1 = c1  c2 = c2
  Jobs = {j1, j2}
  Workers = {w1, w2}
  Clients = {c1}
  Registered = {j1}
  MaxAttempts <- OneRetryable
  MaxRows = 3
  MaxFaults = 1
  MaxOutages = 1
INVARIANTS IndInv OneWorkerPerRow AttemptsBounded NeverLostByCrashing SuccessIsFinal
PROPERTY JobsSettleOrStrand
CHECK_DEADLOCK FALSE
