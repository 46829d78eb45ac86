--------------------------- MODULE MCDatabaseQueue ---------------------------
(* DatabaseQueue on a retryable job and one that no worker has a handler for. *)
EXTENDS DatabaseQueue, TLC

CONSTANTS j1, j2, w1, w2, c1, c2

OneRetryable == [j \in Jobs |-> IF j = j1 THEN 2 ELSE 0]

Fleet == Permutations(Workers) \cup Permutations(Clients)
==============================================================================
