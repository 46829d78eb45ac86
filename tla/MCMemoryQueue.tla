---------------------------- MODULE MCMemoryQueue ----------------------------
(* MemoryQueue on a few jobs: one retryable once, the others not Retryable.  *)
EXTENDS MemoryQueue, TLC

CONSTANTS j1, j2, j3, w1, w2, c1, c2

OneRetryable == [j \in Jobs |-> IF j = j1 THEN 2 ELSE 0]

Pools == Permutations(Workers) \cup Permutations(Clients) \cup Permutations({j2, j3})
==============================================================================
