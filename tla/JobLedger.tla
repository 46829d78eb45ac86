------------------------------ MODULE JobLedger ------------------------------
(***************************************************************************)
(* What a queue of the worker package promises its callers, whatever its   *)
(* driver: the life of one job, from contract.Queue, contract.Retryable    *)
(* and contract.QueueInspector (framework/contract/contracts.go).          *)
(*                                                                         *)
(*   - a job is accepted only while the queue is open, and refused only    *)
(*     once it is closed;                                                  *)
(*   - an accepted job is executed by one worker at a time, and at most    *)
(*     MaxAttempts times between two manual retries;                       *)
(*   - a job leaves the ledger by succeeding, by being deleted from the    *)
(*     failed jobs, or, once the queue is closed and only then, by being   *)
(*     dropped while it waits.                                             *)
(***************************************************************************)
EXTENDS Naturals

CONSTANTS Jobs,         \* the jobs callers dispatch
          MaxAttempts   \* Retryable.MaxAttempts of each job; 0 when it is not Retryable

VARIABLES open,         \* whether the queue still accepts jobs
          status,       \* where each job stands
          tries         \* failed executions since the job was (re)accepted

ledgerVars == <<open, status, tries>>

Statuses == {"new", "refused", "waiting", "running", "failed",
             "done", "deleted", "dropped"}

LedgerTypeOK ==
  /\ open \in BOOLEAN
  /\ status \in [Jobs -> Statuses]
  /\ tries \in [Jobs -> Nat]

Init ==
  /\ open = TRUE
  /\ status = [j \in Jobs |-> "new"]
  /\ tries = [j \in Jobs |-> 0]

Move(j, from, to) ==
  /\ status[j] = from
  /\ status' = [status EXCEPT ![j] = to]

Accept(j) == open /\ Move(j, "new", "waiting") /\ UNCHANGED <<open, tries>>

Refuse(j) == ~open /\ Move(j, "new", "refused") /\ UNCHANGED <<open, tries>>

Start(j) == Move(j, "waiting", "running") /\ UNCHANGED <<open, tries>>

Succeed(j) == Move(j, "running", "done") /\ UNCHANGED <<open, tries>>

\* A failed execution counts; the job waits again only while attempts remain.
FailAttempt(j) ==
  /\ Move(j, "running", IF tries[j] + 1 < MaxAttempts[j] THEN "waiting" ELSE "failed")
  /\ tries' = [tries EXCEPT ![j] = @ + 1]
  /\ UNCHANGED open

\* A manual retry of a failed job starts its attempts afresh.
Requeue(j) ==
  /\ Move(j, "failed", "waiting")
  /\ tries' = [tries EXCEPT ![j] = 0]
  /\ UNCHANGED open

Delete(j) == Move(j, "failed", "deleted") /\ UNCHANGED <<open, tries>>

Drop(j) == ~open /\ Move(j, "waiting", "dropped") /\ UNCHANGED <<open, tries>>

Close == open /\ open' = FALSE /\ UNCHANGED <<status, tries>>

Next ==
  \/ \E j \in Jobs : \/ Accept(j) \/ Refuse(j) \/ Start(j) \/ Succeed(j)
                     \/ FailAttempt(j) \/ Requeue(j) \/ Delete(j) \/ Drop(j)
  \/ Close

Spec == Init /\ [][Next]_ledgerVars
==============================================================================
