---------------------------- MODULE DatabaseQueue ----------------------------
(***************************************************************************)
(* framework/worker/queue/queue_db.go: DatabaseQueue, the SQL driver of    *)
(* the worker package: a `jobs' table, a `failed_jobs' table, and workers  *)
(* in several server processes that poll them.                             *)
(*                                                                         *)
(* Each SQL statement outside a transaction is a step of its own, because  *)
(* other processes run between two of them and this process may stop       *)
(* there. The reservation transaction is two steps (the locking SELECT,    *)
(* then UPDATE and COMMIT); the lock it takes is its worker being in       *)
(* "selected". A worker models one worker goroutine with its process: it   *)
(* crashes and restarts by itself. Statements may fail at most MaxFaults   *)
(* times and processes stop at most MaxOutages times: both are bounds of   *)
(* the model, not of the code.                                             *)
(***************************************************************************)
EXTENDS Naturals

CONSTANTS Jobs,         \* the jobs dispatched
          Workers,      \* worker goroutines, each with its server process
          Clients,      \* callers of RetryJob and DeleteFailedJob
          Registered,   \* jobs whose name is in the registry and whose payload hydrates
          MaxAttempts,  \* Retryable.MaxAttempts of each job; 0: not Retryable
          MaxRows,      \* bound: rows ever inserted in either table
          MaxFaults,    \* bound: statements that fail
          MaxOutages    \* bound: processes that stop

ASSUME DatabaseQueueAssumption ==
  /\ Jobs # {} /\ Registered \subseteq Jobs
  /\ MaxAttempts \in [Jobs -> Nat]
  /\ MaxRows \in Nat /\ MaxFaults \in Nat /\ MaxOutages \in Nat

VARIABLES jobs,      \* the jobs table, by id
          failed,    \* the failed_jobs table, by id
          worker,    \* where each worker is in processNext, its row, its `attempts'
          client,    \* where each caller of RetryJob is, and the failed row it retries
          stopping,  \* workers whose q.stop is closed
          accepted,  \* jobs whose Push or PushDelayed returned nil
          completed, \* how often each job's Handle has returned nil
          retried,   \* jobs somebody called RetryJob for
          dismissed, \* jobs dropped: no handler, corrupt payload, or deleted by a client
          faults, outages

vars == <<jobs, failed, worker, client, stopping, accepted, completed, retried,
          dismissed, faults, outages>>
tables == <<jobs, failed>>
ledger == <<accepted, completed, retried, dismissed>>

Ids == 1..MaxRows
\* "delayed" is available_at > now, "ready" is available_at <= now; both have
\* reserved_at NULL. A deleted id is never used again.
RowStates == {"unused", "delayed", "ready", "reserved", "deleted"}
FailedStates == {"unused", "listed", "deleted"}
WorkerPCs == {"idle", "selected", "executing", "releasing", "burying", "deleting", "down"}

SomeJob == CHOOSE j \in Jobs : TRUE

TypeOK ==
  /\ jobs \in [Ids -> [job : Jobs, attempts : Nat, state : RowStates]]
  /\ failed \in [Ids -> [job : Jobs, state : FailedStates]]
  /\ worker \in [Workers -> [pc : WorkerPCs, row : Ids \cup {0}, attempts : Nat]]
  /\ client \in [Clients -> [pc : {"idle", "inserting", "removing"}, id : Ids \cup {0}]]
  /\ stopping \subseteq Workers
  /\ accepted \subseteq Jobs /\ retried \subseteq Jobs /\ dismissed \subseteq Jobs
  /\ completed \in [Jobs -> Nat]
  /\ faults \in 0..MaxFaults /\ outages \in 0..MaxOutages

AtRest(pc) == [pc |-> pc, row |-> 0, attempts |-> 0]
NoCall == [pc |-> "idle", id |-> 0]

Init ==
  /\ jobs = [i \in Ids |-> [job |-> SomeJob, attempts |-> 0, state |-> "unused"]]
  /\ failed = [i \in Ids |-> [job |-> SomeJob, state |-> "unused"]]
  /\ worker = [w \in Workers |-> AtRest("idle")]
  /\ client = [c \in Clients |-> NoCall]
  /\ stopping = {} /\ accepted = {} /\ retried = {} /\ dismissed = {}
  /\ completed = [j \in Jobs |-> 0]
  /\ faults = 0 /\ outages = 0

Fault == faults < MaxFaults /\ faults' = faults + 1

First(i, ids) == i \in ids /\ \A k \in ids : i <= k

\* AUTO_INCREMENT: a new row gets the first id the table never used.
Unused(table) == {i \in Ids : table[i].state = "unused"}

InsertJob(j, state) ==
  \E i \in Ids :
    /\ First(i, Unused(jobs))
    /\ jobs' = [jobs EXCEPT ![i] = [job |-> j, attempts |-> 0, state |-> state]]

InsertFailed(j) ==
  \E i \in Ids :
    /\ First(i, Unused(failed))
    /\ failed' = [failed EXCEPT ![i] = [job |-> j, state |-> "listed"]]

-----------------------------------------------------------------------------
(* Dispatching *)

\* Push and PushDelayed: one INSERT; an error goes back to the caller.
Push(j) ==
  /\ j \notin accepted
  /\ \E state \in {"ready", "delayed"} : InsertJob(j, state)
  /\ accepted' = accepted \cup {j}
  /\ UNCHANGED <<failed, worker, client, stopping, completed, retried, dismissed, faults, outages>>

\* Time passes available_at.
BecomesDue(i) ==
  /\ jobs[i].state = "delayed"
  /\ jobs' = [jobs EXCEPT ![i].state = "ready"]
  /\ UNCHANGED <<failed, worker, client, stopping, ledger, faults, outages>>

-----------------------------------------------------------------------------
(* Workers: processNext *)

Available == {i \in Ids : jobs[i].state = "ready"}
LockedRows == {worker[w].row : w \in {v \in Workers : worker[v].pc = "selected"}}

Take(w, i) ==
  /\ worker[w].pc = "idle"
  /\ worker' = [worker EXCEPT ![w] = [pc |-> "selected", row |-> i, attempts |-> jobs[i].attempts]]
  /\ UNCHANGED <<tables, client, stopping, ledger, faults, outages>>

\* Mutant of SelectForUpdate: the SELECT without FOR UPDATE.
SelectPlain(w, i) == First(i, Available) /\ Take(w, i)

\* Mutant of SelectForUpdate: the SELECT without `reserved_at IS NULL'.
SelectReservedToo(w, i) ==
  /\ jobs[i].state \in {"ready", "reserved"}
  /\ i \notin LockedRows
  /\ Take(w, i)

\* The tick: BEGIN; SELECT ... ORDER BY id LIMIT 1 FOR UPDATE. A worker whose
\* first available row is locked waits for the lock, then looks again. With no
\* row available the transaction rolls back and nothing changes.
SelectForUpdate(w, i) ==
  /\ First(i, Available)
  /\ i \notin LockedRows
  /\ Take(w, i)

\* UPDATE ... SET reserved_at, attempts + 1; COMMIT; then the registry look-up
\* and the hydration, which send an unknown or corrupt job straight to deleteJob.
Reserve(w) ==
  /\ worker[w].pc = "selected"
  /\ LET i == worker[w].row
         known == jobs[i].job \in Registered
     IN /\ jobs' = [jobs EXCEPT ![i].state = "reserved", ![i].attempts = @ + 1]
        /\ worker' = [worker EXCEPT ![w].pc = IF known THEN "executing" ELSE "deleting"]
        /\ dismissed' = IF known THEN dismissed ELSE dismissed \cup {jobs[i].job}
  /\ UNCHANGED <<failed, client, stopping, accepted, completed, retried, faults, outages>>

\* The UPDATE or the COMMIT returns an error. Either the transaction is rolled
\* back, or it was the answer of a COMMIT that took place that was lost.
ReserveErrs(w) ==
  /\ worker[w].pc = "selected"
  /\ Fault
  /\ \/ UNCHANGED jobs
     \/ jobs' = [jobs EXCEPT ![worker[w].row].state = "reserved",
                             ![worker[w].row].attempts = @ + 1]
  /\ worker' = [worker EXCEPT ![w] = AtRest("idle")]
  /\ UNCHANGED <<failed, client, stopping, ledger, outages>>

HandleSucceeds(w) ==
  /\ worker[w].pc = "executing"
  /\ completed' = [completed EXCEPT ![jobs[worker[w].row].job] = @ + 1]
  /\ worker' = [worker EXCEPT ![w].pc = "deleting"]
  /\ UNCHANGED <<tables, client, stopping, accepted, retried, dismissed, faults, outages>>

\* Mutant of AttemptsRemain: one attempt too many.
AttemptsRemainInclusive(j, attempts) == attempts + 1 <= MaxAttempts[j]

\* `attempts++' on the value the SELECT returned, then the comparison.
AttemptsRemain(j, attempts) == attempts + 1 < MaxAttempts[j]

HandleFails(w) ==
  /\ worker[w].pc = "executing"
  /\ worker' = [worker EXCEPT ![w].pc =
       IF AttemptsRemain(jobs[worker[w].row].job, worker[w].attempts)
       THEN "releasing" ELSE "burying"]
  /\ UNCHANGED <<tables, client, stopping, ledger, faults, outages>>

\* Mutant of Release: the retry starts counting anew.
ReleaseAfresh(w) ==
  /\ worker[w].pc = "releasing"
  /\ jobs' = [jobs EXCEPT ![worker[w].row].state = "delayed", ![worker[w].row].attempts = 0]
  /\ worker' = [worker EXCEPT ![w] = AtRest("idle")]
  /\ UNCHANGED <<failed, client, stopping, ledger, faults, outages>>

\* UPDATE ... SET reserved_at = NULL, available_at = now + attempts*10s. The
\* error of this statement, and of the two below, is ignored.
Release(w) ==
  /\ worker[w].pc = "releasing"
  /\ \/ jobs' = [jobs EXCEPT ![worker[w].row].state = "delayed"] /\ UNCHANGED faults
     \/ Fault /\ UNCHANGED jobs
  /\ worker' = [worker EXCEPT ![w] = AtRest("idle")]
  /\ UNCHANGED <<failed, client, stopping, ledger, outages>>

\* Mutant of Bury: deletes the job's row first, and buries it after.
BuryAfterDelete(w) ==
  /\ worker[w].pc = "burying"
  /\ IF jobs[worker[w].row].state = "reserved"
     THEN /\ jobs' = [jobs EXCEPT ![worker[w].row].state = "deleted"]
          /\ UNCHANGED <<failed, worker>>
     ELSE /\ InsertFailed(jobs[worker[w].row].job)
          /\ worker' = [worker EXCEPT ![w] = AtRest("idle")]
          /\ UNCHANGED jobs
  /\ UNCHANGED <<client, stopping, ledger, faults, outages>>

\* INSERT INTO failed_jobs.
Bury(w) ==
  /\ worker[w].pc = "burying"
  /\ \/ InsertFailed(jobs[worker[w].row].job) /\ UNCHANGED faults
     \/ Fault /\ UNCHANGED failed
  /\ worker' = [worker EXCEPT ![w].pc = "deleting"]
  /\ UNCHANGED <<jobs, client, stopping, ledger, outages>>

\* deleteJob.
DeleteJob(w) ==
  /\ worker[w].pc = "deleting"
  /\ \/ jobs' = [jobs EXCEPT ![worker[w].row].state = "deleted"] /\ UNCHANGED faults
     \/ Fault /\ UNCHANGED jobs
  /\ worker' = [worker EXCEPT ![w] = AtRest("idle")]
  /\ UNCHANGED <<failed, client, stopping, ledger, outages>>

-----------------------------------------------------------------------------
(* Processes stop and start *)

\* Close: close(q.stop); the worker goes on until it is back in its select, which
\* picks at random between the closed channel and the ticker.
Close(w) ==
  /\ worker[w].pc # "down" /\ w \notin stopping
  /\ outages < MaxOutages /\ outages' = outages + 1
  /\ stopping' = stopping \cup {w}
  /\ UNCHANGED <<tables, worker, client, ledger, faults>>

Return(w) ==
  /\ worker[w].pc = "idle" /\ w \in stopping
  /\ worker' = [worker EXCEPT ![w] = AtRest("down")]
  /\ UNCHANGED <<tables, client, stopping, ledger, faults, outages>>

\* The process dies; the database rolls an open transaction back.
Crash(w) ==
  /\ worker[w].pc # "down"
  /\ outages < MaxOutages /\ outages' = outages + 1
  /\ worker' = [worker EXCEPT ![w] = AtRest("down")]
  /\ UNCHANGED <<tables, client, stopping, ledger, faults>>

\* NewDatabaseQueue and StartWorkers in a new process.
Restart(w) ==
  /\ worker[w].pc = "down"
  /\ worker' = [worker EXCEPT ![w] = AtRest("idle")]
  /\ stopping' = stopping \ {w}
  /\ UNCHANGED <<tables, client, ledger, faults, outages>>

-----------------------------------------------------------------------------
(* Failed jobs: RetryJob and DeleteFailedJob *)

\* Mutant of RetrySelect: the scan error is not looked at.
RetrySelectUnchecked(c, i) ==
  /\ client[c].pc = "idle"
  /\ client' = [client EXCEPT ![c] = [pc |-> "inserting", id |-> i]]
  /\ retried' = retried \cup {failed[i].job}
  /\ UNCHANGED <<tables, worker, stopping, accepted, completed, dismissed, faults, outages>>

\* SELECT payload FROM failed_jobs WHERE id = ?
RetrySelect(c, i) ==
  /\ client[c].pc = "idle"
  /\ failed[i].state = "listed"
  /\ client' = [client EXCEPT ![c] = [pc |-> "inserting", id |-> i]]
  /\ retried' = retried \cup {failed[i].job}
  /\ UNCHANGED <<tables, worker, stopping, accepted, completed, dismissed, faults, outages>>

\* INSERT INTO jobs: the payload read before, whatever became of the failed row.
RetryInsert(c) ==
  /\ client[c].pc = "inserting"
  /\ \/ /\ InsertJob(failed[client[c].id].job, "ready")
        /\ client' = [client EXCEPT ![c].pc = "removing"]
        /\ UNCHANGED faults
     \/ /\ Fault
        /\ client' = [client EXCEPT ![c] = NoCall]
        /\ UNCHANGED jobs
  /\ UNCHANGED <<failed, worker, stopping, ledger, outages>>

\* DELETE FROM failed_jobs: neither its error nor its row count is looked at.
RetryRemove(c) ==
  /\ client[c].pc = "removing"
  /\ \/ failed' = [failed EXCEPT ![client[c].id].state = "deleted"] /\ UNCHANGED faults
     \/ Fault /\ UNCHANGED failed
  /\ client' = [client EXCEPT ![c] = NoCall]
  /\ UNCHANGED <<jobs, worker, stopping, ledger, outages>>

\* The caller's process dies in the middle of RetryJob.
RetryCrash(c) ==
  /\ client[c].pc # "idle"
  /\ outages < MaxOutages /\ outages' = outages + 1
  /\ client' = [client EXCEPT ![c] = NoCall]
  /\ UNCHANGED <<tables, worker, stopping, ledger, faults>>

DeleteFailedJob(i) ==
  /\ failed[i].state = "listed"
  /\ failed' = [failed EXCEPT ![i].state = "deleted"]
  /\ dismissed' = dismissed \cup {failed[i].job}
  /\ UNCHANGED <<jobs, worker, client, stopping, accepted, completed, retried, faults, outages>>

-----------------------------------------------------------------------------
Worker(w) ==
  \/ (\E i \in Ids : SelectForUpdate(w, i)) \/ Reserve(w) \/ HandleSucceeds(w) \/ HandleFails(w)
  \/ Release(w) \/ Bury(w) \/ DeleteJob(w) \/ Return(w)

Next ==
  \/ \E j \in Jobs : Push(j)
  \/ \E i \in Ids : BecomesDue(i) \/ DeleteFailedJob(i)
  \/ \E w \in Workers : Worker(w) \/ ReserveErrs(w) \/ Close(w) \/ Crash(w) \/ Restart(w)
  \/ \E c \in Clients : \/ RetryInsert(c) \/ RetryRemove(c) \/ RetryCrash(c)
                        \/ \E i \in Ids : RetrySelect(c, i)

Spec == Init /\ [][Next]_vars

\* Running processes make progress, stopped ones are restarted, delays elapse.
Fairness ==
  /\ \A w \in Workers : WF_vars(Worker(w)) /\ WF_vars(Restart(w))
  /\ \A i \in Ids : WF_vars(BecomesDue(i))

FairSpec == Spec /\ Fairness

-----------------------------------------------------------------------------
(* Properties *)

\* The row lock and reserved_at together give each reserved row to one worker:
\* no two workers execute, release, bury or delete the same row, and none works
\* on a row that another could select.
OneWorkerPerRow ==
  /\ \A w, v \in Workers :
       w # v /\ worker[w].row # 0 => worker[w].row # worker[v].row
  /\ \A w \in Workers :
       worker[w].pc \in {"executing", "releasing", "burying", "deleting"}
         => jobs[worker[w].row].state = "reserved"

\* A row is never handled more often than its job's MaxAttempts (once when it is
\* not Retryable), counting the executions a crash cut short.
AttemptsBounded ==
  \A i \in Ids : jobs[i].attempts <= 1 \/ jobs[i].attempts <= MaxAttempts[jobs[i].job]

Rows(j, states) == {i \in Ids : jobs[i].job = j /\ jobs[i].state \in states}
Listed(j) == {i \in Ids : failed[i].job = j /\ failed[i].state = "listed"}

\* Processes may die between any two statements, yet as long as no statement
\* fails, an accepted job that was neither completed nor dismissed is still in one
\* of the two tables: the INSERT of every move comes before its DELETE.
NeverLostByCrashing ==
  faults = 0 =>
    \A j \in accepted : \/ completed[j] > 0 \/ j \in dismissed
                        \/ Rows(j, {"delayed", "ready", "reserved"}) # {}
                        \/ Listed(j) # {}

\* Left to the workers, a job succeeds at most once: whatever crashes and whatever
\* statement fails, a job nobody called RetryJob for is not runnable any more once
\* its Handle has succeeded.
SuccessIsFinal ==
  \A j \in Jobs \ retried :
    completed[j] > 0 => /\ completed[j] = 1
                        /\ Rows(j, {"delayed", "ready"}) = {} /\ Listed(j) = {}

\* Workers and callers refer to rows that exist.
RowsExist ==
  /\ \A w \in Workers : worker[w].row = 0 <=> worker[w].pc \in {"idle", "down"}
  /\ \A w \in Workers : worker[w].row # 0 => jobs[worker[w].row].state # "unused"
  /\ \A c \in Clients :
       client[c].pc # "idle" => client[c].id # 0 /\ failed[client[c].id].state # "unused"

\* Why OneWorkerPerRow holds: a row whose lock a worker has is still available.
SelectedRowsReady ==
  \A w \in Workers : worker[w].pc = "selected" => jobs[worker[w].row].state = "ready"

\* Why AttemptsBounded holds: a row that waits has an attempt left, and what a
\* worker remembers of its row's attempts is what the row had before Reserve.
AttemptsCounted ==
  /\ \A i \in Ids : jobs[i].state \in {"delayed", "ready"} =>
       jobs[i].attempts = 0 \/ jobs[i].attempts < MaxAttempts[jobs[i].job]
  /\ \A w \in Workers :
       LET row == jobs[worker[w].row]
       IN /\ worker[w].pc = "selected" => row.attempts = worker[w].attempts
          /\ worker[w].pc = "executing" => row.attempts = worker[w].attempts + 1
          /\ worker[w].pc = "releasing" => row.attempts < MaxAttempts[row.job]

\* Why NeverLostByCrashing holds: a row is deleted, or a failed row removed, only
\* when another row or an end of the job takes its place.
HasKeptRow(j) ==
  \E i \in Rows(j, {"delayed", "ready", "reserved"}) :
    \A w \in Workers : ~(worker[w].pc = "deleting" /\ worker[w].row = i)
HasKeptFailure(j) ==
  \E i \in Listed(j) : \A c \in Clients : ~(client[c].pc = "removing" /\ client[c].id = i)

KeptSomewhere ==
  faults = 0 =>
    \A j \in accepted : completed[j] > 0 \/ j \in dismissed \/ HasKeptRow(j) \/ HasKeptFailure(j)

\* Why SuccessIsFinal holds: a job nobody retried has one row, which once it has
\* succeeded or failed for good is in the hands of a worker that deletes it, or
\* in nobody's.
InUse(j) == {i \in Ids : jobs[i].job = j /\ jobs[i].state # "unused"}
FailedBefore(j) == {i \in Ids : failed[i].job = j /\ failed[i].state # "unused"}

OneRow ==
  \A j \in Jobs \ retried :
    /\ j \notin accepted => InUse(j) = {}
    /\ \A i, k \in InUse(j) : i = k
    /\ completed[j] <= 1
    /\ completed[j] > 0 => FailedBefore(j) = {}
    /\ completed[j] > 0 \/ FailedBefore(j) # {} =>
         /\ InUse(j) # {}
         /\ \A i \in InUse(j) :
              /\ jobs[i].state \in {"reserved", "deleted"}
              /\ \A w \in Workers : worker[w].row = i => worker[w].pc = "deleting"

RetriesAreKnown ==
  \A c \in Clients : client[c].pc # "idle" => failed[client[c].id].job \in retried

IndInv ==
  /\ TypeOK /\ RowsExist
  /\ OneWorkerPerRow /\ SelectedRowsReady
  /\ AttemptsBounded /\ AttemptsCounted
  /\ KeptSomewhere
  /\ OneRow /\ RetriesAreKnown

Settled(j) == completed[j] > 0 \/ j \in dismissed \/ Listed(j) # {}
\* A row reserved by nobody: no step of any worker ever looks at it again.
Stranded(j) ==
  \E i \in Rows(j, {"reserved"}) : \A w \in Workers : worker[w].row # i

\* Every accepted job is settled in the end, unless its reserved row is stranded.
JobsSettleOrStrand ==
  \A j \in Jobs : j \in accepted ~> Settled(j) \/ Stranded(j) \/ faults > 0

\* `Allows applications to persist jobs across server restarts and process them
\* reliably': every accepted job is settled in the end.
JobsSettle == \A j \in Jobs : j \in accepted ~> Settled(j)
==============================================================================
