----------------------------- MODULE MemoryQueue -----------------------------
(***************************************************************************)
(* framework/worker/queue/queue.go: MemoryQueue, the in-process driver of  *)
(* the worker package: a buffered channel, an RWMutex and a pool of        *)
(* goroutines.                                                             *)
(*                                                                         *)
(* A job is followed from the goroutine that pushes it to where it ends.   *)
(* Every goroutine that pushes carries exactly one job (a caller of Push,  *)
(* the timer of PushDelayed, the back-off timer of a failed job, a caller  *)
(* of RetryJob), so `place' says where that goroutine stands as well.      *)
(*                                                                         *)
(* The RWMutex is Go's: a writer first announces itself (at most one at a  *)
(* time), which turns new readers away, then waits for the readers inside; *)
(* when it unlocks, every reader it turned away is let in at once.         *)
(* Sections under the write lock never block, so each is one step; the     *)
(* read-locked section of pushEnvelope does block, on the channel send,    *)
(* and is three steps.                                                     *)
(***************************************************************************)
EXTENDS Naturals, Sequences, Functions

CONSTANTS Jobs,         \* the jobs dispatched
          Workers,      \* worker goroutines StartWorkers may start
          Clients,      \* goroutines that call Close, RetryJob, DeleteFailedJob
          Capacity,     \* NewMemoryQueue's capacity of the channel
          MaxAttempts,  \* Retryable.MaxAttempts of each job; 0: not Retryable
          NoJob, NoOne  \* the absence of a job, of a lock holder

ASSUME QueueAssumption ==
  /\ Capacity \in Nat \ {0}
  /\ MaxAttempts \in [Jobs -> Nat]
  /\ NoJob \notin Jobs
  /\ Workers \cap Clients = {}
  /\ NoOne \notin Workers \cup Clients

VARIABLES place,     \* where each job is
          attempts,  \* memoryJobEnvelope.attempts
          accepted,  \* jobs whose Push or PushDelayed returned nil
          buffer,    \* the channel q.jobs
          closed,    \* q.closed
          writer,    \* the goroutine that announced q.mu.Lock(), or NoOne
          wstate,    \* each worker: not started, in its loop, returned
          task,      \* the job each worker has received and not finished with
          call       \* the operation each client is in, and the job it names

vars == <<place, attempts, accepted, buffer, closed, writer, wstate, task, call>>

Places == {"new",        \* not pushed yet
           "pushing",    \* about to call q.mu.RLock in pushEnvelope
           "blocked",    \* turned away by an announced writer
           "admitted",   \* holds the read lock, has not looked at q.closed
           "sending",    \* holds the read lock, saw the queue open, sends
           "sleeping",   \* in the timer of PushDelayed or of a back-off
           "queued",     \* in the channel
           "running",    \* in Handle
           "failing",    \* failed for good, its worker waits for q.mu.Lock
           "failed",     \* in q.failedJobs
           "done", "rejected", "lost", "deleted"}

WorkerStates == {"unstarted", "running", "exited"}
LockOps == {"close", "retry", "delete"}
Ops == LockOps \cup {"idle", "drain"}

TypeOK ==
  /\ place \in [Jobs -> Places]
  /\ attempts \in [Jobs -> Nat]
  /\ accepted \subseteq Jobs
  /\ buffer \in Seq(Jobs)
  /\ closed \in BOOLEAN
  /\ writer \in Workers \cup Clients \cup {NoOne}
  /\ wstate \in [Workers -> WorkerStates]
  /\ task \in [Workers -> Jobs \cup {NoJob}]
  /\ call \in [Clients -> [op : Ops, job : Jobs \cup {NoJob}]]

Idle == [op |-> "idle", job |-> NoJob]

Init ==
  /\ place = [j \in Jobs |-> "new"]
  /\ attempts = [j \in Jobs |-> 0]
  /\ accepted = {}
  /\ buffer = <<>>
  /\ closed = FALSE
  /\ writer = NoOne
  /\ wstate = [w \in Workers |-> "unstarted"]
  /\ task = [w \in Workers |-> NoJob]
  /\ call = [c \in Clients |-> Idle]

Readers == {j \in Jobs : place[j] \in {"admitted", "sending"}}

\* Mutant of LetReadersIn: an unlock that forgets the readers it kept out.
LetNobodyIn(p) == p

\* Unlocking lets in every reader the writer had turned away.
LetReadersIn(p) == [j \in Jobs |-> IF p[j] = "blocked" THEN "admitted" ELSE p[j]]

\* The goroutine stands at q.mu.Lock().
WantsLock(t) ==
  \/ /\ t \in Workers
     /\ task[t] \in Jobs
     /\ place[task[t]] = "failing"
  \/ t \in Clients /\ call[t].op \in LockOps

\* Mutant of HasLock: a writer that does not wait for the readers inside.
HasLockDespiteReaders(t) == writer = t

\* The goroutine is inside its write-locked section.
HasLock(t) == writer = t /\ Readers = {}

\* q.mu.Lock(): announce, and keep new readers out from now on.
Lock(t) ==
  /\ writer = NoOne
  /\ WantsLock(t)
  /\ writer' = t
  /\ UNCHANGED <<place, attempts, accepted, buffer, closed, wstate, task, call>>

-----------------------------------------------------------------------------
(* Dispatching *)

Push(j) ==
  /\ place[j] = "new"
  /\ place' = [place EXCEPT ![j] = "pushing"]
  /\ UNCHANGED <<attempts, accepted, buffer, closed, writer, wstate, task, call>>

PushDelayed(j) ==
  /\ place[j] = "new"
  /\ writer = NoOne
  /\ place' = [place EXCEPT ![j] = IF closed THEN "rejected" ELSE "sleeping"]
  /\ accepted' = IF closed THEN accepted ELSE accepted \cup {j}
  /\ UNCHANGED <<attempts, buffer, closed, writer, wstate, task, call>>

\* time.Sleep returns in the goroutine of PushDelayed or of a back-off.
Wake(j) ==
  /\ place[j] = "sleeping"
  /\ place' = [place EXCEPT ![j] = "pushing"]
  /\ UNCHANGED <<attempts, accepted, buffer, closed, writer, wstate, task, call>>

RLock(j) ==
  /\ place[j] = "pushing"
  /\ place' = [place EXCEPT ![j] = IF writer = NoOne THEN "admitted" ELSE "blocked"]
  /\ UNCHANGED <<attempts, accepted, buffer, closed, writer, wstate, task, call>>

\* `if q.closed'. The caller of Push or RetryJob gets ErrQueueClosed; a timer
\* ignores the error. A job already accepted is gone in either case.
CheckClosed(j) ==
  /\ place[j] = "admitted"
  /\ place' = [place EXCEPT ![j] = IF ~closed THEN "sending"
                                   ELSE IF j \in accepted THEN "lost" ELSE "rejected"]
  /\ UNCHANGED <<attempts, accepted, buffer, closed, writer, wstate, task, call>>

\* `q.jobs <- env' and the deferred RUnlock. Waits, read-locked, for room.
Send(j) ==
  /\ place[j] = "sending"
  /\ Len(buffer) < Capacity
  /\ buffer' = Append(buffer, j)
  /\ place' = [place EXCEPT ![j] = "queued"]
  /\ accepted' = accepted \cup {j}
  /\ UNCHANGED <<attempts, closed, writer, wstate, task, call>>

-----------------------------------------------------------------------------
(* Workers *)

StartWorker(w) ==
  /\ wstate[w] = "unstarted"
  /\ wstate' = [wstate EXCEPT ![w] = "running"]
  /\ UNCHANGED <<place, attempts, accepted, buffer, closed, writer, task, call>>

\* One turn of `for env := range q.jobs'.
Receive(w) ==
  /\ wstate[w] = "running" /\ task[w] = NoJob
  /\ buffer # <<>>
  /\ task' = [task EXCEPT ![w] = Head(buffer)]
  /\ place' = [place EXCEPT ![Head(buffer)] = "running"]
  /\ buffer' = Tail(buffer)
  /\ UNCHANGED <<attempts, accepted, closed, writer, wstate, call>>

\* Mutant of Exit: a worker that polls the channel and stops when it is empty.
ExitWhenIdle(w) ==
  /\ wstate[w] = "running" /\ task[w] = NoJob
  /\ buffer = <<>>
  /\ wstate' = [wstate EXCEPT ![w] = "exited"]
  /\ UNCHANGED <<place, attempts, accepted, buffer, closed, writer, task, call>>

\* The range ends once the channel is closed and drained.
Exit(w) ==
  /\ wstate[w] = "running" /\ task[w] = NoJob
  /\ closed /\ buffer = <<>>
  /\ wstate' = [wstate EXCEPT ![w] = "exited"]
  /\ UNCHANGED <<place, attempts, accepted, buffer, closed, writer, task, call>>

Executing(w) == task[w] \in Jobs /\ place[task[w]] = "running"

HandleSucceeds(w) ==
  /\ Executing(w)
  /\ place' = [place EXCEPT ![task[w]] = "done"]
  /\ task' = [task EXCEPT ![w] = NoJob]
  /\ UNCHANGED <<attempts, accepted, buffer, closed, writer, wstate, call>>

\* Mutant of AttemptsRemain: the comparison made before env.attempts++.
AttemptsRemainBefore(j) == attempts[j] < MaxAttempts[j]

\* env.attempts++, then `env.attempts < retryable.MaxAttempts()' on the new value.
AttemptsRemain(j) == attempts[j] + 1 < MaxAttempts[j]

HandleFailsAndRetries(w) ==
  /\ Executing(w)
  /\ AttemptsRemain(task[w])
  /\ attempts' = [attempts EXCEPT ![task[w]] = @ + 1]
  /\ place' = [place EXCEPT ![task[w]] = "sleeping"]
  /\ task' = [task EXCEPT ![w] = NoJob]
  /\ UNCHANGED <<accepted, buffer, closed, writer, wstate, call>>

HandleFailsForGood(w) ==
  /\ Executing(w)
  /\ ~AttemptsRemain(task[w])
  /\ attempts' = [attempts EXCEPT ![task[w]] = @ + 1]
  /\ place' = [place EXCEPT ![task[w]] = "failing"]
  /\ UNCHANGED <<accepted, buffer, closed, writer, wstate, task, call>>

\* Mutant of RecordFailure: returns without q.mu.Unlock.
RecordFailureKeepsLock(w) ==
  /\ HasLock(w)
  /\ task[w] \in Jobs
  /\ place' = [place EXCEPT ![task[w]] = "failed"]
  /\ task' = [task EXCEPT ![w] = NoJob]
  /\ UNCHANGED <<attempts, accepted, buffer, closed, writer, wstate, call>>

RecordFailure(w) ==
  /\ HasLock(w)
  /\ place' = LetReadersIn([place EXCEPT ![task[w]] = "failed"])
  /\ task' = [task EXCEPT ![w] = NoJob]
  /\ writer' = NoOne
  /\ UNCHANGED <<attempts, accepted, buffer, closed, wstate, call>>

-----------------------------------------------------------------------------
(* Close and the inspector's operations *)

Call(c, op, j) ==
  /\ call[c].op = "idle"
  /\ call' = [call EXCEPT ![c] = [op |-> op, job |-> j]]
  /\ UNCHANGED <<place, attempts, accepted, buffer, closed, writer, wstate, task>>

CallClose(c) == Call(c, "close", NoJob)

\* A client names a job it saw in GetFailedJobs, which may be gone by the time
\* it holds the lock.
CallRetryJob(c, j) == place[j] = "failed" /\ Call(c, "retry", j)
CallDeleteFailedJob(c, j) == place[j] = "failed" /\ Call(c, "delete", j)

\* The write-locked section of Close: a second caller finds q.closed set and
\* returns; the first closes the channel and goes on to wg.Wait.
CloseChannel(c) ==
  /\ HasLock(c) /\ call[c].op = "close"
  /\ closed' = TRUE
  /\ call' = [call EXCEPT ![c] = IF closed THEN Idle ELSE [op |-> "drain", job |-> NoJob]]
  /\ place' = LetReadersIn(place)
  /\ writer' = NoOne
  /\ UNCHANGED <<attempts, accepted, buffer, wstate, task>>

\* q.wg.Wait() returns.
WorkersGone(c) ==
  /\ call[c].op = "drain"
  /\ \A w \in Workers : wstate[w] # "running"
  /\ call' = [call EXCEPT ![c] = Idle]
  /\ UNCHANGED <<place, attempts, accepted, buffer, closed, writer, wstate, task>>

\* Mutant of RetryJob: pushes the job it was asked for without looking whether
\* the failed list still has it.
RetryJobUnchecked(c) ==
  /\ HasLock(c) /\ call[c].op = "retry"
  /\ place' = LetReadersIn([place EXCEPT ![call[c].job] = "pushing"])
  /\ attempts' = [attempts EXCEPT ![call[c].job] = 0]
  /\ call' = [call EXCEPT ![c] = Idle]
  /\ writer' = NoOne
  /\ UNCHANGED <<accepted, buffer, closed, wstate, task>>

\* The locked half of RetryJob takes the job off the failed list; its client
\* then runs Push, with a fresh envelope.
RetryJob(c) ==
  /\ HasLock(c) /\ call[c].op = "retry"
  /\ LET j == call[c].job
         found == place[j] = "failed"
     IN /\ place' = LetReadersIn([place EXCEPT ![j] = IF found THEN "pushing" ELSE @])
        /\ attempts' = [attempts EXCEPT ![j] = IF found THEN 0 ELSE @]
  /\ call' = [call EXCEPT ![c] = Idle]
  /\ writer' = NoOne
  /\ UNCHANGED <<accepted, buffer, closed, wstate, task>>

DeleteFailedJob(c) ==
  /\ HasLock(c) /\ call[c].op = "delete"
  /\ LET j == call[c].job
     IN place' = LetReadersIn([place EXCEPT ![j] = IF @ = "failed" THEN "deleted" ELSE @])
  /\ call' = [call EXCEPT ![c] = Idle]
  /\ writer' = NoOne
  /\ UNCHANGED <<attempts, accepted, buffer, closed, wstate, task>>

-----------------------------------------------------------------------------
Pusher(j) == Wake(j) \/ RLock(j) \/ CheckClosed(j) \/ Send(j)

Handle(w) == HandleSucceeds(w) \/ HandleFailsAndRetries(w) \/ HandleFailsForGood(w)

Worker(w) == Receive(w) \/ Exit(w) \/ Handle(w) \/ RecordFailure(w)

Client(c) == CloseChannel(c) \/ WorkersGone(c) \/ RetryJob(c) \/ DeleteFailedJob(c)

Next ==
  \/ \E j \in Jobs : Push(j) \/ PushDelayed(j) \/ Pusher(j)
  \/ \E w \in Workers : StartWorker(w) \/ Worker(w)
  \/ \E c \in Clients : \/ Client(c)
                        \/ CallClose(c)
                        \/ \E j \in Jobs : CallRetryJob(c, j) \/ CallDeleteFailedJob(c, j)
  \/ \E t \in Workers \cup Clients : Lock(t)

Spec == Init /\ [][Next]_vars

\* What the Go runtime and the jobs give: runnable goroutines run, timers fire
\* and Handle returns; sync.RWMutex and channels serve waiters in turn, so a
\* goroutine does not lose every race for the lock or for a slot of the channel.
\* Calls are the callers' choice and have no fairness.
Fairness ==
  /\ \A j \in Jobs : WF_vars(Pusher(j)) /\ SF_vars(Send(j))
  /\ \A w \in Workers : WF_vars(Worker(w))
  /\ \A c \in Clients : WF_vars(Client(c))
  /\ \A t \in Workers \cup Clients : SF_vars(Lock(t))

FairSpec == Spec /\ Fairness

-----------------------------------------------------------------------------
(* Properties *)

\* A send on a closed Go channel panics. The read lock pushEnvelope keeps from
\* its look at q.closed to its send is there so that Close cannot close the
\* channel in between, in whatever order pushers, workers and closers run.
NoSendOnClosedChannel == closed => \A j \in Jobs : place[j] # "sending"

\* A job is in one place: the channel holds each of its jobs once, no two
\* workers have the same job, and no job that a worker or the channel holds is
\* listed as failed, retried, or pushed again by a timer.
ChannelHoldsEachOnce ==
  /\ IsInjective(buffer)
  /\ Range(buffer) = {j \in Jobs : place[j] = "queued"}

WorkersHoldEachOnce ==
  /\ \A w, v \in Workers : task[w] \in Jobs /\ task[w] = task[v] => w = v
  /\ \A j \in Jobs : place[j] \in {"running", "failing"} <=> \E w \in Workers : task[w] = j

InOnePlace == ChannelHoldsEachOnce /\ WorkersHoldEachOnce

\* Close promises that the workers drain the channel before they go: from the
\* moment one worker has returned, the queue is closed and the channel is empty
\* for good, so nothing that was sent is left without a worker.
WorkersLeaveNothingBehind ==
  (\E w \in Workers : wstate[w] = "exited") => closed /\ buffer = <<>>

\* What the properties above rest on. Only a goroutine that stands at q.mu.Lock
\* is announced as the writer; wg.Wait is entered with the channel closed; a job
\* is accepted from its first successful push or delayed push on, and only then
\* can a worker, a timer or the failed list hold it.
WriterStandsAtLock == writer # NoOne => WantsLock(writer)
DrainingIsClosed == \A c \in Clients : call[c].op = "drain" => closed
RequestsNameJobs == \A c \in Clients : call[c].op \in {"retry", "delete"} => call[c].job \in Jobs
AcceptedJobs ==
  \A j \in Jobs :
    /\ place[j] \in {"new", "rejected"} => j \notin accepted
    /\ place[j] \notin {"new", "rejected", "pushing", "blocked", "admitted", "sending"}
         => j \in accepted

IndInv ==
  /\ TypeOK
  /\ NoSendOnClosedChannel
  /\ InOnePlace
  /\ WorkersLeaveNothingBehind
  /\ WriterStandsAtLock
  /\ DrainingIsClosed
  /\ RequestsNameJobs
  /\ AcceptedJobs

\* What MemoryQueue implements: an accepted job waits while it is in a timer, on
\* its way back into the channel or in it; a job whose first push is still
\* under way is not accepted yet.
StatusOf(p, j, known) ==
  CASE p \in {"pushing", "blocked", "admitted", "sending"} -> IF j \in known THEN "waiting" ELSE "new"
    [] p \in {"sleeping", "queued"} -> "waiting"
    [] p = "failing"  -> "failed"
    [] p = "rejected" -> "refused"
    [] p = "lost"     -> "dropped"
    [] OTHER          -> p

LedgerStatus(j) == StatusOf(place[j], j, accepted)

Ledger == INSTANCE JobLedger WITH
            open   <- ~closed,
            status <- [j \in Jobs |-> LedgerStatus(j)],
            tries  <- attempts

\* The queue keeps the ledger's promises: no job is accepted after Close or
\* refused before it, none is run twice at once or more often than its attempts
\* allow, a finished job never comes back, and none is dropped while open.
KeepsTheLedger == Ledger!Spec

\* `Close gracefully shuts down the queue and waits for workers to finish': a call
\* of Close made while a worker runs returns.
CloseReturns ==
  \A c \in Clients :
    (call[c].op \in {"close", "drain"} /\ \E w \in Workers : wstate[w] = "running")
       ~> call[c].op = "idle"

\* An accepted job reaches an end, or the failed list, once a worker is there.
JobsSettle ==
  \A j \in Jobs :
    (j \in accepted /\ \E w \in Workers : wstate[w] = "running")
       ~> place[j] \in {"done", "failed", "deleted", "lost"}
==============================================================================
