-------------------------- MODULE MemoryQueueProofs --------------------------
(***************************************************************************)
(* MemoryQueue for any number of jobs, workers and clients and any         *)
(* capacity: its inductive invariant, the safety invariants that follow    *)
(* from it, and the implementation of JobLedger.                           *)
(***************************************************************************)
EXTENDS MemoryQueue, TLAPS

\* The initial states satisfy the inductive invariant.
LEMMA InitIndInv == Init => IndInv
<1> SUFFICES ASSUME Init PROVE IndInv
    OBVIOUS
<1> USE QueueAssumption DEF Init, QueueAssumption
<1>1. TypeOK
  <2>1. place \in [Jobs -> Places] /\ attempts \in [Jobs -> Nat]
    BY DEF Places
  <2>2. wstate \in [Workers -> WorkerStates] /\ task \in [Workers -> Jobs \cup {NoJob}]
    BY DEF WorkerStates
  <2>3. call \in [Clients -> [op : Ops, job : Jobs \cup {NoJob}]]
    BY DEF Ops, LockOps, Idle
  <2>4. accepted \subseteq Jobs /\ buffer \in Seq(Jobs)
    OBVIOUS
  <2>5. writer \in Workers \cup Clients \cup {NoOne}
    OBVIOUS
  <2> QED
    BY <2>1, <2>2, <2>3, <2>4, <2>5 DEF TypeOK
<1>2. NoSendOnClosedChannel /\ WorkersLeaveNothingBehind /\ WriterStandsAtLock
  BY DEF NoSendOnClosedChannel, WorkersLeaveNothingBehind, WriterStandsAtLock
<1>3. InOnePlace
  BY DEF InOnePlace, ChannelHoldsEachOnce, WorkersHoldEachOnce, IsInjective, Range
<1>4. DrainingIsClosed /\ RequestsNameJobs /\ AcceptedJobs
  BY DEF DrainingIsClosed, RequestsNameJobs, AcceptedJobs, Idle
<1> QED
  BY <1>1, <1>2, <1>3, <1>4 DEF IndInv

\* The steps of the queue, one by one; the three calls are one kind of step.
LEMMA NextCases ==
  ASSUME [Next]_vars
  PROVE \/ \E j \in Jobs : \/ Push(j) \/ PushDelayed(j) \/ Wake(j) \/ RLock(j)
                          \/ CheckClosed(j) \/ Send(j)
        \/ \E w \in Workers : \/ StartWorker(w) \/ Receive(w) \/ Exit(w)
                             \/ HandleSucceeds(w) \/ HandleFailsAndRetries(w)
                             \/ HandleFailsForGood(w) \/ RecordFailure(w)
        \/ \E c \in Clients : \/ CloseChannel(c) \/ WorkersGone(c)
                             \/ RetryJob(c) \/ DeleteFailedJob(c)
        \/ \E c \in Clients, op \in LockOps, j \in Jobs \cup {NoJob} :
              Call(c, op, j) /\ (op # "close" => j \in Jobs)
        \/ \E t \in Workers \cup Clients : Lock(t)
        \/ UNCHANGED vars
BY DEF Next, Pusher, Worker, Handle, Client, CallClose, CallRetryJob, CallDeleteFailedJob,
   LockOps

\* Appending a new element to a sequence without repetition.
LEMMA AppendOnce ==
  ASSUME NEW S, NEW s \in Seq(S), NEW e \in S, e \notin Range(s), IsInjective(s)
  PROVE /\ Append(s, e) \in Seq(S)
        /\ IsInjective(Append(s, e))
        /\ Range(Append(s, e)) = Range(s) \cup {e}
<1> DEFINE t == Append(s, e)
<1>1. /\ t \in Seq(S) /\ Len(s) \in Nat
      /\ DOMAIN s = 1..Len(s) /\ DOMAIN t = 1..Len(s) + 1
      /\ \A i \in 1..Len(s) : t[i] = s[i]
      /\ t[Len(s) + 1] = e
  OBVIOUS
<1>2. \A i \in 1..Len(s) : s[i] # e
  BY <1>1 DEF Range
<1> HIDE DEF t
<1>3. ASSUME NEW i \in DOMAIN t, NEW k \in DOMAIN t, t[i] = t[k] PROVE i = k
  BY <1>1, <1>2, <1>3 DEF IsInjective
<1>4. Range(t) = Range(s) \cup {e}
  <2>1. ASSUME NEW x \in Range(t) PROVE x \in Range(s) \cup {e}
    BY <1>1, <2>1 DEF Range
  <2>2. Range(s) \subseteq Range(t)
    BY <1>1 DEF Range
  <2>3. e \in Range(t)
    BY <1>1 DEF Range
  <2> QED
    BY <2>1, <2>2, <2>3
<1>5. IsInjective(t)
  BY <1>3 DEF IsInjective
<1> QED
  BY <1>1, <1>4, <1>5 DEF t

\* Taking the head off a sequence without repetition.
LEMMA TailOnce ==
  ASSUME NEW S, NEW s \in Seq(S), s # <<>>, IsInjective(s)
  PROVE /\ Head(s) \in S /\ Head(s) \in Range(s)
        /\ Tail(s) \in Seq(S)
        /\ IsInjective(Tail(s))
        /\ Range(Tail(s)) = Range(s) \ {Head(s)}
<1> DEFINE t == Tail(s)
<1>1. /\ t \in Seq(S) /\ Len(s) \in Nat \ {0} /\ Head(s) = s[1]
      /\ DOMAIN s = 1..Len(s) /\ DOMAIN t = 1..Len(s) - 1
      /\ \A i \in 1..Len(s) - 1 : t[i] = s[i + 1]
  OBVIOUS
<1>2. s[1] \in S /\ s[1] \in Range(s)
  BY <1>1 DEF Range
<1> HIDE DEF t
<1>3. ASSUME NEW i \in DOMAIN t, NEW k \in DOMAIN t, t[i] = t[k] PROVE i = k
  <2>1. i + 1 \in DOMAIN s /\ k + 1 \in DOMAIN s /\ s[i + 1] = s[k + 1] /\ i \in Int /\ k \in Int
    BY <1>1, <1>3
  <2>2. i + 1 = k + 1
    BY <2>1 DEF IsInjective
  <2> QED
    BY <2>1, <2>2
<1>4. ASSUME NEW x \in Range(t) PROVE x \in Range(s) /\ x # s[1]
  <2>1. PICK i \in DOMAIN t : t[i] = x
    BY DEF Range
  <2>2. i + 1 \in DOMAIN s /\ s[i + 1] = x /\ i + 1 # 1 /\ 1 \in DOMAIN s
    BY <1>1, <2>1
  <2> QED
    BY <2>2 DEF Range, IsInjective
<1>5. ASSUME NEW x \in Range(s), x # s[1] PROVE x \in Range(t)
  <2>1. PICK i \in DOMAIN s : s[i] = x
    BY DEF Range
  <2>2. i - 1 \in DOMAIN t /\ t[i - 1] = x
    BY <1>1, <1>5, <2>1
  <2> QED
    BY <2>2 DEF Range
<1>6. IsInjective(t) /\ Range(t) = Range(s) \ {s[1]}
  BY <1>3, <1>4, <1>5 DEF IsInjective
<1> QED
  BY <1>1, <1>2, <1>6 DEF t

\* The job a worker receives is a queued one, and leaves the channel for good.
LEMMA ReceivedIsQueued ==
  ASSUME TypeOK, ChannelHoldsEachOnce, buffer # <<>>
  PROVE /\ Head(buffer) \in Jobs
        /\ place[Head(buffer)] = "queued"
        /\ Tail(buffer) \in Seq(Jobs)
        /\ IsInjective(Tail(buffer))
        /\ Range(Tail(buffer)) = {j \in Jobs : place[j] = "queued"} \ {Head(buffer)}
<1>1. buffer \in Seq(Jobs) /\ IsInjective(buffer)
      /\ Range(buffer) = {j \in Jobs : place[j] = "queued"}
  BY DEF TypeOK, ChannelHoldsEachOnce
<1> QED
  BY <1>1, TailOnce

\* Types are preserved by every step.
LEMMA StepTypeOK == IndInv /\ [Next]_vars => TypeOK'
<1> SUFFICES ASSUME IndInv, [Next]_vars PROVE TypeOK'
    OBVIOUS
<1> USE QueueAssumption DEF IndInv, TypeOK, Places, WorkerStates, Ops, LockOps
<1>1. ASSUME NEW j \in Jobs, Push(j) PROVE TypeOK'
  BY <1>1 DEF Push
<1>2. ASSUME NEW j \in Jobs, PushDelayed(j) PROVE TypeOK'
  BY <1>2 DEF PushDelayed
<1>3. ASSUME NEW j \in Jobs, Wake(j) PROVE TypeOK'
  BY <1>3 DEF Wake
<1>4. ASSUME NEW j \in Jobs, RLock(j) PROVE TypeOK'
  BY <1>4 DEF RLock
<1>5. ASSUME NEW j \in Jobs, CheckClosed(j) PROVE TypeOK'
  BY <1>5 DEF CheckClosed
<1>6. ASSUME NEW j \in Jobs, Send(j) PROVE TypeOK'
  BY <1>6 DEF Send
<1>7. ASSUME NEW w \in Workers, StartWorker(w) PROVE TypeOK'
  BY <1>7 DEF StartWorker
<1>8. ASSUME NEW w \in Workers, Receive(w) PROVE TypeOK'
  <2>1. Head(buffer) \in Jobs /\ Tail(buffer) \in Seq(Jobs)
    BY <1>8 DEF Receive
  <2> QED
    BY <1>8, <2>1 DEF Receive
<1>9. ASSUME NEW w \in Workers, Exit(w) PROVE TypeOK'
  BY <1>9 DEF Exit
<1>10. ASSUME NEW w \in Workers, HandleSucceeds(w) PROVE TypeOK'
  BY <1>10 DEF HandleSucceeds, Executing
<1>11. ASSUME NEW w \in Workers, HandleFailsAndRetries(w) PROVE TypeOK'
  BY <1>11 DEF HandleFailsAndRetries, Executing
<1>12. ASSUME NEW w \in Workers, HandleFailsForGood(w) PROVE TypeOK'
  BY <1>12 DEF HandleFailsForGood, Executing
<1>13. ASSUME NEW w \in Workers, RecordFailure(w) PROVE TypeOK'
  BY <1>13 DEF RecordFailure, HasLock, LetReadersIn
<1>14. ASSUME NEW c \in Clients, CloseChannel(c) PROVE TypeOK'
  BY <1>14 DEF CloseChannel, HasLock, LetReadersIn, Idle
<1>15. ASSUME NEW c \in Clients, WorkersGone(c) PROVE TypeOK'
  BY <1>15 DEF WorkersGone, Idle
<1>16. ASSUME NEW c \in Clients, RetryJob(c) PROVE TypeOK'
  BY <1>16 DEF RetryJob, HasLock, LetReadersIn, Idle
<1>17. ASSUME NEW c \in Clients, DeleteFailedJob(c) PROVE TypeOK'
  BY <1>17 DEF DeleteFailedJob, HasLock, LetReadersIn, Idle
<1>18. ASSUME NEW c \in Clients, NEW op \in LockOps, NEW j \in Jobs \cup {NoJob}, Call(c, op, j),
             op # "close" => j \in Jobs
      PROVE TypeOK'
  BY <1>18 DEF Call
<1>19. ASSUME NEW t \in Workers \cup Clients, Lock(t) PROVE TypeOK'
  BY <1>19 DEF Lock
<1>20. CASE UNCHANGED vars
  BY <1>20 DEF vars
<1> QED
  BY <1>1, <1>2, <1>3, <1>4, <1>5, <1>6, <1>7, <1>8, <1>9, <1>10,
     <1>11, <1>12, <1>13, <1>14, <1>15, <1>16, <1>17, <1>18, <1>19, <1>20, NextCases

\* The read lock keeps Close out while a sender has seen the queue open.
LEMMA StepNoSend == IndInv /\ [Next]_vars => NoSendOnClosedChannel'
<1> SUFFICES ASSUME IndInv, [Next]_vars PROVE NoSendOnClosedChannel'
    OBVIOUS
<1> USE QueueAssumption DEF IndInv, TypeOK, NoSendOnClosedChannel
<1>1. ASSUME NEW j \in Jobs, Push(j) PROVE NoSendOnClosedChannel'
  BY <1>1 DEF Push
<1>2. ASSUME NEW j \in Jobs, PushDelayed(j) PROVE NoSendOnClosedChannel'
  BY <1>2 DEF PushDelayed
<1>3. ASSUME NEW j \in Jobs, Wake(j) PROVE NoSendOnClosedChannel'
  BY <1>3 DEF Wake
<1>4. ASSUME NEW j \in Jobs, RLock(j) PROVE NoSendOnClosedChannel'
  BY <1>4 DEF RLock
<1>5. ASSUME NEW j \in Jobs, CheckClosed(j) PROVE NoSendOnClosedChannel'
  BY <1>5 DEF CheckClosed
<1>6. ASSUME NEW j \in Jobs, Send(j) PROVE NoSendOnClosedChannel'
  BY <1>6 DEF Send
<1>7. ASSUME NEW w \in Workers, StartWorker(w) PROVE NoSendOnClosedChannel'
  BY <1>7 DEF StartWorker
<1>8. ASSUME NEW w \in Workers, Receive(w) PROVE NoSendOnClosedChannel'
  BY <1>8 DEF Receive
<1>9. ASSUME NEW w \in Workers, Exit(w) PROVE NoSendOnClosedChannel'
  BY <1>9 DEF Exit
<1>10. ASSUME NEW w \in Workers, HandleSucceeds(w) PROVE NoSendOnClosedChannel'
  BY <1>10 DEF HandleSucceeds, Executing
<1>11. ASSUME NEW w \in Workers, HandleFailsAndRetries(w) PROVE NoSendOnClosedChannel'
  BY <1>11 DEF HandleFailsAndRetries, Executing
<1>12. ASSUME NEW w \in Workers, HandleFailsForGood(w) PROVE NoSendOnClosedChannel'
  BY <1>12 DEF HandleFailsForGood, Executing
<1>13. ASSUME NEW w \in Workers, RecordFailure(w) PROVE NoSendOnClosedChannel'
  BY <1>13 DEF RecordFailure, HasLock, LetReadersIn
<1>14. ASSUME NEW c \in Clients, CloseChannel(c) PROVE NoSendOnClosedChannel'
  BY <1>14 DEF CloseChannel, HasLock, LetReadersIn, Idle, Readers
<1>15. ASSUME NEW c \in Clients, WorkersGone(c) PROVE NoSendOnClosedChannel'
  BY <1>15 DEF WorkersGone, Idle
<1>16. ASSUME NEW c \in Clients, RetryJob(c) PROVE NoSendOnClosedChannel'
  BY <1>16 DEF RetryJob, HasLock, LetReadersIn, Idle
<1>17. ASSUME NEW c \in Clients, DeleteFailedJob(c) PROVE NoSendOnClosedChannel'
  BY <1>17 DEF DeleteFailedJob, HasLock, LetReadersIn, Idle
<1>18. ASSUME NEW c \in Clients, NEW op \in LockOps, NEW j \in Jobs \cup {NoJob}, Call(c, op, j),
             op # "close" => j \in Jobs
      PROVE NoSendOnClosedChannel'
  BY <1>18 DEF Call
<1>19. ASSUME NEW t \in Workers \cup Clients, Lock(t) PROVE NoSendOnClosedChannel'
  BY <1>19 DEF Lock
<1>20. CASE UNCHANGED vars
  BY <1>20 DEF vars
<1> QED
  BY <1>1, <1>2, <1>3, <1>4, <1>5, <1>6, <1>7, <1>8, <1>9, <1>10,
     <1>11, <1>12, <1>13, <1>14, <1>15, <1>16, <1>17, <1>18, <1>19, <1>20, NextCases

\* Once a worker has returned nothing enters the channel.
LEMMA StepWorkersLeave == IndInv /\ [Next]_vars => WorkersLeaveNothingBehind'
<1> SUFFICES ASSUME IndInv, [Next]_vars PROVE WorkersLeaveNothingBehind'
    OBVIOUS
<1> USE QueueAssumption DEF IndInv, TypeOK, NoSendOnClosedChannel, WorkersLeaveNothingBehind
<1>1. ASSUME NEW j \in Jobs, Push(j) PROVE WorkersLeaveNothingBehind'
  BY <1>1 DEF Push
<1>2. ASSUME NEW j \in Jobs, PushDelayed(j) PROVE WorkersLeaveNothingBehind'
  BY <1>2 DEF PushDelayed
<1>3. ASSUME NEW j \in Jobs, Wake(j) PROVE WorkersLeaveNothingBehind'
  BY <1>3 DEF Wake
<1>4. ASSUME NEW j \in Jobs, RLock(j) PROVE WorkersLeaveNothingBehind'
  BY <1>4 DEF RLock
<1>5. ASSUME NEW j \in Jobs, CheckClosed(j) PROVE WorkersLeaveNothingBehind'
  BY <1>5 DEF CheckClosed
<1>6. ASSUME NEW j \in Jobs, Send(j) PROVE WorkersLeaveNothingBehind'
  BY <1>6 DEF Send
<1>7. ASSUME NEW w \in Workers, StartWorker(w) PROVE WorkersLeaveNothingBehind'
  BY <1>7 DEF StartWorker
<1>8. ASSUME NEW w \in Workers, Receive(w) PROVE WorkersLeaveNothingBehind'
  BY <1>8 DEF Receive
<1>9. ASSUME NEW w \in Workers, Exit(w) PROVE WorkersLeaveNothingBehind'
  BY <1>9 DEF Exit
<1>10. ASSUME NEW w \in Workers, HandleSucceeds(w) PROVE WorkersLeaveNothingBehind'
  BY <1>10 DEF HandleSucceeds, Executing
<1>11. ASSUME NEW w \in Workers, HandleFailsAndRetries(w) PROVE WorkersLeaveNothingBehind'
  BY <1>11 DEF HandleFailsAndRetries, Executing
<1>12. ASSUME NEW w \in Workers, HandleFailsForGood(w) PROVE WorkersLeaveNothingBehind'
  BY <1>12 DEF HandleFailsForGood, Executing
<1>13. ASSUME NEW w \in Workers, RecordFailure(w) PROVE WorkersLeaveNothingBehind'
  BY <1>13 DEF RecordFailure, HasLock, LetReadersIn
<1>14. ASSUME NEW c \in Clients, CloseChannel(c) PROVE WorkersLeaveNothingBehind'
  BY <1>14 DEF CloseChannel, HasLock, LetReadersIn, Idle
<1>15. ASSUME NEW c \in Clients, WorkersGone(c) PROVE WorkersLeaveNothingBehind'
  BY <1>15 DEF WorkersGone, Idle
<1>16. ASSUME NEW c \in Clients, RetryJob(c) PROVE WorkersLeaveNothingBehind'
  BY <1>16 DEF RetryJob, HasLock, LetReadersIn, Idle
<1>17. ASSUME NEW c \in Clients, DeleteFailedJob(c) PROVE WorkersLeaveNothingBehind'
  BY <1>17 DEF DeleteFailedJob, HasLock, LetReadersIn, Idle
<1>18. ASSUME NEW c \in Clients, NEW op \in LockOps, NEW j \in Jobs \cup {NoJob}, Call(c, op, j),
             op # "close" => j \in Jobs
      PROVE WorkersLeaveNothingBehind'
  BY <1>18 DEF Call
<1>19. ASSUME NEW t \in Workers \cup Clients, Lock(t) PROVE WorkersLeaveNothingBehind'
  BY <1>19 DEF Lock
<1>20. CASE UNCHANGED vars
  BY <1>20 DEF vars
<1> QED
  BY <1>1, <1>2, <1>3, <1>4, <1>5, <1>6, <1>7, <1>8, <1>9, <1>10,
     <1>11, <1>12, <1>13, <1>14, <1>15, <1>16, <1>17, <1>18, <1>19, <1>20, NextCases

\* wg.Wait is entered with the channel closed, and it stays closed.
LEMMA StepDraining == IndInv /\ [Next]_vars => DrainingIsClosed'
<1> SUFFICES ASSUME IndInv, [Next]_vars PROVE DrainingIsClosed'
    OBVIOUS
<1> USE QueueAssumption DEF IndInv, TypeOK, DrainingIsClosed, Ops, LockOps
<1>1. ASSUME NEW j \in Jobs, Push(j) PROVE DrainingIsClosed'
  BY <1>1 DEF Push
<1>2. ASSUME NEW j \in Jobs, PushDelayed(j) PROVE DrainingIsClosed'
  BY <1>2 DEF PushDelayed
<1>3. ASSUME NEW j \in Jobs, Wake(j) PROVE DrainingIsClosed'
  BY <1>3 DEF Wake
<1>4. ASSUME NEW j \in Jobs, RLock(j) PROVE DrainingIsClosed'
  BY <1>4 DEF RLock
<1>5. ASSUME NEW j \in Jobs, CheckClosed(j) PROVE DrainingIsClosed'
  BY <1>5 DEF CheckClosed
<1>6. ASSUME NEW j \in Jobs, Send(j) PROVE DrainingIsClosed'
  BY <1>6 DEF Send
<1>7. ASSUME NEW w \in Workers, StartWorker(w) PROVE DrainingIsClosed'
  BY <1>7 DEF StartWorker
<1>8. ASSUME NEW w \in Workers, Receive(w) PROVE DrainingIsClosed'
  BY <1>8 DEF Receive
<1>9. ASSUME NEW w \in Workers, Exit(w) PROVE DrainingIsClosed'
  BY <1>9 DEF Exit
<1>10. ASSUME NEW w \in Workers, HandleSucceeds(w) PROVE DrainingIsClosed'
  BY <1>10 DEF HandleSucceeds, Executing
<1>11. ASSUME NEW w \in Workers, HandleFailsAndRetries(w) PROVE DrainingIsClosed'
  BY <1>11 DEF HandleFailsAndRetries, Executing
<1>12. ASSUME NEW w \in Workers, HandleFailsForGood(w) PROVE DrainingIsClosed'
  BY <1>12 DEF HandleFailsForGood, Executing
<1>13. ASSUME NEW w \in Workers, RecordFailure(w) PROVE DrainingIsClosed'
  BY <1>13 DEF RecordFailure, HasLock, LetReadersIn
<1>14. ASSUME NEW c \in Clients, CloseChannel(c) PROVE DrainingIsClosed'
  BY <1>14 DEF CloseChannel, HasLock, LetReadersIn, Idle
<1>15. ASSUME NEW c \in Clients, WorkersGone(c) PROVE DrainingIsClosed'
  BY <1>15 DEF WorkersGone, Idle
<1>16. ASSUME NEW c \in Clients, RetryJob(c) PROVE DrainingIsClosed'
  BY <1>16 DEF RetryJob, HasLock, LetReadersIn, Idle
<1>17. ASSUME NEW c \in Clients, DeleteFailedJob(c) PROVE DrainingIsClosed'
  BY <1>17 DEF DeleteFailedJob, HasLock, LetReadersIn, Idle
<1>18. ASSUME NEW c \in Clients, NEW op \in LockOps, NEW j \in Jobs \cup {NoJob}, Call(c, op, j),
             op # "close" => j \in Jobs
      PROVE DrainingIsClosed'
  BY <1>18 DEF Call
<1>19. ASSUME NEW t \in Workers \cup Clients, Lock(t) PROVE DrainingIsClosed'
  BY <1>19 DEF Lock
<1>20. CASE UNCHANGED vars
  BY <1>20 DEF vars
<1> QED
  BY <1>1, <1>2, <1>3, <1>4, <1>5, <1>6, <1>7, <1>8, <1>9, <1>10,
     <1>11, <1>12, <1>13, <1>14, <1>15, <1>16, <1>17, <1>18, <1>19, <1>20, NextCases

\* Requests name a job.
LEMMA StepRequests == IndInv /\ [Next]_vars => RequestsNameJobs'
<1> SUFFICES ASSUME IndInv, [Next]_vars PROVE RequestsNameJobs'
    OBVIOUS
<1> USE QueueAssumption DEF IndInv, TypeOK, RequestsNameJobs, LockOps
<1>1. ASSUME NEW j \in Jobs, Push(j) PROVE RequestsNameJobs'
  BY <1>1 DEF Push
<1>2. ASSUME NEW j \in Jobs, PushDelayed(j) PROVE RequestsNameJobs'
  BY <1>2 DEF PushDelayed
<1>3. ASSUME NEW j \in Jobs, Wake(j) PROVE RequestsNameJobs'
  BY <1>3 DEF Wake
<1>4. ASSUME NEW j \in Jobs, RLock(j) PROVE RequestsNameJobs'
  BY <1>4 DEF RLock
<1>5. ASSUME NEW j \in Jobs, CheckClosed(j) PROVE RequestsNameJobs'
  BY <1>5 DEF CheckClosed
<1>6. ASSUME NEW j \in Jobs, Send(j) PROVE RequestsNameJobs'
  BY <1>6 DEF Send
<1>7. ASSUME NEW w \in Workers, StartWorker(w) PROVE RequestsNameJobs'
  BY <1>7 DEF StartWorker
<1>8. ASSUME NEW w \in Workers, Receive(w) PROVE RequestsNameJobs'
  BY <1>8 DEF Receive
<1>9. ASSUME NEW w \in Workers, Exit(w) PROVE RequestsNameJobs'
  BY <1>9 DEF Exit
<1>10. ASSUME NEW w \in Workers, HandleSucceeds(w) PROVE RequestsNameJobs'
  BY <1>10 DEF HandleSucceeds, Executing
<1>11. ASSUME NEW w \in Workers, HandleFailsAndRetries(w) PROVE RequestsNameJobs'
  BY <1>11 DEF HandleFailsAndRetries, Executing
<1>12. ASSUME NEW w \in Workers, HandleFailsForGood(w) PROVE RequestsNameJobs'
  BY <1>12 DEF HandleFailsForGood, Executing
<1>13. ASSUME NEW w \in Workers, RecordFailure(w) PROVE RequestsNameJobs'
  BY <1>13 DEF RecordFailure, HasLock, LetReadersIn
<1>14. ASSUME NEW c \in Clients, CloseChannel(c) PROVE RequestsNameJobs'
  BY <1>14 DEF CloseChannel, HasLock, LetReadersIn, Idle
<1>15. ASSUME NEW c \in Clients, WorkersGone(c) PROVE RequestsNameJobs'
  BY <1>15 DEF WorkersGone, Idle
<1>16. ASSUME NEW c \in Clients, RetryJob(c) PROVE RequestsNameJobs'
  BY <1>16 DEF RetryJob, HasLock, LetReadersIn, Idle
<1>17. ASSUME NEW c \in Clients, DeleteFailedJob(c) PROVE RequestsNameJobs'
  BY <1>17 DEF DeleteFailedJob, HasLock, LetReadersIn, Idle
<1>18. ASSUME NEW c \in Clients, NEW op \in LockOps, NEW j \in Jobs \cup {NoJob}, Call(c, op, j),
             op # "close" => j \in Jobs
      PROVE RequestsNameJobs'
  BY <1>18 DEF Call
<1>19. ASSUME NEW t \in Workers \cup Clients, Lock(t) PROVE RequestsNameJobs'
  BY <1>19 DEF Lock
<1>20. CASE UNCHANGED vars
  BY <1>20 DEF vars
<1> QED
  BY <1>1, <1>2, <1>3, <1>4, <1>5, <1>6, <1>7, <1>8, <1>9, <1>10,
     <1>11, <1>12, <1>13, <1>14, <1>15, <1>16, <1>17, <1>18, <1>19, <1>20, NextCases

\* What workers, timers and the failed list hold was accepted.
LEMMA StepAccepted == IndInv /\ [Next]_vars => AcceptedJobs'
<1> SUFFICES ASSUME IndInv, [Next]_vars PROVE AcceptedJobs'
    OBVIOUS
<1> USE QueueAssumption DEF IndInv, TypeOK, AcceptedJobs, InOnePlace, ChannelHoldsEachOnce,
           WorkersHoldEachOnce, WriterStandsAtLock, WantsLock, Places
<1>1. ASSUME NEW j \in Jobs, Push(j) PROVE AcceptedJobs'
  BY <1>1 DEF Push
<1>2. ASSUME NEW j \in Jobs, PushDelayed(j) PROVE AcceptedJobs'
  BY <1>2 DEF PushDelayed
<1>3. ASSUME NEW j \in Jobs, Wake(j) PROVE AcceptedJobs'
  BY <1>3 DEF Wake
<1>4. ASSUME NEW j \in Jobs, RLock(j) PROVE AcceptedJobs'
  BY <1>4 DEF RLock
<1>5. ASSUME NEW j \in Jobs, CheckClosed(j) PROVE AcceptedJobs'
  BY <1>5 DEF CheckClosed
<1>6. ASSUME NEW j \in Jobs, Send(j) PROVE AcceptedJobs'
  BY <1>6 DEF Send
<1>7. ASSUME NEW w \in Workers, StartWorker(w) PROVE AcceptedJobs'
  BY <1>7 DEF StartWorker
<1>8. ASSUME NEW w \in Workers, Receive(w) PROVE AcceptedJobs'
  <2>1. Head(buffer) \in Jobs /\ place[Head(buffer)] = "queued"
    BY <1>8, ReceivedIsQueued DEF Receive
  <2> QED
    BY <1>8, <2>1 DEF Receive
<1>9. ASSUME NEW w \in Workers, Exit(w) PROVE AcceptedJobs'
  BY <1>9 DEF Exit
<1>10. ASSUME NEW w \in Workers, HandleSucceeds(w) PROVE AcceptedJobs'
  BY <1>10 DEF HandleSucceeds, Executing
<1>11. ASSUME NEW w \in Workers, HandleFailsAndRetries(w) PROVE AcceptedJobs'
  BY <1>11 DEF HandleFailsAndRetries, Executing
<1>12. ASSUME NEW w \in Workers, HandleFailsForGood(w) PROVE AcceptedJobs'
  BY <1>12 DEF HandleFailsForGood, Executing
<1>13. ASSUME NEW w \in Workers, RecordFailure(w) PROVE AcceptedJobs'
  BY <1>13 DEF RecordFailure, HasLock, LetReadersIn
<1>14. ASSUME NEW c \in Clients, CloseChannel(c) PROVE AcceptedJobs'
  BY <1>14 DEF CloseChannel, HasLock, LetReadersIn, Idle
<1>15. ASSUME NEW c \in Clients, WorkersGone(c) PROVE AcceptedJobs'
  BY <1>15 DEF WorkersGone, Idle
<1>16. ASSUME NEW c \in Clients, RetryJob(c) PROVE AcceptedJobs'
  BY <1>16 DEF RetryJob, HasLock, LetReadersIn, Idle
<1>17. ASSUME NEW c \in Clients, DeleteFailedJob(c) PROVE AcceptedJobs'
  BY <1>17 DEF DeleteFailedJob, HasLock, LetReadersIn, Idle
<1>18. ASSUME NEW c \in Clients, NEW op \in LockOps, NEW j \in Jobs \cup {NoJob}, Call(c, op, j),
             op # "close" => j \in Jobs
      PROVE AcceptedJobs'
  BY <1>18 DEF Call
<1>19. ASSUME NEW t \in Workers \cup Clients, Lock(t) PROVE AcceptedJobs'
  BY <1>19 DEF Lock
<1>20. CASE UNCHANGED vars
  BY <1>20 DEF vars
<1> QED
  BY <1>1, <1>2, <1>3, <1>4, <1>5, <1>6, <1>7, <1>8, <1>9, <1>10,
     <1>11, <1>12, <1>13, <1>14, <1>15, <1>16, <1>17, <1>18, <1>19, <1>20, NextCases

\* The announced writer stays at the lock until its section ends.
LEMMA StepWriter == IndInv /\ [Next]_vars => WriterStandsAtLock'
<1> SUFFICES ASSUME IndInv, [Next]_vars PROVE WriterStandsAtLock'
    OBVIOUS
<1> USE QueueAssumption DEF IndInv, TypeOK, WriterStandsAtLock, WantsLock, InOnePlace, ChannelHoldsEachOnce,
           WorkersHoldEachOnce, LockOps
<1>1. ASSUME NEW j \in Jobs, Push(j) PROVE WriterStandsAtLock'
  BY <1>1 DEF Push
<1>2. ASSUME NEW j \in Jobs, PushDelayed(j) PROVE WriterStandsAtLock'
  BY <1>2 DEF PushDelayed
<1>3. ASSUME NEW j \in Jobs, Wake(j) PROVE WriterStandsAtLock'
  BY <1>3 DEF Wake
<1>4. ASSUME NEW j \in Jobs, RLock(j) PROVE WriterStandsAtLock'
  BY <1>4 DEF RLock
<1>5. ASSUME NEW j \in Jobs, CheckClosed(j) PROVE WriterStandsAtLock'
  BY <1>5 DEF CheckClosed
<1>6. ASSUME NEW j \in Jobs, Send(j) PROVE WriterStandsAtLock'
  BY <1>6 DEF Send
<1>7. ASSUME NEW w \in Workers, StartWorker(w) PROVE WriterStandsAtLock'
  BY <1>7 DEF StartWorker
<1>8. ASSUME NEW w \in Workers, Receive(w) PROVE WriterStandsAtLock'
  <2>1. Head(buffer) \in Jobs /\ place[Head(buffer)] = "queued"
    BY <1>8, ReceivedIsQueued DEF Receive
  <2>2. task[w] \notin Jobs
    BY <1>8 DEF Receive
  <2> QED
    BY <1>8, <2>1, <2>2 DEF Receive
<1>9. ASSUME NEW w \in Workers, Exit(w) PROVE WriterStandsAtLock'
  BY <1>9 DEF Exit
<1>10. ASSUME NEW w \in Workers, HandleSucceeds(w) PROVE WriterStandsAtLock'
  BY <1>10 DEF HandleSucceeds, Executing
<1>11. ASSUME NEW w \in Workers, HandleFailsAndRetries(w) PROVE WriterStandsAtLock'
  BY <1>11 DEF HandleFailsAndRetries, Executing
<1>12. ASSUME NEW w \in Workers, HandleFailsForGood(w) PROVE WriterStandsAtLock'
  BY <1>12 DEF HandleFailsForGood, Executing
<1>13. ASSUME NEW w \in Workers, RecordFailure(w) PROVE WriterStandsAtLock'
  BY <1>13 DEF RecordFailure, HasLock, LetReadersIn
<1>14. ASSUME NEW c \in Clients, CloseChannel(c) PROVE WriterStandsAtLock'
  BY <1>14 DEF CloseChannel, HasLock, LetReadersIn, Idle
<1>15. ASSUME NEW c \in Clients, WorkersGone(c) PROVE WriterStandsAtLock'
  BY <1>15 DEF WorkersGone, Idle
<1>16. ASSUME NEW c \in Clients, RetryJob(c) PROVE WriterStandsAtLock'
  BY <1>16 DEF RetryJob, HasLock, LetReadersIn, Idle
<1>17. ASSUME NEW c \in Clients, DeleteFailedJob(c) PROVE WriterStandsAtLock'
  BY <1>17 DEF DeleteFailedJob, HasLock, LetReadersIn, Idle
<1>18. ASSUME NEW c \in Clients, NEW op \in LockOps, NEW j \in Jobs \cup {NoJob}, Call(c, op, j),
             op # "close" => j \in Jobs
      PROVE WriterStandsAtLock'
  BY <1>18 DEF Call
<1>19. ASSUME NEW t \in Workers \cup Clients, Lock(t) PROVE WriterStandsAtLock'
  BY <1>19 DEF Lock
<1>20. CASE UNCHANGED vars
  BY <1>20 DEF vars
<1> QED
  BY <1>1, <1>2, <1>3, <1>4, <1>5, <1>6, <1>7, <1>8, <1>9, <1>10,
     <1>11, <1>12, <1>13, <1>14, <1>15, <1>16, <1>17, <1>18, <1>19, <1>20, NextCases

\* The channel keeps each of its jobs once, and the queued jobs are those it keeps.
LEMMA StepChannel == IndInv /\ [Next]_vars => ChannelHoldsEachOnce'
<1> SUFFICES ASSUME IndInv, [Next]_vars PROVE ChannelHoldsEachOnce'
    OBVIOUS
<1> USE QueueAssumption DEF IndInv, TypeOK, InOnePlace, ChannelHoldsEachOnce, WorkersHoldEachOnce,
           WriterStandsAtLock, WantsLock
<1>1. ASSUME NEW j \in Jobs, Push(j) PROVE ChannelHoldsEachOnce'
  BY <1>1 DEF Push
<1>2. ASSUME NEW j \in Jobs, PushDelayed(j) PROVE ChannelHoldsEachOnce'
  BY <1>2 DEF PushDelayed
<1>3. ASSUME NEW j \in Jobs, Wake(j) PROVE ChannelHoldsEachOnce'
  BY <1>3 DEF Wake
<1>4. ASSUME NEW j \in Jobs, RLock(j) PROVE ChannelHoldsEachOnce'
  BY <1>4 DEF RLock
<1>5. ASSUME NEW j \in Jobs, CheckClosed(j) PROVE ChannelHoldsEachOnce'
  BY <1>5 DEF CheckClosed
<1>6. ASSUME NEW j \in Jobs, Send(j) PROVE ChannelHoldsEachOnce'
  <2>1. buffer' = Append(buffer, j) /\ place' = [place EXCEPT ![j] = "queued"]
        /\ place[j] = "sending"
    BY <1>6 DEF Send
  <2>2. buffer \in Seq(Jobs) /\ IsInjective(buffer) /\ j \notin Range(buffer)
    BY <2>1
  <2>3. /\ IsInjective(Append(buffer, j))
        /\ Range(Append(buffer, j)) = Range(buffer) \cup {j}
    BY <2>2, AppendOnce
  <2> QED
    BY <2>1, <2>3
<1>7. ASSUME NEW w \in Workers, StartWorker(w) PROVE ChannelHoldsEachOnce'
  BY <1>7 DEF StartWorker
<1>8. ASSUME NEW w \in Workers, Receive(w) PROVE ChannelHoldsEachOnce'
  <2>1. /\ Head(buffer) \in Jobs
        /\ IsInjective(Tail(buffer))
        /\ Range(Tail(buffer)) = {j \in Jobs : place[j] = "queued"} \ {Head(buffer)}
    BY <1>8, ReceivedIsQueued DEF Receive
  <2>2. buffer' = Tail(buffer) /\ place' = [place EXCEPT ![Head(buffer)] = "running"]
    BY <1>8 DEF Receive
  <2> QED
    BY <2>1, <2>2
<1>9. ASSUME NEW w \in Workers, Exit(w) PROVE ChannelHoldsEachOnce'
  BY <1>9 DEF Exit
<1>10. ASSUME NEW w \in Workers, HandleSucceeds(w) PROVE ChannelHoldsEachOnce'
  BY <1>10 DEF HandleSucceeds, Executing
<1>11. ASSUME NEW w \in Workers, HandleFailsAndRetries(w) PROVE ChannelHoldsEachOnce'
  BY <1>11 DEF HandleFailsAndRetries, Executing
<1>12. ASSUME NEW w \in Workers, HandleFailsForGood(w) PROVE ChannelHoldsEachOnce'
  BY <1>12 DEF HandleFailsForGood, Executing
<1>13. ASSUME NEW w \in Workers, RecordFailure(w) PROVE ChannelHoldsEachOnce'
  BY <1>13 DEF RecordFailure, HasLock, LetReadersIn
<1>14. ASSUME NEW c \in Clients, CloseChannel(c) PROVE ChannelHoldsEachOnce'
  BY <1>14 DEF CloseChannel, HasLock, LetReadersIn, Idle
<1>15. ASSUME NEW c \in Clients, WorkersGone(c) PROVE ChannelHoldsEachOnce'
  BY <1>15 DEF WorkersGone, Idle
<1>16. ASSUME NEW c \in Clients, RetryJob(c) PROVE ChannelHoldsEachOnce'
  BY <1>16 DEF RetryJob, HasLock, LetReadersIn, Idle
<1>17. ASSUME NEW c \in Clients, DeleteFailedJob(c) PROVE ChannelHoldsEachOnce'
  BY <1>17 DEF DeleteFailedJob, HasLock, LetReadersIn, Idle
<1>18. ASSUME NEW c \in Clients, NEW op \in LockOps, NEW j \in Jobs \cup {NoJob}, Call(c, op, j),
             op # "close" => j \in Jobs
      PROVE ChannelHoldsEachOnce'
  BY <1>18 DEF Call
<1>19. ASSUME NEW t \in Workers \cup Clients, Lock(t) PROVE ChannelHoldsEachOnce'
  BY <1>19 DEF Lock
<1>20. CASE UNCHANGED vars
  BY <1>20 DEF vars
<1> QED
  BY <1>1, <1>2, <1>3, <1>4, <1>5, <1>6, <1>7, <1>8, <1>9, <1>10,
     <1>11, <1>12, <1>13, <1>14, <1>15, <1>16, <1>17, <1>18, <1>19, <1>20, NextCases

\* No two workers hold the same job, and the busy jobs are those they hold.
LEMMA StepTasks == IndInv /\ [Next]_vars => WorkersHoldEachOnce'
<1> SUFFICES ASSUME IndInv, [Next]_vars PROVE WorkersHoldEachOnce'
    OBVIOUS
<1> USE QueueAssumption DEF IndInv, TypeOK, InOnePlace, ChannelHoldsEachOnce, WorkersHoldEachOnce,
           WriterStandsAtLock, WantsLock
<1>1. ASSUME NEW j \in Jobs, Push(j) PROVE WorkersHoldEachOnce'
  BY <1>1 DEF Push
<1>2. ASSUME NEW j \in Jobs, PushDelayed(j) PROVE WorkersHoldEachOnce'
  BY <1>2 DEF PushDelayed
<1>3. ASSUME NEW j \in Jobs, Wake(j) PROVE WorkersHoldEachOnce'
  BY <1>3 DEF Wake
<1>4. ASSUME NEW j \in Jobs, RLock(j) PROVE WorkersHoldEachOnce'
  BY <1>4 DEF RLock
<1>5. ASSUME NEW j \in Jobs, CheckClosed(j) PROVE WorkersHoldEachOnce'
  BY <1>5 DEF CheckClosed
<1>6. ASSUME NEW j \in Jobs, Send(j) PROVE WorkersHoldEachOnce'
  BY <1>6 DEF Send
<1>7. ASSUME NEW w \in Workers, StartWorker(w) PROVE WorkersHoldEachOnce'
  BY <1>7 DEF StartWorker
<1>8. ASSUME NEW w \in Workers, Receive(w) PROVE WorkersHoldEachOnce'
  <2>1. Head(buffer) \in Jobs /\ place[Head(buffer)] = "queued"
    BY <1>8, ReceivedIsQueued DEF Receive
  <2>2. /\ task' = [task EXCEPT ![w] = Head(buffer)] /\ task[w] = NoJob
        /\ place' = [place EXCEPT ![Head(buffer)] = "running"]
    BY <1>8 DEF Receive
  <2>3. \A v \in Workers : task[v] # Head(buffer)
    BY <2>1
  <2>4. ASSUME NEW v \in Workers, NEW u \in Workers, task'[v] \in Jobs, task'[v] = task'[u]
        PROVE v = u
    BY <2>2, <2>3, <2>4
  <2>5. ASSUME NEW j \in Jobs
        PROVE place'[j] \in {"running", "failing"} <=> \E v \in Workers : task'[v] = j
    <3>1. CASE j = Head(buffer)
      BY <2>1, <2>2, <3>1
    <3>2. CASE j # Head(buffer)
      BY <2>1, <2>2, <3>2
    <3> QED
      BY <3>1, <3>2
  <2> QED
    BY <2>4, <2>5
<1>9. ASSUME NEW w \in Workers, Exit(w) PROVE WorkersHoldEachOnce'
  BY <1>9 DEF Exit
<1>10. ASSUME NEW w \in Workers, HandleSucceeds(w) PROVE WorkersHoldEachOnce'
  BY <1>10 DEF HandleSucceeds, Executing
<1>11. ASSUME NEW w \in Workers, HandleFailsAndRetries(w) PROVE WorkersHoldEachOnce'
  BY <1>11 DEF HandleFailsAndRetries, Executing
<1>12. ASSUME NEW w \in Workers, HandleFailsForGood(w) PROVE WorkersHoldEachOnce'
  BY <1>12 DEF HandleFailsForGood, Executing
<1>13. ASSUME NEW w \in Workers, RecordFailure(w) PROVE WorkersHoldEachOnce'
  BY <1>13 DEF RecordFailure, HasLock, LetReadersIn
<1>14. ASSUME NEW c \in Clients, CloseChannel(c) PROVE WorkersHoldEachOnce'
  BY <1>14 DEF CloseChannel, HasLock, LetReadersIn, Idle
<1>15. ASSUME NEW c \in Clients, WorkersGone(c) PROVE WorkersHoldEachOnce'
  BY <1>15 DEF WorkersGone, Idle
<1>16. ASSUME NEW c \in Clients, RetryJob(c) PROVE WorkersHoldEachOnce'
  BY <1>16 DEF RetryJob, HasLock, LetReadersIn, Idle
<1>17. ASSUME NEW c \in Clients, DeleteFailedJob(c) PROVE WorkersHoldEachOnce'
  BY <1>17 DEF DeleteFailedJob, HasLock, LetReadersIn, Idle
<1>18. ASSUME NEW c \in Clients, NEW op \in LockOps, NEW j \in Jobs \cup {NoJob}, Call(c, op, j),
             op # "close" => j \in Jobs
      PROVE WorkersHoldEachOnce'
  BY <1>18 DEF Call
<1>19. ASSUME NEW t \in Workers \cup Clients, Lock(t) PROVE WorkersHoldEachOnce'
  BY <1>19 DEF Lock
<1>20. CASE UNCHANGED vars
  BY <1>20 DEF vars
<1> QED
  BY <1>1, <1>2, <1>3, <1>4, <1>5, <1>6, <1>7, <1>8, <1>9, <1>10,
     <1>11, <1>12, <1>13, <1>14, <1>15, <1>16, <1>17, <1>18, <1>19, <1>20, NextCases

\* The inductive invariant holds throughout.
THEOREM Invariance == Spec => []IndInv
<1>1. IndInv /\ [Next]_vars => IndInv'
  BY StepTypeOK, StepNoSend, StepWorkersLeave, StepDraining, StepRequests, StepAccepted,
     StepWriter, StepChannel, StepTasks DEF IndInv, InOnePlace
<1> QED
  BY InitIndInv, <1>1, PTL DEF Spec

\* Every variable keeps its type.
THEOREM TypeCorrect == Spec => []TypeOK
BY Invariance, PTL DEF IndInv

\* No goroutine ever sends on the closed channel, whatever the interleaving of
\* pushers, workers and closers: the read lock of pushEnvelope does its work.
THEOREM SendsAreSafe == Spec => []NoSendOnClosedChannel
BY Invariance, PTL DEF IndInv

\* A job is never in the channel twice, at two workers, or at a worker and in
\* the channel, the failed list or a timer at once.
THEOREM JobsAreInOnePlace == Spec => []InOnePlace
BY Invariance, PTL DEF IndInv

\* Once a worker has returned the channel stays closed and empty.
THEOREM NothingLeftBehind == Spec => []WorkersLeaveNothingBehind
BY Invariance, PTL DEF IndInv

-----------------------------------------------------------------------------
(* The queue implements the ledger *)

\* How a place reads in the ledger.
LEMMA StatusTable ==
  ASSUME NEW p \in Places, NEW j, NEW known
  PROVE /\ p \in {"pushing", "blocked", "admitted", "sending"}
             => StatusOf(p, j, known) = IF j \in known THEN "waiting" ELSE "new"
        /\ p \in {"sleeping", "queued"} => StatusOf(p, j, known) = "waiting"
        /\ p = "failing" => StatusOf(p, j, known) = "failed"
        /\ p = "rejected" => StatusOf(p, j, known) = "refused"
        /\ p = "lost" => StatusOf(p, j, known) = "dropped"
        /\ p \in {"new", "running", "failed", "done", "deleted"} => StatusOf(p, j, known) = p
BY DEF StatusOf, Places

\* A step that changes the status of one job is a move of the ledger.
LEMMA OneJobMoves ==
  ASSUME NEW j \in Jobs, NEW from, NEW to,
         LedgerStatus(j) = from, LedgerStatus(j)' = to,
         \A l \in Jobs \ {j} : LedgerStatus(l)' = LedgerStatus(l)
  PROVE Ledger!Move(j, from, to)
BY DEF Ledger!Move

\* A step that changes the status of no job leaves the ledger's statuses alone.
LEMMA NoJobMoves ==
  ASSUME \A l \in Jobs : LedgerStatus(l)' = LedgerStatus(l)
  PROVE UNCHANGED [l \in Jobs |-> LedgerStatus(l)]
OBVIOUS

\* Every step of the queue is a step of the ledger or leaves it unchanged.
LEMMA StepLedger == IndInv /\ IndInv' /\ [Next]_vars => [Ledger!Next]_(Ledger!ledgerVars)
<1> SUFFICES ASSUME IndInv, IndInv', [Next]_vars
             PROVE Ledger!Next \/ UNCHANGED Ledger!ledgerVars
    OBVIOUS
<1> USE QueueAssumption
<1> DEFINE Same(l) == LedgerStatus(l)' = LedgerStatus(l)
<1>t. place \in [Jobs -> Places] /\ place' \in [Jobs -> Places] /\ attempts \in [Jobs -> Nat]
  BY DEF IndInv, TypeOK
<1>s. ASSUME NEW l \in Jobs, place'[l] = place[l], l \in accepted' <=> l \in accepted
      PROVE Same(l)
  <2>1. place[l] \in Places
    BY <1>t
  <2>2. StatusOf(place[l], l, accepted') = StatusOf(place[l], l, accepted)
    BY <1>s, <2>1, StatusTable DEF Places
  <2> QED
    BY <1>s, <2>2 DEF LedgerStatus
<1>0. ASSUME UNCHANGED <<closed, attempts>>, \A l \in Jobs : Same(l)
      PROVE UNCHANGED Ledger!ledgerVars
  BY <1>0, NoJobMoves DEF Ledger!ledgerVars
<1>1. ASSUME NEW j \in Jobs, Push(j) \/ Wake(j) \/ RLock(j) PROVE UNCHANGED Ledger!ledgerVars
  <2>1. UNCHANGED <<closed, attempts, accepted>>
    BY <1>1 DEF Push, Wake, RLock
  <2>2. Same(j)
    <3>1. CASE Push(j)
      BY <1>t, <3>1, StatusTable DEF Push, LedgerStatus, IndInv, AcceptedJobs
    <3>2. CASE Wake(j)
      BY <1>t, <3>2, StatusTable DEF Wake, LedgerStatus, IndInv, AcceptedJobs
    <3>3. CASE RLock(j)
      BY <1>t, <3>3, StatusTable DEF RLock, LedgerStatus
    <3> QED
      BY <1>1, <3>1, <3>2, <3>3
  <2>3. \A l \in Jobs \ {j} : place'[l] = place[l]
    BY <1>1, <1>t DEF Push, Wake, RLock
  <2> QED
    BY <1>0, <1>s, <2>1, <2>2, <2>3
<1>2. ASSUME NEW j \in Jobs, PushDelayed(j) PROVE Ledger!Accept(j) \/ Ledger!Refuse(j)
  <2>1. UNCHANGED <<closed, attempts>> /\ place[j] = "new" /\ j \notin accepted
    BY <1>2 DEF PushDelayed, IndInv, AcceptedJobs
  <2>2. \A l \in Jobs \ {j} : Same(l)
    BY <1>2, <1>t, <1>s DEF PushDelayed
  <2>3. LedgerStatus(j) = "new"
    BY <1>t, <2>1, StatusTable DEF LedgerStatus
  <2>4. CASE closed
    <3>1. LedgerStatus(j)' = "refused"
      BY <1>2, <1>t, <2>4, StatusTable DEF PushDelayed, LedgerStatus
    <3> QED
      BY <2>1, <2>2, <2>3, <2>4, <3>1, OneJobMoves DEF Ledger!Refuse
  <2>5. CASE ~closed
    <3>1. LedgerStatus(j)' = "waiting"
      BY <1>2, <1>t, <2>5, StatusTable DEF PushDelayed, LedgerStatus
    <3> QED
      BY <2>1, <2>2, <2>3, <2>5, <3>1, OneJobMoves DEF Ledger!Accept
  <2> QED
    BY <2>4, <2>5
<1>3. ASSUME NEW j \in Jobs, CheckClosed(j)
      PROVE Ledger!Drop(j) \/ Ledger!Refuse(j) \/ UNCHANGED Ledger!ledgerVars
  <2>1. UNCHANGED <<closed, attempts, accepted>> /\ place[j] = "admitted"
    BY <1>3 DEF CheckClosed
  <2>2. \A l \in Jobs \ {j} : Same(l)
    BY <1>3, <1>t, <1>s DEF CheckClosed
  <2>3. LedgerStatus(j) = IF j \in accepted THEN "waiting" ELSE "new"
    BY <1>t, <2>1, StatusTable DEF LedgerStatus
  <2>4. CASE closed /\ j \in accepted
    <3>1. LedgerStatus(j)' = "dropped"
      BY <1>3, <1>t, <2>4, StatusTable DEF CheckClosed, LedgerStatus
    <3> QED
      BY <2>1, <2>2, <2>3, <2>4, <3>1, OneJobMoves DEF Ledger!Drop
  <2>5. CASE closed /\ j \notin accepted
    <3>1. LedgerStatus(j)' = "refused"
      BY <1>3, <1>t, <2>5, StatusTable DEF CheckClosed, LedgerStatus
    <3> QED
      BY <2>1, <2>2, <2>3, <2>5, <3>1, OneJobMoves DEF Ledger!Refuse
  <2>6. CASE ~closed
    <3>1. Same(j)
      BY <1>3, <1>t, <2>1, <2>6, StatusTable DEF CheckClosed, LedgerStatus
    <3> QED
      BY <1>0, <2>1, <2>2, <3>1
  <2> QED
    BY <2>4, <2>5, <2>6
<1>4. ASSUME NEW j \in Jobs, Send(j) PROVE Ledger!Accept(j) \/ UNCHANGED Ledger!ledgerVars
  <2>1. UNCHANGED <<closed, attempts>> /\ place[j] = "sending" /\ ~closed
    BY <1>4 DEF Send, IndInv, NoSendOnClosedChannel
  <2>2. \A l \in Jobs \ {j} : Same(l)
    BY <1>4, <1>t, <1>s DEF Send
  <2>3. LedgerStatus(j) = IF j \in accepted THEN "waiting" ELSE "new"
    BY <1>t, <2>1, StatusTable DEF LedgerStatus
  <2>4. LedgerStatus(j)' = "waiting"
    BY <1>4, <1>t, StatusTable DEF Send, LedgerStatus
  <2>5. CASE j \in accepted
    BY <1>0, <2>1, <2>2, <2>3, <2>4, <2>5
  <2>6. CASE j \notin accepted
    BY <2>1, <2>2, <2>3, <2>4, <2>6, OneJobMoves DEF Ledger!Accept
  <2> QED
    BY <2>5, <2>6
<1>5. ASSUME NEW w \in Workers, Receive(w) PROVE \E j \in Jobs : Ledger!Start(j)
  <2>1. PICK j \in Jobs : j = Head(buffer) /\ place[j] = "queued"
    BY <1>5, ReceivedIsQueued DEF Receive, IndInv, InOnePlace
  <2>2. UNCHANGED <<closed, attempts, accepted>> /\ place' = [place EXCEPT ![j] = "running"]
    BY <1>5, <2>1 DEF Receive
  <2>3. \A l \in Jobs \ {j} : Same(l)
    BY <1>t, <1>s, <2>2
  <2>4. LedgerStatus(j) = "waiting"
    BY <1>t, <2>1, StatusTable DEF LedgerStatus
  <2>5. LedgerStatus(j)' = "running"
    BY <1>t, <2>2, StatusTable DEF LedgerStatus
  <2> QED
    BY <2>1, <2>2, <2>3, <2>4, <2>5, OneJobMoves DEF Ledger!Start
<1>6. ASSUME NEW w \in Workers, StartWorker(w) \/ Exit(w) PROVE UNCHANGED Ledger!ledgerVars
  <2>1. UNCHANGED <<closed, attempts, accepted, place>>
    BY <1>6 DEF StartWorker, Exit
  <2> QED
    BY <1>0, <1>s, <2>1
<1>7. ASSUME NEW w \in Workers, HandleSucceeds(w) PROVE \E j \in Jobs : Ledger!Succeed(j)
  <2>1. PICK j \in Jobs : j = task[w] /\ place[j] = "running"
    BY <1>7 DEF HandleSucceeds, Executing
  <2>2. UNCHANGED <<closed, attempts, accepted>> /\ place' = [place EXCEPT ![j] = "done"]
    BY <1>7, <2>1 DEF HandleSucceeds
  <2>3. \A l \in Jobs \ {j} : Same(l)
    BY <1>t, <1>s, <2>2
  <2>4. LedgerStatus(j) = "running" /\ LedgerStatus(j)' = "done"
    BY <1>t, <2>1, <2>2, StatusTable DEF LedgerStatus
  <2> QED
    BY <2>1, <2>2, <2>3, <2>4, OneJobMoves DEF Ledger!Succeed
<1>8. ASSUME NEW w \in Workers, HandleFailsAndRetries(w) \/ HandleFailsForGood(w)
      PROVE \E j \in Jobs : Ledger!FailAttempt(j)
  <2>1. PICK j \in Jobs : j = task[w] /\ place[j] = "running"
    BY <1>8 DEF HandleFailsAndRetries, HandleFailsForGood, Executing
  <2>2. /\ UNCHANGED <<closed, accepted>>
        /\ attempts' = [attempts EXCEPT ![j] = @ + 1]
        /\ place' = [place EXCEPT ![j] = IF AttemptsRemain(j) THEN "sleeping" ELSE "failing"]
    BY <1>8, <2>1 DEF HandleFailsAndRetries, HandleFailsForGood
  <2>3. \A l \in Jobs \ {j} : Same(l)
    BY <1>t, <1>s, <2>2
  <2>4. LedgerStatus(j) = "running"
    BY <1>t, <2>1, StatusTable DEF LedgerStatus
  <2>5. LedgerStatus(j)' = IF AttemptsRemain(j) THEN "waiting" ELSE "failed"
    <3>1. CASE AttemptsRemain(j)
      BY <1>t, <2>2, <3>1, StatusTable DEF LedgerStatus
    <3>2. CASE ~AttemptsRemain(j)
      BY <1>t, <2>2, <3>2, StatusTable DEF LedgerStatus
    <3> QED
      BY <3>1, <3>2
  <2>6. Ledger!Move(j, "running", IF AttemptsRemain(j) THEN "waiting" ELSE "failed")
    BY <2>1, <2>3, <2>4, <2>5, OneJobMoves
  <2> QED
    BY <2>1, <2>2, <2>6 DEF Ledger!FailAttempt, AttemptsRemain
<1>l. ASSUME NEW p \in [Jobs -> Places], NEW l \in Jobs
      PROVE StatusOf(LetReadersIn(p)[l], l, accepted) = StatusOf(p[l], l, accepted)
  BY StatusTable DEF LetReadersIn, Places
<1>9. ASSUME NEW w \in Workers, RecordFailure(w) PROVE UNCHANGED Ledger!ledgerVars
  <2>1. PICK j \in Jobs : j = task[w] /\ place[j] = "failing"
    BY <1>9 DEF RecordFailure, HasLock, IndInv, TypeOK, WriterStandsAtLock, WantsLock
  <2> DEFINE p == [place EXCEPT ![j] = "failed"]
  <2>2. UNCHANGED <<closed, attempts, accepted>> /\ place' = LetReadersIn(p)
    BY <1>9, <2>1 DEF RecordFailure
  <2>3. p \in [Jobs -> Places]
    BY <1>t DEF Places
  <2>4. ASSUME NEW l \in Jobs PROVE StatusOf(p[l], l, accepted) = LedgerStatus(l)
    <3>1. CASE l = j
      BY <1>t, <2>1, <3>1, StatusTable DEF LedgerStatus, Places
    <3>2. CASE l # j
      BY <1>t, <3>2 DEF LedgerStatus
    <3> QED
      BY <3>1, <3>2
  <2> HIDE DEF p
  <2>5. \A l \in Jobs : Same(l)
    BY <1>l, <2>2, <2>3, <2>4 DEF LedgerStatus
  <2> QED
    BY <1>0, <2>2, <2>5
<1>10. ASSUME NEW c \in Clients, CloseChannel(c)
       PROVE Ledger!Close \/ UNCHANGED Ledger!ledgerVars
  <2>1. UNCHANGED <<attempts, accepted>> /\ place' = LetReadersIn(place) /\ closed' = TRUE
    BY <1>10 DEF CloseChannel
  <2>2. \A l \in Jobs : Same(l)
    BY <1>t, <1>l, <2>1 DEF LedgerStatus
  <2>3. CASE closed
    BY <1>0, <2>1, <2>2, <2>3
  <2>4. CASE ~closed
    BY <2>1, <2>2, <2>4, NoJobMoves DEF Ledger!Close
  <2> QED
    BY <2>3, <2>4
<1>11. ASSUME NEW c \in Clients, RetryJob(c)
       PROVE (\E j \in Jobs : Ledger!Requeue(j)) \/ UNCHANGED Ledger!ledgerVars
  <2>1. PICK j \in Jobs : j = call[c].job
    BY <1>11 DEF RetryJob, IndInv, RequestsNameJobs
  <2>2. UNCHANGED <<closed, accepted>>
    BY <1>11 DEF RetryJob
  <2>3. CASE place[j] = "failed"
    <3> DEFINE p == [place EXCEPT ![j] = "pushing"]
    <3>1. place' = LetReadersIn(p) /\ attempts' = [attempts EXCEPT ![j] = 0]
      BY <1>11, <2>1, <2>3 DEF RetryJob
    <3>2. p \in [Jobs -> Places] /\ j \in accepted
      BY <1>t, <2>3 DEF Places, IndInv, AcceptedJobs
    <3>3. \A l \in Jobs \ {j} : p[l] = place[l]
      BY <1>t
    <3>4. p[j] = "pushing"
      BY <1>t
    <3> HIDE DEF p
    <3>5. \A l \in Jobs \ {j} : Same(l)
      BY <1>l, <2>2, <3>1, <3>2, <3>3 DEF LedgerStatus
    <3>6. LedgerStatus(j) = "failed"
      BY <1>t, <2>3, StatusTable DEF LedgerStatus
    <3>7. LedgerStatus(j)' = "waiting"
      BY <1>l, <2>2, <3>1, <3>2, <3>4, StatusTable DEF LedgerStatus
    <3>8. Ledger!Move(j, "failed", "waiting")
      BY <3>5, <3>6, <3>7, OneJobMoves
    <3> QED
      BY <2>2, <3>1, <3>8 DEF Ledger!Requeue
  <2>4. CASE place[j] # "failed"
    <3>1. place' = LetReadersIn(place) /\ attempts' = attempts
      BY <1>11, <1>t, <2>1, <2>4 DEF RetryJob
    <3>2. \A l \in Jobs : Same(l)
      BY <1>t, <1>l, <2>2, <3>1 DEF LedgerStatus
    <3> QED
      BY <1>0, <2>2, <3>1, <3>2
  <2> QED
    BY <2>3, <2>4
<1>12. ASSUME NEW c \in Clients, DeleteFailedJob(c)
       PROVE (\E j \in Jobs : Ledger!Delete(j)) \/ UNCHANGED Ledger!ledgerVars
  <2>1. PICK j \in Jobs : j = call[c].job
    BY <1>12 DEF DeleteFailedJob, IndInv, RequestsNameJobs
  <2>2. UNCHANGED <<closed, accepted, attempts>>
    BY <1>12 DEF DeleteFailedJob
  <2>3. CASE place[j] = "failed"
    <3> DEFINE p == [place EXCEPT ![j] = "deleted"]
    <3>1. place' = LetReadersIn(p)
      BY <1>12, <1>t, <2>1, <2>3 DEF DeleteFailedJob
    <3>2. p \in [Jobs -> Places] /\ p[j] = "deleted"
      BY <1>t DEF Places
    <3>3. \A l \in Jobs \ {j} : p[l] = place[l]
      BY <1>t
    <3> HIDE DEF p
    <3>4. \A l \in Jobs \ {j} : Same(l)
      BY <1>l, <2>2, <3>1, <3>2, <3>3 DEF LedgerStatus
    <3>5. LedgerStatus(j) = "failed"
      BY <1>t, <2>3, StatusTable DEF LedgerStatus
    <3>6. LedgerStatus(j)' = "deleted"
      BY <1>l, <2>2, <3>1, <3>2, StatusTable DEF LedgerStatus
    <3>7. Ledger!Move(j, "failed", "deleted")
      BY <3>4, <3>5, <3>6, OneJobMoves
    <3> QED
      BY <2>2, <3>7 DEF Ledger!Delete
  <2>4. CASE place[j] # "failed"
    <3>1. place' = LetReadersIn(place)
      BY <1>12, <1>t, <2>1, <2>4 DEF DeleteFailedJob
    <3>2. \A l \in Jobs : Same(l)
      BY <1>t, <1>l, <2>2, <3>1 DEF LedgerStatus
    <3> QED
      BY <1>0, <2>2, <3>2
  <2> QED
    BY <2>3, <2>4
<1>13. ASSUME \/ \E c \in Clients : WorkersGone(c)
              \/ \E c \in Clients, op \in LockOps, j \in Jobs \cup {NoJob} : Call(c, op, j)
              \/ \E t \in Workers \cup Clients : Lock(t)
              \/ UNCHANGED vars
       PROVE UNCHANGED Ledger!ledgerVars
  <2>1. UNCHANGED <<closed, attempts, accepted, place>>
    BY <1>13 DEF WorkersGone, Call, Lock, vars
  <2> QED
    BY <1>0, <1>s, <2>1
<1> QED
  <2> HIDE DEF Same
  <2>1. CASE \E j \in Jobs : \/ Push(j) \/ PushDelayed(j) \/ Wake(j) \/ RLock(j)
                           \/ CheckClosed(j) \/ Send(j)
    BY <2>1, <1>1, <1>2, <1>3, <1>4 DEF Ledger!Next
  <2>2. CASE \E w \in Workers : \/ StartWorker(w) \/ Receive(w) \/ Exit(w)
                              \/ HandleSucceeds(w) \/ HandleFailsAndRetries(w)
                              \/ HandleFailsForGood(w) \/ RecordFailure(w)
    BY <2>2, <1>5, <1>6, <1>7, <1>8, <1>9 DEF Ledger!Next
  <2>3. CASE \E c \in Clients : CloseChannel(c) \/ RetryJob(c) \/ DeleteFailedJob(c)
    BY <2>3, <1>10, <1>11, <1>12 DEF Ledger!Next
  <2> QED
    BY <1>13, <2>1, <2>2, <2>3, NextCases

\* MemoryQueue implements JobLedger: through every interleaving of pushers,
\* timers, workers and clients a job is accepted only while the queue is open,
\* run by one worker at a time and at most MaxAttempts times per (re)acceptance,
\* and dropped only once the queue is closed.
THEOREM KeepsLedger == Spec => KeepsTheLedger
<1>1. Init => Ledger!Init
  <2> SUFFICES ASSUME Init PROVE Ledger!Init
      OBVIOUS
  <2>1. \A l \in Jobs : LedgerStatus(l) = "new"
    BY StatusTable DEF Init, LedgerStatus, Places
  <2> QED
    BY <2>1 DEF Init, Ledger!Init
<1> QED
  BY <1>1, StepLedger, Invariance, PTL DEF Spec, KeepsTheLedger, Ledger!Spec
==============================================================================
