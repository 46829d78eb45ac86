----------------------------- MODULE RedisQueue -----------------------------
(* The Redis driver of contract.Queue: a list of pending jobs, a sorted set of  *)
(* delayed ones and a dead-letter list, shared by every server instance.  Each  *)
(* Redis command is one atomic step.  An instance runs one worker, the          *)
(* goroutine that migrates due jobs, and one operator request (RetryJob or      *)
(* DeleteFailedJob).  A payload is its ID and its attempts: payloads with the   *)
(* same text are one member of the sorted set.                                  *)
EXTENDS Naturals, Sequences, SequencesExt

CONSTANTS RJobs,        \* jobs, each pushed once
          RInstances,   \* server instances on one Redis
          RMax,         \* MaxAttempts of each job; 0: the job is not Retryable
          RUnknown,     \* jobs whose name no registry holds
          RFaultBound,  \* bound: failing commands and stopped instances
          ROpBound      \* bound: operator requests
ASSUME RedisAssumption ==
  RMax \in [RJobs -> Nat] /\ RFaultBound \in Nat /\ ROpBound \in Nat

VARIABLES rStore,  \* Redis: pending and failed, head first; delayed, and its members now due
          rProc,   \* each instance: what its worker, its migration and its operator hold
          rLog     \* jobs accepted, settled, harmed by a fault, retried; faults, requests

rvars == <<rStore, rProc, rLog>>

Payload == [id : RJobs, attempts : Nat]
Fresh(j) == [id |-> j, attempts |-> 0]
RIdle == [at |-> "idle", todo |-> {}]

RInit ==
  /\ rStore = [pending |-> <<>>, delayed |-> {}, due |-> {}, failed |-> <<>>]
  /\ rProc = [i \in RInstances |-> [worker |-> RIdle, move |-> RIdle, client |-> RIdle]]
  /\ rLog = [accepted |-> {}, settled |-> {}, harmed |-> {}, retried |-> {},
             faults |-> 0, ops |-> 0]

-----------------------------------------------------------------------------
(* The commands.  LPUSH puts at the head, BRPOP takes from the tail; ZADD of a   *)
(* member that is there already only moves its score.                            *)
pushPayload(p) == [rStore EXCEPT !.pending = <<p>> \o @]
pushDelayedPayload(p) == [rStore EXCEPT !.delayed = @ \cup {p}, !.due = @ \ {p}]
\* Mutant of ZRem: every due member is removed.
ZRemDue(p) == [rStore EXCEPT !.delayed = @ \ rStore.due, !.due = {}]
ZRem(p) == [rStore EXCEPT !.delayed = @ \ {p}, !.due = @ \ {p}]
LRem(p) == [rStore EXCEPT !.failed = RemoveFirst(@, p)]

(* A command about payload p takes effect (ok), or returns an error.             *)
Command(ok, p, effect, log) ==
  \/ ok /\ rStore' = effect /\ rLog' = log
  \/ /\ ~ok /\ rLog.faults < RFaultBound /\ rStore' = rStore
     /\ rLog' = [rLog EXCEPT !.faults = @ + 1, !.harmed = @ \cup {p.id}]

Push(j) == /\ j \notin rLog.accepted /\ rProc' = rProc
           /\ rLog' = [rLog EXCEPT !.accepted = @ \cup {j}]
           /\ rStore' = pushPayload(Fresh(j))

PushDelayed(j) == /\ j \notin rLog.accepted /\ rProc' = rProc
                  /\ rLog' = [rLog EXCEPT !.accepted = @ \cup {j}]
                  /\ rStore' = pushDelayedPayload(Fresh(j))

(* Time passes the score of a delayed job.                                       *)
BecomeDue(p) == /\ p \in rStore.delayed \ rStore.due
                /\ rStore' = [rStore EXCEPT !.due = @ \cup {p}]
                /\ UNCHANGED <<rProc, rLog>>

(* runWorker.  BRPOP removes the job before anything is done with it; a job      *)
(* whose name is unknown is skipped.                                             *)
Pop(i) ==
  /\ rProc[i].worker = RIdle /\ rStore.pending # <<>>
  /\ rStore' = [rStore EXCEPT !.pending = Front(@)]
  /\ LET p == Last(rStore.pending) IN
     IF p.id \in RUnknown
     THEN rLog' = [rLog EXCEPT !.harmed = @ \cup {p.id}] /\ rProc' = rProc
     ELSE rProc' = [rProc EXCEPT ![i].worker = p] /\ rLog' = rLog

HandleOk(i) ==
  /\ rProc[i].worker # RIdle
  /\ rLog' = [rLog EXCEPT !.settled = @ \cup {rProc[i].worker.id}]
  /\ rProc' = [rProc EXCEPT ![i].worker = RIdle] /\ rStore' = rStore

(* Handle returned an error: a delayed retry while attempts are left, the        *)
(* dead-letter list otherwise.  Nothing acts on the error of either command.     *)
HandleErr(i, ok) ==
  /\ rProc[i].worker # RIdle
  /\ LET p == [rProc[i].worker EXCEPT !.attempts = @ + 1] IN
     Command(ok, p, IF p.attempts < RMax[p.id] THEN pushDelayedPayload(p)
                    ELSE [rStore EXCEPT !.failed = <<p>> \o @], rLog)
  /\ rProc' = [rProc EXCEPT ![i].worker = RIdle]

(* runDelayedScheduler: a tick fetches the due members, then LPUSH and ZREM one  *)
(* after the other, whatever either returned.                                    *)
MoveFetch(i) ==
  /\ rProc[i].move = RIdle /\ rStore.due # {}
  /\ rProc' = [rProc EXCEPT ![i].move = [at |-> "push", todo |-> rStore.due]]
  /\ UNCHANGED <<rStore, rLog>>

MovePush(i, p, ok) ==
  /\ rProc[i].move.at = "push" /\ p \in rProc[i].move.todo
  /\ Command(ok, p, pushPayload(p), rLog)
  /\ rProc' = [rProc EXCEPT ![i].move = [at |-> "rem", todo |-> @.todo, now |-> p]]

MoveRem(i, ok) ==
  /\ rProc[i].move.at = "rem"
  /\ LET p == rProc[i].move.now IN
     /\ Command(ok, p, ZRem(p), rLog)
     /\ rProc' = [rProc EXCEPT ![i].move =
                    IF @.todo = {p} THEN RIdle ELSE [at |-> "push", todo |-> @.todo \ {p}]]

(* RetryJob and DeleteFailedJob: read the dead-letter list, LREM one element     *)
(* without looking at how many were removed, and for a retry LPUSH the payload   *)
(* with its attempts reset.                                                      *)
ClientFetch(i, op, n) ==
  /\ rProc[i].client = RIdle /\ rLog.ops < ROpBound
  /\ rProc' = [rProc EXCEPT ![i].client = [at |-> "rem", op |-> op, now |-> rStore.failed[n]]]
  /\ rLog' = [rLog EXCEPT !.ops = @ + 1] /\ rStore' = rStore

ClientRem(i, ok) ==
  /\ rProc[i].client.at = "rem"
  /\ LET c == rProc[i].client IN
     /\ Command(ok, c.now, LRem(c.now),
                IF c.op = "retry" THEN [rLog EXCEPT !.retried = @ \cup {c.now.id}]
                ELSE [rLog EXCEPT !.settled = @ \cup {c.now.id}])
     /\ rProc' = [rProc EXCEPT ![i].client =
                    IF ok /\ c.op = "retry" THEN [c EXCEPT !.at = "push"] ELSE RIdle]

ClientPush(i, ok) ==
  /\ rProc[i].client.at = "push"
  /\ LET p == [rProc[i].client.now EXCEPT !.attempts = 0] IN
     Command(ok, p, pushPayload(p), rLog)
  /\ rProc' = [rProc EXCEPT ![i].client = RIdle]

(* The instance stops and starts again: what its goroutines held is gone.        *)
Holds(i, j) == \/ rProc[i].worker # RIdle /\ rProc[i].worker.id = j
               \/ rProc[i].client.at = "push" /\ rProc[i].client.now.id = j
Restart(i) ==
  /\ rLog.faults < RFaultBound
  /\ rLog' = [rLog EXCEPT !.faults = @ + 1,
                !.harmed = @ \cup {j \in RJobs : Holds(i, j)}]
  /\ rProc' = [rProc EXCEPT ![i] = [worker |-> RIdle, move |-> RIdle, client |-> RIdle]]
  /\ rStore' = rStore

RNext == \/ \E j \in RJobs : Push(j) \/ PushDelayed(j)
         \/ \E p \in rStore.delayed : BecomeDue(p)
         \/ \E i \in RInstances :
              \/ Pop(i) \/ HandleOk(i) \/ MoveFetch(i) \/ Restart(i)
              \/ \E n \in DOMAIN rStore.failed, op \in {"retry", "delete"} : ClientFetch(i, op, n)
              \/ \E ok \in BOOLEAN :
                   \/ HandleErr(i, ok) \/ MoveRem(i, ok) \/ ClientRem(i, ok) \/ ClientPush(i, ok)
                   \/ \E p \in rProc[i].move.todo : MovePush(i, p, ok)

RSpec == RInit /\ [][RNext]_rvars

-----------------------------------------------------------------------------
RTypeOK == /\ rStore.pending \in Seq(Payload) /\ rStore.failed \in Seq(Payload)
           /\ rStore.due \subseteq rStore.delayed /\ rStore.delayed \subseteq Payload
           /\ \A i \in RInstances : rProc[i].worker \in Payload \cup {RIdle}
           /\ rLog.faults \in 0 .. RFaultBound /\ rLog.ops \in 0 .. ROpBound

(* A job that was accepted is in the list, the sorted set, the dead-letter list  *)
(* or a worker's hands until it is handled or deleted, with any number of        *)
(* instances migrating the same due jobs: only a fault or an unknown name that   *)
(* hit this very job loses it.  Jobs an operator retried are left out: their     *)
(* payload starts again at zero attempts, and a migration still under way may    *)
(* remove the copy that has the same text.                                       *)
Somewhere(j) == \/ \E n \in DOMAIN rStore.pending : rStore.pending[n].id = j
                \/ \E n \in DOMAIN rStore.failed : rStore.failed[n].id = j
                \/ \E p \in rStore.delayed : p.id = j
                \/ \E i \in RInstances : Holds(i, j)
RedisJobsAccountedFor ==
  \A j \in rLog.accepted : Somewhere(j) \/ j \in rLog.settled \cup rLog.harmed \cup rLog.retried
=============================================================================
