------------------------- MODULE DatabaseQueueProofs -------------------------
(***************************************************************************)
(* DatabaseQueue for any jobs, workers, clients and bounds: its inductive  *)
(* invariant and the safety invariants that are parts of it. Each part is  *)
(* carried over a step by a lemma of its own, which uses the parts before. *)
(***************************************************************************)
EXTENDS DatabaseQueue, TLAPS

\* The kinds of steps, in the order of the module.
LEMMA NextCases ==
  ASSUME [Next]_vars
  PROVE \/ \E j \in Jobs : Push(j)
        \/ \E i \in Ids : BecomesDue(i) \/ DeleteFailedJob(i)
        \/ \E w \in Workers : \/ \E i \in Ids : SelectForUpdate(w, i)
                             \/ Reserve(w) \/ ReserveErrs(w)
                             \/ HandleSucceeds(w) \/ HandleFails(w)
                             \/ Release(w) \/ Bury(w) \/ DeleteJob(w)
                             \/ Close(w) \/ Return(w) \/ Crash(w) \/ Restart(w)
        \/ \E c \in Clients : \/ \E i \in Ids : RetrySelect(c, i)
                             \/ RetryInsert(c) \/ RetryRemove(c) \/ RetryCrash(c)
        \/ UNCHANGED vars
BY DEF Next, Worker

\* What the types say of one worker, one caller and one row.
LEMMA Fields ==
  ASSUME TypeOK, RowsExist
  PROVE /\ \A i \in Ids : /\ jobs[i].job \in Jobs /\ jobs[i].attempts \in Nat
                          /\ jobs[i].state \in RowStates /\ failed[i].job \in Jobs
                          /\ failed[i].state \in FailedStates
        /\ \A w \in Workers : /\ worker[w].pc \in WorkerPCs /\ worker[w].attempts \in Nat
                              /\ worker[w].pc \notin {"idle", "down"} => worker[w].row \in Ids
        /\ \A c \in Clients : client[c].pc # "idle" => client[c].id \in Ids
<1> USE DEF TypeOK, RowsExist
<1>1. ASSUME NEW i \in Ids
      PROVE /\ jobs[i].job \in Jobs /\ jobs[i].attempts \in Nat
            /\ jobs[i].state \in RowStates /\ failed[i].job \in Jobs
            /\ failed[i].state \in FailedStates
  OBVIOUS
<1>2. ASSUME NEW w \in Workers
      PROVE /\ worker[w].pc \in WorkerPCs /\ worker[w].attempts \in Nat
            /\ worker[w].pc \notin {"idle", "down"} => worker[w].row \in Ids
  OBVIOUS
<1>3. ASSUME NEW c \in Clients, client[c].pc # "idle" PROVE client[c].id \in Ids
  BY <1>3
<1> QED
  BY <1>1, <1>2, <1>3

\* Insertions keep the tables' types.
LEMMA Inserts ==
  ASSUME TypeOK, NEW j \in Jobs
  PROVE /\ \A state \in RowStates : InsertJob(j, state) =>
             jobs' \in [Ids -> [job : Jobs, attempts : Nat, state : RowStates]]
        /\ InsertFailed(j) => failed' \in [Ids -> [job : Jobs, state : FailedStates]]
<1>1. ASSUME NEW state \in RowStates, InsertJob(j, state)
      PROVE jobs' \in [Ids -> [job : Jobs, attempts : Nat, state : RowStates]]
  <2>1. PICK i \in Ids : jobs' = [jobs EXCEPT ![i] = [job |-> j, attempts |-> 0, state |-> state]]
    BY <1>1 DEF InsertJob
  <2> QED
    BY <2>1 DEF TypeOK
<1>2. ASSUME InsertFailed(j)
      PROVE failed' \in [Ids -> [job : Jobs, state : FailedStates]]
  <2>1. PICK i \in Ids : failed' = [failed EXCEPT ![i] = [job |-> j, state |-> "listed"]]
    BY <1>2 DEF InsertFailed
  <2> QED
    BY <2>1 DEF TypeOK, FailedStates
<1> QED
  BY <1>1, <1>2

\* Types are preserved by every step, variable by variable.
LEMMA StepTypeOK == TypeOK /\ RowsExist /\ [Next]_vars => TypeOK'
<1> SUFFICES ASSUME TypeOK, RowsExist, [Next]_vars PROVE TypeOK'
    OBVIOUS
<1> DEFINE JobsOK == jobs' \in [Ids -> [job : Jobs, attempts : Nat, state : RowStates]]
           FailedOK == failed' \in [Ids -> [job : Jobs, state : FailedStates]]
           WorkerOK == worker' \in [Workers -> [pc : WorkerPCs, row : Ids \cup {0}, attempts : Nat]]
           ClientOK ==
             client' \in [Clients -> [pc : {"idle", "inserting", "removing"}, id : Ids \cup {0}]]
           CountsOK == /\ stopping' \subseteq Workers /\ accepted' \subseteq Jobs
                       /\ retried' \subseteq Jobs /\ dismissed' \subseteq Jobs
                       /\ completed' \in [Jobs -> Nat]
                       /\ faults' \in 0..MaxFaults /\ outages' \in 0..MaxOutages
<1>f. /\ \A w \in Workers : worker[w].pc \notin {"idle", "down"} =>
           worker[w].row \in Ids /\ jobs[worker[w].row].job \in Jobs
             /\ jobs[worker[w].row].attempts + 1 \in Nat
      /\ \A c \in Clients : client[c].pc # "idle" =>
           client[c].id \in Ids /\ failed[client[c].id].job \in Jobs
      /\ \A i \in Ids : jobs[i].attempts \in Nat /\ failed[i].job \in Jobs
  BY Fields
<1>1. JobsOK
  <2>t. jobs \in [Ids -> [job : Jobs, attempts : Nat, state : RowStates]]
    BY DEF TypeOK
  <2>1. ASSUME NEW j \in Jobs, Push(j) PROVE JobsOK
    BY <2>1, Inserts DEF Push, RowStates
  <2>2. ASSUME NEW i \in Ids, BecomesDue(i) PROVE JobsOK
    BY <2>2, <2>t DEF BecomesDue, RowStates
  <2>3. ASSUME NEW w \in Workers, Reserve(w) \/ ReserveErrs(w) PROVE JobsOK
    BY <1>f, <2>3, <2>t DEF Reserve, ReserveErrs, RowStates
  <2>4. ASSUME NEW w \in Workers, Release(w) \/ DeleteJob(w) PROVE JobsOK
    BY <1>f, <2>4, <2>t DEF Release, DeleteJob, RowStates
  <2>5. ASSUME NEW c \in Clients, RetryInsert(c) PROVE JobsOK
    BY <1>f, <2>5, <2>t, Inserts DEF RetryInsert, RowStates
  <2>6. CASE UNCHANGED jobs
    BY <2>6, <2>t
  <2> QED
    BY NextCases, <2>1, <2>2, <2>3, <2>4, <2>5, <2>6
    DEF DeleteFailedJob, SelectForUpdate, Take, HandleSucceeds, HandleFails, Bury, Close, Return,
        Crash, Restart, RetrySelect, RetryRemove, RetryCrash, vars, tables
<1>2. FailedOK
  <2>t. failed \in [Ids -> [job : Jobs, state : FailedStates]]
    BY DEF TypeOK
  <2>1. ASSUME NEW i \in Ids, DeleteFailedJob(i) PROVE FailedOK
    BY <2>1, <2>t DEF DeleteFailedJob, FailedStates
  <2>2. ASSUME NEW w \in Workers, Bury(w) PROVE FailedOK
    BY <1>f, <2>2, <2>t, Inserts DEF Bury
  <2>3. ASSUME NEW c \in Clients, RetryRemove(c) PROVE FailedOK
    BY <1>f, <2>3, <2>t DEF RetryRemove, FailedStates
  <2>4. CASE UNCHANGED failed
    BY <2>4, <2>t
  <2> QED
    BY NextCases, <2>1, <2>2, <2>3, <2>4
    DEF Push, BecomesDue, SelectForUpdate, Take, Reserve, ReserveErrs, HandleSucceeds,
        HandleFails, Release, DeleteJob, Close, Return, Crash, Restart, RetrySelect, RetryInsert,
        RetryCrash, vars, tables
<1>3. WorkerOK
  <2>t. worker \in [Workers -> [pc : WorkerPCs, row : Ids \cup {0}, attempts : Nat]]
    BY DEF TypeOK
  <2>1. ASSUME NEW w \in Workers, NEW i \in Ids, SelectForUpdate(w, i) PROVE WorkerOK
    BY <1>f, <2>1, <2>t DEF SelectForUpdate, Take, WorkerPCs
  <2>2. ASSUME NEW w \in Workers, NEW pc \in WorkerPCs, worker' = [worker EXCEPT ![w].pc = pc]
        PROVE WorkerOK
    BY <2>2, <2>t
  <2>3. ASSUME NEW w \in Workers, NEW pc \in WorkerPCs, worker' = [worker EXCEPT ![w] = AtRest(pc)]
        PROVE WorkerOK
    BY <2>3, <2>t DEF AtRest
  <2>4. ASSUME NEW w \in Workers, Reserve(w) \/ HandleSucceeds(w) \/ HandleFails(w) \/ Bury(w)
        PROVE WorkerOK
    <3>1. \E pc \in WorkerPCs : worker' = [worker EXCEPT ![w].pc = pc]
      BY <2>4 DEF Reserve, HandleSucceeds, HandleFails, Bury, WorkerPCs
    <3> QED
      BY <2>2, <3>1
  <2>5. ASSUME NEW w \in Workers, ReserveErrs(w) \/ Release(w) \/ DeleteJob(w) \/ Return(w)
                                    \/ Crash(w) \/ Restart(w)
        PROVE WorkerOK
    <3>1. \E pc \in WorkerPCs : worker' = [worker EXCEPT ![w] = AtRest(pc)]
      BY <2>5 DEF ReserveErrs, Release, DeleteJob, Return, Crash, Restart, WorkerPCs
    <3> QED
      BY <2>3, <3>1
  <2>6. CASE UNCHANGED worker
    BY <2>6, <2>t
  <2> HIDE DEF WorkerOK
  <2> QED
    BY NextCases, <2>1, <2>4, <2>5, <2>6
    DEF Push, BecomesDue, DeleteFailedJob, Close, RetrySelect, RetryInsert, RetryRemove,
        RetryCrash, vars
<1>4. ClientOK
  <2>t. client \in [Clients -> [pc : {"idle", "inserting", "removing"}, id : Ids \cup {0}]]
    BY DEF TypeOK
  <2>1. ASSUME NEW c \in Clients, NEW i \in Ids, RetrySelect(c, i) PROVE ClientOK
    BY <2>1, <2>t DEF RetrySelect
  <2>2. ASSUME NEW c \in Clients, RetryInsert(c) PROVE ClientOK
    BY <2>2, <2>t DEF RetryInsert, NoCall
  <2>3. ASSUME NEW c \in Clients, RetryRemove(c) \/ RetryCrash(c) PROVE ClientOK
    BY <2>3, <2>t DEF RetryRemove, RetryCrash, NoCall
  <2>4. CASE UNCHANGED client
    BY <2>4, <2>t
  <2> QED
    BY NextCases, <2>1, <2>2, <2>3, <2>4
    DEF Push, BecomesDue, DeleteFailedJob, SelectForUpdate, Take, Reserve, ReserveErrs,
        HandleSucceeds, HandleFails, Release, Bury, DeleteJob, Close, Return, Crash, Restart, vars
<1>5. CountsOK
  <2>t. /\ stopping \subseteq Workers /\ accepted \subseteq Jobs
        /\ retried \subseteq Jobs /\ dismissed \subseteq Jobs
        /\ completed \in [Jobs -> Nat]
        /\ faults \in 0..MaxFaults /\ outages \in 0..MaxOutages
        /\ MaxFaults \in Nat /\ MaxOutages \in Nat
    BY DatabaseQueueAssumption DEF TypeOK, DatabaseQueueAssumption
  <2>1. faults' = faults \/ Fault => faults' \in 0..MaxFaults
    BY <2>t DEF Fault
  <2>2. outages' = outages \/ (outages < MaxOutages /\ outages' = outages + 1)
          => outages' \in 0..MaxOutages
    BY <2>t
  <2>3. CASE UNCHANGED <<ledger, stopping>> /\ (faults' = faults \/ Fault)
             /\ (outages' = outages \/ (outages < MaxOutages /\ outages' = outages + 1))
    BY <2>t, <2>1, <2>2, <2>3 DEF ledger
  <2>4. ASSUME NEW j \in Jobs, Push(j) PROVE CountsOK
    BY <2>t, <2>4 DEF Push
  <2>5. ASSUME NEW i \in Ids, DeleteFailedJob(i) PROVE CountsOK
    BY <1>f, <2>t, <2>5 DEF DeleteFailedJob
  <2>6. ASSUME NEW w \in Workers, Reserve(w) PROVE CountsOK
    BY <1>f, <2>t, <2>6 DEF Reserve
  <2>7. ASSUME NEW w \in Workers, HandleSucceeds(w) PROVE CountsOK
    BY <1>f, <2>t, <2>7 DEF HandleSucceeds
  <2>8. ASSUME NEW w \in Workers, Close(w) \/ Restart(w) PROVE CountsOK
    BY <2>t, <2>2, <2>8 DEF Close, Restart, ledger
  <2>9. ASSUME NEW c \in Clients, NEW i \in Ids, RetrySelect(c, i) PROVE CountsOK
    BY <1>f, <2>t, <2>9 DEF RetrySelect
  <2> HIDE DEF CountsOK
  <2>10. ASSUME NEW w \in Workers,
                \/ \E i \in Ids : SelectForUpdate(w, i)
                \/ ReserveErrs(w) \/ HandleFails(w) \/ Release(w) \/ Bury(w) \/ DeleteJob(w)
                \/ Return(w) \/ Crash(w)
         PROVE CountsOK
    BY <2>3, <2>10
    DEF SelectForUpdate, Take, ReserveErrs, HandleFails, Release, Bury, DeleteJob, Return, Crash,
        ledger, tables
  <2>11. ASSUME NEW c \in Clients, RetryInsert(c) \/ RetryRemove(c) \/ RetryCrash(c)
         PROVE CountsOK
    BY <2>3, <2>11 DEF RetryInsert, RetryRemove, RetryCrash, ledger, tables
  <2>12. ASSUME (\E i \in Ids : BecomesDue(i)) \/ UNCHANGED vars PROVE CountsOK
    BY <2>3, <2>12 DEF BecomesDue, vars, ledger, tables
  <2> QED
    BY NextCases, <2>4, <2>5, <2>6, <2>7, <2>8, <2>9, <2>10, <2>11, <2>12
<1> QED
  BY <1>1, <1>2, <1>3, <1>4, <1>5 DEF TypeOK

\* An insertion fills one unused row and leaves the others alone.
LEMMA InsertJobEffect ==
  ASSUME TypeOK, NEW j \in Jobs, NEW state \in RowStates, InsertJob(j, state)
  PROVE \E i \in Ids : /\ jobs[i].state = "unused"
                       /\ jobs'[i] = [job |-> j, attempts |-> 0, state |-> state]
                       /\ \A k \in Ids : k # i => jobs'[k] = jobs[k]
<1>1. PICK i \in Ids : /\ First(i, Unused(jobs))
                       /\ jobs' = [jobs EXCEPT ![i] = [job |-> j, attempts |-> 0, state |-> state]]
  BY DEF InsertJob
<1>2. jobs[i].state = "unused"
  BY <1>1 DEF First, Unused
<1> QED
  BY <1>1, <1>2 DEF TypeOK

LEMMA InsertFailedEffect ==
  ASSUME TypeOK, NEW j \in Jobs, InsertFailed(j)
  PROVE \E i \in Ids : /\ failed[i].state = "unused"
                       /\ failed'[i] = [job |-> j, state |-> "listed"]
                       /\ \A k \in Ids : k # i => failed'[k] = failed[k]
<1>1. PICK i \in Ids : /\ First(i, Unused(failed))
                       /\ failed' = [failed EXCEPT ![i] = [job |-> j, state |-> "listed"]]
  BY DEF InsertFailed
<1>2. failed[i].state = "unused"
  BY <1>1 DEF First, Unused
<1> QED
  BY <1>1, <1>2 DEF TypeOK

\* Who works on which row.
Ownership == RowsExist /\ OneWorkerPerRow /\ SelectedRowsReady

\* What a worker does to its own row, and to no other: it keeps the row, reserved, or
\* lets go of it.
OwnRowOnly(w) ==
  /\ \A k \in Ids : k # worker[w].row => jobs'[k] = jobs[k]
  /\ \A v \in Workers : v # w => worker'[v] = worker[v]
  /\ \/ worker'[w].row = 0 /\ worker'[w].pc \in {"idle", "down"}
     \/ /\ worker[w].row # 0 /\ worker'[w].row = worker[w].row
        /\ worker'[w].pc \in {"executing", "releasing", "burying", "deleting"}
        /\ jobs'[worker[w].row].state = "reserved"

LEMMA OwnRowSteps ==
  ASSUME TypeOK, RowsExist, OneWorkerPerRow, NEW w \in Workers,
         Reserve(w) \/ ReserveErrs(w) \/ HandleSucceeds(w) \/ HandleFails(w) \/ Release(w)
           \/ Bury(w) \/ DeleteJob(w) \/ Return(w) \/ Crash(w) \/ Restart(w)
  PROVE OwnRowOnly(w)
<1>f. /\ worker[w].pc \notin {"idle", "down"} => worker[w].row \in Ids
      /\ 0 \notin Ids
  BY Fields DEF Ids
<1>t. /\ \E R : jobs \in [Ids -> R]
      /\ worker \in [Workers -> [pc : WorkerPCs, row : Ids \cup {0}, attempts : Nat]]
  BY DEF TypeOK
<1>o. worker[w].pc \in {"executing", "releasing", "burying", "deleting"} =>
        jobs[worker[w].row].state = "reserved"
  BY DEF OneWorkerPerRow
<1> USE <1>f, <1>t DEF OwnRowOnly, AtRest, tables
<1>1. CASE Reserve(w)
  BY <1>1 DEF Reserve, TypeOK
<1>2. CASE ReserveErrs(w)
  BY <1>2 DEF ReserveErrs, TypeOK
<1>3. CASE HandleSucceeds(w)
  BY <1>3, <1>o DEF HandleSucceeds
<1>4. CASE HandleFails(w)
  BY <1>4, <1>o DEF HandleFails
<1>5. CASE Release(w)
  BY <1>5 DEF Release, TypeOK
<1>6. CASE Bury(w)
  BY <1>6, <1>o DEF Bury
<1>7. CASE DeleteJob(w)
  BY <1>7 DEF DeleteJob, TypeOK
<1>8. CASE Return(w) \/ Crash(w) \/ Restart(w)
  BY <1>8 DEF Return, Crash, Restart
<1> QED
  BY <1>1, <1>2, <1>3, <1>4, <1>5, <1>6, <1>7, <1>8

\* The callers of Push, RetryJob and DeleteFailedJob leave the rows there are alone, and
\* time makes delayed rows due.
ForeignRowsOnly ==
  /\ UNCHANGED worker
  /\ \A k \in Ids : jobs[k].state \notin {"unused", "delayed"} => jobs'[k] = jobs[k]
  /\ \A k \in Ids : jobs[k].state = "delayed" =>
       jobs'[k].state \in {"delayed", "ready"} /\ jobs'[k].job = jobs[k].job

LEMMA ForeignSteps ==
  ASSUME TypeOK, RowsExist,
         \/ \E j \in Jobs : Push(j)
         \/ \E i \in Ids : BecomesDue(i) \/ DeleteFailedJob(i)
         \/ \E w \in Workers : Close(w)
         \/ \E c \in Clients : \/ \E i \in Ids : RetrySelect(c, i)
                              \/ RetryInsert(c) \/ RetryRemove(c) \/ RetryCrash(c)
         \/ UNCHANGED vars
  PROVE ForeignRowsOnly
<1> USE DEF ForeignRowsOnly, tables
<1>1. ASSUME NEW j \in Jobs, Push(j) PROVE ForeignRowsOnly
  BY <1>1, InsertJobEffect DEF Push, RowStates
<1>2. ASSUME NEW i \in Ids, BecomesDue(i) PROVE ForeignRowsOnly
  BY <1>2 DEF BecomesDue, TypeOK
<1>3. ASSUME NEW c \in Clients, RetryInsert(c) PROVE ForeignRowsOnly
  BY <1>3, Fields, InsertJobEffect DEF RetryInsert, RowStates
<1>4. CASE UNCHANGED vars
  BY <1>4 DEF vars
<1> QED
  BY <1>1, <1>2, <1>3, <1>4 DEF DeleteFailedJob, Close, RetrySelect, RetryRemove, RetryCrash

\* A row of failed_jobs that exists goes on existing.
LEMMA FailedRowsStay ==
  ASSUME TypeOK, RowsExist, [Next]_vars
  PROVE \A i \in Ids : failed[i].state # "unused" =>
          failed'[i].state # "unused" /\ failed'[i].job = failed[i].job
<1> DEFINE Stay == \A i \in Ids : failed[i].state # "unused" =>
                     failed'[i].state # "unused" /\ failed'[i].job = failed[i].job
<1>1. ASSUME NEW i \in Ids, DeleteFailedJob(i) PROVE Stay
  BY <1>1 DEF DeleteFailedJob, TypeOK
<1>2. ASSUME NEW w \in Workers, Bury(w) PROVE Stay
  BY <1>2, Fields, InsertFailedEffect DEF Bury
<1>3. ASSUME NEW c \in Clients, RetryRemove(c) PROVE Stay
  BY <1>3, Fields DEF RetryRemove, TypeOK
<1>4. CASE UNCHANGED failed
  BY <1>4
<1> QED
  BY NextCases, <1>1, <1>2, <1>3, <1>4
  DEF Push, BecomesDue, SelectForUpdate, Take, Reserve, ReserveErrs, HandleSucceeds, HandleFails,
      Release, DeleteJob, Close, Return, Crash, Restart, RetrySelect, RetryInsert, RetryCrash,
      vars, tables

\* A caller refers to the failed row it selected until it is done.
LEMMA CallersRows ==
  ASSUME TypeOK, RowsExist, [Next]_vars, NEW c \in Clients, client'[c].pc # "idle"
  PROVE /\ client'[c].id \in Ids /\ failed[client'[c].id].state # "unused"
        /\ \/ client[c].pc # "idle" /\ client'[c].id = client[c].id
           \/ client[c].pc = "idle" /\ client'[c].pc = "inserting"
              /\ retried' = retried \cup {failed[client'[c].id].job}
<1> DEFINE G == /\ client'[c].id \in Ids /\ failed[client'[c].id].state # "unused"
                /\ \/ client[c].pc # "idle" /\ client'[c].id = client[c].id
                   \/ client[c].pc = "idle" /\ client'[c].pc = "inserting"
                      /\ retried' = retried \cup {failed[client'[c].id].job}
<1>t. /\ client \in [Clients -> [pc : {"idle", "inserting", "removing"}, id : Ids \cup {0}]]
      /\ client[c].pc # "idle" => client[c].id \in Ids /\ failed[client[c].id].state # "unused"
  BY Fields DEF TypeOK, RowsExist
<1>1. ASSUME NEW d \in Clients, NEW i \in Ids, RetrySelect(d, i) PROVE G
  BY <1>1, <1>t DEF RetrySelect
<1>2. ASSUME NEW d \in Clients, RetryInsert(d) PROVE G
  BY <1>2, <1>t DEF RetryInsert, NoCall
<1>3. ASSUME NEW d \in Clients, RetryRemove(d) \/ RetryCrash(d) PROVE G
  BY <1>3, <1>t DEF RetryRemove, RetryCrash, NoCall
<1>4. CASE UNCHANGED client
  BY <1>4, <1>t
<1> QED
  BY NextCases, <1>1, <1>2, <1>3, <1>4
  DEF Push, BecomesDue, DeleteFailedJob, SelectForUpdate, Take, Reserve, ReserveErrs,
      HandleSucceeds, HandleFails, Release, Bury, DeleteJob, Close, Return, Crash, Restart, vars

\* Each row keeps one worker: FOR UPDATE excludes the other workers while a row is
\* still available, and reserved_at afterwards.
LEMMA StepOwnership == TypeOK /\ Ownership /\ [Next]_vars => Ownership'
<1> SUFFICES ASSUME TypeOK, Ownership, [Next]_vars PROVE Ownership'
    OBVIOUS
<1>i. 0 \notin Ids
  BY DEF Ids
<1>c. \A c \in Clients :
        client'[c].pc # "idle" => client'[c].id # 0 /\ failed'[client'[c].id].state # "unused"
  BY <1>i, CallersRows, FailedRowsStay DEF Ownership
<1>w. \A w \in Workers : /\ worker[w].pc \in WorkerPCs /\ worker[w].row \in Ids \cup {0}
                         /\ worker[w].pc = "selected" => jobs[worker[w].row].state = "ready"
                         /\ worker[w].pc \in {"executing", "releasing", "burying", "deleting"} =>
                              jobs[worker[w].row].state = "reserved"
                         /\ worker[w].row = 0 <=> worker[w].pc \in {"idle", "down"}
                         /\ \A v \in Workers :
                              w # v /\ worker[w].row # 0 => worker[w].row # worker[v].row
  BY DEF Ownership, TypeOK, RowsExist, OneWorkerPerRow, SelectedRowsReady
<1> USE <1>i, <1>c, <1>w DEF WorkerPCs
<1>1. ASSUME NEW w \in Workers, OwnRowOnly(w) PROVE Ownership'
  BY <1>1 DEF OwnRowOnly, Ownership, RowsExist, OneWorkerPerRow, SelectedRowsReady
<1>2. ASSUME ForeignRowsOnly PROVE Ownership'
  BY <1>2 DEF ForeignRowsOnly, Ownership, RowsExist, OneWorkerPerRow, SelectedRowsReady
<1>3. ASSUME NEW w \in Workers, NEW i \in Ids, SelectForUpdate(w, i) PROVE Ownership'
  <2>1. /\ jobs[i].state = "ready" /\ UNCHANGED jobs
        /\ \A v \in Workers : v # w => worker'[v] = worker[v]
        /\ worker'[w].pc = "selected" /\ worker'[w].row = i
        /\ \A v \in Workers : worker[v].pc = "selected" => worker[v].row # i
    BY <1>3 DEF SelectForUpdate, First, Available, LockedRows, Take, TypeOK, tables
  <2>2. \A v \in Workers : v # w => worker[v].row # i
    BY <2>1
  <2> QED
    BY <2>1, <2>2 DEF Ownership, RowsExist, OneWorkerPerRow, SelectedRowsReady
<1> QED
  BY NextCases, OwnRowSteps, ForeignSteps, <1>1, <1>2, <1>3 DEF Ownership

\* Attempts are counted, and bounded.
Counting == AttemptsBounded /\ AttemptsCounted

\* What the counts of one row, and those of one worker about its row, must satisfy.
RowCounts(row) ==
  /\ row.attempts <= 1 \/ row.attempts <= MaxAttempts[row.job]
  /\ row.state \in {"delayed", "ready"} => row.attempts = 0 \/ row.attempts < MaxAttempts[row.job]

WorkerCounts(at, row) ==
  /\ at.pc = "selected" => row.attempts = at.attempts
  /\ at.pc = "executing" => row.attempts = at.attempts + 1
  /\ at.pc = "releasing" => row.attempts < MaxAttempts[row.job]

LEMMA CountingIs ==
  /\ Counting <=> /\ \A i \in Ids : RowCounts(jobs[i])
                  /\ \A w \in Workers : WorkerCounts(worker[w], jobs[worker[w].row])
  /\ Counting' <=> /\ \A i \in Ids : RowCounts(jobs'[i])
                   /\ \A w \in Workers : WorkerCounts(worker'[w], jobs'[worker'[w].row])
BY DEF Counting, AttemptsBounded, AttemptsCounted, RowCounts, WorkerCounts

\* A worker's step on its row keeps the counts of the row, and its own.
LEMMA OwnCounts ==
  ASSUME TypeOK, Ownership, Counting, NEW w \in Workers, worker[w].row # 0,
         Reserve(w) \/ ReserveErrs(w) \/ HandleSucceeds(w) \/ HandleFails(w) \/ Release(w)
           \/ Bury(w) \/ DeleteJob(w) \/ Return(w) \/ Crash(w) \/ Restart(w)
  PROVE RowCounts(jobs'[worker[w].row]) /\ WorkerCounts(worker'[w], jobs'[worker[w].row])
<1> DEFINE r == worker[w].row
           G == RowCounts(jobs'[r]) /\ WorkerCounts(worker'[w], jobs'[r])
<1>t. /\ r \in Ids /\ jobs[r].job \in Jobs /\ jobs[r].attempts \in Nat
      /\ MaxAttempts[jobs[r].job] \in Nat /\ worker[w].attempts \in Nat
      /\ worker[w].pc \in WorkerPCs
      /\ worker \in [Workers -> [pc : WorkerPCs, row : Ids \cup {0}, attempts : Nat]]
      /\ jobs \in [Ids -> [job : Jobs, attempts : Nat, state : RowStates]]
  BY Fields, DatabaseQueueAssumption DEF TypeOK, DatabaseQueueAssumption, Ownership
<1>c. RowCounts(jobs[r]) /\ WorkerCounts(worker[w], jobs[r])
  BY <1>t, CountingIs
<1>o. /\ worker[w].pc = "selected" => jobs[r].state = "ready"
      /\ worker[w].pc \in {"executing", "releasing", "burying", "deleting"} =>
           jobs[r].state = "reserved"
  BY DEF Ownership, OneWorkerPerRow, SelectedRowsReady
<1> USE <1>t, <1>c, <1>o DEF RowCounts, WorkerCounts, AtRest, tables
<1>1. CASE Reserve(w)
  BY <1>1 DEF Reserve
<1>2. CASE ReserveErrs(w)
  BY <1>2 DEF ReserveErrs
<1>3. CASE HandleSucceeds(w)
  BY <1>3 DEF HandleSucceeds
<1>4. CASE HandleFails(w)
  BY <1>4 DEF HandleFails, AttemptsRemain
<1>5. CASE Release(w)
  BY <1>5 DEF Release
<1>6. CASE Bury(w)
  BY <1>6 DEF Bury
<1>7. CASE DeleteJob(w)
  BY <1>7 DEF DeleteJob
<1>8. CASE Return(w) \/ Crash(w) \/ Restart(w)
  BY <1>8 DEF Return, Crash, Restart
<1> QED
  BY <1>1, <1>2, <1>3, <1>4, <1>5, <1>6, <1>7, <1>8

\* The other steps insert rows that were never tried, or leave the count alone.
LEMMA ForeignCounts ==
  ASSUME TypeOK, Ownership,
         \/ \E j \in Jobs : Push(j)
         \/ \E i \in Ids : BecomesDue(i) \/ DeleteFailedJob(i)
         \/ \E w \in Workers : Close(w)
         \/ \E c \in Clients : \/ \E i \in Ids : RetrySelect(c, i)
                              \/ RetryInsert(c) \/ RetryRemove(c) \/ RetryCrash(c)
         \/ UNCHANGED vars,
         NEW k \in Ids, RowCounts(jobs[k])
  PROVE RowCounts(jobs'[k])
<1> DEFINE Same == /\ jobs'[k].job = jobs[k].job /\ jobs'[k].attempts = jobs[k].attempts
                   /\ jobs'[k].state \in {"delayed", "ready"} =>
                        jobs[k].state \in {"delayed", "ready"}
           New == jobs'[k].attempts = 0
<1>1. ASSUME NEW j \in Jobs, Push(j) PROVE Same \/ New
  <2>1. PICK st \in {"ready", "delayed"} : InsertJob(j, st)
    BY <1>1 DEF Push
  <2>2. st \in RowStates
    BY DEF RowStates
  <2>3. PICK i \in Ids : /\ jobs'[i] = [job |-> j, attempts |-> 0, state |-> st]
                         /\ \A n \in Ids : n # i => jobs'[n] = jobs[n]
    BY <2>1, <2>2, InsertJobEffect
  <2> QED
    BY <2>3
<1>2. ASSUME NEW i \in Ids, BecomesDue(i) PROVE Same
  BY <1>2 DEF BecomesDue, TypeOK
<1>3. ASSUME NEW c \in Clients, RetryInsert(c) PROVE Same \/ New
  <2>1. CASE UNCHANGED jobs
    BY <2>1
  <2>2. CASE InsertJob(failed[client[c].id].job, "ready")
    <3>1. failed[client[c].id].job \in Jobs
      BY <1>3, Fields DEF RetryInsert, Ownership
    <3>2. PICK i \in Ids :
            /\ jobs'[i] = [job |-> failed[client[c].id].job, attempts |-> 0, state |-> "ready"]
            /\ \A n \in Ids : n # i => jobs'[n] = jobs[n]
      BY <2>2, <3>1, InsertJobEffect DEF RowStates
    <3> QED
      BY <3>2
  <2> QED
    BY <1>3, <2>1, <2>2 DEF RetryInsert
<1>4. CASE UNCHANGED jobs
  BY <1>4
<1>5. Same \/ New
  BY <1>1, <1>2, <1>3, <1>4
  DEF DeleteFailedJob, Close, RetrySelect, RetryRemove, RetryCrash, vars, tables
<1> QED
  BY <1>5 DEF RowCounts

LEMMA StepCounting == TypeOK /\ Ownership /\ Counting /\ [Next]_vars => Counting'
<1> SUFFICES ASSUME TypeOK, Ownership, Counting, [Next]_vars PROVE Counting'
    OBVIOUS
<1>i. 0 \notin Ids
  BY DEF Ids
<1>c. /\ \A i \in Ids : RowCounts(jobs[i])
      /\ \A w \in Workers : WorkerCounts(worker[w], jobs[worker[w].row])
  BY CountingIs
<1>w. \A w \in Workers : /\ worker[w].row \in Ids \cup {0}
                         /\ worker[w].row = 0 <=> worker[w].pc \in {"idle", "down"}
                         /\ \A v \in Workers :
                              w # v /\ worker[w].row # 0 => worker[w].row # worker[v].row
  BY DEF Ownership, TypeOK, RowsExist, OneWorkerPerRow
<1>1. ASSUME NEW w \in Workers, OwnRowOnly(w),
             Reserve(w) \/ ReserveErrs(w) \/ HandleSucceeds(w) \/ HandleFails(w) \/ Release(w)
               \/ Bury(w) \/ DeleteJob(w) \/ Return(w) \/ Crash(w) \/ Restart(w)
      PROVE Counting'
  <2>1. worker[w].row # 0 =>
          RowCounts(jobs'[worker[w].row]) /\ WorkerCounts(worker'[w], jobs'[worker[w].row])
    BY <1>1, OwnCounts
  <2>2. ASSUME NEW k \in Ids PROVE RowCounts(jobs'[k])
    BY <1>1, <1>c, <1>i, <2>1 DEF OwnRowOnly
  <2>3. ASSUME NEW v \in Workers PROVE WorkerCounts(worker'[v], jobs'[worker'[v].row])
    <3>1. CASE v = w
      BY <1>1, <2>1, <3>1 DEF OwnRowOnly, WorkerCounts
    <3>2. CASE v # w /\ worker[v].row # 0
      BY <1>1, <1>c, <1>w, <3>2 DEF OwnRowOnly
    <3>3. CASE v # w /\ worker[v].row = 0
      BY <1>1, <1>w, <3>3 DEF OwnRowOnly, WorkerCounts
    <3> QED
      BY <3>1, <3>2, <3>3
  <2> QED
    BY <2>2, <2>3, CountingIs
<1>2. ASSUME ForeignRowsOnly, \A k \in Ids : RowCounts(jobs'[k]) PROVE Counting'
  <2>1. ASSUME NEW v \in Workers PROVE WorkerCounts(worker'[v], jobs'[worker'[v].row])
    <3>1. worker[v].row # 0 => jobs[worker[v].row].state \in {"ready", "reserved"}
      BY <1>w DEF Ownership, RowsExist, OneWorkerPerRow, SelectedRowsReady, TypeOK, WorkerPCs
    <3>2. CASE worker[v].row # 0
      BY <1>2, <1>c, <1>w, <3>1, <3>2 DEF ForeignRowsOnly
    <3>3. CASE worker[v].row = 0
      BY <1>2, <1>w, <3>3 DEF ForeignRowsOnly, WorkerCounts
    <3> QED
      BY <3>2, <3>3
  <2> QED
    BY <1>2, <2>1, CountingIs
<1>3. ASSUME NEW w \in Workers, NEW i \in Ids, SelectForUpdate(w, i) PROVE Counting'
  <2>1. /\ UNCHANGED jobs
        /\ worker' = [worker EXCEPT ![w] =
                        [pc |-> "selected", row |-> i, attempts |-> jobs[i].attempts]]
    BY <1>3 DEF SelectForUpdate, Take, tables
  <2>2. /\ \A v \in Workers : v # w => worker'[v] = worker[v]
        /\ worker'[w] = [pc |-> "selected", row |-> i, attempts |-> jobs[i].attempts]
    BY <2>1 DEF TypeOK
  <2>3. WorkerCounts(worker'[w], jobs'[worker'[w].row])
    BY <2>1, <2>2 DEF WorkerCounts
  <2>4. \A v \in Workers : WorkerCounts(worker'[v], jobs'[worker'[v].row])
    BY <1>c, <2>1, <2>2, <2>3
  <2> QED
    BY <1>c, <2>1, <2>4, CountingIs
<1> QED
  BY NextCases, OwnRowSteps, ForeignSteps, ForeignCounts, <1>c, <1>1, <1>2, <1>3 DEF Ownership

\* A row, or a failed row, that keeps job j.
RowKeeps(i, j) ==
  /\ jobs[i].job = j /\ jobs[i].state \in {"delayed", "ready", "reserved"}
  /\ \A w \in Workers : ~(worker[w].pc = "deleting" /\ worker[w].row = i)
FailureKeeps(i, j) ==
  /\ failed[i].job = j /\ failed[i].state = "listed"
  /\ \A c \in Clients : ~(client[c].pc = "removing" /\ client[c].id = i)
Kept(j) ==
  \/ completed[j] > 0 \/ j \in dismissed
  \/ \E i \in Ids : RowKeeps(i, j) \/ FailureKeeps(i, j)

LEMMA KeptIs ==
  /\ KeptSomewhere <=> (faults = 0 => \A j \in accepted : Kept(j))
  /\ KeptSomewhere' <=> (faults' = 0 => \A j \in accepted' : Kept(j)')
BY DEF KeptSomewhere, Kept, RowKeeps, FailureKeeps, HasKeptRow, HasKeptFailure, Rows, Listed

\* A job that is inserted is kept by its new row.
LEMMA InsertKeeps ==
  ASSUME TypeOK, RowsExist, NEW j \in Jobs, NEW state \in {"delayed", "ready"},
         InsertJob(j, state), UNCHANGED worker
  PROVE Kept(j)'
<1>0. state \in RowStates
  BY DEF RowStates
<1>1. PICK i \in Ids : /\ jobs[i].state = "unused"
                       /\ jobs'[i] = [job |-> j, attempts |-> 0, state |-> state]
  BY <1>0, InsertJobEffect
<1>2. \A w \in Workers : worker[w].row # i
  BY <1>1 DEF RowsExist, Ids
<1>3. RowKeeps(i, j)'
  BY <1>1, <1>2 DEF RowKeeps
<1> QED
  BY <1>3 DEF Kept

\* What was settled stays settled, and no statement has failed before one fails.
LEMMA Monotone ==
  ASSUME TypeOK, RowsExist, [Next]_vars
  PROVE /\ \A j \in Jobs : completed'[j] >= completed[j]
        /\ dismissed \subseteq dismissed' /\ accepted \subseteq accepted'
        /\ retried \subseteq retried'
        /\ faults' = 0 => faults = 0
<1> DEFINE G == /\ \A j \in Jobs : completed'[j] >= completed[j]
                /\ dismissed \subseteq dismissed' /\ accepted \subseteq accepted'
                /\ retried \subseteq retried'
                /\ faults' = 0 => faults = 0
<1>t. /\ \A j \in Jobs : completed[j] \in Nat
      /\ completed \in [Jobs -> Nat] /\ faults \in Nat
      /\ \A w \in Workers : worker[w].pc \notin {"idle", "down"} => jobs[worker[w].row].job \in Jobs
  BY Fields, DatabaseQueueAssumption DEF TypeOK, DatabaseQueueAssumption
<1>1. ASSUME NEW w \in Workers, HandleSucceeds(w) PROVE G
  BY <1>1, <1>t DEF HandleSucceeds
<1>2. ASSUME completed' = completed, dismissed \subseteq dismissed', accepted \subseteq accepted',
             retried \subseteq retried', faults' = faults \/ faults' = faults + 1
      PROVE G
  BY <1>2, <1>t
<1> HIDE DEF G
<1>3. ASSUME NEW w \in Workers,
             \/ \E i \in Ids : SelectForUpdate(w, i)
             \/ Reserve(w) \/ ReserveErrs(w) \/ HandleFails(w) \/ Release(w) \/ Bury(w)
             \/ DeleteJob(w) \/ Close(w) \/ Return(w) \/ Crash(w) \/ Restart(w)
      PROVE G
  BY <1>2, <1>3
  DEF SelectForUpdate, Take, Reserve, ReserveErrs, HandleFails, Release, Bury, DeleteJob, Close,
      Return, Crash, Restart, ledger, Fault
<1>4. ASSUME NEW c \in Clients,
             \/ \E i \in Ids : RetrySelect(c, i)
             \/ RetryInsert(c) \/ RetryRemove(c) \/ RetryCrash(c)
      PROVE G
  BY <1>2, <1>4 DEF RetrySelect, RetryInsert, RetryRemove, RetryCrash, ledger, Fault
<1>5. G
  BY NextCases, <1>1, <1>2, <1>3, <1>4 DEF Push, BecomesDue, DeleteFailedJob, vars, ledger
<1> QED
  BY <1>5 DEF G

\* A job kept by a row stays kept.
LEMMA RowKept ==
  ASSUME TypeOK, Ownership, [Next]_vars, faults' = 0,
         NEW i \in Ids, NEW j \in Jobs, RowKeeps(i, j)
  PROVE Kept(j)'
<1>t. /\ jobs \in [Ids -> [job : Jobs, attempts : Nat, state : RowStates]]
      /\ worker \in [Workers -> [pc : WorkerPCs, row : Ids \cup {0}, attempts : Nat]]
      /\ faults \in Nat /\ completed \in [Jobs -> Nat]
      /\ \A w \in Workers : worker[w].pc \notin {"idle", "down"} => worker[w].row \in Ids
  BY Fields, DatabaseQueueAssumption DEF TypeOK, Ownership, DatabaseQueueAssumption
<1>k. /\ jobs[i].job = j /\ jobs[i].state \in {"delayed", "ready", "reserved"}
      /\ \A w \in Workers : ~(worker[w].pc = "deleting" /\ worker[w].row = i)
  BY DEF RowKeeps
<1>s. RowKeeps(i, j)' => Kept(j)'
  BY DEF Kept
<1>1. CASE ForeignRowsOnly
  BY <1>1, <1>k, <1>s DEF ForeignRowsOnly, RowKeeps
<1>2. ASSUME NEW w \in Workers, NEW n \in Ids, SelectForUpdate(w, n) PROVE Kept(j)'
  BY <1>2, <1>k, <1>s, <1>t DEF SelectForUpdate, Take, RowKeeps, tables
<1>3. ASSUME NEW w \in Workers, Reserve(w) PROVE Kept(j)'
  <2>1. CASE worker[w].row = i /\ jobs[i].job \notin Registered
    BY <1>3, <1>k, <2>1 DEF Reserve, Kept
  <2>2. CASE worker[w].row # i \/ jobs[i].job \in Registered
    BY <1>3, <1>k, <1>s, <1>t, <2>2 DEF Reserve, RowKeeps
  <2> QED
    BY <2>1, <2>2
<1>4. ASSUME NEW w \in Workers, HandleSucceeds(w) PROVE Kept(j)'
  <2>1. CASE worker[w].row = i
    BY <1>4, <1>k, <1>t, <2>1 DEF HandleSucceeds, Kept
  <2>2. CASE worker[w].row # i
    BY <1>4, <1>k, <1>s, <1>t, <2>2 DEF HandleSucceeds, RowKeeps, tables
  <2> QED
    BY <2>1, <2>2
<1>5. ASSUME NEW w \in Workers, HandleFails(w) PROVE Kept(j)'
  BY <1>5, <1>k, <1>s, <1>t DEF HandleFails, RowKeeps, tables
<1>6. ASSUME NEW w \in Workers, Release(w) PROVE Kept(j)'
  BY <1>6, <1>k, <1>s, <1>t DEF Release, RowKeeps, AtRest, Fault
<1>7. ASSUME NEW w \in Workers, Bury(w) PROVE Kept(j)'
  <2>1. CASE worker[w].row = i
    <3>1. InsertFailed(j) /\ UNCHANGED client
      BY <1>7, <1>k, <1>t, <2>1 DEF Bury, Fault
    <3>2. PICK n \in Ids : /\ failed[n].state = "unused"
                           /\ failed'[n] = [job |-> j, state |-> "listed"]
      BY <3>1, InsertFailedEffect
    <3>3. \A c \in Clients : ~(client[c].pc = "removing" /\ client[c].id = n)
      BY <3>2 DEF Ownership, RowsExist
    <3>4. FailureKeeps(n, j)'
      BY <3>1, <3>2, <3>3 DEF FailureKeeps
    <3> QED
      BY <3>4 DEF Kept
  <2>2. CASE worker[w].row # i
    BY <1>7, <1>k, <1>s, <1>t, <2>2 DEF Bury, RowKeeps
  <2> QED
    BY <2>1, <2>2
<1>8. ASSUME NEW w \in Workers, DeleteJob(w) PROVE Kept(j)'
  BY <1>8, <1>k, <1>s, <1>t DEF DeleteJob, RowKeeps, AtRest, Fault
<1>9. ASSUME NEW w \in Workers, Return(w) \/ Crash(w) \/ Restart(w) PROVE Kept(j)'
  BY <1>9, <1>k, <1>s, <1>t DEF Return, Crash, Restart, RowKeeps, AtRest, tables
<1>10. ASSUME NEW w \in Workers, ReserveErrs(w) PROVE Kept(j)'
  BY <1>10, <1>t DEF ReserveErrs, Fault
<1> QED
  BY NextCases, ForeignSteps, <1>1, <1>2, <1>3, <1>4, <1>5, <1>6, <1>7, <1>8, <1>9, <1>10
  DEF Ownership

\* A job kept by a failed row stays kept: RetryJob inserts its row before it deletes the
\* failed one.
LEMMA FailureKept ==
  ASSUME TypeOK, Ownership, [Next]_vars, faults' = 0,
         NEW i \in Ids, NEW j \in Jobs, FailureKeeps(i, j)
  PROVE Kept(j)'
<1>t. /\ failed \in [Ids -> [job : Jobs, state : FailedStates]]
      /\ client \in [Clients -> [pc : {"idle", "inserting", "removing"}, id : Ids \cup {0}]]
      /\ faults \in Nat
      /\ \A c \in Clients : client[c].pc # "idle" => client[c].id \in Ids
      /\ \A w \in Workers : worker[w].pc = "burying" => jobs[worker[w].row].job \in Jobs
  BY SMTT(30), Fields, DatabaseQueueAssumption DEF TypeOK, Ownership, DatabaseQueueAssumption
<1>k. /\ failed[i].job = j /\ failed[i].state = "listed"
      /\ \A c \in Clients : ~(client[c].pc = "removing" /\ client[c].id = i)
  BY DEF FailureKeeps
<1>s. FailureKeeps(i, j)' => Kept(j)'
  BY DEF Kept
<1>1. CASE UNCHANGED <<failed, client>>
  BY <1>1, <1>k, <1>s DEF FailureKeeps
<1>2. ASSUME NEW n \in Ids, DeleteFailedJob(n) PROVE Kept(j)'
  <2>1. CASE n = i
    BY <1>2, <1>k, <2>1 DEF DeleteFailedJob, Kept
  <2>2. CASE n # i
    BY <1>2, <1>k, <1>s, <1>t, <2>2 DEF DeleteFailedJob, FailureKeeps
  <2> QED
    BY <2>1, <2>2
<1>3. ASSUME NEW w \in Workers, Bury(w) PROVE Kept(j)'
  <2>1. /\ InsertFailed(jobs[worker[w].row].job) /\ jobs[worker[w].row].job \in Jobs
        /\ UNCHANGED client
    BY <1>3, <1>t DEF Bury, Fault
  <2>2. failed'[i] = failed[i]
    BY <1>k, <2>1, InsertFailedEffect
  <2> QED
    BY <1>k, <1>s, <2>1, <2>2 DEF FailureKeeps
<1>4. ASSUME NEW c \in Clients, NEW n \in Ids, RetrySelect(c, n) PROVE Kept(j)'
  BY <1>4, <1>k, <1>s, <1>t DEF RetrySelect, FailureKeeps, tables
<1>5. ASSUME NEW c \in Clients, RetryInsert(c) PROVE Kept(j)'
  <2>0. InsertJob(failed[client[c].id].job, "ready") /\ UNCHANGED <<failed, worker>>
    BY <1>5, <1>t DEF RetryInsert, Fault
  <2>1. CASE client[c].id = i
    BY <1>k, <2>0, <2>1, InsertKeeps DEF Ownership
  <2>2. CASE client[c].id # i
    BY <1>5, <1>k, <1>s, <1>t, <2>2 DEF RetryInsert, FailureKeeps, NoCall
  <2> QED
    BY <2>1, <2>2
<1>6. ASSUME NEW c \in Clients, RetryRemove(c) PROVE Kept(j)'
  BY <1>6, <1>k, <1>s, <1>t DEF RetryRemove, FailureKeeps, NoCall, Fault
<1>7. ASSUME NEW c \in Clients, RetryCrash(c) PROVE Kept(j)'
  BY <1>7, <1>k, <1>s, <1>t DEF RetryCrash, FailureKeeps, NoCall, tables
<1> QED
  BY NextCases, <1>1, <1>2, <1>3, <1>4, <1>5, <1>6, <1>7
  DEF Push, BecomesDue, SelectForUpdate, Take, Reserve, ReserveErrs, HandleSucceeds, HandleFails,
      Release, DeleteJob, Close, Return, Crash, Restart, vars, tables

\* An accepted job is kept until it has come to an end.
LEMMA StepKept == TypeOK /\ Ownership /\ KeptSomewhere /\ [Next]_vars => KeptSomewhere'
<1> SUFFICES ASSUME TypeOK, Ownership, KeptSomewhere, [Next]_vars, faults' = 0,
                    NEW j \in accepted'
             PROVE Kept(j)'
    BY KeptIs
<1>0. accepted' \subseteq Jobs
  BY StepTypeOK DEF TypeOK, Ownership
<1>m. /\ completed'[j] >= completed[j] /\ completed[j] \in Nat /\ completed'[j] \in Nat
      /\ dismissed \subseteq dismissed' /\ faults = 0
  BY <1>0, StepTypeOK, Monotone DEF Ownership, TypeOK
<1>1. CASE j \in accepted
  <2>1. Kept(j)
    BY <1>1, <1>m, KeptIs
  <2>2. CASE completed[j] > 0 \/ j \in dismissed
    BY <1>m, <2>2 DEF Kept
  <2>3. ASSUME NEW i \in Ids, RowKeeps(i, j) PROVE Kept(j)'
    BY <1>0, <2>3, RowKept
  <2>4. ASSUME NEW i \in Ids, FailureKeeps(i, j) PROVE Kept(j)'
    BY <1>0, <2>4, FailureKept
  <2> QED
    BY <2>1, <2>2, <2>3, <2>4 DEF Kept
<1>2. ASSUME NEW k \in Jobs, Push(k), j \notin accepted PROVE Kept(j)'
  <2>1. j = k /\ UNCHANGED worker
    BY <1>2 DEF Push
  <2>2. PICK st \in {"delayed", "ready"} : InsertJob(k, st)
    BY <1>2 DEF Push
  <2> QED
    BY <2>1, <2>2, InsertKeeps DEF Ownership
<1>3. CASE UNCHANGED accepted
  BY <1>1, <1>3
<1> QED
  BY NextCases, <1>1, <1>2, <1>3
  DEF BecomesDue, DeleteFailedJob, SelectForUpdate, Take, Reserve, ReserveErrs, HandleSucceeds,
      HandleFails, Release, Bury, DeleteJob, Close, Return, Crash, Restart, RetrySelect,
      RetryInsert, RetryRemove, RetryCrash, vars, ledger

\* OneRow for one job, row by row.
RowOf(i, j) == jobs[i].job = j /\ jobs[i].state # "unused"
FailedOf(i, j) == failed[i].job = j /\ failed[i].state # "unused"
Over(j) == completed[j] > 0 \/ \E i \in Ids : FailedOf(i, j)
OneRowOf(j) ==
  /\ j \notin accepted => \A i \in Ids : ~RowOf(i, j)
  /\ \A i, k \in Ids : RowOf(i, j) /\ RowOf(k, j) => i = k
  /\ completed[j] <= 1
  /\ completed[j] > 0 => \A i \in Ids : ~FailedOf(i, j)
  /\ Over(j) => /\ \E i \in Ids : RowOf(i, j)
                /\ \A i \in Ids : RowOf(i, j) =>
                     /\ jobs[i].state \in {"reserved", "deleted"}
                     /\ \A w \in Workers : worker[w].row = i => worker[w].pc = "deleting"

LEMMA OneRowIs ==
  /\ OneRow <=> \A j \in Jobs \ retried : OneRowOf(j)
  /\ OneRow' <=> \A j \in Jobs \ retried' : OneRowOf(j)'
<1>1. ASSUME NEW j
      PROVE /\ InUse(j) = {i \in Ids : RowOf(i, j)} /\ InUse(j)' = {i \in Ids : RowOf(i, j)'}
            /\ FailedBefore(j) = {i \in Ids : FailedOf(i, j)}
            /\ FailedBefore(j)' = {i \in Ids : FailedOf(i, j)'}
  BY DEF InUse, FailedBefore, RowOf, FailedOf
<1>2. ASSUME NEW j
      PROVE /\ InUse(j) = {} <=> \A i \in Ids : ~RowOf(i, j)
            /\ InUse(j)' = {} <=> \A i \in Ids : ~RowOf(i, j)'
            /\ FailedBefore(j) = {} <=> \A i \in Ids : ~FailedOf(i, j)
            /\ FailedBefore(j)' = {} <=> \A i \in Ids : ~FailedOf(i, j)'
            /\ \A i : i \in InUse(j) <=> i \in Ids /\ RowOf(i, j)
            /\ \A i : i \in InUse(j)' <=> i \in Ids /\ RowOf(i, j)'
  BY <1>1
<1>3. OneRow <=> \A j \in Jobs \ retried : OneRowOf(j)
  BY <1>2 DEF OneRow, OneRowOf, Over
<1>4. OneRow' <=> \A j \in Jobs \ retried' : OneRowOf(j)'
  BY <1>2 DEF OneRow, OneRowOf, Over
<1> QED
  BY <1>3, <1>4

\* Steps that leave job j's rows, failed rows, completions and their workers alone.
LEMMA OneRowKept ==
  ASSUME NEW j \in Jobs, OneRowOf(j), accepted \subseteq accepted',
         completed'[j] = completed[j],
         \A i \in Ids : /\ RowOf(i, j)' <=> RowOf(i, j)
                        /\ FailedOf(i, j)' <=> FailedOf(i, j),
         \A i \in Ids : RowOf(i, j) /\ Over(j) =>
           /\ jobs'[i].state \in {"reserved", "deleted"}
           /\ \A w \in Workers : worker'[w].row = i => worker'[w].pc = "deleting"
  PROVE OneRowOf(j)'
<1>1. Over(j)' <=> Over(j)
  BY DEF Over
<1> QED
  BY <1>1 DEF OneRowOf

\* Inserting a row for another job leaves job j's rows as they are.
LEMMA OtherJobsRow ==
  ASSUME TypeOK, NEW k \in Jobs, NEW state \in RowStates \ {"unused"}, InsertJob(k, state),
         NEW j \in Jobs, j # k
  PROVE \A i \in Ids : /\ RowOf(i, j)' <=> RowOf(i, j)
                       /\ RowOf(i, j) => jobs'[i] = jobs[i]
<1>1. PICK n \in Ids : /\ jobs[n].state = "unused"
                       /\ jobs'[n] = [job |-> k, attempts |-> 0, state |-> state]
                       /\ \A i \in Ids : i # n => jobs'[i] = jobs[i]
  BY InsertJobEffect
<1>2. ~RowOf(n, j) /\ ~RowOf(n, j)'
  BY <1>1 DEF RowOf
<1> QED
  BY <1>1, <1>2 DEF RowOf

\* The first row of a job.
LEMMA FirstRow ==
  ASSUME TypeOK, Ownership, NEW j \in Jobs, OneRowOf(j), Push(j)
  PROVE OneRowOf(j)'
<1>1. PICK st \in {"ready", "delayed"} : InsertJob(j, st)
  BY DEF Push
<1>2. PICK n \in Ids : /\ jobs[n].state = "unused"
                       /\ jobs'[n] = [job |-> j, attempts |-> 0, state |-> st]
                       /\ \A i \in Ids : i # n => jobs'[i] = jobs[i]
  <2>1. st \in RowStates
    BY DEF RowStates
  <2> QED
    BY <1>1, <2>1, InsertJobEffect
<1>3. \A i \in Ids : ~RowOf(i, j)
  BY DEF Push, OneRowOf
<1>4. ~Over(j)
  BY <1>3 DEF OneRowOf
<1>5. UNCHANGED <<failed, completed>> /\ j \in accepted'
  BY DEF Push
<1>6. ~Over(j)'
  BY <1>4, <1>5 DEF Over, FailedOf
<1>7. \A i \in Ids : RowOf(i, j)' => i = n
  BY <1>2, <1>3 DEF RowOf
<1> QED
  BY <1>5, <1>6, <1>7 DEF OneRowOf, Over

\* The step of a worker that ends a job, with success or in failed_jobs, leaves it
\* deleting the job's only row.
LEMMA Ends ==
  ASSUME TypeOK, Ownership, NEW j \in Jobs, OneRowOf(j), NEW w \in Workers,
         HandleSucceeds(w) \/ Bury(w), jobs[worker[w].row].job = j
  PROVE OneRowOf(j)'
<1> DEFINE r == worker[w].row
<1>1. /\ worker[w].pc \in {"executing", "burying"} /\ r \in Ids
      /\ jobs[r].state = "reserved" /\ UNCHANGED <<jobs, accepted>>
  BY Fields DEF HandleSucceeds, Bury, Ownership, OneWorkerPerRow, tables, ledger
<1>2. RowOf(r, j) /\ \A i \in Ids : RowOf(i, j) => i = r
  BY <1>1 DEF RowOf, OneRowOf
<1>3. ~Over(j)
  BY <1>1, <1>2 DEF OneRowOf
<1>4. /\ worker'[w].pc = "deleting" /\ worker'[w].row = r
      /\ \A v \in Workers : v # w => worker'[v] = worker[v] /\ worker[v].row # r
  <2>1. worker' = [worker EXCEPT ![w].pc = "deleting"]
    BY <1>1 DEF HandleSucceeds, Bury
  <2>2. r # 0
    BY <1>1 DEF Ids
  <2> QED
    BY <2>1, <2>2 DEF TypeOK, Ownership, OneWorkerPerRow
<1>5. \A v \in Workers : worker'[v].row = r => worker'[v].pc = "deleting"
  BY <1>4
<1>6. \A i \in Ids : RowOf(i, j)' <=> i = r
  BY <1>1, <1>2 DEF RowOf
<1>7. completed[j] = 0 /\ \A i \in Ids : ~FailedOf(i, j)
  BY <1>3 DEF Over, TypeOK
<1>8. CASE HandleSucceeds(w)
  <2>1. completed'[j] = 1 /\ UNCHANGED failed
    BY <1>7, <1>8 DEF HandleSucceeds, TypeOK, tables
  <2>2. \A i \in Ids : ~FailedOf(i, j)'
    BY <1>7, <2>1 DEF FailedOf
  <2>3. j \in accepted
    BY <1>1, <1>2 DEF OneRowOf
  <2> QED
    BY <1>1, <1>5, <1>6, <2>1, <2>2, <2>3 DEF OneRowOf
<1>9. CASE Bury(w)
  <2>1. completed'[j] = 0
    BY <1>7, <1>9 DEF Bury, ledger
  <2>2. j \in accepted
    BY <1>1, <1>2 DEF OneRowOf
  <2> QED
    BY <1>1, <1>5, <1>6, <2>1, <2>2 DEF OneRowOf
<1> QED
  BY <1>8, <1>9

\* Where a job is over, its row's worker can only delete it or go down.
LEMMA OwnRowsOneRow ==
  ASSUME TypeOK, Ownership, [Next]_vars, NEW j \in Jobs, OneRowOf(j), NEW w \in Workers,
         Reserve(w) \/ ReserveErrs(w) \/ HandleFails(w) \/ Release(w) \/ DeleteJob(w)
           \/ Return(w) \/ Crash(w) \/ Restart(w)
  PROVE OneRowOf(j)'
<1> DEFINE r == worker[w].row
<1>1. OwnRowOnly(w) /\ UNCHANGED <<failed, completed, accepted>>
  BY OwnRowSteps DEF Ownership, Reserve, ReserveErrs, HandleFails, Release, DeleteJob, Return,
     Crash, Restart, tables, ledger
<1>2. r # 0 =>
        /\ r \in Ids /\ jobs[r].state # "unused"
        /\ jobs'[r].job = jobs[r].job /\ jobs'[r].state # "unused"
        /\ worker[w].pc = "deleting" =>
             /\ jobs[r].state = "reserved"
             /\ jobs'[r].state \in {"reserved", "deleted"} /\ worker'[w].row = 0
  <2>1. /\ worker[w].row # 0 => r \in Ids /\ jobs[r].state # "unused"
        /\ worker[w].pc = "deleting" => jobs[r].state = "reserved"
        /\ worker[w].pc \notin {"idle", "down"} => r \in Ids
        /\ jobs \in [Ids -> [job : Jobs, attempts : Nat, state : RowStates]]
        /\ worker \in [Workers -> [pc : WorkerPCs, row : Ids \cup {0}, attempts : Nat]]
    BY Fields DEF Ownership, RowsExist, OneWorkerPerRow, TypeOK
  <2> USE <2>1 DEF AtRest, tables
  <2>2. CASE Reserve(w)
    BY <2>2 DEF Reserve
  <2>3. CASE ReserveErrs(w)
    BY <2>3 DEF ReserveErrs
  <2>4. CASE HandleFails(w)
    BY <2>4 DEF HandleFails
  <2>5. CASE Release(w)
    BY <2>5 DEF Release
  <2>6. CASE DeleteJob(w)
    BY <2>6 DEF DeleteJob
  <2>7. CASE Return(w) \/ Crash(w) \/ Restart(w)
    BY <2>7 DEF Return, Crash, Restart
  <2> QED
    BY <2>2, <2>3, <2>4, <2>5, <2>6, <2>7
<1>3. \A i \in Ids : RowOf(i, j)' <=> RowOf(i, j)
  <2>1. 0 \notin Ids
    BY DEF Ids
  <2> QED
    BY <1>1, <1>2, <2>1 DEF OwnRowOnly, RowOf
<1>4. \A i \in Ids : FailedOf(i, j)' <=> FailedOf(i, j)
  BY <1>1 DEF FailedOf
<1>5. ASSUME NEW i \in Ids, RowOf(i, j), Over(j)
      PROVE /\ jobs'[i].state \in {"reserved", "deleted"}
            /\ \A v \in Workers : worker'[v].row = i => worker'[v].pc = "deleting"
  <2>1. /\ jobs[i].state \in {"reserved", "deleted"}
        /\ \A v \in Workers : worker[v].row = i => worker[v].pc = "deleting"
    BY <1>5 DEF OneRowOf
  <2>2. i # 0
    BY DEF Ids
  <2>3. CASE i = r
    BY <1>1, <1>2, <2>1, <2>2, <2>3 DEF OwnRowOnly
  <2>4. CASE i # r
    BY <1>1, <2>1, <2>2, <2>4 DEF OwnRowOnly
  <2> QED
    BY <2>3, <2>4
<1> QED
  BY <1>1, <1>3, <1>4, <1>5, OneRowKept

\* One row for each job nobody retries, and what RetryJob inserts is known as retried.
LEMMA StepOneRow ==
  TypeOK /\ Ownership /\ OneRow /\ RetriesAreKnown /\ [Next]_vars => OneRow'
<1> SUFFICES ASSUME TypeOK, Ownership, OneRow, RetriesAreKnown, [Next]_vars,
                    NEW j \in Jobs \ retried'
             PROVE OneRowOf(j)'
    BY OneRowIs
<1>j. j \in Jobs /\ j \notin retried /\ OneRowOf(j)
  BY OneRowIs, Monotone DEF Ownership
<1>a. accepted \subseteq accepted'
  BY Monotone DEF Ownership
<1>o. \A i \in Ids : RowOf(i, j) /\ Over(j) =>
        /\ jobs[i].state \in {"reserved", "deleted"}
        /\ \A w \in Workers : worker[w].row = i => worker[w].pc = "deleting"
  BY <1>j DEF OneRowOf
<1>1. ASSUME NEW k \in Jobs, Push(k) PROVE OneRowOf(j)'
  <2>1. CASE j = k
    BY <1>1, <1>j, <2>1, FirstRow
  <2>2. CASE j # k
    <3>1. PICK st \in {"ready", "delayed"} : InsertJob(k, st)
      BY <1>1 DEF Push
    <3>2. st \in RowStates \ {"unused"}
      BY DEF RowStates
    <3>3. \A i \in Ids : (RowOf(i, j)' <=> RowOf(i, j)) /\ (RowOf(i, j) => jobs'[i] = jobs[i])
      BY <1>j, <2>2, <3>1, <3>2, OtherJobsRow
    <3>4. UNCHANGED <<failed, worker, completed>>
      BY <1>1 DEF Push
    <3> QED
      BY <1>a, <1>j, <1>o, <3>3, <3>4, OneRowKept DEF FailedOf
  <2> QED
    BY <2>1, <2>2
<1>2. ASSUME NEW i \in Ids, BecomesDue(i) PROVE OneRowOf(j)'
  <2>1. /\ \A n \in Ids : jobs'[n].job = jobs[n].job /\ (n # i => jobs'[n] = jobs[n])
        /\ jobs[i].state = "delayed" /\ jobs'[i].state = "ready"
        /\ UNCHANGED <<failed, worker, completed>>
    BY <1>2 DEF BecomesDue, TypeOK, ledger
  <2>2. \A n \in Ids : RowOf(n, j)' <=> RowOf(n, j)
    BY <2>1 DEF RowOf
  <2> QED
    BY <1>a, <1>j, <1>o, <2>1, <2>2, OneRowKept DEF FailedOf
<1>3. ASSUME UNCHANGED <<jobs, worker, completed>>,
             \A i \in Ids : FailedOf(i, j)' <=> FailedOf(i, j)
      PROVE OneRowOf(j)'
  BY <1>3, <1>a, <1>j, <1>o, OneRowKept DEF RowOf
<1>4. ASSUME NEW i \in Ids, DeleteFailedJob(i) PROVE OneRowOf(j)'
  <2>1. \A n \in Ids : FailedOf(n, j)' <=> FailedOf(n, j)
    BY <1>4 DEF DeleteFailedJob, FailedOf, TypeOK
  <2> QED
    BY <1>3, <1>4, <2>1 DEF DeleteFailedJob
<1>5. ASSUME NEW w \in Workers, NEW n \in Ids, SelectForUpdate(w, n) PROVE OneRowOf(j)'
  <2>1. /\ jobs[n].state = "ready" /\ UNCHANGED <<jobs, failed, completed>>
        /\ \A v \in Workers : v # w => worker'[v] = worker[v]
        /\ worker'[w].row = n
    BY <1>5 DEF SelectForUpdate, First, Available, Take, TypeOK, tables, ledger
  <2>2. \A i \in Ids : RowOf(i, j) /\ Over(j) => i # n
    BY <1>o, <2>1
  <2> QED
    BY <1>a, <1>j, <1>o, <2>1, <2>2, OneRowKept DEF RowOf, FailedOf
<1>6. ASSUME NEW w \in Workers,
             Reserve(w) \/ ReserveErrs(w) \/ HandleFails(w) \/ Release(w) \/ DeleteJob(w)
               \/ Return(w) \/ Crash(w) \/ Restart(w)
      PROVE OneRowOf(j)'
  BY <1>6, <1>j, OwnRowsOneRow
<1>7. ASSUME NEW w \in Workers, HandleSucceeds(w) \/ Bury(w) PROVE OneRowOf(j)'
  <2> DEFINE r == worker[w].row
  <2>1. CASE jobs[r].job = j
    BY <1>7, <1>j, <2>1, Ends
  <2>2. CASE jobs[r].job # j
    <3>1. /\ r \in Ids /\ jobs[r].job \in Jobs /\ UNCHANGED jobs
          /\ worker[w].pc \in {"executing", "burying"}
          /\ worker' = [worker EXCEPT ![w].pc = "deleting"]
      BY <1>7, Fields DEF HandleSucceeds, Bury, Ownership, tables
    <3>2. completed'[j] = completed[j]
      BY <1>7, <1>j, <2>2 DEF HandleSucceeds, Bury, TypeOK, ledger
    <3>3. \A i \in Ids : FailedOf(i, j)' <=> FailedOf(i, j)
      <4>1. CASE UNCHANGED failed
        BY <4>1 DEF FailedOf
      <4>2. CASE InsertFailed(jobs[r].job)
        <5>1. PICK n \in Ids : /\ failed[n].state = "unused"
                               /\ failed'[n] = [job |-> jobs[r].job, state |-> "listed"]
                               /\ \A i \in Ids : i # n => failed'[i] = failed[i]
          BY <3>1, <4>2, InsertFailedEffect
        <5>2. ~FailedOf(n, j) /\ ~FailedOf(n, j)'
          BY <2>2, <5>1 DEF FailedOf
        <5> QED
          BY <5>1, <5>2 DEF FailedOf
      <4> QED
        BY <1>7, <4>1, <4>2 DEF HandleSucceeds, Bury, tables
    <3>4. \A i \in Ids : RowOf(i, j) /\ Over(j) =>
            \A v \in Workers : worker'[v].row = i => worker'[v].pc = "deleting"
      BY <1>o, <3>1 DEF TypeOK
    <3>5. \A i \in Ids : RowOf(i, j)' <=> RowOf(i, j)
      BY <3>1 DEF RowOf
    <3> QED
      BY <1>a, <1>j, <1>o, <3>1, <3>2, <3>3, <3>4, <3>5, OneRowKept
  <2> QED
    BY <2>1, <2>2
<1>8. ASSUME NEW c \in Clients, RetryInsert(c) PROVE OneRowOf(j)'
  <2>1. UNCHANGED <<failed, worker, completed>>
    BY <1>8 DEF RetryInsert, ledger
  <2>2. CASE UNCHANGED jobs
    BY <1>3, <2>1, <2>2 DEF FailedOf
  <2>3. CASE InsertJob(failed[client[c].id].job, "ready")
    <3>1. failed[client[c].id].job \in retried /\ failed[client[c].id].job \in Jobs
      BY <1>8, Fields DEF RetryInsert, RetriesAreKnown, Ownership
    <3>2. "ready" \in RowStates \ {"unused"}
      BY DEF RowStates
    <3>3. \A i \in Ids : (RowOf(i, j)' <=> RowOf(i, j)) /\ (RowOf(i, j) => jobs'[i] = jobs[i])
      BY <1>j, <2>3, <3>1, <3>2, OtherJobsRow
    <3> QED
      BY <1>a, <1>j, <1>o, <2>1, <3>3, OneRowKept DEF FailedOf
  <2> QED
    BY <1>8, <2>2, <2>3 DEF RetryInsert
<1>9. ASSUME NEW c \in Clients, RetryRemove(c) PROVE OneRowOf(j)'
  <2>1. client[c].id \in Ids /\ failed[client[c].id].state # "unused"
    BY <1>9, Fields DEF RetryRemove, Ownership, RowsExist
  <2>2. \A n \in Ids : FailedOf(n, j)' <=> FailedOf(n, j)
    BY <1>9, <2>1 DEF RetryRemove, FailedOf, TypeOK
  <2> QED
    BY <1>3, <1>9, <2>2 DEF RetryRemove, ledger
<1>10. CASE UNCHANGED <<tables, worker, completed>>
  BY <1>3, <1>10 DEF tables, FailedOf
<1> QED
  BY NextCases, <1>1, <1>2, <1>4, <1>5, <1>6, <1>7, <1>8, <1>9, <1>10
  DEF Close, RetrySelect, RetryCrash, vars, ledger, tables

\* A caller of RetryJob is counted among those its job was retried by.
LEMMA StepRetriesAreKnown ==
  TypeOK /\ Ownership /\ RetriesAreKnown /\ [Next]_vars => RetriesAreKnown'
<1> SUFFICES ASSUME TypeOK, Ownership, RetriesAreKnown, [Next]_vars,
                    NEW c \in Clients, client'[c].pc # "idle"
             PROVE failed'[client'[c].id].job \in retried'
    BY DEF RetriesAreKnown
<1>1. /\ client'[c].id \in Ids /\ failed[client'[c].id].state # "unused"
      /\ failed[client'[c].id].job \in retried'
  BY CallersRows, Monotone DEF RetriesAreKnown, Ownership
<1> QED
  BY <1>1, FailedRowsStay DEF Ownership

-----------------------------------------------------------------------------
(* The theorems *)

\* The empty tables satisfy the inductive invariant.
LEMMA InitIndInv == Init => IndInv
<1> SUFFICES ASSUME Init PROVE IndInv
    OBVIOUS
<1> USE DEF Init, AtRest, NoCall
<1>1. TypeOK
  <2>1. SomeJob \in Jobs
    BY DatabaseQueueAssumption DEF DatabaseQueueAssumption, SomeJob
  <2>2. jobs \in [Ids -> [job : Jobs, attempts : Nat, state : RowStates]]
    BY <2>1 DEF RowStates
  <2>3. failed \in [Ids -> [job : Jobs, state : FailedStates]]
    BY <2>1 DEF FailedStates
  <2>4. worker \in [Workers -> [pc : WorkerPCs, row : Ids \cup {0}, attempts : Nat]]
    BY DEF WorkerPCs
  <2>5. client \in [Clients -> [pc : {"idle", "inserting", "removing"}, id : Ids \cup {0}]]
    OBVIOUS
  <2>6. /\ stopping \subseteq Workers /\ accepted \subseteq Jobs /\ retried \subseteq Jobs
        /\ dismissed \subseteq Jobs /\ completed \in [Jobs -> Nat]
        /\ faults \in 0..MaxFaults /\ outages \in 0..MaxOutages
    BY DatabaseQueueAssumption DEF DatabaseQueueAssumption
  <2> QED
    BY <2>2, <2>3, <2>4, <2>5, <2>6 DEF TypeOK
<1>2. RowsExist /\ OneWorkerPerRow /\ SelectedRowsReady
  BY DEF RowsExist, OneWorkerPerRow, SelectedRowsReady
<1>3. AttemptsBounded
  BY DEF AttemptsBounded
<1>4. AttemptsCounted
  BY DEF AttemptsCounted
<1>5. KeptSomewhere /\ RetriesAreKnown
  BY DEF KeptSomewhere, RetriesAreKnown
<1>6. OneRow
  <2>1. \A j : \A i \in Ids : ~RowOf(i, j) /\ ~FailedOf(i, j)
    BY DEF RowOf, FailedOf
  <2>2. ASSUME NEW j \in Jobs PROVE OneRowOf(j)
    BY <2>1 DEF OneRowOf, Over
  <2> QED
    BY <2>2, OneRowIs
<1> QED
  BY <1>1, <1>2, <1>3, <1>4, <1>5, <1>6 DEF IndInv

LEMMA StepIndInv == IndInv /\ [Next]_vars => IndInv'
<1> SUFFICES ASSUME IndInv, [Next]_vars PROVE IndInv'
    OBVIOUS
<1>1. TypeOK /\ Ownership /\ Counting /\ KeptSomewhere /\ OneRow /\ RetriesAreKnown
  BY DEF IndInv, Ownership, Counting
<1>2. TypeOK' /\ Ownership' /\ Counting' /\ KeptSomewhere' /\ OneRow' /\ RetriesAreKnown'
  BY <1>1, StepTypeOK, StepOwnership, StepCounting, StepKept, StepOneRow, StepRetriesAreKnown
  DEF Ownership
<1> QED
  BY <1>2 DEF IndInv, Ownership, Counting

\* Every reachable state of the database queue satisfies the inductive invariant,
\* whatever its jobs, workers, clients and bounds.
THEOREM Invariance == Spec => []IndInv
BY InitIndInv, StepIndInv, PTL DEF Spec

\* Type correctness.
THEOREM TypeCorrect == Spec => []TypeOK
<1>1. IndInv => TypeOK
  BY DEF IndInv
<1> QED
  BY <1>1, Invariance, PTL

\* No two workers, in whatever processes, are at the same row.
THEOREM OneWorker == Spec => []OneWorkerPerRow
<1>1. IndInv => OneWorkerPerRow
  BY DEF IndInv
<1> QED
  BY <1>1, Invariance, PTL

\* No row is handled more often than its job allows.
THEOREM Attempts == Spec => []AttemptsBounded
<1>1. IndInv => AttemptsBounded
  BY DEF IndInv
<1> QED
  BY <1>1, Invariance, PTL

\* Crashes alone lose no job: a row that keeps a job is one that NeverLostByCrashing
\* asks for.
THEOREM NothingLost == Spec => []NeverLostByCrashing
<1>1. IndInv => NeverLostByCrashing
  BY DEF IndInv, KeptSomewhere, HasKeptRow, HasKeptFailure, NeverLostByCrashing
<1> QED
  BY <1>1, Invariance, PTL

\* A job nobody called RetryJob for succeeds once, and is not runnable after it has.
THEOREM SuccessFinal == Spec => []SuccessIsFinal
<1>1. IndInv => SuccessIsFinal
  <2> SUFFICES ASSUME IndInv, NEW j \in Jobs \ retried, completed[j] > 0
               PROVE /\ completed[j] = 1
                     /\ Rows(j, {"delayed", "ready"}) = {} /\ Listed(j) = {}
    BY DEF SuccessIsFinal
  <2>1. /\ completed[j] = 1 /\ FailedBefore(j) = {}
        /\ \A i \in InUse(j) : jobs[i].state \in {"reserved", "deleted"}
    BY DEF IndInv, TypeOK, OneRow
  <2>2. \A i \in Ids : ~(jobs[i].job = j /\ jobs[i].state \in {"delayed", "ready"})
    BY <2>1 DEF InUse
  <2>3. \A i \in Ids : ~(failed[i].job = j /\ failed[i].state = "listed")
    BY <2>1 DEF FailedBefore
  <2> QED
    BY <2>1, <2>2, <2>3 DEF Rows, Listed
<1> QED
  BY <1>1, Invariance, PTL
==============================================================================
