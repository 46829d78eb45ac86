------------------------------ MODULE Scheduler ------------------------------
(***************************************************************************)
(* framework/worker/schedule/scheduler.go: one Scheduler, one call of Run, *)
(* any number of calls of Stop, and jobs registered before and after.      *)
(*                                                                         *)
(* Run starts a goroutine for every job it copied, which waits in a select *)
(* for the next tick or for the context, and one more for a RunOnBoot job. *)
(* Whether a tick is due (interval, cron expression, time zone) is left    *)
(* open. Sections under s.mu are one step, but for Stop, which keeps s.mu  *)
(* while it waits for the WaitGroup.                                       *)
(***************************************************************************)
EXTENDS Naturals

CONSTANTS Jobs,            \* the jobs registered with Every and Cron
          WithoutOverlap,  \* those with WithoutOverlapping()
          OnBoot,          \* those with RunOnBoot()
          Registrars,      \* those whose Task calls Every or Cron itself
          Stoppers,        \* goroutines that call Stop
          NoOne            \* s.mu is free

ASSUME SchedulerAssumption ==
  /\ WithoutOverlap \subseteq Jobs /\ OnBoot \subseteq Jobs /\ Registrars \subseteq Jobs
  /\ NoOne \notin Stoppers

VARIABLES registered, \* s.jobs
          run,        \* where the caller of Run is
          toStart,    \* the goroutines Run has yet to start
          pool,       \* where each of those goroutines is
          running,    \* jobs whose running flag is 1
          parent,     \* the caller's context is cancelled
          cancelled,  \* s.cancel was called
          mu,         \* the Stop that holds s.mu, or NoOne
          stop,       \* where each caller of Stop is
          covered     \* Stops that began after Run had started every goroutine

vars == <<registered, run, toStart, pool, running, parent, cancelled, mu, stop, covered>>

Goroutines == Jobs \X {"loop", "boot"}

TypeOK ==
  /\ registered \subseteq Jobs
  /\ run \in {"idle", "started", "returned"}
  /\ toStart \subseteq Goroutines
  /\ pool \in [Goroutines -> {"none", "ready", "running", "registering", "registered", "done"}]
  /\ running \subseteq WithoutOverlap
  /\ parent \in BOOLEAN /\ cancelled \in BOOLEAN
  /\ mu \in Stoppers \cup {NoOne}
  /\ stop \in [Stoppers -> {"idle", "waiting", "returned"}]
  /\ covered \subseteq Stoppers
  /\ \A s \in Stoppers : stop[s] = "waiting" <=> mu = s

Init ==
  /\ registered = {} /\ run = "idle" /\ toStart = {}
  /\ pool = [g \in Goroutines |-> "none"]
  /\ running = {} /\ parent = FALSE /\ cancelled = FALSE
  /\ mu = NoOne /\ stop = [s \in Stoppers |-> "idle"] /\ covered = {}

\* s.ctx.Done() is closed.
Done == run # "idle" /\ (parent \/ cancelled)

\* The WaitGroup's counter is zero.
AllDone == \A g \in Goroutines : pool[g] \in {"none", "done"}

-----------------------------------------------------------------------------
(* Registering and running *)

\* Every and Cron, called outside of any task.
Register(j) ==
  /\ mu = NoOne /\ j \notin registered
  /\ registered' = registered \cup {j}
  /\ UNCHANGED <<run, toStart, pool, running, parent, cancelled, mu, stop, covered>>

\* The locked half of Run: the context, and the copy of s.jobs.
Run ==
  /\ run = "idle" /\ mu = NoOne
  /\ run' = "started"
  /\ toStart' = registered \X {"loop"} \cup (registered \cap OnBoot) \X {"boot"}
  /\ UNCHANGED <<registered, pool, running, parent, cancelled, mu, stop, covered>>

\* s.wg.Add(1) and the go statement.
StartGoroutine(g) ==
  /\ g \in toStart
  /\ toStart' = toStart \ {g}
  /\ pool' = [pool EXCEPT ![g] = "ready"]
  /\ UNCHANGED <<registered, run, running, parent, cancelled, mu, stop, covered>>

\* `<-s.ctx.Done(); s.wg.Wait()'
RunReturns ==
  /\ run = "started" /\ toStart = {} /\ Done /\ AllDone
  /\ run' = "returned"
  /\ UNCHANGED <<registered, toStart, pool, running, parent, cancelled, mu, stop, covered>>

-----------------------------------------------------------------------------
(* The goroutines: runJob, tryRun *)

\* Mutant of AfterRun: the boot goroutine enters the tick loop as well.
AfterRunTick(g) == "ready"

\* Where a goroutine goes after tryRun: back to its select, or to wg.Done.
AfterRun(g) == IF g[2] = "loop" THEN "ready" ELSE "done"

\* Mutant of TryRun: the flag is cleared on the way out of a skipped run too.
TryRunAlwaysClears(g) ==
  /\ pool[g] = "ready"
  /\ LET j == g[1]
     IN IF j \in running
        THEN /\ running' = running \ {j}
             /\ pool' = [pool EXCEPT ![g] = AfterRun(g)]
        ELSE /\ running' = running \cup ({j} \cap WithoutOverlap)
             /\ pool' = [pool EXCEPT ![g] = "running"]
  /\ UNCHANGED <<registered, run, toStart, parent, cancelled, mu, stop, covered>>

\* Mutant of TryRun: the flag is taken for every job.
TryRunTakesFlag(g) ==
  /\ pool[g] = "ready"
  /\ LET j == g[1]
     IN IF j \in running
        THEN /\ pool' = [pool EXCEPT ![g] = AfterRun(g)]
             /\ UNCHANGED running
        ELSE /\ running' = running \cup {j}
             /\ pool' = [pool EXCEPT ![g] = "running"]
  /\ UNCHANGED <<registered, run, toStart, parent, cancelled, mu, stop, covered>>

\* A tick, or the boot goroutine's start: the compare-and-swap decides.
TryRun(g) ==
  /\ pool[g] = "ready"
  /\ LET j == g[1]
     IN IF j \in running
        THEN /\ pool' = [pool EXCEPT ![g] = AfterRun(g)]
             /\ UNCHANGED running
        ELSE /\ running' = running \cup ({j} \cap WithoutOverlap)
             /\ pool' = [pool EXCEPT ![g] = "running"]
  /\ UNCHANGED <<registered, run, toStart, parent, cancelled, mu, stop, covered>>

\* The Task returns, with or without an error; the deferred store.
TaskReturns(g) ==
  /\ pool[g] \in {"running", "registered"}
  /\ pool' = [pool EXCEPT ![g] = AfterRun(g)]
  /\ running' = running \ {g[1]}
  /\ UNCHANGED <<registered, run, toStart, parent, cancelled, mu, stop, covered>>

\* The Task calls Every or Cron, at most once each time it runs, and stands at
\* s.mu.Lock().
TaskRegisters(g) ==
  /\ pool[g] = "running" /\ g[1] \in Registrars
  /\ pool' = [pool EXCEPT ![g] = "registering"]
  /\ UNCHANGED <<registered, run, toStart, running, parent, cancelled, mu, stop, covered>>

\* It has the lock; the job it adds is not in Run's copy.
TaskRegistered(g) ==
  /\ pool[g] = "registering" /\ mu = NoOne
  /\ \E j \in Jobs : registered' = registered \cup {j}
  /\ pool' = [pool EXCEPT ![g] = "registered"]
  /\ UNCHANGED <<run, toStart, running, parent, cancelled, mu, stop, covered>>

\* Mutant of LoopEnds: runJob is given the caller's context, not s.ctx.
LoopEndsOnParent(g) ==
  /\ g[2] = "loop" /\ pool[g] = "ready" /\ run # "idle" /\ parent
  /\ pool' = [pool EXCEPT ![g] = "done"]
  /\ UNCHANGED <<registered, run, toStart, running, parent, cancelled, mu, stop, covered>>

LoopEnds(g) ==
  /\ g[2] = "loop" /\ pool[g] = "ready" /\ Done
  /\ pool' = [pool EXCEPT ![g] = "done"]
  /\ UNCHANGED <<registered, run, toStart, running, parent, cancelled, mu, stop, covered>>

-----------------------------------------------------------------------------
(* Stopping *)

\* The caller of Run cancels its context.
CancelParent ==
  /\ ~parent
  /\ parent' = TRUE
  /\ UNCHANGED <<registered, run, toStart, pool, running, cancelled, mu, stop, covered>>

\* s.mu.Lock() and s.cancel(), which is nil before Run.
Stop(s) ==
  /\ stop[s] = "idle" /\ mu = NoOne
  /\ mu' = s
  /\ stop' = [stop EXCEPT ![s] = "waiting"]
  /\ cancelled' = (cancelled \/ run # "idle")
  /\ covered' = IF run # "idle" /\ toStart = {} THEN covered \cup {s} ELSE covered
  /\ UNCHANGED <<registered, run, toStart, pool, running, parent>>

\* Mutant of StopReturns: cancels and does not wait.
StopReturnsAtOnce(s) ==
  /\ stop[s] = "waiting"
  /\ stop' = [stop EXCEPT ![s] = "returned"]
  /\ mu' = NoOne
  /\ UNCHANGED <<registered, run, toStart, pool, running, parent, cancelled, covered>>

\* s.wg.Wait() and the deferred Unlock.
StopReturns(s) ==
  /\ stop[s] = "waiting" /\ AllDone
  /\ stop' = [stop EXCEPT ![s] = "returned"]
  /\ mu' = NoOne
  /\ UNCHANGED <<registered, run, toStart, pool, running, parent, cancelled, covered>>

-----------------------------------------------------------------------------
Goroutine(g) == TryRun(g) \/ TaskReturns(g) \/ TaskRegistered(g) \/ LoopEnds(g)

Next ==
  \/ Run \/ RunReturns \/ CancelParent
  \/ \E j \in Jobs : Register(j)
  \/ \E g \in Goroutines : StartGoroutine(g) \/ Goroutine(g) \/ TaskRegisters(g)
  \/ \E s \in Stoppers : Stop(s) \/ StopReturns(s)

Spec == Init /\ [][Next]_vars

\* Goroutines that can run do, and every Task returns; a select with both the
\* ticker and the context ready picks one at random, so it takes the context's
\* branch in the end. Stop is called once by each stopper, so s.mu is free in the end.
Fairness ==
  /\ WF_vars(RunReturns)
  /\ WF_vars(\E g \in Goroutines : StartGoroutine(g))
  /\ \A g \in Goroutines : WF_vars(Goroutine(g))
  /\ \A j \in Jobs : SF_vars(LoopEnds(<<j, "loop">>))
  /\ \A s \in Stoppers : WF_vars(StopReturns(s))

FairSpec == Spec /\ Fairness

-----------------------------------------------------------------------------
(* Properties *)

Executing(g) == pool[g] \in {"running", "registering", "registered"}

\* WithoutOverlapping: the tick loop and the boot goroutine of a job never execute
\* its Task at the same time, and the flag is up exactly while one of them does.
OverlapPrevented ==
  \A j \in WithoutOverlap :
    /\ ~(Executing(<<j, "loop">>) /\ Executing(<<j, "boot">>))
    /\ j \in running <=> \E g \in {j} \X {"loop", "boot"} : Executing(g)

\* A Stop that finds Run past its last go statement returns only when every
\* goroutine of the scheduler has ended, and none runs a Task ever after.
StopIsFinal ==
  (\E s \in covered : stop[s] = "returned") => \A g \in Goroutines : ~Executing(g) /\ g \notin toStart

\* What the two rest on: Run starts each goroutine once, after it was called, ...
FreshGoroutines ==
  /\ run = "idle" => toStart = {} /\ \A g \in Goroutines : pool[g] = "none"
  /\ \A g \in toStart : pool[g] = "none"

\* ... and once a covered Stop has returned none is left to start or to end.
CoveredStops ==
  /\ covered # {} => run # "idle" /\ toStart = {}
  /\ \A s \in covered : stop[s] # "idle" /\ (stop[s] = "returned" => AllDone)

IndInv == TypeOK /\ FreshGoroutines /\ OverlapPrevented /\ CoveredStops

\* A Task that calls Every or Cron waits for s.mu while Stop waits, with s.mu
\* held, for the Task.
Entangled(s) == mu = s /\ \E g \in Goroutines : pool[g] = "registering"

\* Stop returns, whatever ticks are due, unless a Task is registering a job.
StopReturnsUnlessEntangled ==
  \A s \in Stoppers : stop[s] = "waiting" ~> stop[s] = "returned" \/ Entangled(s)

\* Once the context is cancelled Run returns, unless some Stop is entangled.
RunReturnsUnlessEntangled ==
  Done ~> run = "returned" \/ \E s \in Stoppers : Entangled(s)

\* `Stop sends the cancellation signal to all jobs and waits for them to finish':
\* after a Stop that cancelled has returned, no Task is executing.
StopWaits ==
  cancelled /\ (\E s \in Stoppers : stop[s] = "returned") /\ mu = NoOne
    => \A g \in Goroutines : ~Executing(g)
==============================================================================
