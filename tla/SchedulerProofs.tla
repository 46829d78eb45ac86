--------------------------- MODULE SchedulerProofs ---------------------------
(***************************************************************************)
(* Scheduler for any jobs, options and callers of Stop: its types, the     *)
(* mutual exclusion of WithoutOverlapping, and the finality of a Stop that *)
(* finds Run past its last go statement.                                   *)
(***************************************************************************)
EXTENDS Scheduler, TLAPS

\* The kinds of steps, in the order of the module.
LEMMA NextCases ==
  ASSUME [Next]_vars
  PROVE \/ Run \/ RunReturns \/ CancelParent
        \/ \E j \in Jobs : Register(j)
        \/ \E g \in Goroutines : \/ StartGoroutine(g) \/ TryRun(g) \/ TaskReturns(g)
                                 \/ TaskRegisters(g) \/ TaskRegistered(g) \/ LoopEnds(g)
        \/ \E s \in Stoppers : Stop(s) \/ StopReturns(s)
        \/ UNCHANGED vars
BY DEF Next, Goroutine

\* A goroutine is of a job, and is its tick loop or its boot goroutine.
LEMMA GoroutineParts ==
  ASSUME NEW g \in Goroutines
  PROVE /\ g[1] \in Jobs /\ g[2] \in {"loop", "boot"} /\ g = <<g[1], g[2]>>
        /\ AfterRun(g) \in {"ready", "done"}
BY DEF Goroutines, AfterRun

\* The steps keep the types.
LEMMA StepTypeOK == TypeOK /\ [Next]_vars => TypeOK'
<1> SUFFICES ASSUME TypeOK, [Next]_vars PROVE TypeOK'
    OBVIOUS
<1> USE DEF TypeOK
<1>1. CASE Run
  BY <1>1, SchedulerAssumption DEF Run, SchedulerAssumption, Goroutines
<1>2. CASE RunReturns
  BY <1>2 DEF RunReturns
<1>3. CASE CancelParent
  BY <1>3 DEF CancelParent
<1>4. ASSUME NEW j \in Jobs, Register(j) PROVE TypeOK'
  BY <1>4 DEF Register
<1>5. ASSUME NEW g \in Goroutines, StartGoroutine(g) PROVE TypeOK'
  BY <1>5 DEF StartGoroutine
<1>6. ASSUME NEW g \in Goroutines, TryRun(g) PROVE TypeOK'
  BY <1>6, GoroutineParts DEF TryRun
<1>7. ASSUME NEW g \in Goroutines, TaskReturns(g) PROVE TypeOK'
  BY <1>7, GoroutineParts DEF TaskReturns
<1>8. ASSUME NEW g \in Goroutines, TaskRegisters(g) PROVE TypeOK'
  BY <1>8 DEF TaskRegisters
<1>9. ASSUME NEW g \in Goroutines, TaskRegistered(g) PROVE TypeOK'
  BY <1>9 DEF TaskRegistered
<1>10. ASSUME NEW g \in Goroutines, LoopEnds(g) PROVE TypeOK'
  BY <1>10 DEF LoopEnds
<1>11. ASSUME NEW s \in Stoppers, Stop(s) PROVE TypeOK'
  BY <1>11, SchedulerAssumption DEF Stop, SchedulerAssumption, Done
<1>12. ASSUME NEW s \in Stoppers, StopReturns(s) PROVE TypeOK'
  BY <1>12, SchedulerAssumption DEF StopReturns, SchedulerAssumption
<1>13. CASE UNCHANGED vars
  BY <1>13 DEF vars
<1> QED
  BY NextCases, <1>1, <1>2, <1>3, <1>4, <1>5, <1>6, <1>7, <1>8, <1>9, <1>10, <1>11, <1>12, <1>13

\* A goroutine is started once, by Run.
LEMMA StepFreshGoroutines == TypeOK /\ FreshGoroutines /\ [Next]_vars => FreshGoroutines'
<1> SUFFICES ASSUME TypeOK, FreshGoroutines, [Next]_vars PROVE FreshGoroutines'
    OBVIOUS
<1> USE DEF FreshGoroutines, TypeOK
<1>1. CASE Run
  BY <1>1, SchedulerAssumption DEF Run, SchedulerAssumption, Goroutines
<1>2. ASSUME NEW g \in Goroutines, StartGoroutine(g) PROVE FreshGoroutines'
  BY <1>2 DEF StartGoroutine
<1>3. ASSUME NEW g \in Goroutines, pool[g] # "none", UNCHANGED <<run, toStart>>,
             \A h \in Goroutines : h # g => pool'[h] = pool[h]
      PROVE FreshGoroutines'
  BY <1>3
<1>4. ASSUME NEW g \in Goroutines, \/ TryRun(g) \/ TaskReturns(g) \/ TaskRegisters(g)
                                    \/ TaskRegistered(g) \/ LoopEnds(g)
      PROVE FreshGoroutines'
  BY <1>3, <1>4 DEF TryRun, TaskReturns, TaskRegisters, TaskRegistered, LoopEnds
<1>5. CASE UNCHANGED <<toStart, pool>> /\ (UNCHANGED run \/ RunReturns)
  BY <1>5 DEF RunReturns
<1> QED
  BY NextCases, <1>1, <1>2, <1>4, <1>5
  DEF RunReturns, CancelParent, Register, Stop, StopReturns, vars

\* The two goroutines of a job, one by one.
FlagFollows(j) ==
  /\ ~(Executing(<<j, "loop">>) /\ Executing(<<j, "boot">>))
  /\ j \in running <=> Executing(<<j, "loop">>) \/ Executing(<<j, "boot">>)

LEMMA OverlapByCases == OverlapPrevented <=> \A j \in WithoutOverlap : FlagFollows(j)
BY DEF OverlapPrevented, FlagFollows

\* A goroutine takes one step: what it executes before and after, and the flag
\* of its job, decide whether OverlapPrevented still holds.
LEMMA StepOverlapPrevented ==
  TypeOK /\ FreshGoroutines /\ OverlapPrevented /\ [Next]_vars => OverlapPrevented'
<1> SUFFICES ASSUME TypeOK, FreshGoroutines, OverlapPrevented, [Next]_vars PROVE OverlapPrevented'
    OBVIOUS
<1>a. \A j \in WithoutOverlap : <<j, "loop">> \in Goroutines /\ <<j, "boot">> \in Goroutines
  BY SchedulerAssumption DEF SchedulerAssumption, Goroutines
<1>b. \A j \in WithoutOverlap : FlagFollows(j)
  BY OverlapByCases
<1> SUFFICES (\A j \in WithoutOverlap : FlagFollows(j))'
  BY OverlapByCases, PTL
<1> DEFINE Follows == \A j \in WithoutOverlap : FlagFollows(j)'
<1>1. ASSUME NEW g \in Goroutines, UNCHANGED running,
             NEW p \in {"none", "ready", "running", "registering", "registered", "done"},
             pool' = [pool EXCEPT ![g] = p],
             Executing(g) <=> p \in {"running", "registering", "registered"}
      PROVE Follows
  BY <1>a, <1>b, <1>1 DEF FlagFollows, Executing, TypeOK
<1>2. ASSUME NEW g \in Goroutines, TryRun(g) PROVE Follows
  <2>1. CASE g[1] \in running
    <3>1. AfterRun(g) \in {"ready", "done"}
      BY GoroutineParts
    <3> QED
      BY <1>1, <1>2, <2>1, <3>1 DEF TryRun, Executing
  <2>2. CASE g[1] \notin running
    <3>1. /\ pool' = [pool EXCEPT ![g] = "running"]
          /\ running' = running \cup ({g[1]} \cap WithoutOverlap)
      BY <1>2, <2>2 DEF TryRun
    <3>2. \A h \in Goroutines : h # g => (Executing(h)' <=> Executing(h))
      BY <3>1 DEF Executing, TypeOK
    <3>3. Executing(g)'
      BY <3>1 DEF Executing, TypeOK
    <3>4. ASSUME NEW j \in WithoutOverlap, j # g[1]
          PROVE FlagFollows(j)'
      <4>1. g # <<j, "loop">> /\ g # <<j, "boot">>
        BY <3>4, GoroutineParts
      <4> QED
        BY <1>a, <3>1, <3>2, <3>4, <4>1, <1>b DEF FlagFollows
    <3>5. ASSUME NEW j \in WithoutOverlap, j = g[1]
          PROVE FlagFollows(j)'
      <4>1. ~Executing(<<j, "loop">>) /\ ~Executing(<<j, "boot">>)
        BY <2>2, <3>5, <1>b DEF FlagFollows
      <4>2. (g = <<j, "loop">> /\ g # <<j, "boot">>) \/ (g = <<j, "boot">> /\ g # <<j, "loop">>)
        BY <3>5, GoroutineParts
      <4> QED
        BY <1>a, <3>1, <3>2, <3>3, <3>5, <4>1, <4>2 DEF FlagFollows
    <3> QED
      BY <3>4, <3>5
  <2> QED
    BY <2>1, <2>2
<1>3. ASSUME NEW g \in Goroutines, TaskReturns(g) PROVE Follows
  <2>1. /\ pool' = [pool EXCEPT ![g] = AfterRun(g)] /\ running' = running \ {g[1]}
        /\ Executing(g) /\ AfterRun(g) \in {"ready", "done"}
    BY <1>3, GoroutineParts DEF TaskReturns, Executing
  <2>2. ~Executing(g)' /\ \A h \in Goroutines : h # g => (Executing(h)' <=> Executing(h))
    BY <2>1 DEF Executing, TypeOK
  <2>3. ASSUME NEW j \in WithoutOverlap, j # g[1]
        PROVE FlagFollows(j)'
    <3>1. g # <<j, "loop">> /\ g # <<j, "boot">>
      BY <2>3, GoroutineParts
    <3> QED
      BY <1>a, <2>1, <2>2, <2>3, <3>1, <1>b DEF FlagFollows
  <2>4. ASSUME NEW j \in WithoutOverlap, j = g[1]
        PROVE FlagFollows(j)'
    <3>1. (g = <<j, "loop">> /\ g # <<j, "boot">>) \/ (g = <<j, "boot">> /\ g # <<j, "loop">>)
      BY <2>4, GoroutineParts
    <3> QED
      BY <1>a, <2>1, <2>2, <2>4, <3>1, <1>b DEF FlagFollows
  <2> QED
    BY <2>3, <2>4
<1>4. ASSUME NEW g \in Goroutines,
             StartGoroutine(g) \/ TaskRegisters(g) \/ TaskRegistered(g) \/ LoopEnds(g)
      PROVE Follows
  BY <1>1, <1>4 DEF StartGoroutine, TaskRegisters, TaskRegistered, LoopEnds, Executing,
                    FreshGoroutines
<1>5. CASE UNCHANGED <<pool, running>>
  BY <1>b, <1>5 DEF FlagFollows, Executing
<1> QED
  BY NextCases, <1>2, <1>3, <1>4, <1>5
  DEF Run, RunReturns, CancelParent, Register, Stop, StopReturns, vars

\* A Stop that is covered waits for every goroutine there will ever be.
LEMMA StepCoveredStops ==
  TypeOK /\ FreshGoroutines /\ CoveredStops /\ [Next]_vars => CoveredStops'
<1> SUFFICES ASSUME TypeOK, FreshGoroutines, CoveredStops, [Next]_vars PROVE CoveredStops'
    OBVIOUS
<1> USE DEF CoveredStops
<1>1. ASSUME covered = {}, covered' = {} PROVE CoveredStops'
  BY <1>1
<1>2. CASE Run
  BY <1>1, <1>2 DEF Run
<1>3. ASSUME NEW g \in Goroutines, StartGoroutine(g) PROVE CoveredStops'
  BY <1>1, <1>3 DEF StartGoroutine
<1>4. ASSUME NEW g \in Goroutines, pool[g] \notin {"none", "done"},
             UNCHANGED <<run, toStart, stop, covered>>
      PROVE CoveredStops'
  BY <1>4 DEF AllDone
<1>5. ASSUME NEW g \in Goroutines, \/ TryRun(g) \/ TaskReturns(g) \/ TaskRegisters(g)
                                    \/ TaskRegistered(g) \/ LoopEnds(g)
      PROVE CoveredStops'
  BY <1>4, <1>5 DEF TryRun, TaskReturns, TaskRegisters, TaskRegistered, LoopEnds
<1>6. ASSUME NEW s \in Stoppers, Stop(s) PROVE CoveredStops'
  BY <1>6 DEF Stop, AllDone, TypeOK
<1>7. ASSUME NEW s \in Stoppers, StopReturns(s) PROVE CoveredStops'
  BY <1>7 DEF StopReturns, AllDone, TypeOK
<1>8. CASE UNCHANGED <<toStart, pool, stop, covered>> /\ (UNCHANGED run \/ RunReturns)
  BY <1>8 DEF RunReturns, AllDone
<1> QED
  BY NextCases, <1>2, <1>3, <1>5, <1>6, <1>7, <1>8 DEF RunReturns, CancelParent, Register, vars

LEMMA InitIndInv == Init => IndInv
BY SchedulerAssumption
DEF Init, IndInv, TypeOK, FreshGoroutines, OverlapPrevented, CoveredStops, Executing,
    SchedulerAssumption, Goroutines

\* What Scheduler.tla calls IndInv is an inductive invariant of the scheduler.
THEOREM Invariance == Spec => []IndInv
<1>1. IndInv /\ [Next]_vars => IndInv'
  BY StepTypeOK, StepFreshGoroutines, StepOverlapPrevented, StepCoveredStops DEF IndInv
<1> QED
  BY InitIndInv, <1>1, PTL DEF Spec

\* The types of Scheduler.tla, with s.mu held exactly by the Stop that waits.
THEOREM TypeCorrect == Spec => []TypeOK
<1>1. IndInv => TypeOK
  BY DEF IndInv
<1> QED
  BY Invariance, <1>1, PTL

\* runJob's tryRun with WithoutOverlapping: for any jobs and any schedule of their
\* goroutines, no job of those executes twice at a time, and its flag is up exactly
\* while it executes, so that no run is skipped for a flag left behind.
THEOREM NoOverlap == Spec => []OverlapPrevented
<1>1. IndInv => OverlapPrevented
  BY DEF IndInv
<1> QED
  BY Invariance, <1>1, PTL

\* Stop's wg.Wait: with any number of callers of Stop, once one that began after
\* Run's last go statement has returned, no Task executes and none is started.
THEOREM StopEndsEverything == Spec => []StopIsFinal
<1>1. IndInv => StopIsFinal
  BY DEF IndInv, StopIsFinal, CoveredStops, AllDone, Executing
<1> QED
  BY Invariance, <1>1, PTL
=============================================================================
