----------------------------- MODULE Application -----------------------------
(* The application: its service container, and its life from the first provider to the last    *)
(* shutdown callback.                                                                            *)
EXTENDS Naturals, Sequences, FiniteSets, SequencesExt, Slices

-----------------------------------------------------------------------------
(* The service container: threads bind keys to singleton or transient factories  *)
(* and resolve them.  Resolve looks under the read lock first, and builds a       *)
(* singleton under the write lock; a factory may itself resolve other keys with   *)
(* the container it is given.  A critical section that calls nothing is one       *)
(* step; the factory of a singleton runs with the write lock held.                *)
CONSTANTS CKeys, CThreads,
          CNeeds,     \* the keys a factory resolves, for each key
          CBindBound  \* bound: BindSingleton and BindTransient calls

NoInstance == 0
NoThread == "none"
ASSUME ContainerAssumption ==
  CNeeds \in [CKeys -> Seq(CKeys)] /\ CBindBound \in Nat /\ NoThread \notin CThreads

VARIABLES cCache,      \* the built singleton of each key, or NoInstance
          cSingletons, \* keys with a singleton factory
          cTransients, \* keys with a transient factory
          cOwner,      \* the thread that holds the write lock, or NoThread
          cStack,      \* the calls each thread is in: Resolve and the factory it runs
          cEpoch,      \* how often each key was bound
          cBuilt       \* history: the epochs at which each key's singleton factory ran

cvars == <<cCache, cSingletons, cTransients, cOwner, cStack, cEpoch, cBuilt>>

CInit == /\ cCache = [k \in CKeys |-> NoInstance] /\ cSingletons = CKeys /\ cTransients = {}
         /\ cOwner = NoThread /\ cStack = [t \in CThreads |-> <<>>]
         /\ cEpoch = [k \in CKeys |-> 1] /\ cBuilt = [k \in CKeys |-> <<>>]

Free == cOwner = NoThread
Top(t) == Last(cStack[t])
Stands(t, key, pc) == cStack[t] # <<>> /\ Top(t).key = key /\ Top(t).pc = pc
Enters(t, key) == cStack' = [cStack EXCEPT ![t] = Append(@, [key |-> key, pc |-> "look", need |-> CNeeds[key]])]
GoesTo(t, pc) == cStack' = [cStack EXCEPT ![t][Len(cStack[t])].pc = pc]
(* The call of Resolve on top returns to the factory that made it, if any.        *)
Returns(t) == cStack' = [cStack EXCEPT ![t] = Front(@)]

Bind(t, key, single) ==
  /\ cStack[t] = <<>> /\ Free
  /\ cEpoch[key] <= CBindBound /\ cEpoch' = [cEpoch EXCEPT ![key] = @ + 1]
  /\ cCache' = [cCache EXCEPT ![key] = NoInstance]
  /\ cSingletons' = IF single THEN cSingletons \cup {key} ELSE cSingletons \ {key}
  /\ cTransients' = IF single THEN cTransients \ {key} ELSE cTransients \cup {key}
  /\ UNCHANGED <<cOwner, cStack, cBuilt>>

BindSingleton(t, key) == Bind(t, key, TRUE)
BindTransient(t, key) == Bind(t, key, FALSE)

CallResolve(t, key) == /\ cStack[t] = <<>> /\ Enters(t, key)
                       /\ UNCHANGED <<cCache, cSingletons, cTransients, cOwner, cEpoch, cBuilt>>

(* The read-locked look-up: the instance, or the transient factory, which runs     *)
(* with no lock held; otherwise on to the write lock.                              *)
Look(t, key) ==
  /\ Stands(t, key, "look") /\ Free
  /\ IF cCache[key] # NoInstance THEN Returns(t)
     ELSE GoesTo(t, IF key \in cTransients THEN "transient" ELSE "lock")
  /\ UNCHANGED <<cCache, cSingletons, cTransients, cOwner, cEpoch, cBuilt>>

(* The write lock is taken: look again, then start the singleton factory, or fail. *)
\* Mutant of Lock: no second look under the write lock.
LockUnchecked(t, key) ==
  /\ Stands(t, key, "lock") /\ Free /\ cOwner' = t /\ GoesTo(t, "singleton")
  /\ UNCHANGED <<cCache, cSingletons, cTransients, cEpoch, cBuilt>>
Lock(t, key) ==
  /\ Stands(t, key, "lock") /\ Free
  /\ IF cCache[key] = NoInstance /\ key \in cSingletons
     THEN cOwner' = t /\ GoesTo(t, "singleton")
     ELSE cOwner' = cOwner /\ Returns(t)
  /\ UNCHANGED <<cCache, cSingletons, cTransients, cEpoch, cBuilt>>

(* The factory resolves the next key it needs.                                      *)
Need(t, key) ==
  /\ Stands(t, key, "singleton") \/ Stands(t, key, "transient")
  /\ Top(t).need # <<>>
  /\ LET k == Head(Top(t).need)
         rest == [Top(t) EXCEPT !.need = Tail(Top(t).need)] IN
     cStack' = [cStack EXCEPT ![t] =
       Append([cStack[t] EXCEPT ![Len(cStack[t])] = rest],
              [key |-> k, pc |-> "look", need |-> CNeeds[k]])]
  /\ UNCHANGED <<cCache, cSingletons, cTransients, cOwner, cEpoch, cBuilt>>

(* The singleton factory returns: the instance is cached and the factory dropped.    *)
Built(t, key) ==
  /\ Stands(t, key, "singleton") /\ Top(t).need = <<>>
  /\ cCache' = [cCache EXCEPT ![key] = cEpoch[key]]
  /\ cSingletons' = cSingletons \ {key}
  /\ cBuilt' = [cBuilt EXCEPT ![key] = Append(@, cEpoch[key])]
  /\ cOwner' = NoThread /\ Returns(t)
  /\ UNCHANGED <<cTransients, cEpoch>>

TransientBuilt(t, key) ==
  /\ Stands(t, key, "transient") /\ Top(t).need = <<>> /\ Returns(t)
  /\ UNCHANGED <<cCache, cSingletons, cTransients, cOwner, cEpoch, cBuilt>>

Resolving(t, key) == \/ Look(t, key) \/ Lock(t, key) \/ Need(t, key)
                     \/ Built(t, key) \/ TransientBuilt(t, key)
CNext == \E t \in CThreads, key \in CKeys :
           \/ BindSingleton(t, key) \/ BindTransient(t, key) \/ CallResolve(t, key) \/ Resolving(t, key)

CSpec == CInit /\ [][CNext]_cvars

-----------------------------------------------------------------------------
Resolves == [key : CKeys, pc : {"look", "lock", "singleton", "transient"}, need : Seq(CKeys)]
CTypeOK == /\ cCache \in [CKeys -> Nat] /\ cSingletons \cup cTransients \subseteq CKeys
           /\ cOwner \in CThreads \cup {NoThread} /\ cStack \in [CThreads -> Seq(Resolves)]
           /\ cEpoch \in [CKeys -> 1 .. CBindBound + 1] /\ cBuilt \in [CKeys -> Seq(Nat)]

Has(key) == cCache[key] # NoInstance \/ key \in cSingletons \cup cTransients

(* Between two bindings of a key its singleton factory runs at most once, whatever  *)
(* threads resolve it at the same time; a key is never both kinds of binding, and    *)
(* a cached instance is one of the current binding.                                  *)
OneInstancePerBinding ==
  \A key \in CKeys :
    /\ \A m, n \in DOMAIN cBuilt[key] : m # n => cBuilt[key][m] # cBuilt[key][n]
    /\ key \notin cSingletons \cap cTransients /\ Has(key)
    /\ cCache[key] # NoInstance => cCache[key] = cEpoch[key] /\ key \notin cSingletons \cup cTransients

(* What it rests on: the write lock is held by the one thread that is in a singleton's  *)
(* factory, in one of its calls only, and the binding is still there; and the factory     *)
(* of the current binding has not run while the binding is there.                          *)
FactoryUnderLock ==
  \A t \in CThreads : \A n \in 1 .. Len(cStack[t]) :
    cStack[t][n].pc = "singleton" =>
      /\ cOwner = t /\ cStack[t][n].key \in cSingletons
      /\ \A m \in 1 .. Len(cStack[t]) : cStack[t][m].pc = "singleton" => m = n
BuiltBefore ==
  \A key \in CKeys : \A n \in 1 .. Len(cBuilt[key]) :
    /\ cBuilt[key][n] <= cEpoch[key]
    /\ key \in cSingletons => cBuilt[key][n] < cEpoch[key]

CIndInv == CTypeOK /\ FactoryUnderLock /\ BuiltBefore /\ OneInstancePerBinding

(* What the comment at container.go:103-105 says of factories: they can resolve      *)
(* other keys while they run.  A thread that runs a factory and has called Resolve   *)
(* does not wait for a lock that it holds itself.                                    *)
FactoriesMayResolve ==
  \A t \in CThreads : cOwner = t => cStack[t] # <<>> /\ Top(t).pc = "singleton"

-----------------------------------------------------------------------------
(* The life of a server process: providers are registered and booted in two       *)
(* passes (Application), then the kernel serves requests until the listener        *)
(* fails or a signal arrives, drains for at most ten seconds, runs the shutdown     *)
(* callbacks and closes the database.  A provider may register others from its own  *)
(* Register or Boot (LNested): while the loops of Boot run they are only appended    *)
(* (the loops range over the list as it was when they began); once booted, each is   *)
(* registered and booted inside the call that registers it.                          *)
CONSTANTS LProviders, LNested,  \* LNested[p]: the providers p registers, and when
          LCallbacks,           \* how many callbacks OnShutdown is given
          LRequests             \* requests, the reload page's among them
ASSUME LifecycleAssumption ==
  /\ LCallbacks \in Nat
  /\ LNested \in [LProviders -> [phase : {"none", "Register", "Boot"}, providers : Seq(LProviders)]]

VARIABLES lApp,     \* providers, isBooted, the loop Boot is in and what is left of it
          lCalls,   \* Register and Boot calls under way after boot, the innermost first
          lLog,     \* what providers did: "Join" a booted application, end Register, begin Boot
          lEarly,   \* providers registered before Boot was called
          lKernel,  \* the kernel's phase, callbacks run, the database, how Run returned
          lRequest  \* each request: "new", "open", "refused" or "done"

lvars == <<lApp, lCalls, lLog, lEarly, lKernel, lRequest>>

LInit ==
  /\ lApp = [providers |-> <<>>, isBooted |-> FALSE, loop |-> "none", left |-> <<>>]
  /\ lCalls = <<>> /\ lLog = <<>> /\ lEarly = {}
  /\ lKernel = [phase |-> "new", ran |-> <<>>, db |-> "open", timedOut |-> FALSE, result |-> "none"]
  /\ lRequest = [r \in LRequests |-> "new"]

Known(p) == Contains(lApp.providers, p)
Registers(p, phase) == IF LNested[p].phase = phase THEN LNested[p].providers ELSE <<>>
ServesNothing == lKernel.phase = "new"

(* RegisterProvider: once booted, p.Register is called; `rest' are the calls it is       *)
(* registered from.                                                                     *)
CallOf(p, call) == [provider |-> p, call |-> call, left |-> Registers(p, call)]
Join(p, rest) ==
  /\ lApp' = [lApp EXCEPT !.providers = Append(@, p)]
  /\ IF lApp.isBooted
     THEN /\ lCalls' = <<CallOf(p, "Register")>> \o rest
          /\ lLog' = Append(lLog, <<"Join", p>>) /\ lEarly' = lEarly
     ELSE lCalls' = rest /\ lLog' = lLog /\ lEarly' = lEarly \cup {p}

RegisterProvider(p) == /\ ~Known(p) /\ lApp.loop = "none" /\ lCalls = <<>>
                       /\ Join(p, <<>>) /\ UNCHANGED <<lKernel, lRequest>>

(* The innermost call registers its next provider.                                       *)
NestedRegister ==
  /\ lCalls # <<>> /\ Head(lCalls).left # <<>>
  /\ LET p == Head(Head(lCalls).left)
         rest == <<[Head(lCalls) EXCEPT !.left = Tail(@)]>> \o Tail(lCalls)
     IN IF Known(p) THEN lCalls' = rest /\ UNCHANGED <<lApp, lLog, lEarly>> ELSE Join(p, rest)
  /\ UNCHANGED <<lKernel, lRequest>>

(* The innermost call returns; RegisterProvider goes on from Register to Boot.            *)
CallReturns ==
  /\ lCalls # <<>> /\ Head(lCalls).left = <<>>
  /\ LET p == Head(lCalls).provider
     IN IF Head(lCalls).call = "Register"
        THEN /\ lCalls' = <<CallOf(p, "Boot")>> \o Tail(lCalls)
             /\ lLog' = lLog \o <<<<"Register", p>>, <<"Boot", p>>>>
        ELSE lCalls' = Tail(lCalls) /\ lLog' = lLog
  /\ UNCHANGED <<lApp, lEarly, lKernel, lRequest>>

BootStart == /\ ~lApp.isBooted /\ lApp.loop = "none"
             /\ lApp' = [lApp EXCEPT !.loop = "Register", !.left = lApp.providers]
             /\ UNCHANGED <<lCalls, lLog, lEarly, lKernel, lRequest>>

(* One provider of the loop under way; a provider it registers is only appended.      *)
\* Mutant of BootStep: each provider is registered and booted at once.
BootStepOnePass ==
  /\ lApp.loop # "none" /\ lApp.left # <<>>
  /\ lLog' = lLog \o <<<<"Register", Head(lApp.left)>>, <<"Boot", Head(lApp.left)>>>>
  /\ lApp' = [lApp EXCEPT !.left = Tail(@)]
  /\ UNCHANGED <<lCalls, lEarly, lKernel, lRequest>>
BootStep ==
  /\ lApp.loop # "none" /\ lApp.left # <<>>
  /\ LET p == Head(lApp.left)
         new == Keep(Registers(p, lApp.loop), {q \in LProviders : ~Known(q)})
     IN /\ lLog' = Append(lLog, <<lApp.loop, p>>)
        /\ lApp' = [lApp EXCEPT !.left = Tail(@), !.providers = @ \o new]
  /\ UNCHANGED <<lCalls, lEarly, lKernel, lRequest>>

BootLoopEnd ==
  /\ lApp.loop # "none" /\ lApp.left = <<>>
  /\ lApp' = IF lApp.loop = "Register"
             THEN [lApp EXCEPT !.loop = "Boot", !.left = lApp.providers]
             ELSE [lApp EXCEPT !.loop = "none", !.isBooted = TRUE]
  /\ UNCHANGED <<lCalls, lLog, lEarly, lKernel, lRequest>>

-----------------------------------------------------------------------------
KernelTo(k) == lKernel' = k /\ UNCHANGED <<lApp, lCalls, lLog, lEarly, lRequest>>
InFlight == {r \in LRequests : lRequest[r] = "open"}

Serve == ServesNothing /\ lApp.isBooted /\ KernelTo([lKernel EXCEPT !.phase = "serving"])

(* ListenAndServe failed: Run returns at once.                                         *)
ListenError == /\ lKernel.phase = "serving"
               /\ KernelTo([lKernel EXCEPT !.phase = "returned", !.result = "error"])
Signal == lKernel.phase = "serving" /\ KernelTo([lKernel EXCEPT !.phase = "draining"])

(* srv.Shutdown returns when nothing is in flight, or after ten seconds.               *)
Drained == /\ lKernel.phase = "draining" /\ InFlight = {}
           /\ KernelTo([lKernel EXCEPT !.phase = "cleanup"])
DrainTimeout == /\ lKernel.phase = "draining" /\ InFlight # {}
                /\ KernelTo([lKernel EXCEPT !.phase = "cleanup", !.timedOut = TRUE])

(* Kernel.shutdown: the callbacks in order, then DB.Close.                              *)
Callback == /\ lKernel.phase = "cleanup" /\ Len(lKernel.ran) < LCallbacks
            /\ KernelTo([lKernel EXCEPT !.ran = Append(@, Len(@) + 1)])
CloseDB == /\ lKernel.phase = "cleanup" /\ Len(lKernel.ran) = LCallbacks
           /\ KernelTo([lKernel EXCEPT !.db = "closed", !.phase = "returned", !.result = "nil"])

(* net/http: a request is accepted while the listener is open; the reload page's ends   *)
(* only when its client goes away.                                                      *)
RequestTo(r, s) == lRequest' = [lRequest EXCEPT ![r] = s] /\ UNCHANGED <<lApp, lCalls, lLog, lEarly, lKernel>>
Arrive(r) == /\ lRequest[r] = "new"
             /\ \/ lKernel.phase = "serving" /\ RequestTo(r, "open")
                \/ lKernel.phase \notin {"new", "serving"} /\ RequestTo(r, "refused")
Respond(r) == lRequest[r] = "open" /\ RequestTo(r, "done")

LNext == \/ \E p \in LProviders : RegisterProvider(p)
         \/ NestedRegister \/ CallReturns \/ BootStart \/ BootStep \/ BootLoopEnd
         \/ Serve \/ ListenError \/ Signal \/ Drained \/ DrainTimeout \/ Callback \/ CloseDB
         \/ \E r \in LRequests : Arrive(r) \/ Respond(r)

LSpec == LInit /\ [][LNext]_lvars

-----------------------------------------------------------------------------
LTypeOK == /\ lApp.providers \in Seq(LProviders) /\ lApp.loop \in {"none", "Register", "Boot"}
           /\ lCalls \in Seq([provider : LProviders, call : {"Register", "Boot"}, left : Seq(LProviders)])
           /\ lEarly \subseteq LProviders
           /\ lKernel.phase \in {"new", "serving", "draining", "cleanup", "returned"}
           /\ lRequest \in [LRequests -> {"new", "open", "refused", "done"}]

Calls(call, p) == {n \in DOMAIN lLog : lLog[n] = <<call, p>>}
Once(call, p) == Calls(call, p) # {} /\ \A m, n \in Calls(call, p) : m = n
Joined == {p \in LProviders : Calls("Join", p) # {}}

(* Of the providers registered before Boot, none is booted before all of them are        *)
(* registered, and each is registered and booted once when the application is booted.     *)
TwoPasses ==
  /\ \A p, q \in lEarly : \A n \in Calls("Boot", p) : \E m \in Calls("Register", q) : m < n
  /\ lApp.isBooted => \A p \in lEarly : Once("Register", p) /\ Once("Boot", p)

(* One that joins a booted application is registered before it is booted, both once when   *)
(* RegisterProvider has returned; one that joins from inside another's Register is booted    *)
(* before that Register has ended.                                                           *)
LateOnesNest ==
  /\ \A p \in Joined : \A n \in Calls("Boot", p) : \E m \in Calls("Register", p) : m < n
  /\ lCalls = <<>> => \A p \in Joined : Once("Register", p) /\ Once("Boot", p)
  /\ \A p, q \in Joined : \A i \in Calls("Join", p), j \in Calls("Join", q), n \in Calls("Register", p) :
       i < j /\ j < n => \E m \in Calls("Boot", q) : m < n

(* Who is registered while the loops of Boot run is never registered with the container:      *)
(* what the providers' contract promises holds of the others only.                            *)
NobodyElseRegisters == \A p \in LProviders \ (lEarly \cup Joined) : Calls("Register", p) = {}

TwoPhaseBoot == TwoPasses /\ LateOnesNest /\ NobodyElseRegisters

(* application.go:29-32: Boot `fires ONLY after every single Service Provider in the           *)
(* application has completed its Register() step': a provider that is booted has been           *)
(* registered.                                                                                *)
BootFollowsRegister == \A p \in LProviders : Calls("Boot", p) # {} => Calls("Register", p) # {}

(* The database is closed last, after every callback ran once and in order; it is closed  *)
(* under a request only when the drain timed out; a clean return has done all of it.      *)
ShutdownInOrder ==
  /\ lKernel.db = "closed" => /\ lKernel.ran = [n \in 1 .. LCallbacks |-> n]
                              /\ lKernel.timedOut \/ InFlight = {}
  /\ lKernel.result = "nil" => lKernel.db = "closed"
  /\ lKernel.ran # <<>> => lKernel.timedOut \/ InFlight = {}

(* Both ends of the server's life.                                                        *)
LivesInOrder == TwoPhaseBoot /\ ShutdownInOrder
=============================================================================
