-------------------------- MODULE ApplicationProofs --------------------------
(***************************************************************************)
(* The parts of an application that run in its process: the service        *)
(* container, for any keys, threads and factories that need one another;   *)
(* the browser's page that is reloaded and the development server, for any  *)
(* files and pages; the event dispatcher, for any listeners and calls; the  *)
(* boot and shutdown of a process, for any providers and requests; the rate *)
(* limiters, for any addresses, credentials, limits and periods; and the    *)
(* batch of jobs, for any members.  At the end the services together, with  *)
(* the stores: each implements its own specification in the composition.    *)
(***************************************************************************)
EXTENDS Services, StoresProofs

-----------------------------------------------------------------------------
(* The container *)

\* What the assumption says where it is used.
LEMMA ContainerBasics ==
  CNeeds \in [CKeys -> Seq(CKeys)] /\ CBindBound \in Nat /\ NoThread \notin CThreads
BY ContainerAssumption DEF ContainerAssumption

\* No thread starts a singleton's factory.
NoFactoryStarts ==
  \A t \in CThreads : \A n \in 1 .. Len(cStack'[t]) :
    cStack'[t][n].pc = "singleton" =>
      n \in 1 .. Len(cStack[t]) /\ cStack[t][n].pc = "singleton"
      /\ cStack'[t][n].key = cStack[t][n].key

\* A thread's stack becomes s, whose calls of factories were there before.
LEMMA NewStack ==
  ASSUME CTypeOK, NEW t \in CThreads, NEW s \in Seq(Resolves),
         cStack' = [cStack EXCEPT ![t] = s],
         \A n \in 1 .. Len(s) : s[n].pc = "singleton" =>
           n \in 1 .. Len(cStack[t]) /\ cStack[t][n].pc = "singleton" /\ s[n].key = cStack[t][n].key
  PROVE cStack' \in [CThreads -> Seq(Resolves)] /\ NoFactoryStarts
<1>1. cStack \in [CThreads -> Seq(Resolves)]
  BY DEF CTypeOK
<1>2. \A u \in CThreads : cStack'[u] = IF u = t THEN s ELSE cStack[u]
  BY <1>1
<1>3. \A u \in CThreads : Len(cStack[u]) \in Nat
  BY <1>1
<1> QED
  BY <1>1, <1>2, <1>3 DEF NoFactoryStarts

\* Resolve returns.
LEMMA ReturnsIs ==
  ASSUME CTypeOK, NEW t \in CThreads, cStack[t] # <<>>, Returns(t)
  PROVE cStack' \in [CThreads -> Seq(Resolves)] /\ NoFactoryStarts
<1>1. cStack[t] \in Seq(Resolves)
  BY DEF CTypeOK
<1>2. /\ Front(cStack[t]) \in Seq(Resolves) /\ Len(Front(cStack[t])) = Len(cStack[t]) - 1
      /\ \A n \in 1 .. Len(cStack[t]) - 1 : Front(cStack[t])[n] = cStack[t][n]
  BY <1>1, FrontIs
<1>3. Len(cStack[t]) \in Nat
  BY <1>1
<1>4. cStack' = [cStack EXCEPT ![t] = Front(cStack[t])]
  BY DEF Returns
<1>5. \A n \in 1 .. Len(Front(cStack[t])) :
        n \in 1 .. Len(cStack[t]) /\ Front(cStack[t])[n] = cStack[t][n]
  BY <1>2, <1>3
<1> QED
  BY <1>2, <1>4, <1>5, NewStack

\* Resolve is called; a factory that calls it has one key less to resolve.
LEMMA EntersIs ==
  ASSUME CTypeOK, NEW t \in CThreads, NEW key \in CKeys, NEW s \in Seq(Resolves),
         Len(s) = Len(cStack[t]),
         \A n \in 1 .. Len(s) : s[n].pc = cStack[t][n].pc /\ s[n].key = cStack[t][n].key,
         cStack' = [cStack EXCEPT ![t] =
                      Append(s, [key |-> key, pc |-> "look", need |-> CNeeds[key]])]
  PROVE cStack' \in [CThreads -> Seq(Resolves)] /\ NoFactoryStarts
<1> DEFINE call == [key |-> key, pc |-> "look", need |-> CNeeds[key]]
<1>1. call \in Resolves
  BY ContainerBasics DEF Resolves
<1>2. call.pc = "look" /\ "look" # "singleton"
  OBVIOUS
<1> HIDE DEF call
<1>3. /\ Append(s, call) \in Seq(Resolves) /\ Len(Append(s, call)) = Len(s) + 1
      /\ \A n \in 1 .. Len(s) : Append(s, call)[n] = s[n]
      /\ Append(s, call)[Len(s) + 1] = call
  BY <1>1, PushIs
<1>4. Len(s) \in Nat
  OBVIOUS
<1>5. \A n \in 1 .. Len(Append(s, call)) : n \in 1 .. Len(s) \/ n = Len(s) + 1
  BY <1>3, <1>4
<1>6. \A n \in 1 .. Len(Append(s, call)) : Append(s, call)[n].pc = "singleton" =>
        n \in 1 .. Len(cStack[t]) /\ cStack[t][n].pc = "singleton"
        /\ Append(s, call)[n].key = cStack[t][n].key
  BY <1>2, <1>3, <1>5
<1>7. cStack' = [cStack EXCEPT ![t] = Append(s, call)]
  BY DEF call
<1> QED
  BY <1>3, <1>6, <1>7, NewStack

\* The call on top goes on to another place.
LEMMA GoesToIs ==
  ASSUME CTypeOK, NEW t \in CThreads, cStack[t] # <<>>,
         NEW pc \in {"look", "lock", "singleton", "transient"}, GoesTo(t, pc)
  PROVE /\ cStack' \in [CThreads -> Seq(Resolves)]
        /\ \A u \in CThreads : u # t => cStack'[u] = cStack[u]
        /\ Len(cStack'[t]) = Len(cStack[t]) /\ Len(cStack[t]) \in 1 .. Len(cStack[t])
        /\ \A n \in 1 .. Len(cStack[t]) : /\ cStack'[t][n].key = cStack[t][n].key
                                          /\ cStack'[t][n].need = cStack[t][n].need
                                          /\ cStack'[t][n].pc = IF n = Len(cStack[t]) THEN pc
                                                                ELSE cStack[t][n].pc
        /\ pc # "singleton" => NoFactoryStarts
<1> DEFINE s == cStack[t]
           top == [s[Len(s)] EXCEPT !.pc = pc]
           new == [s EXCEPT ![Len(s)] = top]
<1>1. cStack \in [CThreads -> Seq(Resolves)] /\ s \in Seq(Resolves)
  BY DEF CTypeOK
<1>2. cStack' = [cStack EXCEPT ![t] = new]
  BY DEF GoesTo
<1>3. s[Len(s)] \in Resolves /\ Len(s) \in 1 .. Len(s)
  BY <1>1, FrontIs DEF Last
<1>4. /\ top \in Resolves /\ top.pc = pc /\ top.key = s[Len(s)].key /\ top.need = s[Len(s)].need
  BY <1>3 DEF Resolves
<1> HIDE DEF top
<1>5. /\ new \in Seq(Resolves) /\ Len(new) = Len(s)
      /\ \A n \in 1 .. Len(s) : new[n] = IF n = Len(s) THEN top ELSE s[n]
  BY <1>1, <1>4, TopIs
<1> HIDE DEF new
<1>6. \A u \in CThreads : cStack'[u] = IF u = t THEN new ELSE cStack[u]
  BY <1>1, <1>2
<1>7. cStack' \in [CThreads -> Seq(Resolves)]
  BY <1>1, <1>2, <1>5
<1>8. pc # "singleton" => NoFactoryStarts
  BY <1>2, <1>3, <1>4, <1>5, NewStack
<1> QED
  BY <1>3, <1>4, <1>5, <1>6, <1>7, <1>8

\* A step of Resolve that neither starts nor ends a singleton's factory.
LEMMA ResolvesQuietly ==
  ASSUME CIndInv, UNCHANGED <<cCache, cSingletons, cTransients, cOwner, cEpoch, cBuilt>>,
         cStack' \in [CThreads -> Seq(Resolves)], NoFactoryStarts
  PROVE CIndInv'
<1>1. CTypeOK'
  BY DEF CIndInv, CTypeOK
<1>2. FactoryUnderLock'
  BY DEF CIndInv, FactoryUnderLock, NoFactoryStarts
<1>3. BuiltBefore' /\ OneInstancePerBinding'
  BY DEF CIndInv, BuiltBefore, OneInstancePerBinding, Has
<1> QED
  BY <1>1, <1>2, <1>3 DEF CIndInv

\* With the write lock free no factory of a singleton runs.
LEMMA FreeOfFactories ==
  ASSUME FactoryUnderLock, Free
  PROVE \A t \in CThreads : \A n \in 1 .. Len(cStack[t]) : cStack[t][n].pc # "singleton"
BY ContainerBasics DEF FactoryUnderLock, Free

\* A binding replaces the one before: its epoch is a new one, and nothing is cached.
LEMMA BindKeeps ==
  ASSUME CIndInv, NEW t \in CThreads, NEW key \in CKeys, NEW single \in BOOLEAN,
         Bind(t, key, single)
  PROVE CIndInv'
<1>t. /\ cCache \in [CKeys -> Nat] /\ cSingletons \subseteq CKeys /\ cTransients \subseteq CKeys
      /\ cEpoch \in [CKeys -> 1 .. CBindBound + 1] /\ cBuilt \in [CKeys -> Seq(Nat)]
      /\ CBindBound \in Nat
  BY ContainerBasics DEF CIndInv, CTypeOK
<1>1. /\ cEpoch[key] <= CBindBound /\ cEpoch' = [cEpoch EXCEPT ![key] = cEpoch[key] + 1]
      /\ cCache' = [cCache EXCEPT ![key] = NoInstance] /\ Free
      /\ cSingletons' = IF single THEN cSingletons \cup {key} ELSE cSingletons \ {key}
      /\ cTransients' = IF single THEN cTransients \ {key} ELSE cTransients \cup {key}
      /\ UNCHANGED <<cOwner, cStack, cBuilt>>
  BY DEF Bind
<1>2. cCache' \in [CKeys -> Nat] /\ cSingletons' \subseteq CKeys /\ cTransients' \subseteq CKeys
  BY <1>t, <1>1 DEF NoInstance
<1>3. cEpoch' \in [CKeys -> 1 .. CBindBound + 1]
  BY <1>t, <1>1
<1>4. CTypeOK'
  BY <1>1, <1>2, <1>3 DEF CIndInv, CTypeOK
<1>5. FactoryUnderLock'
  BY <1>1, FreeOfFactories DEF CIndInv, FactoryUnderLock
<1>6. \A k \in CKeys : cEpoch'[k] = IF k = key THEN cEpoch[k] + 1 ELSE cEpoch[k]
  BY <1>t, <1>1
<1>7. BuiltBefore'
  <2> SUFFICES ASSUME NEW k \in CKeys, NEW n \in 1 .. Len(cBuilt[k])
               PROVE cBuilt[k][n] <= cEpoch'[k] /\ (k \in cSingletons' => cBuilt[k][n] < cEpoch'[k])
    BY <1>1 DEF BuiltBefore
  <2>1. cBuilt[k][n] \in Nat /\ cEpoch[k] \in Nat /\ cBuilt[k][n] <= cEpoch[k]
    <3>1. cBuilt[k] \in Seq(Nat)
      BY <1>t
    <3> QED
      BY <1>t, <3>1, ElementOfSeq DEF CIndInv, BuiltBefore
  <2>2. CASE k = key
    BY <1>6, <2>1, <2>2
  <2>3. CASE k # key
    BY <1>1, <1>6, <2>1, <2>3 DEF CIndInv, BuiltBefore
  <2> QED
    BY <2>2, <2>3
<1>8. OneInstancePerBinding'
  <2> SUFFICES ASSUME NEW k \in CKeys
               PROVE /\ k \notin cSingletons' \cap cTransients'
                     /\ cCache'[k] # NoInstance \/ k \in cSingletons' \cup cTransients'
                     /\ cCache'[k] # NoInstance => /\ cCache'[k] = cEpoch'[k]
                                                   /\ k \notin cSingletons' \cup cTransients'
    BY <1>1 DEF CIndInv, OneInstancePerBinding, Has
  <2>1. CASE k = key
    BY <1>t, <1>1, <2>1
  <2>2. CASE k # key
    BY <1>t, <1>1, <1>6, <2>2 DEF CIndInv, OneInstancePerBinding, Has
  <2> QED
    BY <2>1, <2>2
<1> QED
  BY <1>4, <1>5, <1>7, <1>8 DEF CIndInv

\* The write lock is taken for a factory, or found not to be needed.
LEMMA LockKeeps ==
  ASSUME CIndInv, NEW t \in CThreads, NEW key \in CKeys, Lock(t, key)
  PROVE CIndInv'
<1>1. /\ cStack[t] # <<>> /\ Last(cStack[t]).key = key /\ Free
      /\ UNCHANGED <<cCache, cSingletons, cTransients, cEpoch, cBuilt>>
  BY DEF Lock, Stands, Top
<1>2. CASE cCache[key] = NoInstance /\ key \in cSingletons
  <2>1. cOwner' = t /\ GoesTo(t, "singleton")
    BY <1>2 DEF Lock
  <2>2. /\ cStack' \in [CThreads -> Seq(Resolves)]
        /\ \A u \in CThreads : u # t => cStack'[u] = cStack[u]
        /\ Len(cStack'[t]) = Len(cStack[t]) /\ Len(cStack[t]) \in 1 .. Len(cStack[t])
        /\ \A n \in 1 .. Len(cStack[t]) : /\ cStack'[t][n].key = cStack[t][n].key
                                          /\ cStack'[t][n].pc = IF n = Len(cStack[t]) THEN "singleton"
                                                                ELSE cStack[t][n].pc
    BY <1>1, <2>1, GoesToIs DEF CIndInv
  <2>3. CTypeOK'
    BY <1>1, <2>1, <2>2 DEF CIndInv, CTypeOK
  <2>4. \A u \in CThreads : \A n \in 1 .. Len(cStack[u]) : cStack[u][n].pc # "singleton"
    BY <1>1, FreeOfFactories DEF CIndInv
  <2>5. \A n \in 1 .. Len(cStack'[t]) : cStack'[t][n].pc = "singleton" => n = Len(cStack[t])
    BY <2>2, <2>4
  <2>6. cStack'[t][Len(cStack[t])].key = key
    BY <1>1, <2>2 DEF Last
  <2>7. FactoryUnderLock'
    BY SMTT(30), <1>1, <1>2, <2>1, <2>2, <2>4, <2>5, <2>6 DEF FactoryUnderLock
  <2> QED
    BY <1>1, <2>3, <2>7 DEF CIndInv, BuiltBefore, OneInstancePerBinding, Has
<1>3. CASE ~(cCache[key] = NoInstance /\ key \in cSingletons)
  <2>1. cOwner' = cOwner /\ Returns(t)
    BY <1>3 DEF Lock
  <2> QED
    BY <1>1, <2>1, ReturnsIs, ResolvesQuietly DEF CIndInv
<1> QED
  BY <1>2, <1>3

\* The singleton's factory returns: it ran for this epoch alone, and its binding goes.
LEMMA BuiltKeeps ==
  ASSUME CIndInv, NEW t \in CThreads, NEW key \in CKeys, Built(t, key)
  PROVE CIndInv'
<1>t. /\ cCache \in [CKeys -> Nat] /\ cSingletons \subseteq CKeys /\ cTransients \subseteq CKeys
      /\ cEpoch \in [CKeys -> 1 .. CBindBound + 1] /\ cBuilt \in [CKeys -> Seq(Nat)]
      /\ CBindBound \in Nat /\ cStack[t] \in Seq(Resolves)
  BY ContainerBasics DEF CIndInv, CTypeOK
<1>1. /\ cStack[t] # <<>> /\ Last(cStack[t]).key = key /\ Last(cStack[t]).pc = "singleton"
      /\ cCache' = [cCache EXCEPT ![key] = cEpoch[key]]
      /\ cSingletons' = cSingletons \ {key} /\ cTransients' = cTransients /\ cEpoch' = cEpoch
      /\ cBuilt' = [cBuilt EXCEPT ![key] = Append(cBuilt[key], cEpoch[key])]
      /\ cOwner' = NoThread /\ Returns(t)
  BY DEF Built, Stands, Top
<1>2. /\ Len(cStack[t]) \in 1 .. Len(cStack[t]) /\ Last(cStack[t]) = cStack[t][Len(cStack[t])]
      /\ Len(Front(cStack[t])) = Len(cStack[t]) - 1
      /\ \A n \in 1 .. Len(cStack[t]) - 1 : Front(cStack[t])[n] = cStack[t][n]
  BY <1>t, <1>1, FrontIs
<1>3. cOwner = t /\ key \in cSingletons
  BY <1>1, <1>2 DEF CIndInv, FactoryUnderLock
<1>4. cStack' \in [CThreads -> Seq(Resolves)] /\ NoFactoryStarts
  BY <1>1, ReturnsIs DEF CIndInv
<1>5. /\ cBuilt[key] \in Seq(Nat) /\ cEpoch[key] \in Nat
      /\ cBuilt'[key] \in Seq(Nat) /\ Len(cBuilt'[key]) = Len(cBuilt[key]) + 1
      /\ \A n \in 1 .. Len(cBuilt[key]) : cBuilt'[key][n] = cBuilt[key][n]
      /\ cBuilt'[key][Len(cBuilt[key]) + 1] = cEpoch[key]
  BY <1>t, <1>1, PushIs
<1>6. \A k \in CKeys : k # key => cBuilt'[k] = cBuilt[k]
  BY <1>t, <1>1
<1>7. CTypeOK'
  <2>1. cCache' \in [CKeys -> Nat] /\ cBuilt' \in [CKeys -> Seq(Nat)]
    BY <1>t, <1>1, <1>5
  <2> QED
    BY <1>t, <1>1, <1>4, <2>1 DEF CIndInv, CTypeOK
<1>8. FactoryUnderLock'
  <2> SUFFICES ASSUME NEW u \in CThreads, NEW n \in 1 .. Len(cStack'[u]),
                      cStack'[u][n].pc = "singleton"
               PROVE FALSE
    BY DEF FactoryUnderLock
  <2>1. n \in 1 .. Len(cStack[u]) /\ cStack[u][n].pc = "singleton"
    BY <1>4 DEF NoFactoryStarts
  <2>2. u = t /\ n = Len(cStack[t])
    BY <1>1, <1>2, <1>3, <2>1 DEF CIndInv, FactoryUnderLock
  <2>3. cStack'[t] = Front(cStack[t])
    BY <1>1 DEF CIndInv, CTypeOK, Returns
  <2> QED
    BY <1>2, <2>2, <2>3
<1>9. \A n \in 1 .. Len(cBuilt[key]) : cBuilt[key][n] \in Nat /\ cBuilt[key][n] < cEpoch[key]
  BY <1>3, <1>5, ElementOfSeq DEF CIndInv, BuiltBefore
<1>10. \A n \in 1 .. Len(cBuilt'[key]) : n \in 1 .. Len(cBuilt[key]) \/ n = Len(cBuilt[key]) + 1
  BY <1>5
<1>11. BuiltBefore'
  <2> SUFFICES ASSUME NEW k \in CKeys, NEW n \in 1 .. Len(cBuilt'[k])
               PROVE cBuilt'[k][n] <= cEpoch[k] /\ (k \in cSingletons' => cBuilt'[k][n] < cEpoch[k])
    BY <1>1 DEF BuiltBefore
  <2>1. CASE k # key
    BY <1>1, <1>6, <2>1 DEF CIndInv, BuiltBefore
  <2>2. CASE k = key /\ n \in 1 .. Len(cBuilt[key])
    BY <1>1, <1>5, <1>9, <2>2
  <2>3. CASE k = key /\ n = Len(cBuilt[key]) + 1
    BY <1>1, <1>5, <2>3
  <2> QED
    BY <1>10, <2>1, <2>2, <2>3
<1>12. OneInstancePerBinding'
  <2>1. \A m, n \in 1 .. Len(cBuilt'[key]) : m # n => cBuilt'[key][m] # cBuilt'[key][n]
    <3>1. \A m, n \in 1 .. Len(cBuilt[key]) : m # n => cBuilt[key][m] # cBuilt[key][n]
      <4>1. DOMAIN cBuilt[key] = 1 .. Len(cBuilt[key])
        BY <1>5, LenProperties
      <4> QED
        BY <4>1 DEF CIndInv, OneInstancePerBinding
    <3> SUFFICES ASSUME NEW m \in 1 .. Len(cBuilt'[key]), NEW n \in 1 .. Len(cBuilt'[key]), m # n,
                        cBuilt'[key][m] = cBuilt'[key][n]
                 PROVE FALSE
      OBVIOUS
    <3>2. CASE m \in 1 .. Len(cBuilt[key]) /\ n \in 1 .. Len(cBuilt[key])
      BY <1>5, <3>1, <3>2
    <3>3. CASE m \in 1 .. Len(cBuilt[key]) /\ n = Len(cBuilt[key]) + 1
      BY <1>5, <1>9, <3>3
    <3>4. CASE m = Len(cBuilt[key]) + 1 /\ n \in 1 .. Len(cBuilt[key])
      BY <1>5, <1>9, <3>4
    <3> QED
      BY <1>10, <3>2, <3>3, <3>4
  <2>2. \A k \in CKeys : \A m, n \in DOMAIN cBuilt'[k] : m # n => cBuilt'[k][m] # cBuilt'[k][n]
    <3>1. DOMAIN cBuilt'[key] = 1 .. Len(cBuilt'[key])
      BY <1>5, LenProperties
    <3> QED
      BY <1>6, <2>1, <3>1 DEF CIndInv, OneInstancePerBinding
  <2>3. key \notin cTransients /\ cCache'[key] = cEpoch'[key] /\ cEpoch[key] # NoInstance
    BY <1>t, <1>1, <1>3 DEF CIndInv, OneInstancePerBinding, NoInstance
  <2>4. \A k \in CKeys : k # key => cCache'[k] = cCache[k]
    BY <1>t, <1>1
  <2> QED
    BY <1>1, <2>2, <2>3, <2>4 DEF CIndInv, OneInstancePerBinding, Has
<1> QED
  BY <1>7, <1>8, <1>11, <1>12 DEF CIndInv

\* Resolve is called, from outside or by a factory.
LEMMA CallKeeps ==
  ASSUME CIndInv, NEW t \in CThreads, NEW key \in CKeys, CallResolve(t, key) \/ Need(t, key)
  PROVE CIndInv'
<1>t. cStack \in [CThreads -> Seq(Resolves)] /\ cStack[t] \in Seq(Resolves)
  BY DEF CIndInv, CTypeOK
<1>1. CASE CallResolve(t, key)
  <2>1. /\ cStack' = [cStack EXCEPT ![t] = Append(cStack[t],
                        [key |-> key, pc |-> "look", need |-> CNeeds[key]])]
        /\ UNCHANGED <<cCache, cSingletons, cTransients, cOwner, cEpoch, cBuilt>>
    BY <1>1 DEF CallResolve, Enters
  <2> QED
    BY <1>t, <2>1, EntersIs, ResolvesQuietly DEF CIndInv
<1>2. CASE Need(t, key)
  <2> DEFINE s == cStack[t]
             k == Head(Last(s).need)
             top == [Last(s) EXCEPT !.need = Tail(Last(s).need)]
             new == [s EXCEPT ![Len(s)] = top]
  <2>1. s # <<>> /\ Last(s).need # <<>>
    BY <1>2 DEF Need, Stands, Top
  <2>2. Len(s) \in 1 .. Len(s) /\ Last(s) = s[Len(s)] /\ Last(s) \in Resolves
    BY <1>t, <2>1, FrontIs
  <2>3. k \in CKeys /\ Tail(Last(s).need) \in Seq(CKeys)
    <3>1. Last(s).need \in Seq(CKeys)
      BY <2>2 DEF Resolves
    <3> QED
      BY <2>1, <3>1, HeadTailProperties
  <2>4. top \in Resolves /\ top.pc = s[Len(s)].pc /\ top.key = s[Len(s)].key
    BY <2>2, <2>3 DEF Resolves
  <2>5. /\ cStack' = [cStack EXCEPT ![t] =
                        Append(new, [key |-> k, pc |-> "look", need |-> CNeeds[k]])]
        /\ UNCHANGED <<cCache, cSingletons, cTransients, cOwner, cEpoch, cBuilt>>
    BY <1>2 DEF Need, Top
  <2> HIDE DEF k, top
  <2>6. /\ new \in Seq(Resolves) /\ Len(new) = Len(s)
        /\ \A n \in 1 .. Len(s) : new[n] = IF n = Len(s) THEN top ELSE s[n]
    BY <1>t, <2>1, <2>4, TopIs
  <2> HIDE DEF new
  <2>7. \A n \in 1 .. Len(new) : new[n].pc = s[n].pc /\ new[n].key = s[n].key
    BY <2>4, <2>6
  <2>8. cStack' \in [CThreads -> Seq(Resolves)] /\ NoFactoryStarts
    BY <2>3, <2>5, <2>6, <2>7, EntersIs DEF CIndInv
  <2> QED
    BY <2>5, <2>8, ResolvesQuietly
<1> QED
  BY <1>1, <1>2

\* The read-locked look-up, and the end of a transient's factory.
LEMMA LookKeeps ==
  ASSUME CIndInv, NEW t \in CThreads, NEW key \in CKeys, Look(t, key) \/ TransientBuilt(t, key)
  PROVE CIndInv'
<1>1. /\ cStack[t] # <<>>
      /\ Returns(t) \/ \E pc \in {"transient", "lock"} : GoesTo(t, pc)
      /\ UNCHANGED <<cCache, cSingletons, cTransients, cOwner, cEpoch, cBuilt>>
  BY DEF Look, TransientBuilt, Stands
<1>2. CASE Returns(t)
  BY <1>1, <1>2, ReturnsIs, ResolvesQuietly DEF CIndInv
<1>3. ASSUME NEW pc \in {"transient", "lock"}, GoesTo(t, pc) PROVE CIndInv'
  <2>1. pc \in {"look", "lock", "singleton", "transient"} /\ pc # "singleton"
    OBVIOUS
  <2> QED
    BY <1>1, <1>3, <2>1, GoesToIs, ResolvesQuietly DEF CIndInv
<1> QED
  BY <1>1, <1>2, <1>3

\* The container's state is as CIndInv has it, whoever binds and resolves what.
THEOREM ContainerInvariance == CSpec => []CIndInv
<1>1. CInit => CIndInv
  BY ContainerBasics
  DEF CInit, CIndInv, CTypeOK, NoInstance, FactoryUnderLock, BuiltBefore, OneInstancePerBinding, Has
<1>2. CIndInv /\ [CNext]_cvars => CIndInv'
  <2> SUFFICES ASSUME CIndInv, [CNext]_cvars PROVE CIndInv'
    OBVIOUS
  <2>1. CASE UNCHANGED cvars
    BY <2>1 DEF cvars, CIndInv, CTypeOK, FactoryUnderLock, BuiltBefore, OneInstancePerBinding, Has
  <2>2. ASSUME NEW t \in CThreads, NEW key \in CKeys,
               \/ BindSingleton(t, key) \/ BindTransient(t, key) \/ CallResolve(t, key)
               \/ Resolving(t, key)
        PROVE CIndInv'
    BY <2>2, BindKeeps, LockKeeps, BuiltKeeps, CallKeeps, LookKeeps
    DEF BindSingleton, BindTransient, Resolving
  <2> QED
    BY <2>1, <2>2 DEF CNext
<1> QED
  BY <1>1, <1>2, PTL DEF CSpec

\* Each call of Resolve a thread is in is at one of its four places, and of a key.
THEOREM ContainerTypeCorrect == CSpec => []CTypeOK
<1>1. CIndInv => CTypeOK
  BY DEF CIndInv
<1> QED
  BY <1>1, ContainerInvariance, PTL

\* Whatever threads resolve a key at the same time, its factory runs once for each
\* binding of it, and what is cached is of the current one.
THEOREM SingletonsAreSingle == CSpec => []OneInstancePerBinding
<1>1. CIndInv => OneInstancePerBinding
  BY DEF CIndInv
<1> QED
  BY <1>1, ContainerInvariance, PTL

-----------------------------------------------------------------------------
(* The pages *)

HStates == [pc : {"start", "idle", "walk", "compile", "broadcast", "ended"},
            left : SUBSET HFiles, read : [HFiles -> 0 .. HEdits]]
HPages == [pc : {"closed", "loaded", "waits", "writes"}, slot : BOOLEAN, built : Nat, joined : Nat]

\* The watcher's state; what it has read of a file is at most the file's version.
HShape ==
  /\ hFile \in [HFiles -> 0 .. HEdits] /\ hSnap \in [HFiles -> 0 .. HEdits]
  /\ hOut \in [HFiles -> 0 .. HEdits] /\ hMissed \subseteq HFiles
  /\ hWatch \in HStates /\ hBuilds \in Nat /\ hPage \in [HBrowsers -> HPages]
  /\ hCount \in [edits : 0 .. HEdits, faults : Nat]
  /\ \A f \in HFiles : hFile[f] <= hCount.edits
  /\ \A f \in HFiles : hWatch.read[f] <= hFile[f] /\ hSnap[f] <= hFile[f]
  /\ \A b \in HBrowsers : hPage[b].built <= hBuilds /\ hPage[b].joined <= hBuilds

\* Before the first snapshot nothing is compiled, and a file that was saved is read
\* before the save, to be read yet, or counted as missed.
BeforeTheSnapshot ==
  hWatch.pc = "start" =>
    \A f \in HFiles : /\ hOut[f] = 0
                      /\ \/ hFile[f] = 0 \/ f \in hMissed
                         \/ f \notin hWatch.left /\ hWatch.read[f] < hFile[f]

\* What the compiler has read is not older than the snapshot it was started for.
CompilesTheSnapshot ==
  hWatch.pc = "compile" => \A f \in HFiles \ hWatch.left : hSnap[f] <= hWatch.read[f]

HIndInv == HShape /\ BeforeTheSnapshot /\ CompilesTheSnapshot /\ ReloadsFollowSaves

\* A walk or a compilation starts.
LEMMA WatchingIs ==
  ASSUME HShape, NEW pc \in {"start", "idle", "walk", "compile", "broadcast", "ended"},
         hWatch' = Watching(pc)
  PROVE /\ hWatch' \in HStates /\ hWatch'.pc = pc /\ hWatch'.left = HFiles
        /\ \A f \in HFiles : hWatch'.read[f] = 0
BY HotReloadAssumption DEF Watching, HStates, NoVersions, HotReloadAssumption

\* A file is saved.
LEMMA SaveComponentKeeps ==
  ASSUME HIndInv, NEW f \in HFiles, SaveComponent(f)
  PROVE HIndInv'
<1>1. /\ hFile \in [HFiles -> 0 .. HEdits] /\ hFile' = [hFile EXCEPT ![f] = hFile[f] + 1]
      /\ hCount \in [edits : 0 .. HEdits, faults : Nat] /\ hCount.edits < HEdits
      /\ UNCHANGED <<hSnap, hWatch, hOut, hBuilds, hPage>>
      /\ HEdits \in Nat
  BY HotReloadAssumption DEF HIndInv, HShape, SaveComponent, HotReloadAssumption
<1>2. hCount'.edits = hCount.edits + 1 /\ hCount' \in [edits : 0 .. HEdits, faults : Nat]
  BY <1>1 DEF SaveComponent, HIndInv, HShape
<1>3. \A g \in HFiles : /\ hFile[g] <= hCount.edits /\ hWatch.read[g] <= hFile[g] /\ hSnap[g] <= hFile[g]
                        /\ hWatch.read[g] \in Nat /\ hSnap[g] \in Nat /\ hFile[g] \in Nat
  BY DEF HIndInv, HShape, HStates
<1>4. \A g \in HFiles : hFile'[g] = IF g = f THEN hFile[g] + 1 ELSE hFile[g]
  BY <1>1
<1>5. hMissed' = IF hWatch.pc = "start" /\ f \in hWatch.left THEN hMissed \cup {f} ELSE hMissed \ {f}
  BY DEF SaveComponent
<1>6. hFile' \in [HFiles -> 0 .. HEdits]
  BY <1>1, <1>3
<1>7. HShape'
  BY <1>1, <1>2, <1>3, <1>4, <1>5, <1>6 DEF HIndInv, HShape
<1>8. BeforeTheSnapshot'
  BY <1>1, <1>3, <1>4, <1>5 DEF HIndInv, BeforeTheSnapshot
<1>9. CompilesTheSnapshot' 
  BY <1>1 DEF HIndInv, CompilesTheSnapshot
<1>10. ReloadsFollowSaves'
  BY <1>1, <1>3, <1>4, <1>5 DEF HIndInv, ReloadsFollowSaves, Subscribed
<1> QED
  BY <1>7, <1>8, <1>9, <1>10 DEF HIndInv

\* A file is read.
LEMMA ReadFileKeeps ==
  ASSUME HIndInv, NEW f \in HFiles, ReadFile(f)
  PROVE HIndInv'
<1> DEFINE read == [hWatch.read EXCEPT ![f] = hFile[f]]
<1>1. /\ hWatch \in HStates /\ hFile[f] \in 0 .. HEdits
      /\ UNCHANGED <<hFile, hSnap, hOut, hBuilds, hPage, hCount, hMissed>>
      /\ f \in hWatch.left
  BY DEF HIndInv, HShape, ReadFile
<1>2. hWatch' = [pc |-> hWatch.pc, left |-> hWatch.left \ {f}, read |-> read]
  BY <1>1 DEF ReadFile, HStates
<1>3. /\ read \in [HFiles -> 0 .. HEdits]
      /\ \A g \in HFiles : read[g] = IF g = f THEN hFile[f] ELSE hWatch.read[g]
  BY <1>1 DEF HStates
<1> HIDE DEF read
<1>4. hWatch' \in HStates
  BY <1>1, <1>2, <1>3 DEF HStates
<1>5. hWatch'.pc = hWatch.pc /\ hWatch'.left = hWatch.left \ {f} /\ hWatch'.read = read
  BY <1>2
<1>6. \A g \in HFiles : hFile[g] \in Nat /\ hSnap[g] \in Nat /\ hSnap[g] <= hFile[g]
  BY DEF HIndInv, HShape
<1>7. HShape'
  BY <1>1, <1>3, <1>4, <1>5, <1>6 DEF HIndInv, HShape
<1>8. BeforeTheSnapshot'
  BY <1>1, <1>3, <1>5, <1>6 DEF HIndInv, BeforeTheSnapshot
<1>9. CompilesTheSnapshot'
  BY <1>1, <1>3, <1>5, <1>6 DEF HIndInv, CompilesTheSnapshot
<1>10. ReloadsFollowSaves'
  BY <1>1, <1>5 DEF HIndInv, ReloadsFollowSaves, Subscribed
<1> QED
  BY <1>7, <1>8, <1>9, <1>10 DEF HIndInv

\* The watcher goes on: the first snapshot, a tick, a comparison, a failed
\* compilation, the end.
LEMMA WatchKeeps ==
  ASSUME HIndInv, Started \/ Tick \/ Compared \/ CompileFails \/ Stop
  PROVE HIndInv'
<1>1. /\ HShape /\ hWatch \in HStates /\ hWatch.read \in [HFiles -> 0 .. HEdits]
      /\ UNCHANGED <<hFile, hOut, hBuilds, hPage>> /\ hCount'.edits = hCount.edits
      /\ hCount' \in [edits : 0 .. HEdits, faults : Nat]
  BY DEF HIndInv, HShape, HStates, Started, Tick, Compared, CompileFails, Stop
<1>2. PICK pc \in {"idle", "walk", "compile", "ended"} : hWatch' = Watching(pc)
  BY DEF Started, Tick, Compared, CompileFails, Stop
<1>3. /\ hWatch' \in HStates /\ hWatch'.pc = pc /\ hWatch'.left = HFiles
      /\ \A f \in HFiles : hWatch'.read[f] = 0
  BY <1>1, <1>2, WatchingIs
<1>4. hSnap' \in {hSnap, hWatch.read} /\ hMissed' \subseteq HFiles
  BY DEF HIndInv, HShape, Started, Tick, Compared, CompileFails, Stop
<1>5. \A f \in HFiles : /\ hFile[f] \in Nat /\ hSnap[f] <= hFile[f] /\ hWatch.read[f] <= hFile[f]
                        /\ hWatch.read[f] \in Nat
  BY DEF HIndInv, HShape, HStates
<1>6. HShape'
  BY <1>1, <1>3, <1>4, <1>5 DEF HIndInv, HShape
<1>7. BeforeTheSnapshot' /\ CompilesTheSnapshot'
  BY <1>3 DEF BeforeTheSnapshot, CompilesTheSnapshot
<1>8. \A b \in HBrowsers : hPage[b].built = hBuilds \/ hPage[b].joined = hBuilds
                          \/ hPage[b].slot \/ hPage[b].pc = "writes" \/ ~Subscribed(b)
  BY DEF HIndInv, ReloadsFollowSaves, Started, Tick, Compared, CompileFails, Stop
<1>9. ASSUME pc # "compile", NEW f \in HFiles, hSnap'[f] = hFile[f]
      PROVE hOut[f] = hFile[f] \/ f \in hMissed'
  <2>1. CASE Started
    BY <1>5, <1>9, <2>1 DEF HIndInv, BeforeTheSnapshot, Started, ReadAll
  <2>2. CASE Tick \/ Stop
    BY <1>9, <2>2 DEF HIndInv, ReloadsFollowSaves, Tick, Stop
  <2>3. CASE Compared
    <3>1. hWatch.read = hSnap
      <4>1. Watching("compile").pc = "compile"
        BY DEF Watching
      <4> QED
        BY <1>2, <1>3, <1>9, <2>3, <4>1 DEF Compared
    <3> QED
      BY <1>9, <2>3, <3>1 DEF HIndInv, ReloadsFollowSaves, Compared
  <2>4. CASE CompileFails
    BY <1>9, <2>4 DEF CompileFails
  <2> QED
    BY <2>1, <2>2, <2>3, <2>4
<1>10. ReloadsFollowSaves'
  BY <1>1, <1>3, <1>8, <1>9 DEF ReloadsFollowSaves, Subscribed
<1> QED
  BY <1>6, <1>7, <1>10 DEF HIndInv

\* The compiler's output is written.
LEMMA WrittenKeeps ==
  ASSUME HIndInv, Written
  PROVE HIndInv'
<1>1. /\ HShape /\ hWatch \in HStates /\ hWatch.read \in [HFiles -> 0 .. HEdits]
      /\ hWatch.pc = "compile" /\ hWatch.left = {} /\ hOut' = hWatch.read
      /\ hBuilds' = hBuilds + 1 /\ hBuilds \in Nat /\ hWatch' = Watching("broadcast")
      /\ hMissed' = {} /\ UNCHANGED <<hFile, hSnap, hPage, hCount>>
  BY DEF HIndInv, HShape, HStates, Written, ReadAll
<1>2. /\ hWatch' \in HStates /\ hWatch'.pc = "broadcast"
      /\ \A f \in HFiles : hWatch'.read[f] = 0
  BY <1>1, WatchingIs
<1>3. \A f \in HFiles : /\ hFile[f] \in Nat /\ hSnap[f] \in Nat /\ hSnap[f] <= hWatch.read[f]
                        /\ hWatch.read[f] <= hFile[f] /\ hWatch.read[f] \in Nat
  BY <1>1 DEF HIndInv, HShape, HStates, CompilesTheSnapshot
<1>4. \A b \in HBrowsers : hPage[b] \in HPages /\ hPage[b].built <= hBuilds /\ hPage[b].joined <= hBuilds
  BY DEF HIndInv, HShape
<1>5. \A b \in HBrowsers : hPage[b].built <= hBuilds + 1 /\ hPage[b].joined <= hBuilds + 1
  BY <1>1, <1>4 DEF HPages
<1>6. HShape'
  BY <1>1, <1>2, <1>3, <1>5 DEF HShape
<1> QED
  BY <1>1, <1>2, <1>3, <1>6
  DEF HIndInv, BeforeTheSnapshot, CompilesTheSnapshot, ReloadsFollowSaves

\* Every page that is subscribed gets the signal.
LEMMA BroadcastKeeps ==
  ASSUME HIndInv, Broadcast
  PROVE HIndInv'
<1>1. /\ HShape /\ hWatch.pc = "broadcast" /\ hWatch' = Watching("idle")
      /\ hPage' = [b \in HBrowsers |-> [hPage[b] EXCEPT !.slot = hPage[b].slot \/ Subscribed(b)]]
      /\ hPage \in [HBrowsers -> HPages]
      /\ UNCHANGED <<hFile, hSnap, hOut, hBuilds, hCount, hMissed>>
  BY DEF HIndInv, HShape, Broadcast
<1>2. /\ hWatch' \in HStates /\ hWatch'.pc = "idle" /\ hWatch'.left = HFiles
      /\ \A f \in HFiles : hWatch'.read[f] = 0
  BY <1>1, WatchingIs
<1>3. ASSUME NEW b \in HBrowsers
      PROVE /\ hPage'[b] \in HPages /\ hPage'[b].pc = hPage[b].pc
            /\ hPage'[b].built = hPage[b].built /\ hPage'[b].joined = hPage[b].joined
            /\ Subscribed(b) => hPage'[b].slot
  <2>1. hPage'[b] = [hPage[b] EXCEPT !.slot = hPage[b].slot \/ Subscribed(b)]
    BY <1>1
  <2>2. hPage[b] \in HPages /\ hPage[b].slot \in BOOLEAN /\ Subscribed(b) \in BOOLEAN
    BY <1>1 DEF HPages, Subscribed
  <2>3. (hPage[b].slot \/ Subscribed(b)) \in BOOLEAN
    BY <2>2
  <2>4. hPage'[b].slot = (hPage[b].slot \/ Subscribed(b))
    BY <2>1, <2>2 DEF HPages
  <2>5. hPage'[b] = [pc |-> hPage[b].pc, slot |-> (hPage[b].slot \/ Subscribed(b)),
                     built |-> hPage[b].built, joined |-> hPage[b].joined]
    BY <2>1, <2>2 DEF HPages
  <2> QED
    BY <2>2, <2>3, <2>4, <2>5 DEF HPages
<1>4. hPage' \in [HBrowsers -> HPages]
  BY <1>1, <1>3
<1>5. /\ \A f \in HFiles : hFile[f] \in Nat /\ hSnap[f] <= hFile[f] /\ 0 <= hFile[f]
      /\ \A b \in HBrowsers : hPage'[b].built <= hBuilds /\ hPage'[b].joined <= hBuilds
  <2>1. \A b \in HBrowsers : hPage[b].built <= hBuilds /\ hPage[b].joined <= hBuilds
    BY <1>1 DEF HShape
  <2>2. \A f \in HFiles : hFile[f] \in Nat /\ hSnap[f] <= hFile[f] /\ 0 <= hFile[f]
    BY <1>1 DEF HShape
  <2> QED
    BY <1>3, <2>1, <2>2
<1>6. HShape'
  <2>1. \A f \in HFiles : hWatch'.read[f] <= hFile[f]
    BY <1>2, <1>5
  <2> QED
    BY <1>1, <1>2, <1>4, <1>5, <2>1 DEF HShape
<1> QED
  BY <1>1, <1>2, <1>3, <1>6
  DEF HIndInv, BeforeTheSnapshot, CompilesTheSnapshot, ReloadsFollowSaves, Subscribed

\* A page goes on.
LEMMA PageGoesOn ==
  ASSUME HIndInv, NEW b \in HBrowsers, NEW page \in HPages,
         hPage' = [hPage EXCEPT ![b] = page],
         page.built <= hBuilds, page.joined <= hBuilds,
         page.pc = "waits" => page.joined = hBuilds,
         UNCHANGED <<hFile, hSnap, hWatch, hOut, hBuilds, hCount, hMissed>>
  PROVE HIndInv'
<1>1. hPage \in [HBrowsers -> HPages]
  BY DEF HIndInv, HShape
<1>2. \A p \in HBrowsers : hPage'[p] = IF p = b THEN page ELSE hPage[p]
  BY <1>1
<1>3. hPage' \in [HBrowsers -> HPages]
  BY <1>1
<1>4. HShape'
  BY <1>2, <1>3 DEF HIndInv, HShape
<1>5. BeforeTheSnapshot' /\ CompilesTheSnapshot'
  BY DEF HIndInv, BeforeTheSnapshot, CompilesTheSnapshot
<1>6. ReloadsFollowSaves'
  BY <1>2 DEF HIndInv, ReloadsFollowSaves, Subscribed
<1> QED
  BY <1>4, <1>5, <1>6 DEF HIndInv

LEMMA PageIs ==
  ASSUME NEW pc \in {"closed", "loaded", "waits", "writes"}, NEW slot \in BOOLEAN,
         NEW built \in Nat, NEW joined \in Nat
  PROVE /\ Page(pc, slot, built, joined) \in HPages /\ Page(pc, slot, built, joined).pc = pc
        /\ Page(pc, slot, built, joined).built = built /\ Page(pc, slot, built, joined).joined = joined
        /\ Page(pc, slot, built, joined).slot = slot
BY DEF Page, HPages

\* What a page does itself.
LEMMA PageKeeps ==
  ASSUME HIndInv, NEW b \in HBrowsers,
         LoadPage(b) \/ Subscribe(b) \/ SignalPage(b) \/ ReloadPage(b) \/ Leave(b)
  PROVE HIndInv'
<1>1. /\ hPage[b] \in HPages /\ hBuilds \in Nat
      /\ hPage[b].built <= hBuilds /\ hPage[b].joined <= hBuilds
      /\ UNCHANGED <<hFile, hSnap, hWatch, hOut, hBuilds, hCount, hMissed>>
  BY DEF HIndInv, HShape, LoadPage, Subscribe, SignalPage, ReloadPage, Leave, Becomes
<1>2. hPage[b].slot \in BOOLEAN /\ hPage[b].built \in Nat /\ hPage[b].joined \in Nat
      /\ hBuilds <= hBuilds
  BY <1>1 DEF HPages
<1>3. CASE LoadPage(b)
  <2>1. hPage' = [hPage EXCEPT ![b] = Page("loaded", hPage[b].slot, hBuilds, hPage[b].joined)]
    BY <1>3 DEF LoadPage
  <2> DEFINE page == Page("loaded", hPage[b].slot, hBuilds, hPage[b].joined)
  <2>2. /\ page \in HPages /\ page.pc = "loaded" /\ page.built = hBuilds
        /\ page.joined = hPage[b].joined
    BY <1>1, <1>2, PageIs
  <2>3. hPage' = [hPage EXCEPT ![b] = page]
    BY <2>1
  <2> HIDE DEF page
  <2> QED
    BY <1>1, <1>2, <2>2, <2>3, PageGoesOn
<1>4. CASE Subscribe(b)
  <2>1. hPage' = [hPage EXCEPT ![b] = Page("waits", FALSE, hPage[b].built, hBuilds)]
    BY <1>4 DEF Subscribe
  <2> DEFINE page == Page("waits", FALSE, hPage[b].built, hBuilds)
  <2>2. /\ page \in HPages /\ page.pc = "waits" /\ page.built = hPage[b].built
        /\ page.joined = hBuilds
    BY <1>1, <1>2 DEF Page, HPages
  <2>3. hPage' = [hPage EXCEPT ![b] = page]
    BY <2>1
  <2> HIDE DEF page
  <2> QED
    BY <1>1, <1>2, <2>2, <2>3, PageGoesOn
<1>5. CASE SignalPage(b)
  <2>1. hPage' = [hPage EXCEPT ![b] = Page("writes", FALSE, hPage[b].built, hPage[b].joined)]
    BY <1>5 DEF SignalPage
  <2> DEFINE page == Page("writes", FALSE, hPage[b].built, hPage[b].joined)
  <2>2. /\ page \in HPages /\ page.pc = "writes" /\ page.built = hPage[b].built
        /\ page.joined = hPage[b].joined
    BY <1>1, <1>2 DEF Page, HPages
  <2>3. hPage' = [hPage EXCEPT ![b] = page]
    BY <2>1
  <2> HIDE DEF page
  <2> QED
    BY <1>1, <1>2, <2>2, <2>3, PageGoesOn
<1>6. CASE ReloadPage(b) \/ Leave(b)
  <2>1. hPage' = [hPage EXCEPT ![b] = Page("closed", hPage[b].slot, hPage[b].built, hPage[b].joined)]
    BY <1>6 DEF ReloadPage, Leave, Becomes
  <2> DEFINE page == Page("closed", hPage[b].slot, hPage[b].built, hPage[b].joined)
  <2>2. /\ page \in HPages /\ page.pc = "closed" /\ page.built = hPage[b].built
        /\ page.joined = hPage[b].joined
    BY <1>1, <1>2, PageIs
  <2>3. hPage' = [hPage EXCEPT ![b] = page]
    BY <2>1
  <2> HIDE DEF page
  <2> QED
    BY <1>1, <1>2, <2>2, <2>3, PageGoesOn
<1> QED
  BY <1>3, <1>4, <1>5, <1>6

\* The watcher's state is as HIndInv has it, however files are saved and pages opened.
THEOREM HotReloadInvariance == HSpec => []HIndInv
<1>1. HInit => HIndInv
  <2> SUFFICES ASSUME HInit PROVE HIndInv
    OBVIOUS
  <2>1. NoVersions \in [HFiles -> 0 .. HEdits] /\ \A f \in HFiles : NoVersions[f] = 0
    BY HotReloadAssumption DEF NoVersions, HotReloadAssumption
  <2>2. /\ hWatch \in HStates /\ hWatch.pc = "start" /\ hWatch.read = NoVersions
    BY <2>1 DEF HInit, Watching, HStates
  <2>3. /\ hPage \in [HBrowsers -> HPages]
        /\ \A b \in HBrowsers : hPage[b] = Page("closed", FALSE, 0, 0)
    BY DEF HInit, HPages, Page
  <2>4. \A b \in HBrowsers : hPage[b].built = 0 /\ hPage[b].joined = 0 /\ hPage[b].pc = "closed"
    BY <2>3 DEF Page
  <2>5. hCount \in [edits : 0 .. HEdits, faults : Nat] /\ hCount.edits = 0
    BY HotReloadAssumption DEF HInit, HotReloadAssumption
  <2>6. HShape
    <3>1. hFile = NoVersions /\ hSnap = NoVersions /\ hOut = NoVersions /\ hBuilds = 0 /\ hMissed = {}
      BY DEF HInit
    <3>2. \A f \in HFiles : NoVersions[f] <= 0
      BY <2>1
    <3>3. \A b \in HBrowsers : hPage[b].built <= hBuilds /\ hPage[b].joined <= hBuilds
      BY <2>4, <3>1
    <3> QED
      BY <2>1, <2>2, <2>3, <2>5, <3>1, <3>2, <3>3 DEF HShape
  <2> QED
    BY <2>1, <2>2, <2>4, <2>6
    DEF HInit, HIndInv, BeforeTheSnapshot, CompilesTheSnapshot, ReloadsFollowSaves, Subscribed
<1>2. HIndInv /\ [HNext]_hvars => HIndInv'
  <2> SUFFICES ASSUME HIndInv, [HNext]_hvars PROVE HIndInv'
    OBVIOUS
  <2>1. CASE UNCHANGED hvars
    BY <2>1 DEF hvars, HIndInv, HShape, BeforeTheSnapshot, CompilesTheSnapshot, ReloadsFollowSaves,
                Subscribed
  <2>2. CASE HNext
    BY <2>2, SaveComponentKeeps, ReadFileKeeps, WatchKeeps, WrittenKeeps, BroadcastKeeps, PageKeeps
    DEF HNext
  <2> QED
    BY <2>1, <2>2
<1> QED
  BY <1>1, <1>2, PTL DEF HSpec

\* The snapshots are of versions that the files have had.
THEOREM HotReloadTypeCorrect == HSpec => []HTypeOK
<1>1. HIndInv => HTypeOK
  BY DEF HIndInv, HShape, HTypeOK, HStates, HPages
<1> QED
  BY <1>1, HotReloadInvariance, PTL

-----------------------------------------------------------------------------
(* The development server *)

DPcs == {"compileFirst", "stopFirst", "buildFirst", "primeTemplates", "primeGo", "idle",
         "compareTemplates", "compile", "snapGo", "compareGo", "kill", "build", "ended"}

\* What has been scanned of a file is at most its version; an output is of a version
\* of the template, and has a stamp for each time it was written.
Kinds == {"template", "go"}

DTypes ==
  /\ dSource \in [template : Nat, go : Nat, broken : BOOLEAN]
  /\ dOutput \in [template : Nat, stamp : Nat]
  /\ dSnap \in [template : Nat, go : Nat, stamp : Nat]
  /\ dRead \in [template : Nat, go : Nat, stamp : Nat]
  /\ dCount \in [edits : Nat, faults : Nat]
  /\ dPc \in DPcs /\ dMissed \subseteq {"template", "go"}

DBounds ==
  /\ dSource.template + dSource.go = 2 + dCount.edits /\ dSource.go >= 1 /\ dSource.template >= 1
  /\ dOutput.template <= dSource.template
  /\ dSnap.template <= dSource.template /\ dRead.template <= dSource.template
  /\ dSnap.go <= dSource.go /\ dRead.go <= dSource.go
  /\ dSnap.stamp <= dOutput.stamp /\ dCount.edits <= DEdits

DShape == DTypes /\ DBounds

\* The output is compiled again only for a template that is newer than the last.
StampsBounded ==
  /\ dPc = "compileFirst" => dOutput.stamp = 0
  /\ dPc \in {"stopFirst", "buildFirst", "primeTemplates"} => dOutput.stamp <= 1
  /\ dPc \in DPcs \ {"compileFirst", "stopFirst", "buildFirst", "primeTemplates", "compile"} =>
       dOutput.stamp <= dSnap.template
  /\ dPc = "compile" => dOutput.stamp + 1 <= dSnap.template
  /\ dPc = "compareTemplates" => dSnap.template <= dRead.template

ServerIsOf(go) == IF dSource.broken THEN dServer = Nobody
                  ELSE dServer = [template |-> dOutput.template, go |-> go]

\* A template that was scanned as it is has been compiled, or is counted as missed.
TemplatesCompiled ==
  /\ dPc \in {"stopFirst", "buildFirst", "primeTemplates"} =>
       dOutput.template = dSource.template \/ "template" \in dMissed
  /\ dPc \in {"primeGo", "idle", "compareTemplates", "snapGo", "compareGo", "kill", "build"} =>
       (dSnap.template = dSource.template =>
          dOutput.template = dSource.template \/ "template" \in dMissed)

\* The Go files that were scanned as they are have been built, or are counted as missed.
GoFilesBuilt ==
  /\ dPc \in {"primeTemplates", "primeGo"} => ServerIsOf(dSource.go) \/ "go" \in dMissed
  /\ dPc \in {"idle", "compareTemplates", "compile", "snapGo", "compareGo"} =>
       (dSnap.go = dSource.go /\ dSnap.stamp = dOutput.stamp =>
          ServerIsOf(dSource.go) \/ "go" \in dMissed)
  /\ dPc \in {"idle", "compareTemplates", "kill", "build"} => dSnap.stamp = dOutput.stamp
  /\ dPc = "compareGo" => dRead.stamp = dOutput.stamp
  /\ dPc \in {"compile", "snapGo", "compareGo"} => dRead.template = dSnap.template

DIndInv == DShape /\ StampsBounded /\ TemplatesCompiled /\ GoFilesBuilt

\* What is known of the numbers, for the steps to use without the records' types.
DNumbers ==
  /\ dSource.template \in Nat /\ dSource.go \in Nat /\ dOutput.template \in Nat /\ dOutput.stamp \in Nat
  /\ dSnap.template \in Nat /\ dSnap.go \in Nat /\ dSnap.stamp \in Nat
  /\ dRead.template \in Nat /\ dRead.go \in Nat /\ dRead.stamp \in Nat
  /\ dCount.edits \in Nat /\ DEdits \in Nat

LEMMA DTypesAre == ASSUME DTypes PROVE DNumbers
BY DevServerAssumption DEF DTypes, DNumbers, DevServerAssumption

\* A file is saved: what it says of the template, and of the Go source.
LEMMA SaveIs ==
  ASSUME DIndInv, NEW broken \in BOOLEAN
  PROVE /\ SaveFile("template", broken) =>
             /\ dSource' \in [template : Nat, go : Nat, broken : BOOLEAN]
             /\ dSource'.template = dSource.template + 1 /\ dSource'.go = dSource.go
             /\ dSource'.broken = dSource.broken
        /\ SaveFile("go", broken) =>
             /\ dSource' \in [template : Nat, go : Nat, broken : BOOLEAN]
             /\ dSource'.template = dSource.template /\ dSource'.go = dSource.go + 1
<1>1. dSource \in [template : Nat, go : Nat, broken : BOOLEAN]
  BY DEF DIndInv, DShape, DTypes
<1>2. dSource' = [dSource EXCEPT !["template"] = dSource["template"] + 1, !["broken"] = broken]
      /\ broken = dSource.broken
      => /\ dSource' \in [template : Nat, go : Nat, broken : BOOLEAN]
         /\ dSource'.template = dSource.template + 1 /\ dSource'.go = dSource.go
         /\ dSource'.broken = dSource.broken
  BY <1>1
<1>3. dSource' = [dSource EXCEPT !["go"] = dSource["go"] + 1, !["broken"] = broken]
      => /\ dSource' \in [template : Nat, go : Nat, broken : BOOLEAN]
         /\ dSource'.template = dSource.template /\ dSource'.go = dSource.go + 1
  BY <1>1
<1> QED
  BY <1>2, <1>3 DEF SaveFile

LEMMA SaveBounds ==
  ASSUME DIndInv, NEW kind, NEW broken, SaveFile(kind, broken),
         dSource' \in [template : Nat, go : Nat, broken : BOOLEAN],
         dSource'.template + dSource'.go = dSource.template + dSource.go + 1,
         dSource.template <= dSource'.template, dSource.go <= dSource'.go, dMissed' \subseteq Kinds
  PROVE DShape' /\ StampsBounded'
<1>t. DTypes /\ DBounds /\ DNumbers
  BY DTypesAre DEF DIndInv, DShape
<1>1. /\ dCount.edits < DEdits /\ dCount' = [dCount EXCEPT !.edits = dCount.edits + 1]
      /\ UNCHANGED <<dOutput, dSnap, dPc, dRead, dServer>>
  BY DEF SaveFile
<1>2. /\ dCount' \in [edits : Nat, faults : Nat] /\ dCount'.edits = dCount.edits + 1
  <2>1. dCount \in [edits : Nat, faults : Nat]
    BY <1>t DEF DTypes
  <2> QED
    BY <1>1, <2>1
<1>3. DTypes'
  BY <1>t, <1>1, <1>2 DEF DTypes, Kinds
<1>4. dSource'.template \in Nat /\ dSource'.go \in Nat /\ dCount'.edits <= DEdits
  BY <1>t, <1>1, <1>2 DEF DNumbers
<1>5. DBounds'
  BY <1>t, <1>1, <1>2, <1>4 DEF DBounds, DNumbers
<1>6. StampsBounded'
  BY <1>1 DEF DIndInv, StampsBounded
<1> QED
  BY <1>3, <1>5, <1>6 DEF DShape

LEMMA SaveTemplateKeeps ==
  ASSUME DIndInv, NEW broken \in BOOLEAN, SaveFile("template", broken)
  PROVE DIndInv'
<1>t. DTypes /\ DBounds /\ DNumbers
  BY DTypesAre DEF DIndInv, DShape
<1>1. /\ dSource' \in [template : Nat, go : Nat, broken : BOOLEAN]
      /\ dSource'.template = dSource.template + 1 /\ dSource'.go = dSource.go
      /\ dSource'.broken = dSource.broken
  BY SaveIs
<1>2. /\ dPc \in {"stopFirst", "buildFirst", "primeTemplates"} => "template" \in dMissed'
      /\ "go" \in dMissed => "go" \in dMissed'
      /\ dMissed' \subseteq Kinds
      /\ UNCHANGED <<dOutput, dSnap, dPc, dRead, dServer>>
  <2>1. Unprimed["template"] = {"stopFirst", "buildFirst", "primeTemplates"}
    BY DEF Unprimed
  <2> QED
    BY <1>t, <2>1 DEF SaveFile, DTypes, Kinds
<1>3. /\ dSnap.template # dSource'.template
      /\ dSource'.template + dSource'.go = dSource.template + dSource.go + 1
      /\ dSource.template <= dSource'.template /\ dSource.go <= dSource'.go
  BY <1>t, <1>1 DEF DNumbers, DBounds
<1>4. DShape' /\ StampsBounded'
  BY <1>1, <1>2, <1>3, SaveBounds
<1>5. TemplatesCompiled'
  BY <1>2, <1>3 DEF TemplatesCompiled
<1>6. GoFilesBuilt'
  BY <1>1, <1>2 DEF DIndInv, GoFilesBuilt, ServerIsOf
<1> QED
  BY <1>4, <1>5, <1>6 DEF DIndInv

LEMMA SaveGoKeeps ==
  ASSUME DIndInv, NEW broken \in BOOLEAN, SaveFile("go", broken)
  PROVE DIndInv'
<1>t. DTypes /\ DBounds /\ DNumbers
  BY DTypesAre DEF DIndInv, DShape
<1>1. /\ dSource' \in [template : Nat, go : Nat, broken : BOOLEAN]
      /\ dSource'.template = dSource.template /\ dSource'.go = dSource.go + 1
  BY SaveIs
<1>2. /\ dPc \in {"primeTemplates", "primeGo"} => "go" \in dMissed'
      /\ "template" \in dMissed => "template" \in dMissed'
      /\ dMissed' \subseteq Kinds
      /\ UNCHANGED <<dOutput, dSnap, dPc, dRead, dServer>>
  <2>1. Unprimed["go"] = {"primeTemplates", "primeGo"}
    BY DEF Unprimed
  <2> QED
    BY <1>t, <2>1 DEF SaveFile, DTypes, Kinds
<1>3. /\ dSnap.go # dSource'.go
      /\ dSource'.template + dSource'.go = dSource.template + dSource.go + 1
      /\ dSource.template <= dSource'.template /\ dSource.go <= dSource'.go
  BY <1>t, <1>1 DEF DNumbers, DBounds
<1>4. DShape' /\ StampsBounded'
  BY <1>1, <1>2, <1>3, SaveBounds
<1>5. TemplatesCompiled'
  BY <1>1, <1>2 DEF DIndInv, TemplatesCompiled
<1>6. GoFilesBuilt'
  BY <1>2, <1>3 DEF DIndInv, GoFilesBuilt
<1> QED
  BY <1>4, <1>5, <1>6 DEF DIndInv

\* A compilation succeeds.
LEMMA CompilesKeeps ==
  ASSUME DIndInv,
         Compiles("compileFirst", "stopFirst") \/ Compiles("compile", "snapGo")
  PROVE DIndInv'
<1>t. DTypes /\ DBounds /\ DNumbers
  BY DTypesAre DEF DIndInv, DShape
<1>1. /\ UNCHANGED <<dSource, dSnap, dRead, dServer, dCount>>
      /\ dPc \in {"compileFirst", "compile"}
      /\ dPc' = IF dPc = "compile" THEN "snapGo" ELSE "stopFirst"
  BY DEF Compiles, Step
<1>2. /\ dOutput' \in [template : Nat, stamp : Nat] /\ dOutput'.template = dSource.template
      /\ dOutput'.stamp = dOutput.stamp + 1
  BY <1>t DEF Compiles, DNumbers
<1>3. dMissed' \subseteq {"template", "go"}
  BY <1>t DEF Compiles, DTypes
<1>4. DTypes'
  BY <1>t, <1>1, <1>2, <1>3 DEF DTypes, DPcs
<1>5. /\ dOutput'.stamp = dOutput.stamp + 1 /\ dOutput'.template = dSource.template
      /\ UNCHANGED <<dSource, dSnap, dRead, dCount>>
  BY <1>1, <1>2
<1>6. DBounds'
  BY <1>t, <1>5 DEF DBounds, DNumbers
<1>7. StampsBounded'
  <2>1. /\ dPc = "compileFirst" => dOutput.stamp = 0
        /\ dPc = "compile" => dOutput.stamp + 1 <= dSnap.template
    BY DEF DIndInv, StampsBounded
  <2>2. dOutput.stamp = 0 => dOutput'.stamp <= 1
    BY <1>5
  <2>3. dOutput.stamp + 1 <= dSnap.template => dOutput'.stamp <= dSnap'.template
    BY <1>5
  <2>4. /\ dPc = "compileFirst" => dOutput'.stamp <= 1
        /\ dPc = "compile" => dOutput'.stamp <= dSnap'.template
    BY <2>1, <2>2, <2>3, Zenon
  <2> QED
    BY <1>1, <2>4 DEF StampsBounded
<1>8. TemplatesCompiled'
  BY <1>1, <1>5 DEF TemplatesCompiled
<1>9. GoFilesBuilt'
  <2>1. dSnap.stamp # dOutput'.stamp
    BY <1>t, <1>5 DEF DBounds, DNumbers
  <2> QED
    BY <1>1, <2>1 DEF DIndInv, GoFilesBuilt
<1> QED
  BY <1>4, <1>6, <1>7, <1>8, <1>9 DEF DIndInv, DShape

\* A compilation fails.
LEMMA CompileErrsKeeps ==
  ASSUME DIndInv,
         CompileErrs("compileFirst", "stopFirst") \/ CompileErrs("compile", "snapGo")
  PROVE DIndInv'
<1>t. DTypes /\ DBounds /\ DNumbers
  BY DTypesAre DEF DIndInv, DShape
<1>1. /\ UNCHANGED <<dSource, dOutput, dSnap, dRead, dServer>>
      /\ dPc \in {"compileFirst", "compile"}
      /\ dPc' = IF dPc = "compile" THEN "snapGo" ELSE "stopFirst"
      /\ dMissed' = dMissed \cup {"template"}
  BY DEF CompileErrs, Step
<1>2. dCount' \in [edits : Nat, faults : Nat] /\ dCount'.edits = dCount.edits
  <2>1. dCount' = [dCount EXCEPT !.faults = dCount.faults + 1] /\ dCount \in [edits : Nat, faults : Nat]
    BY <1>t DEF CompileErrs, DTypes
  <2> QED
    BY <2>1
<1>3. dMissed' \subseteq {"template", "go"}
  BY <1>t, <1>1 DEF DTypes
<1>4. DTypes'
  BY <1>t, <1>1, <1>2, <1>3 DEF DTypes, DPcs
<1>5. DBounds'
  BY <1>t, <1>1, <1>2 DEF DBounds
<1>6. StampsBounded'
  <2>1. /\ dPc = "compileFirst" => dOutput.stamp = 0
        /\ dPc = "compile" => dOutput.stamp + 1 <= dSnap.template
    BY DEF DIndInv, StampsBounded
  <2>2. /\ dOutput.stamp = 0 => dOutput.stamp <= 1
        /\ dOutput.stamp + 1 <= dSnap.template => dOutput.stamp <= dSnap.template
    BY <1>t DEF DNumbers
  <2>3. /\ dPc = "compileFirst" => dOutput.stamp <= 1
        /\ dPc = "compile" => dOutput.stamp <= dSnap.template
    BY <2>1, <2>2, Zenon
  <2> QED
    BY <1>1, <2>3 DEF StampsBounded
<1>7. TemplatesCompiled' /\ GoFilesBuilt'
  BY <1>1 DEF DIndInv, TemplatesCompiled, GoFilesBuilt, ServerIsOf
<1> QED
  BY <1>4, <1>5, <1>6, <1>7 DEF DIndInv, DShape

\* The old server is killed.
LEMMA KillKeeps ==
  ASSUME DIndInv,
         Kill("stopFirst", "buildFirst") \/ Kill("kill", "build") \/ Kill("idle", "ended")
  PROVE DIndInv'
<1>1. /\ UNCHANGED <<dSource, dOutput, dSnap, dRead, dMissed, dCount>>
      /\ \/ dPc = "stopFirst" /\ dPc' = "buildFirst"
         \/ dPc = "kill" /\ dPc' = "build"
         \/ dPc = "idle" /\ dPc' = "ended"
  BY DEF Kill, Step
<1>2. DShape'
  BY <1>1 DEF DIndInv, DShape, DTypes, DBounds, DPcs
<1>3. StampsBounded'
  BY <1>1 DEF DIndInv, StampsBounded, DPcs
<1>4. TemplatesCompiled' /\ GoFilesBuilt'
  BY <1>1 DEF DIndInv, TemplatesCompiled, GoFilesBuilt
<1> QED
  BY <1>2, <1>3, <1>4 DEF DIndInv

\* The server is built.
LEMMA BuildKeeps ==
  ASSUME DIndInv,
         Build("buildFirst", "primeTemplates") \/ Build("build", "idle")
  PROVE DIndInv'
<1>1. /\ UNCHANGED <<dSource, dOutput, dSnap, dRead, dCount>> /\ dMissed' = dMissed \ {"go"}
      /\ \/ dPc = "buildFirst" /\ dPc' = "primeTemplates"
         \/ dPc = "build" /\ dPc' = "idle"
  BY DEF Build, Step
<1>2. ServerIsOf(dSource.go)'
  BY <1>1 DEF Build, ServerIsOf
<1>3. DShape'
  BY <1>1 DEF DIndInv, DShape, DTypes, DBounds, DPcs
<1>4. StampsBounded'
  BY <1>1 DEF DIndInv, StampsBounded, DPcs
<1>5. TemplatesCompiled'
  BY <1>1 DEF DIndInv, TemplatesCompiled
<1>6. GoFilesBuilt'
  BY <1>1, <1>2 DEF DIndInv, GoFilesBuilt
<1> QED
  BY <1>3, <1>4, <1>5, <1>6 DEF DIndInv

\* The server is built and does not start.
LEMMA StartErrsKeeps ==
  ASSUME DIndInv,
         StartErrs("buildFirst", "primeTemplates") \/ StartErrs("build", "idle")
  PROVE DIndInv'
<1>t. DTypes /\ DBounds
  BY DEF DIndInv, DShape
<1>1. /\ UNCHANGED <<dSource, dOutput, dSnap, dRead>> /\ dMissed' = dMissed \cup {"go"}
      /\ \/ dPc = "buildFirst" /\ dPc' = "primeTemplates"
         \/ dPc = "build" /\ dPc' = "idle"
  BY DEF StartErrs, Step
<1>2. dCount' \in [edits : Nat, faults : Nat] /\ dCount'.edits = dCount.edits
  <2>1. dCount' = [dCount EXCEPT !.faults = dCount.faults + 1] /\ dCount \in [edits : Nat, faults : Nat]
    BY <1>t DEF StartErrs, DTypes
  <2> QED
    BY <2>1
<1>3. dMissed' \subseteq {"template", "go"}
  BY <1>t, <1>1 DEF DTypes
<1>4. DTypes'
  BY <1>t, <1>1, <1>2, <1>3 DEF DTypes, DPcs
<1>5. DBounds'
  BY <1>t, <1>1, <1>2 DEF DBounds
<1>6. StampsBounded'
  BY <1>1 DEF DIndInv, StampsBounded, DPcs
<1>7. TemplatesCompiled'
  BY <1>1 DEF DIndInv, TemplatesCompiled
<1>8. GoFilesBuilt'
  BY <1>1 DEF DIndInv, GoFilesBuilt
<1> QED
  BY <1>4, <1>5, <1>6, <1>7, <1>8 DEF DIndInv, DShape

\* The snapshots are primed.
LEMMA PrimeTemplatesKeeps ==
  ASSUME DIndInv, PrimeTemplates
  PROVE DIndInv'
<1>t. DTypes /\ DBounds /\ DNumbers
  BY DTypesAre DEF DIndInv, DShape
<1>1. /\ UNCHANGED <<dSource, dOutput, dRead, dServer, dMissed, dCount>>
      /\ dPc = "primeTemplates" /\ dPc' = "primeGo"
  BY DEF PrimeTemplates, Step
<1>2. /\ dSnap' \in [template : Nat, go : Nat, stamp : Nat]
      /\ dSnap'.template = dSource.template /\ dSnap'.go = dSnap.go /\ dSnap'.stamp = dSnap.stamp
  <2>1. /\ dSnap' = [dSnap EXCEPT !.template = dSource.template] /\ dSource.template \in Nat
        /\ dSnap \in [template : Nat, go : Nat, stamp : Nat]
    BY <1>t DEF PrimeTemplates, DTypes, DNumbers
  <2> QED
    BY <2>1
<1>3. DTypes'
  BY <1>t, <1>1, <1>2 DEF DTypes, DPcs
<1>4. DBounds'
  <2>1. UNCHANGED <<dSource, dOutput, dRead, dCount>>
    BY <1>1
  <2> QED
    BY <1>t, <1>2, <2>1 DEF DBounds, DNumbers
<1>5. StampsBounded'
  <2>1. dOutput.stamp <= 1
    BY <1>1 DEF DIndInv, StampsBounded
  <2>2. dOutput.stamp <= dSource.template
    BY <1>t, <2>1 DEF DBounds, DNumbers
  <2> QED
    BY <1>1, <1>2, <2>2 DEF StampsBounded
<1>6. TemplatesCompiled' /\ GoFilesBuilt'
  BY <1>1, <1>2 DEF DIndInv, TemplatesCompiled, GoFilesBuilt, ServerIsOf
<1> QED
  BY <1>3, <1>4, <1>5, <1>6 DEF DIndInv, DShape

LEMMA PrimeGoKeeps ==
  ASSUME DIndInv, PrimeGo
  PROVE DIndInv'
<1>t. DTypes /\ DBounds /\ DNumbers
  BY DTypesAre DEF DIndInv, DShape
<1>1. /\ UNCHANGED <<dSource, dOutput, dRead, dServer, dMissed, dCount>>
      /\ dPc = "primeGo" /\ dPc' = "idle"
  BY DEF PrimeGo, Step
<1>2. /\ dSnap' \in [template : Nat, go : Nat, stamp : Nat]
      /\ dSnap'.template = dSnap.template /\ dSnap'.go = dSource.go /\ dSnap'.stamp = dOutput.stamp
  <2>1. /\ dSnap' = [dSnap EXCEPT !.go = dSource.go, !.stamp = dOutput.stamp]
        /\ dSource.go \in Nat /\ dOutput.stamp \in Nat
        /\ dSnap \in [template : Nat, go : Nat, stamp : Nat]
    BY <1>t DEF PrimeGo, DTypes, DNumbers
  <2> QED
    BY <2>1
<1>3. DTypes'
  BY <1>t, <1>1, <1>2 DEF DTypes, DPcs
<1>4. DBounds'
  <2>1. UNCHANGED <<dSource, dOutput, dRead, dCount>>
    BY <1>1
  <2> QED
    BY <1>t, <1>2, <2>1 DEF DBounds, DNumbers
<1>5. StampsBounded'
  BY <1>1, <1>2 DEF DIndInv, StampsBounded, DPcs
<1>6. TemplatesCompiled' /\ GoFilesBuilt'
  BY <1>1, <1>2 DEF DIndInv, TemplatesCompiled, GoFilesBuilt, ServerIsOf
<1> QED
  BY <1>3, <1>4, <1>5, <1>6 DEF DIndInv, DShape

\* The scans of a tick.
LEMMA SnapTemplatesKeeps ==
  ASSUME DIndInv, SnapTemplates
  PROVE DIndInv'
<1>t. DTypes /\ DBounds /\ DNumbers
  BY DTypesAre DEF DIndInv, DShape
<1>1. /\ UNCHANGED <<dSource, dOutput, dSnap, dServer, dMissed, dCount>>
      /\ dPc = "idle" /\ dPc' = "compareTemplates"
  BY DEF SnapTemplates, Step
<1>2. /\ dRead' \in [template : Nat, go : Nat, stamp : Nat]
      /\ dRead'.template = dSource.template /\ dRead'.go = dRead.go /\ dRead'.stamp = dRead.stamp
  <2>1. /\ dRead' = [dRead EXCEPT !.template = dSource.template] /\ dSource.template \in Nat
        /\ dRead \in [template : Nat, go : Nat, stamp : Nat]
    BY <1>t DEF SnapTemplates, DTypes, DNumbers
  <2> QED
    BY <2>1
<1>3. DTypes'
  BY <1>t, <1>1, <1>2 DEF DTypes, DPcs
<1>4. DBounds'
  <2>1. UNCHANGED <<dSource, dOutput, dSnap, dCount>>
    BY <1>1
  <2> QED
    BY <1>t, <1>2, <2>1 DEF DBounds, DNumbers
<1>5. StampsBounded'
  <2>1. dSnap.template <= dRead'.template
    BY <1>t, <1>2 DEF DBounds
  <2> QED
    BY <1>1, <2>1 DEF DIndInv, StampsBounded, DPcs
<1>6. TemplatesCompiled' /\ GoFilesBuilt'
  BY <1>1, <1>2 DEF DIndInv, TemplatesCompiled, GoFilesBuilt, ServerIsOf
<1> QED
  BY <1>3, <1>4, <1>5, <1>6 DEF DIndInv, DShape

LEMMA SnapGoKeeps ==
  ASSUME DIndInv, SnapGo
  PROVE DIndInv'
<1>t. DTypes /\ DBounds /\ DNumbers
  BY DTypesAre DEF DIndInv, DShape
<1>1. /\ UNCHANGED <<dSource, dOutput, dSnap, dServer, dMissed, dCount>>
      /\ dPc = "snapGo" /\ dPc' = "compareGo"
  BY DEF SnapGo, Step
<1>2. /\ dRead' \in [template : Nat, go : Nat, stamp : Nat]
      /\ dRead'.template = dRead.template /\ dRead'.go = dSource.go /\ dRead'.stamp = dOutput.stamp
  <2>1. /\ dRead' = [dRead EXCEPT !.go = dSource.go, !.stamp = dOutput.stamp]
        /\ dSource.go \in Nat /\ dOutput.stamp \in Nat
        /\ dRead \in [template : Nat, go : Nat, stamp : Nat]
    BY <1>t DEF SnapGo, DTypes, DNumbers
  <2> QED
    BY <2>1
<1>3. DTypes'
  BY <1>t, <1>1, <1>2 DEF DTypes, DPcs
<1>4. DBounds'
  <2>1. UNCHANGED <<dSource, dOutput, dSnap, dCount>>
    BY <1>1
  <2> QED
    BY <1>t, <1>2, <2>1 DEF DBounds, DNumbers
<1>5. StampsBounded'
  BY <1>1, <1>2 DEF DIndInv, StampsBounded, DPcs
<1>6. TemplatesCompiled' /\ GoFilesBuilt'
  BY <1>1, <1>2 DEF DIndInv, TemplatesCompiled, GoFilesBuilt, ServerIsOf
<1> QED
  BY <1>3, <1>4, <1>5, <1>6 DEF DIndInv, DShape

\* The comparisons of a tick.
LEMMA CompareTemplatesKeeps ==
  ASSUME DIndInv, CompareTemplates
  PROVE DIndInv'
<1>t. DTypes /\ DBounds /\ DNumbers
  BY DTypesAre DEF DIndInv, DShape
<1>1. /\ UNCHANGED <<dSource, dOutput, dRead, dServer, dMissed, dCount>>
      /\ dPc = "compareTemplates"
      /\ dPc' = IF dRead.template = dSnap.template THEN "snapGo" ELSE "compile"
  BY DEF CompareTemplates, Step
<1>2. /\ dSnap' \in [template : Nat, go : Nat, stamp : Nat]
      /\ dSnap'.template = dRead.template /\ dSnap'.go = dSnap.go /\ dSnap'.stamp = dSnap.stamp
  <2>1. /\ dSnap' = [dSnap EXCEPT !.template = dRead.template] /\ dRead.template \in Nat
        /\ dSnap \in [template : Nat, go : Nat, stamp : Nat]
    BY <1>t DEF CompareTemplates, DTypes, DNumbers
  <2> QED
    BY <2>1
<1>3. DTypes'
  BY <1>t, <1>1, <1>2 DEF DTypes, DPcs
<1>4. DBounds'
  <2>1. UNCHANGED <<dSource, dOutput, dRead, dCount>>
    BY <1>1
  <2> QED
    BY <1>t, <1>2, <2>1 DEF DBounds, DNumbers
<1>5. StampsBounded'
  <2>1. dOutput.stamp <= dSnap.template /\ dSnap.template <= dRead.template
    BY <1>1 DEF DIndInv, StampsBounded, DPcs
  <2>2. /\ dOutput.stamp <= dRead.template
        /\ dRead.template # dSnap.template => dOutput.stamp + 1 <= dRead.template
    BY <1>t, <2>1 DEF DNumbers
  <2> QED
    BY <1>1, <1>2, <2>2 DEF StampsBounded
<1>6. TemplatesCompiled' /\ GoFilesBuilt'
  BY <1>1, <1>2 DEF DIndInv, TemplatesCompiled, GoFilesBuilt, ServerIsOf
<1> QED
  BY <1>3, <1>4, <1>5, <1>6 DEF DIndInv, DShape

LEMMA CompareGoKeeps ==
  ASSUME DIndInv, CompareGo
  PROVE DIndInv'
<1>t. DTypes /\ DBounds /\ DNumbers
  BY DTypesAre DEF DIndInv, DShape
<1>1. /\ UNCHANGED <<dSource, dOutput, dRead, dServer, dMissed, dCount>>
      /\ dPc = "compareGo" /\ dPc' = IF dRead = dSnap THEN "idle" ELSE "kill"
      /\ dSnap' = dRead
  BY DEF CompareGo, Step
<1>2. dRead.template = dSnap.template /\ dRead.stamp = dOutput.stamp
  BY <1>1 DEF DIndInv, GoFilesBuilt
<1>3. DTypes'
  BY <1>t, <1>1 DEF DTypes, DPcs
<1>4. DBounds'
  <2>1. UNCHANGED <<dSource, dOutput, dRead, dCount>> /\ dSnap' = dRead
    BY <1>1
  <2> QED
    BY <1>t, <1>2, <2>1 DEF DBounds, DNumbers
<1>5. StampsBounded'
  BY <1>1, <1>2 DEF DIndInv, StampsBounded, DPcs
<1>6. TemplatesCompiled' /\ GoFilesBuilt'
  BY <1>1, <1>2 DEF DIndInv, TemplatesCompiled, GoFilesBuilt, ServerIsOf
<1> QED
  BY <1>3, <1>4, <1>5, <1>6 DEF DIndInv, DShape

\* The loop's state is as DIndInv has it, whenever files are saved.
THEOREM DevServerInvariance == DSpec => []DIndInv
<1>1. DInit => DIndInv
  <2> SUFFICES ASSUME DInit PROVE DIndInv
    OBVIOUS
  <2>1. DTypes
    BY DEF DInit, DTypes, DPcs
  <2>n. DBounds
    BY DevServerAssumption DEF DInit, DBounds, DevServerAssumption
  <2>2. StampsBounded /\ TemplatesCompiled /\ GoFilesBuilt
    BY DEF DInit, StampsBounded, TemplatesCompiled, GoFilesBuilt, DPcs
  <2> QED
    BY <2>1, <2>n, <2>2 DEF DIndInv, DShape
<1>2. DIndInv /\ [DNext]_dvars => DIndInv'
  <2> SUFFICES ASSUME DIndInv, [DNext]_dvars PROVE DIndInv'
    OBVIOUS
  <2>1. CASE UNCHANGED dvars
    <3>t. DTypes /\ DBounds /\ UNCHANGED <<dSource, dOutput, dSnap, dPc, dRead, dMissed, dCount>>
      BY <2>1 DEF dvars, DIndInv, DShape
    <3>n. DTypes'
      BY <3>t DEF DTypes
    <3>1. DBounds'
      BY <3>t DEF DBounds
    <3>2. StampsBounded' /\ TemplatesCompiled' /\ GoFilesBuilt'
      BY <2>1 DEF dvars, DIndInv, StampsBounded, TemplatesCompiled, GoFilesBuilt, ServerIsOf
    <3> QED
      BY <3>n, <3>1, <3>2 DEF DIndInv, DShape
  <2>2. ASSUME NEW kind \in {"template", "go"}, NEW broken \in BOOLEAN, SaveFile(kind, broken)
        PROVE DIndInv'
    BY <2>2, SaveTemplateKeeps, SaveGoKeeps
  <2>3. CASE Compiles("compileFirst", "stopFirst") \/ Compiles("compile", "snapGo")
    BY <2>3, CompilesKeeps
  <2>4. CASE CompileErrs("compileFirst", "stopFirst") \/ CompileErrs("compile", "snapGo")
    BY <2>4, CompileErrsKeeps
  <2>5. CASE Kill("stopFirst", "buildFirst") \/ Kill("kill", "build") \/ Interrupt
    BY <2>5, KillKeeps DEF Interrupt
  <2>6. CASE Build("buildFirst", "primeTemplates") \/ Build("build", "idle")
    BY <2>6, BuildKeeps
  <2>8. CASE StartErrs("buildFirst", "primeTemplates") \/ StartErrs("build", "idle")
    BY <2>8, StartErrsKeeps
  <2>7. CASE PrimeTemplates \/ PrimeGo \/ SnapTemplates \/ SnapGo \/ CompareTemplates \/ CompareGo
    BY <2>7, PrimeTemplatesKeeps, PrimeGoKeeps, SnapTemplatesKeeps, SnapGoKeeps,
       CompareTemplatesKeeps, CompareGoKeeps
  <2> QED
    BY <2>1, <2>2, <2>3, <2>4, <2>5, <2>6, <2>7, <2>8 DEF DNext
<1> QED
  BY <1>1, <1>2, PTL DEF DSpec

\* Every output is of a version of the templates, and there is not more than one
\* for each version.
THEOREM DevServerTypeCorrect == DSpec => []DTypeOK
<1>1. DIndInv => DTypeOK
  <2> SUFFICES ASSUME DIndInv PROVE DTypeOK
    OBVIOUS
  <2>1. DTypes /\ DBounds /\ DNumbers
    BY DTypesAre DEF DIndInv, DShape
  <2>2. dOutput.stamp <= 1 + DEdits
    <3>1. dSource.template <= 1 + DEdits /\ dSnap.template <= dSource.template
      BY <2>1 DEF DBounds, DNumbers
    <3>2. dOutput.stamp <= 1 \/ dOutput.stamp <= dSnap.template
      <4>1. /\ dOutput.stamp = 0 => dOutput.stamp <= 1
            /\ dOutput.stamp + 1 <= dSnap.template => dOutput.stamp <= dSnap.template
        BY <2>1 DEF DNumbers
      <4>2. dPc \in DPcs
        BY <2>1 DEF DTypes
      <4> QED
        BY <4>1, <4>2 DEF DIndInv, StampsBounded
    <3> QED
      BY <2>1, <3>1, <3>2 DEF DNumbers
  <2> QED
    BY <2>1, <2>2 DEF DTypes, DBounds, DTypeOK, DPcs, Before
<1> QED
  BY <1>1, DevServerInvariance, PTL

\* What was saved reaches the server and the pages, however the saves fall between
\* the polls, the compilations and the builds of both.
THEOREM SavesReachTheScreen == ScreensSpec => []ScreensFollowSaves
<1>1. HIndInv => ReloadsFollowSaves
  BY DEF HIndInv
<1>2. DIndInv => ServesWhatWasSaved
  <2> SUFFICES ASSUME DIndInv, dPc = "idle", dSnap.template = dSource.template,
                      dSnap.go = dSource.go
               PROVE /\ dSnap.stamp = dOutput.stamp
                     /\ "template" \notin dMissed => dOutput.template = dSource.template
                     /\ "go" \notin dMissed =>
                          IF dSource.broken THEN dServer = Nobody
                          ELSE dServer = [template |-> dOutput.template, go |-> dSource.go]
    BY DEF ServesWhatWasSaved
  <2> QED
    BY DEF DIndInv, TemplatesCompiled, GoFilesBuilt, ServerIsOf
<1> QED
  BY <1>1, <1>2, HotReloadInvariance, DevServerInvariance, PTL DEF ScreensSpec, ScreensFollowSaves

-----------------------------------------------------------------------------
(* Events *)

EArrays == [cap : Nat, data : Seq(EListeners)]
ESlices == [array : Nat, len : Nat]
EDispatches == [mode : {"sync", "async"}, slice : ESlices, ran : Seq(EListeners),
                errs : SUBSET EListeners, at : Seq(EListeners)]

\* No listener is in s twice.
Distinct(s) == \A m, n \in 1 .. Len(s) : s[m] = s[n] => m = n

\* Listen has written the newest array up to where its slice ends.
EShape ==
  /\ eHeap \in Seq(EArrays) /\ eSlice \in ESlices
  /\ eSlice.array \in 1 .. Len(eHeap) /\ eSlice.array = Len(eHeap)
  /\ eSlice.len = Len(eHeap[eSlice.array].data) /\ eSlice.len <= eHeap[eSlice.array].cap
  /\ \A a \in 1 .. Len(eHeap) : Distinct(eHeap[a].data)
  /\ eCall \in [ECalls -> {NoCall} \cup EDispatches]

\* A call's slice is of what was registered when it began: nothing that Listen has
\* written since is within its length.
SliceIsSnapshot(call) ==
  /\ call.slice.array \in 1 .. Len(eHeap)
  /\ call.slice.len <= Len(eHeap[call.slice.array].data) /\ Len(call.at) = call.slice.len
  /\ \A n \in 1 .. call.slice.len : call.at[n] = eHeap[call.slice.array].data[n]
  /\ Distinct(call.at)

\* What a call has run: a prefix when synchronous, of which only the last failed; any
\* of them, but each once, when asynchronous.
RanOfSnapshot(call) ==
  /\ call.mode = "sync" =>
       /\ Len(call.ran) <= Len(call.at)
       /\ \A n \in 1 .. Len(call.ran) : call.ran[n] = call.at[n]
       /\ \A n \in 1 .. Len(call.ran) : call.ran[n] \in call.errs => n = Len(call.ran)
  /\ call.mode = "async" =>
       /\ Distinct(call.ran)
       /\ \A n \in 1 .. Len(call.ran) : \E m \in 1 .. Len(call.at) : call.ran[n] = call.at[m]

EIndInv ==
  EShape /\ \A c \in ECalls : eCall[c] # NoCall => SliceIsSnapshot(eCall[c]) /\ RanOfSnapshot(eCall[c])

\* A call that has begun.
LEMMA DispatchIs ==
  ASSUME EShape, NEW c \in ECalls, eCall[c] # NoCall
  PROVE eCall[c] \in EDispatches
BY DEF EShape

\* What Registered is.
LEMMA RegisteredIs ==
  ASSUME EShape
  PROVE /\ Registered \in Seq(EListeners) /\ Len(Registered) = eSlice.len
        /\ Registered = eHeap[eSlice.array].data
        /\ eHeap[eSlice.array] \in EArrays
        /\ \A n \in 1 .. eSlice.len : Registered[n] = eHeap[eSlice.array].data[n]
<1> DEFINE data == eHeap[eSlice.array].data
<1>1. eHeap[eSlice.array] \in EArrays
  BY ElementOfSeq DEF EShape
<1>2. data \in Seq(EListeners) /\ Len(data) = eSlice.len /\ eSlice.len \in Nat
  BY <1>1 DEF EArrays, EShape, ESlices
<1>3. Registered = [n \in 1 .. Len(data) |-> data[n]]
  BY <1>2 DEF Registered, Element
<1> HIDE DEF data
<1>4. data = [n \in 1 .. Len(data) |-> data[n]]
  BY <1>2
<1> QED
  BY <1>1, <1>2, <1>3, <1>4 DEF data

\* The array that Listen leaves: what was registered, and the new listener.
LEMMA GrownIs ==
  ASSUME EShape, NEW l \in EListeners, ~Contains(Registered, l), NEW grown,
         grown = SubSeq(eHeap[eSlice.array].data, 1, eSlice.len) \o <<l>>
  PROVE /\ grown \in Seq(EListeners) /\ Len(grown) = eSlice.len + 1 /\ Distinct(grown)
        /\ \A n \in 1 .. eSlice.len : grown[n] = eHeap[eSlice.array].data[n]
<1> DEFINE data == eHeap[eSlice.array].data
<1>1. data \in Seq(EListeners) /\ Len(data) = eSlice.len /\ eSlice.len \in Nat /\ Registered = data
  BY RegisteredIs DEF EShape, EArrays
<1>2. Distinct(data) /\ ~Contains(data, l)
  BY <1>1 DEF EShape
<1> HIDE DEF data
<1>3. SubSeq(data, 1, Len(data)) = data
  BY <1>1, SubSeqFull
<1>4. grown = Append(data, l)
  BY <1>1, <1>3, AppendIsConcat DEF data
<1>5. /\ grown \in Seq(EListeners) /\ Len(grown) = Len(data) + 1 /\ grown[Len(data) + 1] = l
      /\ \A n \in 1 .. Len(data) : grown[n] = data[n]
  <2> DEFINE longer == Append(data, l)
  <2>1. /\ longer \in Seq(EListeners) /\ Len(longer) = Len(data) + 1 /\ longer[Len(data) + 1] = l
        /\ \A n \in 1 .. Len(data) : longer[n] = data[n]
    BY <1>1, PushIs
  <2> QED
    BY <1>4, <2>1
<1>6. \A n \in 1 .. Len(data) : data[n] # l
  BY <1>2 DEF Contains
<1>7. Distinct(grown)
  <2> SUFFICES ASSUME NEW m \in 1 .. Len(grown), NEW n \in 1 .. Len(grown), grown[m] = grown[n]
               PROVE m = n
    BY DEF Distinct
  <2>1. /\ m \in 1 .. Len(data) \/ m = Len(data) + 1
        /\ n \in 1 .. Len(data) \/ n = Len(data) + 1
    BY <1>1, <1>5
  <2> QED
    BY <1>2, <1>5, <1>6, <2>1 DEF Distinct
<1> QED
  BY <1>1, <1>5, <1>7 DEF data

\* Listen leaves every array's elements where they are.
ArraysGrow ==
  \A a \in 1 .. Len(eHeap) :
    /\ a \in 1 .. Len(eHeap') /\ Len(eHeap[a].data) <= Len(eHeap'[a].data)
    /\ \A n \in 1 .. Len(eHeap[a].data) : eHeap'[a].data[n] = eHeap[a].data[n]

LEMMA ListenKeepsShape ==
  ASSUME EShape, NEW l \in EListeners, Listen(l)
  PROVE EShape' /\ ArraysGrow /\ UNCHANGED eCall
<1> DEFINE old == eHeap[eSlice.array]
           grown == SubSeq(old.data, 1, eSlice.len) \o <<l>>
           cap == IF old.cap = 0 THEN 1 ELSE 2 * old.cap
<1>1. /\ eHeap \in Seq(EArrays) /\ eSlice.array \in 1 .. Len(eHeap) /\ eSlice.array = Len(eHeap)
      /\ eSlice.len = Len(old.data) /\ eSlice.len <= old.cap /\ eSlice \in ESlices
      /\ UNCHANGED eCall
  BY DEF EShape, Listen
<1>2. old \in EArrays /\ old.cap \in Nat /\ eSlice.len \in Nat /\ Len(eHeap) \in Nat
  BY <1>1, RegisteredIs DEF EArrays, ESlices
<1>3. ~Contains(Registered, l)
  BY DEF Listen
<1>4. /\ grown \in Seq(EListeners) /\ Len(grown) = eSlice.len + 1 /\ Distinct(grown)
      /\ \A n \in 1 .. eSlice.len : grown[n] = old.data[n]
  BY <1>3, GrownIs
<1>5. \A a \in 1 .. Len(eHeap) : Distinct(eHeap[a].data) /\ Len(eHeap[a].data) \in Nat
  BY <1>1, ElementOfSeq DEF EShape, EArrays
<1>6. CASE eSlice.len < old.cap
  <2>1. eSlice' = [eSlice EXCEPT !.len = eSlice.len + 1]
    BY <1>6 DEF Listen
  <2>2. eSlice' \in ESlices /\ eSlice'.array = eSlice.array /\ eSlice'.len = eSlice.len + 1
    BY <1>1, <1>2, <2>1 DEF ESlices
  <2>3. eHeap' = [eHeap EXCEPT ![eSlice.array] = [old EXCEPT !.data = grown]]
    BY <1>6 DEF Listen
  <2> HIDE DEF grown
  <2>4. /\ [old EXCEPT !.data = grown] = [cap |-> old.cap, data |-> grown]
        /\ [cap |-> old.cap, data |-> grown] \in EArrays
    BY <1>2, <1>4 DEF EArrays
  <2> DEFINE new == [cap |-> old.cap, data |-> grown]
  <2>5. new.cap = old.cap /\ new.data = grown /\ new \in EArrays
    BY <2>4
  <2>6. eHeap' = [eHeap EXCEPT ![Len(eHeap)] = new] /\ eHeap # <<>>
    <3>1. eHeap' = [eHeap EXCEPT ![eSlice.array] = new]
      BY <2>3, <2>4
    <3> HIDE DEF new
    <3>2. eHeap # <<>>
      BY <1>1
    <3> QED
      BY <1>1, <3>1, <3>2
  <2> HIDE DEF new
  <2>7. /\ eHeap' \in Seq(EArrays) /\ Len(eHeap') = Len(eHeap)
        /\ \A a \in 1 .. Len(eHeap) : eHeap'[a] = IF a = Len(eHeap) THEN new ELSE eHeap[a]
    BY <1>1, <2>5, <2>6, TopIs
  <2>8. eHeap'[eSlice.array] = new
    BY <1>1, <2>7
  <2>9. EShape'
    <3>1. eSlice'.array \in 1 .. Len(eHeap') /\ eSlice'.array = Len(eHeap')
      BY <1>1, <2>2, <2>7
    <3>2. eSlice'.len = Len(new.data) /\ eSlice'.len <= new.cap /\ eHeap'[eSlice'.array] = new
      BY <1>2, <1>4, <1>6, <2>2, <2>5, <2>8
    <3>3. \A a \in 1 .. Len(eHeap') : Distinct(eHeap'[a].data)
      BY <1>4, <1>5, <2>5, <2>7
    <3>4. eCall' \in [ECalls -> {NoCall} \cup EDispatches]
      BY <1>1 DEF EShape
    <3> QED
      BY <2>2, <2>7, <3>1, <3>2, <3>3, <3>4 DEF EShape
  <2>10. ArraysGrow
    <3> SUFFICES ASSUME NEW a \in 1 .. Len(eHeap)
                 PROVE /\ a \in 1 .. Len(eHeap') /\ Len(eHeap[a].data) <= Len(eHeap'[a].data)
                       /\ \A n \in 1 .. Len(eHeap[a].data) : eHeap'[a].data[n] = eHeap[a].data[n]
      BY DEF ArraysGrow
    <3>1. CASE a = Len(eHeap)
      <4>1. eHeap'[a].data = grown /\ eHeap[a] = old /\ Len(old.data) = eSlice.len
        BY <1>1, <2>5, <2>7, <3>1
      <4>2. eSlice.len <= eSlice.len + 1
        BY <1>2
      <4> HIDE DEF old
      <4> QED
        BY <1>4, <2>7, <4>1, <4>2
    <3>2. CASE a # Len(eHeap)
      BY <1>5, <2>7, <3>2
    <3> QED
      BY <3>1, <3>2
  <2> QED
    BY <1>1, <2>9, <2>10
<1>7. CASE ~(eSlice.len < old.cap)
  <2>1. /\ eSlice' = [array |-> Len(eHeap) + 1, len |-> eSlice.len + 1]
        /\ eHeap' = Append(eHeap, [cap |-> cap, data |-> grown])
    BY <1>7 DEF Listen
  <2>2. cap \in Nat /\ eSlice.len + 1 <= cap
    BY <1>1, <1>2, <1>7
  <2> HIDE DEF cap, grown
  <2> DEFINE new == [cap |-> cap, data |-> grown]
  <2>3. new \in EArrays /\ new.cap = cap /\ new.data = grown
    BY <1>4, <2>2 DEF EArrays
  <2>4. eHeap' = Append(eHeap, new)
    BY <2>1
  <2> HIDE DEF new
  <2>5. /\ eHeap' \in Seq(EArrays) /\ Len(eHeap') = Len(eHeap) + 1
        /\ \A a \in 1 .. Len(eHeap) : eHeap'[a] = eHeap[a]
        /\ eHeap'[Len(eHeap) + 1] = new
    BY <1>1, <2>3, <2>4, PushIs
  <2>6. eSlice' \in ESlices /\ eSlice'.array = Len(eHeap) + 1 /\ eSlice'.len = eSlice.len + 1
    BY <1>2, <2>1 DEF ESlices
  <2>7. EShape'
    <3>1. eSlice'.array \in 1 .. Len(eHeap') /\ eSlice'.array = Len(eHeap')
      BY <1>2, <2>5, <2>6
    <3>2. eSlice'.len = Len(new.data) /\ eSlice'.len <= new.cap /\ eHeap'[eSlice'.array] = new
      BY <1>4, <2>2, <2>3, <2>5, <2>6
    <3>3. \A a \in 1 .. Len(eHeap') : Distinct(eHeap'[a].data)
      <4> SUFFICES ASSUME NEW a \in 1 .. Len(eHeap') PROVE Distinct(eHeap'[a].data)
        OBVIOUS
      <4>1. a \in 1 .. Len(eHeap) \/ a = Len(eHeap) + 1
        BY <1>2, <2>5
      <4> QED
        BY <1>4, <1>5, <2>3, <2>5, <4>1
    <3>4. eCall' \in [ECalls -> {NoCall} \cup EDispatches]
      BY <1>1 DEF EShape
    <3> QED
      BY <2>5, <2>6, <3>1, <3>2, <3>3, <3>4 DEF EShape
  <2>8. ArraysGrow
    BY <1>2, <1>5, <2>5 DEF ArraysGrow
  <2> QED
    BY <1>1, <2>7, <2>8
<1> QED
  BY <1>6, <1>7

\* Listen.
LEMMA ListenKeeps ==
  ASSUME EIndInv, NEW l \in EListeners, Listen(l)
  PROVE EIndInv'
<1>1. EShape /\ EShape' /\ ArraysGrow /\ UNCHANGED eCall
  BY ListenKeepsShape DEF EIndInv
<1> SUFFICES ASSUME NEW c \in ECalls, eCall[c] # NoCall
             PROVE SliceIsSnapshot(eCall[c])' /\ RanOfSnapshot(eCall[c])'
  BY <1>1 DEF EIndInv
<1>2. SliceIsSnapshot(eCall[c]) /\ RanOfSnapshot(eCall[c]) /\ eCall[c] \in EDispatches
  BY <1>1, DispatchIs DEF EIndInv
<1> DEFINE slice == eCall[c].slice
<1>3. slice.len \in Nat /\ slice.array \in 1 .. Len(eHeap)
  BY <1>2 DEF EDispatches, ESlices, SliceIsSnapshot
<1>4. Len(eHeap[slice.array].data) \in Nat /\ Len(eHeap'[slice.array].data) \in Nat
  <2>1. eHeap \in Seq(EArrays) /\ eHeap' \in Seq(EArrays)
    BY <1>1 DEF EShape
  <2>2. slice.array \in 1 .. Len(eHeap')
    BY <1>1, <1>3 DEF ArraysGrow
  <2>3. eHeap[slice.array] \in EArrays /\ eHeap'[slice.array] \in EArrays
    BY <1>3, <2>1, <2>2, ElementOfSeq
  <2> QED
    BY SMTT(30), <2>3 DEF EArrays
<1>5. /\ slice.array \in 1 .. Len(eHeap') /\ slice.len <= Len(eHeap'[slice.array].data)
      /\ \A n \in 1 .. slice.len : eHeap'[slice.array].data[n] = eHeap[slice.array].data[n]
  <2>1. slice.len <= Len(eHeap[slice.array].data)
    BY <1>2 DEF SliceIsSnapshot
  <2> HIDE DEF slice
  <2>2. /\ slice.array \in 1 .. Len(eHeap')
        /\ Len(eHeap[slice.array].data) <= Len(eHeap'[slice.array].data)
        /\ \A n \in 1 .. Len(eHeap[slice.array].data) :
             eHeap'[slice.array].data[n] = eHeap[slice.array].data[n]
    BY <1>1, <1>3 DEF ArraysGrow
  <2> QED
    BY <1>3, <1>4, <2>1, <2>2
<1>6. eCall'[c] = eCall[c]
  BY <1>1
<1>7. SliceIsSnapshot(eCall[c])'
  BY <1>2, <1>5, <1>6 DEF SliceIsSnapshot
<1>8. RanOfSnapshot(eCall[c])'
  BY <1>2, <1>6 DEF RanOfSnapshot
<1> QED
  BY <1>7, <1>8

\* One call goes on, and the listeners stay.
LEMMA CallGoesOn ==
  ASSUME EIndInv, NEW c \in ECalls, NEW call \in EDispatches, eCall' = [eCall EXCEPT ![c] = call],
         UNCHANGED <<eHeap, eSlice>>, SliceIsSnapshot(call), RanOfSnapshot(call)
  PROVE EIndInv'
<1>1. eCall \in [ECalls -> {NoCall} \cup EDispatches]
  BY DEF EIndInv, EShape
<1>2. \A d \in ECalls : eCall'[d] = IF d = c THEN call ELSE eCall[d]
  BY <1>1
<1>3. EShape'
  BY <1>1 DEF EIndInv, EShape
<1>4. ASSUME NEW d \in ECalls, eCall'[d] # NoCall
      PROVE SliceIsSnapshot(eCall[d])' /\ RanOfSnapshot(eCall[d])'
  <2>1. SliceIsSnapshot(eCall'[d]) /\ RanOfSnapshot(eCall'[d])
    BY <1>2, <1>4 DEF EIndInv
  <2> QED
    BY <2>1 DEF SliceIsSnapshot, RanOfSnapshot
<1> QED
  BY <1>3, <1>4 DEF EIndInv

\* Dispatch and DispatchAsync take the slice.
LEMMA DispatchKeeps ==
  ASSUME EIndInv, NEW c \in ECalls, NEW mode \in {"sync", "async"}, BeginDispatch(c, mode)
  PROVE EIndInv'
<1> DEFINE call == [mode |-> mode, slice |-> eSlice, ran |-> <<>>, errs |-> {}, at |-> Registered]
<1>1. EShape /\ eSlice \in ESlices
  BY DEF EIndInv, EShape
<1>2. /\ Registered \in Seq(EListeners) /\ Len(Registered) = eSlice.len
      /\ Registered = eHeap[eSlice.array].data
  BY <1>1, RegisteredIs
<1>3. call \in EDispatches
  BY <1>1, <1>2 DEF EDispatches
<1>4. call.slice = eSlice /\ call.at = Registered /\ call.ran = <<>> /\ Len(call.ran) = 0
  OBVIOUS
<1> HIDE DEF call
<1>5. SliceIsSnapshot(call)
  BY <1>1, <1>2, <1>4 DEF EShape, SliceIsSnapshot, ESlices
<1>6. RanOfSnapshot(call)
  BY <1>1, <1>2, <1>4 DEF RanOfSnapshot, ESlices, Distinct
<1>7. eCall' = [eCall EXCEPT ![c] = call] /\ UNCHANGED <<eHeap, eSlice>>
  BY DEF BeginDispatch, call
<1> QED
  BY <1>3, <1>5, <1>6, <1>7, CallGoesOn

\* A listener runs.
LEMMA RunListenerKeeps ==
  ASSUME EIndInv, NEW c \in ECalls, NEW n, NEW ok \in BOOLEAN, RunListener(c, n, ok)
  PROVE EIndInv'
<1> DEFINE call == eCall[c]
           l == Element(call.slice, n)
<1>1. EShape /\ n \in Ready(c)
  BY DEF EIndInv, RunListener
<1>2. call # NoCall
  <2>1. NoCall.mode = "new"
    BY DEF NoCall
  <2>2. call.mode = "new" => Ready(c) = {}
    BY DEF Ready
  <2> QED
    BY <1>1, <2>1, <2>2
<1>3. call \in EDispatches /\ SliceIsSnapshot(call) /\ RanOfSnapshot(call)
  BY <1>1, <1>2, DispatchIs DEF EIndInv
<1>4. /\ call.mode \in {"sync", "async"} /\ call.ran \in Seq(EListeners) /\ call.at \in Seq(EListeners)
      /\ call.errs \in SUBSET EListeners /\ call.slice \in ESlices /\ call.slice.len \in Nat
      /\ Len(call.at) = call.slice.len
  BY <1>3 DEF EDispatches, ESlices, SliceIsSnapshot
<1>5. /\ n \in 1 .. call.slice.len
      /\ call.mode = "sync" => n = Len(call.ran) + 1 /\ call.errs = {}
      /\ call.mode = "async" => ~Contains(call.ran, l)
  <2>1. CASE call.mode = "sync"
    BY <1>1, <2>1 DEF Ready
  <2>2. CASE call.mode = "async"
    <3>1. Ready(c) = {m \in 1 .. call.slice.len : ~Contains(call.ran, Element(call.slice, m))}
      BY <2>2 DEF Ready
    <3> QED
      BY <1>1, <2>2, <3>1
  <2> QED
    BY <1>4, <2>1, <2>2
<1>6. l = call.at[n] /\ l \in EListeners
  <2>1. l = call.at[n]
    BY <1>3, <1>5 DEF Element, SliceIsSnapshot
  <2> QED
    BY <1>4, <1>5, <2>1, ElementOfSeq
<1> DEFINE ran == Append(call.ran, l)
           errs == IF ok THEN call.errs ELSE call.errs \cup {l}
           new == [mode |-> call.mode, slice |-> call.slice, ran |-> ran, errs |-> errs, at |-> call.at]
<1>8. /\ ran \in Seq(EListeners) /\ Len(ran) = Len(call.ran) + 1 /\ ran[Len(call.ran) + 1] = l
      /\ \A m \in 1 .. Len(call.ran) : ran[m] = call.ran[m]
  <2> HIDE DEF l
  <2> QED
    BY <1>4, <1>6, PushIs
<1>7. eCall' = [eCall EXCEPT ![c] = new] /\ UNCHANGED <<eHeap, eSlice>>
  <2>1. eCall' = [eCall EXCEPT ![c].ran = ran, ![c].errs = errs] /\ UNCHANGED <<eHeap, eSlice>>
    BY DEF RunListener
  <2>2. eCall \in [ECalls -> {NoCall} \cup EDispatches]
    BY <1>1 DEF EShape
  <2> HIDE DEF ran, errs, l
  <2>3. [call EXCEPT !.ran = ran] = [mode |-> call.mode, slice |-> call.slice, ran |-> ran,
                                     errs |-> call.errs, at |-> call.at]
    BY <1>3 DEF EDispatches
  <2>4. [[call EXCEPT !.ran = ran] EXCEPT !.errs = errs] = new
    <3> DEFINE half == [call EXCEPT !.ran = ran]
    <3>1. half \in EDispatches /\ half.mode = call.mode /\ half.slice = call.slice
          /\ half.ran = ran /\ half.at = call.at
      BY <1>4, <1>8, <2>3 DEF EDispatches
    <3> HIDE DEF half
    <3>2. [half EXCEPT !.errs = errs] = [mode |-> half.mode, slice |-> half.slice, ran |-> half.ran,
                                         errs |-> errs, at |-> half.at]
      BY <3>1 DEF EDispatches
    <3> QED
      BY <3>1, <3>2 DEF half
  <2>5. eCall' = [eCall EXCEPT ![c] = [[call EXCEPT !.ran = ran] EXCEPT !.errs = errs]]
    BY <2>1, <2>2
  <2> QED
    BY <2>1, <2>4, <2>5
<1>9. errs \subseteq EListeners /\ errs \subseteq call.errs \cup {l}
  BY <1>4, <1>6
<1> HIDE DEF ran, errs, l
<1>10. /\ new \in EDispatches /\ new.ran = ran /\ new.errs = errs /\ new.at = call.at
       /\ new.slice = call.slice /\ new.mode = call.mode
  BY <1>4, <1>8, <1>9 DEF EDispatches
<1> HIDE DEF new
<1>11. SliceIsSnapshot(new)
  BY <1>3, <1>10 DEF SliceIsSnapshot
<1>r. Len(call.ran) \in Nat /\ \A m \in 1 .. Len(ran) : m \in 1 .. Len(call.ran) \/ m = Len(call.ran) + 1
  BY <1>4, <1>8
<1>12. CASE call.mode = "sync"
  <2>1. n = Len(call.ran) + 1 /\ errs \subseteq {l} /\ Len(ran) = n
    BY <1>5, <1>8, <1>9, <1>12
  <2>2. \A m \in 1 .. Len(call.ran) : call.ran[m] = call.at[m]
    BY <1>3, <1>12 DEF RanOfSnapshot
  <2>3. \A m \in 1 .. Len(ran) : ran[m] = call.at[m]
    BY <1>6, <1>8, <1>r, <2>1, <2>2
  <2>4. Len(ran) <= Len(call.at)
    BY <1>4, <1>5, <2>1
  <2>5. ASSUME NEW m \in 1 .. Len(ran), ran[m] \in errs PROVE m = Len(ran)
    <3>1. call.at[m] = call.at[n] /\ m \in 1 .. Len(call.at) /\ n \in 1 .. Len(call.at)
      BY <1>4, <1>5, <1>6, <2>1, <2>3, <2>4, <2>5
    <3> QED
      BY <1>3, <2>1, <3>1 DEF SliceIsSnapshot, Distinct
  <2>6. RanOfSnapshot(new)
    BY <1>10, <1>12, <2>3, <2>4, <2>5 DEF RanOfSnapshot
  <2> QED
    BY <1>7, <1>10, <1>11, <2>6, CallGoesOn
<1>13. CASE call.mode = "async"
  <2>1. /\ Distinct(call.ran) /\ \A m \in 1 .. Len(call.ran) : call.ran[m] # l
        /\ \A m \in 1 .. Len(call.ran) : \E k \in 1 .. Len(call.at) : call.ran[m] = call.at[k]
    BY <1>3, <1>5, <1>13 DEF RanOfSnapshot, Contains
  <2>2. Distinct(ran)
    BY <1>8, <1>r, <2>1 DEF Distinct
  <2>3. ASSUME NEW m \in 1 .. Len(ran) PROVE \E k \in 1 .. Len(call.at) : ran[m] = call.at[k]
    BY <1>4, <1>5, <1>6, <1>8, <1>r, <2>1
  <2>4. RanOfSnapshot(new)
    BY <1>10, <1>13, <2>2, <2>3 DEF RanOfSnapshot
  <2> QED
    BY <1>7, <1>10, <1>11, <2>4, CallGoesOn
<1> QED
  BY <1>4, <1>12, <1>13

\* The dispatcher's state is as EIndInv has it, whoever listens and dispatches.
THEOREM EventsInvariance == ESpec => []EIndInv
<1>1. EInit => EIndInv
  <2> SUFFICES ASSUME EInit PROVE EIndInv
    OBVIOUS
  <2> DEFINE first == [cap |-> 0, data |-> <<>>]
  <2>1. first \in EArrays /\ first.cap = 0 /\ first.data = <<>>
    BY DEF EArrays
  <2>2. eHeap = <<first>> /\ eSlice \in ESlices /\ eSlice.array = 1 /\ eSlice.len = 0
    BY DEF EInit, ESlices
  <2> HIDE DEF first
  <2>3. eHeap \in Seq(EArrays) /\ Len(eHeap) = 1 /\ eHeap[1] = first
    BY <2>1, <2>2
  <2>4. Distinct(first.data) /\ Len(first.data) = 0
    BY <2>1 DEF Distinct
  <2> QED
    BY <2>1, <2>2, <2>3, <2>4 DEF EInit, EIndInv, EShape
<1>2. EIndInv /\ [ENext]_evars => EIndInv'
  <2> SUFFICES ASSUME EIndInv, [ENext]_evars PROVE EIndInv'
    OBVIOUS
  <2>1. CASE UNCHANGED evars
    BY <2>1 DEF evars, EIndInv, EShape, SliceIsSnapshot, RanOfSnapshot
  <2>2. CASE ENext
    BY <2>2, ListenKeeps, DispatchKeeps, RunListenerKeeps DEF ENext, Dispatch, DispatchAsync
  <2> QED
    BY <2>1, <2>2
<1> QED
  BY <1>1, <1>2, PTL DEF ESpec

\* The slice in use is within the capacity of its array.
THEOREM EventsTypeCorrect == ESpec => []ETypeOK
<1>1. EIndInv => ETypeOK
  <2> SUFFICES ASSUME EIndInv PROVE ETypeOK
    OBVIOUS
  <2>1. eHeap \in Seq(EArrays) /\ eSlice.array \in 1 .. Len(eHeap)
        /\ eSlice.len <= eHeap[eSlice.array].cap
    BY DEF EIndInv, EShape
  <2>2. \A c \in ECalls : eCall[c] = NoCall \/ eCall[c] \in EDispatches
    BY DEF EIndInv, EShape
  <2> QED
    BY <2>1, <2>2 DEF ETypeOK, EDispatches, NoCall
<1> QED
  BY <1>1, EventsInvariance, PTL

\* A dispatch calls exactly the listeners that were registered when it began, each once.
THEOREM DispatchesAreOfTheirSnapshot == ESpec => []DispatchesItsSnapshot
<1>1. EIndInv => DispatchesItsSnapshot
  <2> SUFFICES ASSUME EIndInv, NEW c \in ECalls, eCall[c] # NoCall
               PROVE LET call == eCall[c] IN
                     /\ IsInjective(call.ran) /\ ToSet(call.ran) \subseteq ToSet(call.at)
                     /\ call.mode = "sync" =>
                          /\ IsPrefix(call.ran, call.at)
                          /\ \A n \in DOMAIN call.ran : call.ran[n] \in call.errs => n = Len(call.ran)
                     /\ Ready(c) = {} /\ (call.mode = "async" \/ call.errs = {}) =>
                          ToSet(call.ran) = ToSet(call.at)
    BY DEF DispatchesItsSnapshot
  <2> DEFINE call == eCall[c]
             ran == call.ran
             at == call.at
  <2>1. call \in EDispatches /\ SliceIsSnapshot(call) /\ RanOfSnapshot(call)
    BY DispatchIs DEF EIndInv
  <2>2. /\ call.mode \in {"sync", "async"} /\ ran \in Seq(EListeners) /\ at \in Seq(EListeners)
        /\ call.slice.len \in Nat /\ Len(at) = call.slice.len /\ Distinct(at)
        /\ \A n \in 1 .. call.slice.len : Element(call.slice, n) = at[n]
    BY <2>1 DEF EDispatches, ESlices, SliceIsSnapshot, Element
  <2>3. /\ call.mode = "sync" =>
             /\ Len(ran) <= Len(at)
             /\ \A n \in 1 .. Len(ran) : ran[n] = at[n]
             /\ \A n \in 1 .. Len(ran) : ran[n] \in call.errs => n = Len(ran)
        /\ call.mode = "async" =>
             /\ Distinct(ran)
             /\ \A n \in 1 .. Len(ran) : \E m \in 1 .. Len(at) : ran[n] = at[m]
    BY <2>1 DEF RanOfSnapshot
  <2>d. DOMAIN ran = 1 .. Len(ran) /\ DOMAIN at = 1 .. Len(at) /\ Len(ran) \in Nat /\ Len(at) \in Nat
    BY <2>2
  <2>r. /\ call.mode = "sync" => Ready(c) = IF call.errs = {} THEN {Len(ran) + 1} \cap 1 .. Len(at) ELSE {}
        /\ call.mode = "async" => Ready(c) = {n \in 1 .. Len(at) : ~Contains(ran, Element(call.slice, n))}
    BY <2>2 DEF Ready
  <2> HIDE DEF call, ran, at
  <2>4. Distinct(ran) /\ ToSet(ran) \subseteq ToSet(at)
    <3>1. CASE call.mode = "sync"
      <4>1. Len(ran) <= Len(at) /\ \A n \in 1 .. Len(ran) : ran[n] = at[n]
        BY <2>3, <3>1
      <4>2. \A n \in 1 .. Len(ran) : n \in 1 .. Len(at)
        BY <2>d, <4>1
      <4>3. Distinct(ran)
        BY <2>2, <4>1, <4>2 DEF Distinct
      <4>4. ToSet(ran) \subseteq ToSet(at)
        BY <2>d, <4>1, <4>2 DEF ToSet
      <4> QED
        BY <4>3, <4>4
    <3>2. CASE call.mode = "async"
      BY <2>3, <2>d, <3>2 DEF ToSet
    <3> QED
      BY <2>2, <3>1, <3>2
  <2>5. IsInjective(ran)
    BY <2>4, <2>d DEF Distinct, IsInjective
  <2>6. ASSUME call.mode = "sync"
        PROVE IsPrefix(ran, at) /\ \A n \in DOMAIN ran : ran[n] \in call.errs => n = Len(ran)
    <3>1. Len(ran) <= Len(at) /\ \A n \in 1 .. Len(ran) : ran[n] = at[n]
      BY <2>3, <2>6
    <3>2. SubSeq(ran, 1, Len(ran)) = ran
      BY <2>2, SubSeqFull
    <3>3. /\ SubSeq(at, 1, Len(ran)) \in Seq(EListeners) /\ Len(SubSeq(at, 1, Len(ran))) = Len(ran)
          /\ \A n \in 1 .. Len(ran) : SubSeq(at, 1, Len(ran))[n] = at[n]
      BY <2>2, <2>d, <3>1
    <3>4. SubSeq(at, 1, Len(ran)) = ran
      <4> DEFINE cut == SubSeq(at, 1, Len(ran))
      <4>1. cut \in Seq(EListeners) /\ Len(cut) = Len(ran) /\ \A n \in 1 .. Len(ran) : cut[n] = ran[n]
        BY <3>1, <3>3
      <4> HIDE DEF cut
      <4>2. cut = ran
        BY <2>2, <4>1, SeqEqual
      <4> QED
        BY <4>2 DEF cut
    <3> QED
      BY <2>3, <2>6, <2>d, <3>1, <3>2, <3>4 DEF IsPrefix
  <2>7. ASSUME Ready(c) = {}, call.mode = "async" \/ call.errs = {}
        PROVE ToSet(at) \subseteq ToSet(ran)
    <3>1. CASE call.mode = "sync"
      <4>1. ~(Len(ran) + 1 \in 1 .. Len(at))
        BY <2>7, <2>r, <3>1
      <4>2. Len(ran) = Len(at) /\ \A n \in 1 .. Len(ran) : ran[n] = at[n]
        <5>1. Len(ran) <= Len(at) /\ \A n \in 1 .. Len(ran) : ran[n] = at[n]
          BY <2>3, <3>1
        <5>2. ~(Len(ran) + 1 <= Len(at))
          BY <2>d, <4>1
        <5>3. \A a, b \in Nat : a <= b /\ ~(a + 1 <= b) => a = b
          OBVIOUS
        <5> QED
          BY <2>d, <5>1, <5>2, <5>3
      <4> QED
        BY <2>d, <4>2 DEF ToSet
    <3>2. CASE call.mode = "async"
      <4>1. \A n \in 1 .. Len(at) : Contains(ran, at[n])
        BY <2>2, <2>7, <2>r, <3>2
      <4> QED
        BY <2>d, <4>1 DEF ToSet, Contains
    <3> QED
      BY <2>2, <3>1, <3>2
  <2> QED
    BY <2>4, <2>5, <2>6, <2>7 DEF call, ran, at
<1> QED
  BY <1>1, EventsInvariance, PTL

-----------------------------------------------------------------------------
(* The two passes of Boot *)

Loops == {"none", "Register", "Boot"}
CallKinds == {"Join", "Register", "Boot"}
LogEntries == CallKinds \X LProviders
Frames == [provider : LProviders, call : {"Register", "Boot"}, left : Seq(LProviders)]

LTypes ==
  /\ lApp \in [providers : Seq(LProviders), isBooted : BOOLEAN, loop : Loops, left : Seq(LProviders)]
  /\ lCalls \in Seq(Frames) /\ lLog \in Seq(LogEntries) /\ lEarly \subseteq LProviders

\* Each element of E is in s once at most.
UniqueIn(s, E) == \A i, j \in 1 .. Len(s) : s[i] = s[j] /\ s[i] \in E => i = j

\* The list has each provider that was registered before Boot, and has it once.
ProvidersHold ==
  UniqueIn(lApp.providers, lEarly) /\ \A p \in lEarly : Contains(lApp.providers, p)

BeforeBoot ==
  ~lApp.isBooted /\ lApp.loop = "none" => lLog = <<>> /\ lApp.providers \in Seq(lEarly)

\* In the first pass Register has been called, once, of those that are not left.
InRegister ==
  lApp.loop = "Register" =>
    /\ ~lApp.isBooted /\ lApp.left \in Seq(lEarly) /\ UniqueIn(lApp.left, lEarly)
    /\ \A p \in LProviders : Calls("Boot", p) = {}
    /\ \A p \in lEarly : IF Contains(lApp.left, p) THEN Calls("Register", p) = {}
                         ELSE Once("Register", p)

\* In the second Boot has.
InBoot ==
  lApp.loop = "Boot" =>
    /\ ~lApp.isBooted /\ UniqueIn(lApp.left, lEarly)
    /\ \A p \in lEarly : /\ Once("Register", p)
                         /\ IF Contains(lApp.left, p) THEN Calls("Boot", p) = {} ELSE Once("Boot", p)

AfterBoot ==
  lApp.isBooted => lApp.loop = "none" /\ \A p \in lEarly : Once("Register", p) /\ Once("Boot", p)

RegisteredFirst ==
  \A p, q \in lEarly : \A n \in Calls("Boot", p) : \E m \in Calls("Register", q) : m < n

\* Only a booted application is joined, and once by each provider.
JoinedOnes ==
  /\ ~lApp.isBooted => lCalls = <<>> /\ Joined = {}
  /\ \A p \in Joined : p \notin lEarly /\ Known(p) /\ Once("Join", p)

\* A call that is inside another is of a provider that joined later.
CallsInOrder(stack) ==
  \A i \in 1 .. Len(stack) :
    /\ stack[i].provider \in Joined
    /\ \A j \in 1 .. Len(stack) : i < j =>
         \A m \in Calls("Join", stack[i].provider), n \in Calls("Join", stack[j].provider) : n < m
CallsNest == CallsInOrder(lCalls)

\* A provider whose Register is under way, and every other one that has joined.
Pending(stack, p) == \E i \in 1 .. Len(stack) : stack[i].provider = p /\ stack[i].call = "Register"
LateOnesDone ==
  \A p \in Joined : IF Pending(lCalls, p) THEN Calls("Register", p) = {} /\ Calls("Boot", p) = {}
                     ELSE Once("Register", p) /\ Once("Boot", p)

LateInOrder == \A p \in Joined : \A n \in Calls("Boot", p) : \E m \in Calls("Register", p) : m < n
InnerOnesFirst ==
  \A p, q \in Joined : \A i \in Calls("Join", p), j \in Calls("Join", q), n \in Calls("Register", p) :
    i < j /\ j < n => \E m \in Calls("Boot", q) : m < n

\* Nothing is called of a provider the application does not list.
CalledAreKnown ==
  /\ \A p \in LProviders : ~Known(p) => Calls("Boot", p) = {}
  /\ lApp.loop # "none" => \A p : Contains(lApp.left, p) => Known(p)

LateInv == /\ JoinedOnes /\ CallsNest /\ LateOnesDone /\ LateInOrder /\ InnerOnesFirst
           /\ NobodyElseRegisters /\ CalledAreKnown

BootInv == /\ LTypes /\ ProvidersHold /\ BeforeBoot /\ InRegister /\ InBoot /\ AfterBoot
           /\ RegisteredFirst /\ LateInv

\* The calls in a log, and in one that is an entry longer.
CallsIn(log, call, p) == {n \in DOMAIN log : log[n] = <<call, p>>}

LEMMA CallsAre == \A call, p : Calls(call, p) = CallsIn(lLog, call, p)
BY DEF Calls, CallsIn

GrowsBy(log, longer, c, q) ==
  \A call \in CallKinds, p \in LProviders :
    /\ CallsIn(log, call, p) \subseteq 1 .. Len(log)
    /\ CallsIn(longer, call, p) = IF call = c /\ p = q THEN CallsIn(log, call, p) \cup {Len(log) + 1}
                                  ELSE CallsIn(log, call, p)

LEMMA CallsGrow ==
  ASSUME NEW log \in Seq(LogEntries), NEW c \in CallKinds, NEW q \in LProviders
  PROVE /\ Append(log, <<c, q>>) \in Seq(LogEntries) /\ Len(Append(log, <<c, q>>)) = Len(log) + 1
        /\ Len(log) \in Nat /\ GrowsBy(log, Append(log, <<c, q>>), c, q)
<1> DEFINE e == <<c, q>>
           longer == Append(log, e)
<1>1. e \in LogEntries /\ \A call, p : e = <<call, p>> <=> call = c /\ p = q
  BY DEF LogEntries
<1> HIDE DEF e
<1>2. /\ longer \in Seq(LogEntries) /\ Len(longer) = Len(log) + 1 /\ longer[Len(log) + 1] = e
      /\ \A i \in 1 .. Len(log) : longer[i] = log[i]
  BY <1>1, PushIs
<1>3. DOMAIN log = 1 .. Len(log) /\ DOMAIN longer = 1 .. Len(log) + 1 /\ Len(log) \in Nat
  BY <1>2
<1> HIDE DEF longer
<1>4. DOMAIN longer = DOMAIN log \cup {Len(log) + 1} /\ Len(log) + 1 \notin DOMAIN log
  BY <1>3
<1>5. ASSUME NEW call \in CallKinds, NEW p \in LProviders
      PROVE /\ CallsIn(log, call, p) \subseteq 1 .. Len(log)
            /\ CallsIn(longer, call, p)
                 = IF call = c /\ p = q THEN CallsIn(log, call, p) \cup {Len(log) + 1}
                   ELSE CallsIn(log, call, p)
  <2>1. \A n : n \in CallsIn(longer, call, p) <=>
                 \/ n \in CallsIn(log, call, p)
                 \/ n = Len(log) + 1 /\ call = c /\ p = q
    <3>1. ASSUME NEW n \in 1 .. Len(log) PROVE n \in CallsIn(longer, call, p) <=> n \in CallsIn(log, call, p)
      BY <1>2, <1>3, <1>4, <3>1 DEF CallsIn
    <3>2. Len(log) + 1 \in CallsIn(longer, call, p) <=> call = c /\ p = q
      BY <1>1, <1>2, <1>4 DEF CallsIn
    <3>3. \A n : n \in CallsIn(longer, call, p) => n \in 1 .. Len(log) \/ n = Len(log) + 1
      BY <1>3, <1>4 DEF CallsIn
    <3>4. \A n : n \in CallsIn(log, call, p) => n \in 1 .. Len(log)
      BY <1>3 DEF CallsIn
    <3> QED
      BY <3>1, <3>2, <3>3, <3>4
  <2> QED
    BY <1>3, <2>1 DEF CallsIn
<1> QED
  BY <1>2, <1>3, <1>5 DEF longer, e, GrowsBy

\* What Head takes off a list.
LEMMA TailIs ==
  ASSUME NEW E, NEW F, NEW s \in Seq(E), s # <<>>, UniqueIn(s, F)
  PROVE /\ Head(s) \in E /\ Tail(s) \in Seq(E) /\ UniqueIn(Tail(s), F)
        /\ \A p : Contains(s, p) <=> p = Head(s) \/ Contains(Tail(s), p)
        /\ Head(s) \in F => ~Contains(Tail(s), Head(s))
<1> DEFINE t == Tail(s)
<1>1. /\ Head(s) \in E /\ t \in Seq(E) /\ Len(t) = Len(s) - 1 /\ \A i \in 1 .. Len(t) : t[i] = s[i + 1]
      /\ Head(s) = s[1] /\ Len(s) \in Nat /\ Len(s) >= 1
  BY HeadTailProperties
<1> HIDE DEF t
<1>2. \A i \in 1 .. Len(t) : i + 1 \in 1 .. Len(s) /\ i + 1 # 1
  BY <1>1
<1>3. \A i \in 1 .. Len(s) : i = 1 \/ (i - 1 \in 1 .. Len(t) /\ s[i] = t[i - 1])
  BY <1>1
<1>4. UniqueIn(t, F)
  BY <1>1, <1>2 DEF UniqueIn
<1>5. \A p : Contains(s, p) <=> p = Head(s) \/ Contains(t, p)
  BY <1>1, <1>2, <1>3 DEF Contains
<1>6. Head(s) \in F => ~Contains(t, Head(s))
  <2>1. 1 \in 1 .. Len(s)
    BY <1>1
  <2> QED
    BY <1>1, <1>2, <2>1 DEF Contains, UniqueIn
<1> QED
  BY <1>1, <1>4, <1>5, <1>6 DEF t

\* The fields of the application.
LEMMA AppIs ==
  ASSUME LTypes
  PROVE /\ lApp.providers \in Seq(LProviders) /\ lApp.isBooted \in BOOLEAN /\ lApp.loop \in Loops
        /\ lApp.left \in Seq(LProviders) /\ lLog \in Seq(LogEntries) /\ lEarly \subseteq LProviders
        /\ lCalls \in Seq(Frames)
BY DEF LTypes

\* A list that is longer by providers that were not in it.
LEMMA ListGrows ==
  ASSUME NEW s \in Seq(LProviders), NEW E \in SUBSET LProviders, UniqueIn(s, E),
         NEW t \in Seq(LProviders), \A i \in 1 .. Len(t) : t[i] \notin E
  PROVE /\ s \o t \in Seq(LProviders) /\ UniqueIn(s \o t, E)
        /\ \A p : Contains(s, p) => Contains(s \o t, p)
<1> DEFINE c == s \o t
<1>1. /\ c \in Seq(LProviders) /\ Len(c) = Len(s) + Len(t)
      /\ \A i \in 1 .. Len(s) + Len(t) : c[i] = IF i <= Len(s) THEN s[i] ELSE t[i - Len(s)]
      /\ Len(s) \in Nat /\ Len(t) \in Nat
  BY ConcatProperties
<1> HIDE DEF c
<1>2. \A i \in 1 .. Len(c) : (i \in 1 .. Len(s) /\ c[i] = s[i]) \/ c[i] \notin E
  BY <1>1
<1>3. UniqueIn(c, E)
  BY <1>2 DEF UniqueIn
<1>4. \A i \in 1 .. Len(s) : i \in 1 .. Len(c) /\ c[i] = s[i]
  BY <1>1
<1> QED
  BY <1>1, <1>3, <1>4 DEF Contains, c

\* Where nobody has joined there is little to keep.
LEMMA StillBooting ==
  ASSUME lCalls' = <<>>, Joined' = {}, NobodyElseRegisters', CalledAreKnown'
  PROVE LateInv'
BY DEF LateInv, JoinedOnes, CallsNest, CallsInOrder, LateOnesDone, LateInOrder, InnerOnesFirst

LEMMA NothingCalledYet ==
  ASSUME lCalls' = <<>>, \A call, q : Calls(call, q)' = {},
         lApp'.loop # "none" => \A p : Contains(lApp'.left, p) => Contains(lApp'.providers, p)
  PROVE LateInv'
BY StillBooting DEF Joined, NobodyElseRegisters, CalledAreKnown, Known

\* RegisterProvider before Boot.
LEMMA RegisterEarlyKeeps ==
  ASSUME BootInv, NEW p \in LProviders, RegisterProvider(p), ~lApp.isBooted
  PROVE BootInv'
<1>t. LTypes /\ ProvidersHold /\ lApp.loop = "none" /\ lLog = <<>> /\ lApp.providers \in Seq(lEarly)
  BY DEF BootInv, BeforeBoot, RegisterProvider
<1>1. /\ ~Contains(lApp.providers, p) /\ lEarly' = lEarly \cup {p} /\ lLog' = lLog
      /\ lApp' = [lApp EXCEPT !.providers = Append(lApp.providers, p)]
      /\ lCalls' = <<>>
  BY DEF RegisterProvider, Join, Known
<1> DEFINE list == Append(lApp.providers, p)
<1>2. /\ list \in Seq(lEarly \cup {p}) /\ Len(list) = Len(lApp.providers) + 1
      /\ list[Len(lApp.providers) + 1] = p /\ Len(lApp.providers) \in Nat
      /\ \A i \in 1 .. Len(lApp.providers) : list[i] = lApp.providers[i] /\ lApp.providers[i] # p
  <2>1. lApp.providers \in Seq(lEarly \cup {p})
    BY <1>t, SeqMonotonic
  <2> QED
    BY <1>1, <2>1, PushIs DEF Contains
<1>3. list \in Seq(LProviders)
  BY <1>t, AppIs, AppendProperties
<1> HIDE DEF list
<1>4. /\ lApp' \in [providers : Seq(LProviders), isBooted : BOOLEAN, loop : Loops, left : Seq(LProviders)]
      /\ lApp'.providers = list /\ lApp'.isBooted = lApp.isBooted /\ lApp'.loop = lApp.loop
      /\ lApp'.left = lApp.left
  <2>1. lApp' = [lApp EXCEPT !.providers = list]
    BY <1>1 DEF list
  <2> QED
    BY <1>t, <1>3, <2>1 DEF LTypes
<1>5. LTypes'
  BY <1>t, <1>1, <1>4 DEF LTypes
<1>6. ProvidersHold'
  <2>1. \A i \in 1 .. Len(list) : i \in 1 .. Len(lApp.providers) \/ i = Len(lApp.providers) + 1
    BY <1>2
  <2>2. UniqueIn(list, lEarly \cup {p})
    <3>1. \A i \in 1 .. Len(lApp.providers) : lApp.providers[i] \in lEarly
      BY <1>t, ElementOfSeq
    <3> QED
      BY <1>t, <1>2, <2>1, <3>1 DEF ProvidersHold, UniqueIn
  <2>3. \A q \in lEarly \cup {p} : Contains(list, q)
    <3>1. \A i \in 1 .. Len(lApp.providers) : i \in 1 .. Len(list)
      BY <1>2
    <3>2. Len(lApp.providers) + 1 \in 1 .. Len(list)
      BY <1>2
    <3> QED
      BY SMTT(30), <1>t, <1>2, <3>1, <3>2 DEF ProvidersHold, Contains
  <2> QED
    BY <1>1, <1>4, <2>2, <2>3 DEF ProvidersHold
<1>7. BeforeBoot' /\ InRegister' /\ InBoot' /\ AfterBoot'
  BY <1>t, <1>1, <1>2, <1>4 DEF BeforeBoot, InRegister, InBoot, AfterBoot
<1>8. \A call, q : Calls(call, q)' = {}
  BY <1>t, <1>1 DEF Calls
<1>9. LateInv'
  BY <1>t, <1>1, <1>4, <1>8, NothingCalledYet
<1> QED
  BY <1>5, <1>6, <1>7, <1>8, <1>9 DEF BootInv, RegisteredFirst

\* What a provider registers from a callback.
LEMMA RegistersAre ==
  ASSUME NEW p \in LProviders, NEW phase
  PROVE Registers(p, phase) \in Seq(LProviders)
<1>1. LNested[p] \in [phase : {"none", "Register", "Boot"}, providers : Seq(LProviders)]
  BY LifecycleAssumption
<1>2. LNested[p].providers \in Seq(LProviders) /\ <<>> \in Seq(LProviders)
  BY <1>1
<1> QED
  BY <1>2 DEF Registers

\* A stack with one call more, and one with the top taken off or changed within.
LEMMA FramePush ==
  ASSUME NEW f \in Frames, NEW s \in Seq(Frames)
  PROVE /\ <<f>> \o s \in Seq(Frames) /\ <<f>> \o s # <<>> /\ (<<f>> \o s)[1] = f
        /\ \A i \in 1 .. Len(<<f>> \o s) :
             i = 1 \/ (i - 1 \in 1 .. Len(s) /\ (<<f>> \o s)[i] = s[i - 1])
        /\ \A i \in 1 .. Len(s) : i + 1 \in 1 .. Len(<<f>> \o s) /\ (<<f>> \o s)[i + 1] = s[i]
        /\ 1 \in 1 .. Len(<<f>> \o s)
<1> DEFINE c == <<f>> \o s
<1>1. <<f>> \in Seq(Frames) /\ Len(<<f>>) = 1 /\ <<f>>[1] = f
  OBVIOUS
<1>2. /\ c \in Seq(Frames) /\ Len(c) = 1 + Len(s) /\ Len(s) \in Nat
      /\ \A i \in 1 .. 1 + Len(s) : c[i] = IF i <= 1 THEN <<f>>[i] ELSE s[i - 1]
  BY <1>1, ConcatProperties
<1> HIDE DEF c
<1>3. 1 \in 1 .. Len(c) /\ c[1] = f /\ c # <<>>
  <2>1. 1 \in 1 .. 1 + Len(s) /\ Len(c) # 0
    BY <1>2
  <2>2. c # <<>>
    BY <2>1
  <2>3. c[1] = <<f>>[1]
    BY <1>2, <2>1
  <2> QED
    BY <1>1, <1>2, <2>1, <2>2, <2>3
<1>4. \A i \in 1 .. Len(c) : i = 1 \/ (i - 1 \in 1 .. Len(s) /\ c[i] = s[i - 1])
  BY <1>2
<1>5. \A i \in 1 .. Len(s) : i + 1 \in 1 .. Len(c) /\ c[i + 1] = s[i]
  BY <1>2
<1> QED
  BY <1>2, <1>3, <1>4, <1>5 DEF c

LEMMA FrameTop ==
  ASSUME NEW s \in Seq(Frames), s # <<>>
  PROVE /\ Head(s) \in Frames /\ Head(s) = s[1] /\ 1 \in 1 .. Len(s) /\ Tail(s) \in Seq(Frames)
        /\ \A i \in 1 .. Len(Tail(s)) : i + 1 \in 1 .. Len(s) /\ Tail(s)[i] = s[i + 1] /\ 1 < i + 1
        /\ \A i \in 1 .. Len(s) : i = 1 \/ (i - 1 \in 1 .. Len(Tail(s)) /\ s[i] = Tail(s)[i - 1])
<1>1. /\ Head(s) \in Frames /\ Tail(s) \in Seq(Frames) /\ Len(Tail(s)) = Len(s) - 1
      /\ \A i \in 1 .. Len(Tail(s)) : Tail(s)[i] = s[i + 1]
      /\ Head(s) = s[1] /\ Len(s) \in Nat /\ Len(s) >= 1
  BY HeadTailProperties
<1> DEFINE t == Tail(s)
<1> HIDE DEF t
<1>2. /\ t \in Seq(Frames) /\ Len(t) = Len(s) - 1 /\ \A i \in 1 .. Len(t) : t[i] = s[i + 1]
  BY <1>1 DEF t
<1>3. \A i \in 1 .. Len(t) : i + 1 \in 1 .. Len(s) /\ t[i] = s[i + 1] /\ 1 < i + 1
  BY <1>1, <1>2
<1>4. \A i \in 1 .. Len(s) : i = 1 \/ (i - 1 \in 1 .. Len(t) /\ s[i] = t[i - 1])
  <2>1. \A i \in 1 .. Len(s) : i = 1 \/ (i - 1 \in 1 .. Len(t) /\ (i - 1) + 1 = i)
    BY <1>1, <1>2
  <2>2. \A i \in 1 .. Len(s) : i - 1 \in 1 .. Len(t) => t[i - 1] = s[(i - 1) + 1]
    BY <1>2
  <2> QED
    BY <2>1, <2>2
<1>5. 1 \in 1 .. Len(s)
  BY <1>1
<1> QED
  BY <1>1, <1>3, <1>4, <1>5 DEF t

\* A stack with the same calls in the same places.
SameCalls(s, t) ==
  /\ Len(s) = Len(t)
  /\ \A i \in 1 .. Len(s) : s[i].provider = t[i].provider /\ s[i].call = t[i].call

LEMMA SameCallsSame ==
  ASSUME NEW s, NEW t, SameCalls(s, t)
  PROVE (CallsInOrder(s) <=> CallsInOrder(t)) /\ \A p : Pending(s, p) <=> Pending(t, p)
BY DEF SameCalls, CallsInOrder, Pending

\* What the innermost call still has to register, less its first.
LEMMA FrameTakes ==
  ASSUME NEW s \in Seq(Frames), s # <<>>, Head(s).left # <<>>
  PROVE LET rest == <<[Head(s) EXCEPT !.left = Tail(@)]>> \o Tail(s)
        IN /\ Head(Head(s).left) \in LProviders /\ rest \in Seq(Frames) /\ rest # <<>>
           /\ SameCalls(rest, s)
<1> DEFINE f == [Head(s) EXCEPT !.left = Tail(Head(s).left)]
           rest == <<f>> \o Tail(s)
<1>1. Head(s) \in Frames /\ Head(s) = s[1] /\ Tail(s) \in Seq(Frames) /\ Head(s).left \in Seq(LProviders)
  BY FrameTop DEF Frames
<1>2. Head(Head(s).left) \in LProviders /\ Tail(Head(s).left) \in Seq(LProviders)
  BY <1>1, HeadTailProperties
<1>3. f \in Frames /\ f.provider = s[1].provider /\ f.call = s[1].call
  BY <1>1, <1>2 DEF Frames
<1> HIDE DEF f
<1>4. /\ rest \in Seq(Frames) /\ rest # <<>> /\ Len(rest) = 1 + Len(Tail(s))
      /\ \A i \in 1 .. 1 + Len(Tail(s)) : rest[i] = IF i <= 1 THEN f ELSE Tail(s)[i - 1]
  <2>1. <<f>> \in Seq(Frames) /\ Len(<<f>>) = 1 /\ <<f>>[1] = f
    BY <1>3
  <2>2. /\ rest \in Seq(Frames) /\ Len(rest) = 1 + Len(Tail(s))
        /\ \A i \in 1 .. 1 + Len(Tail(s)) : rest[i] = IF i <= 1 THEN <<f>>[i] ELSE Tail(s)[i - 1]
    BY <1>1, <2>1, ConcatProperties
  <2>3. \A i \in 1 .. 1 + Len(Tail(s)) : i <= 1 => i = 1
    BY <1>1
  <2>4. rest # <<>>
    BY <1>1, <1>3, FramePush
  <2> QED
    BY <2>1, <2>2, <2>3, <2>4
<1> HIDE DEF rest
<1>5. Len(s) \in Nat /\ Len(Tail(s)) = Len(s) - 1 /\ \A i \in 1 .. Len(Tail(s)) : Tail(s)[i] = s[i + 1]
  BY HeadTailProperties
<1>6. SameCalls(rest, s)
  <2>1. Len(rest) = Len(s)
    BY <1>4, <1>5
  <2>2. ASSUME NEW i \in 1 .. Len(rest), i # 1 PROVE rest[i] = s[i]
    <3>1. i \in 1 .. 1 + Len(Tail(s)) /\ ~(i <= 1) /\ i - 1 \in 1 .. Len(Tail(s)) /\ (i - 1) + 1 = i
      BY <1>4, <1>5, <2>2
    <3> QED
      BY <1>4, <1>5, <3>1
  <2>3. \A i \in 1 .. Len(rest) : i = 1 => rest[i] = f
    BY <1>4, <1>5
  <2> QED
    BY <1>3, <2>1, <2>2, <2>3 DEF SameCalls
<1> QED
  BY <1>2, <1>4, <1>6 DEF rest, f

\* The calls of RegisterProvider and of a provider.
LEMMA CallOfIs ==
  ASSUME NEW p \in LProviders, NEW call \in {"Register", "Boot"}
  PROVE CallOf(p, call) \in Frames /\ CallOf(p, call).provider = p /\ CallOf(p, call).call = call
BY RegistersAre DEF CallOf, Frames

\* A step of a booted application that only moves the stack.
LEMMA StackMoves ==
  ASSUME BootInv, lApp.isBooted, UNCHANGED <<lApp, lLog, lEarly>>, lCalls' \in Seq(Frames),
         CallsInOrder(lCalls'), \A p : Pending(lCalls', p) <=> Pending(lCalls, p)
  PROVE BootInv'
<1>1. lApp' = lApp /\ lLog' = lLog /\ lEarly' = lEarly
  OBVIOUS
<1>2. \A call, q : Calls(call, q)' = Calls(call, q)
  BY <1>1 DEF Calls
<1>3. Joined' = Joined /\ \A call, q : Once(call, q)' <=> Once(call, q)
  BY <1>2 DEF Once, Joined
<1>4. LTypes' /\ ProvidersHold' /\ BeforeBoot'
  BY <1>1 DEF BootInv, LTypes, ProvidersHold, BeforeBoot
<1>5. InRegister' /\ InBoot' /\ AfterBoot' /\ RegisteredFirst'
  BY <1>1, <1>2, <1>3 DEF BootInv, InRegister, InBoot, AfterBoot, RegisteredFirst
<1>6. JoinedOnes' /\ NobodyElseRegisters' /\ CalledAreKnown'
  BY <1>1, <1>2, <1>3 DEF BootInv, LateInv, JoinedOnes, NobodyElseRegisters, CalledAreKnown, Known
<1>7. CallsNest'
  BY <1>2, <1>3 DEF CallsNest, CallsInOrder
<1>8. \A p : Pending(lCalls, p)' <=> Pending(lCalls, p)
  BY DEF Pending
<1>9. LateOnesDone'
  BY <1>2, <1>3, <1>8 DEF BootInv, LateInv, LateOnesDone
<1>10. LateInOrder' /\ InnerOnesFirst'
  BY <1>2, <1>3 DEF BootInv, LateInv, LateInOrder, InnerOnesFirst
<1> QED
  BY <1>4, <1>5, <1>6, <1>7, <1>9, <1>10 DEF BootInv, LateInv

\* What a longer log of a booted application, with entries of one provider that is not
\* an early one, leaves of the two passes.
LEMMA LateLeavesPasses ==
  ASSUME BootInv, lApp.isBooted, lApp'.isBooted, lApp'.loop = "none", lEarly' = lEarly,
         \A call \in {"Register", "Boot"}, q \in lEarly : Calls(call, q)' = Calls(call, q)
  PROVE BeforeBoot' /\ InRegister' /\ InBoot' /\ AfterBoot' /\ RegisteredFirst'
<1>1. \A call \in {"Register", "Boot"}, q \in lEarly : Once(call, q)' <=> Once(call, q)
  BY DEF Once
<1>2. BeforeBoot' /\ InRegister' /\ InBoot'
  BY DEF BeforeBoot, InRegister, InBoot
<1>3. AfterBoot'
  BY <1>1 DEF BootInv, AfterBoot
<1>4. RegisteredFirst'
  BY DEF BootInv, RegisteredFirst
<1> QED
  BY <1>2, <1>3, <1>4

\* RegisterProvider of a booted application, from outside or from a call.
LEMMA JoinKeeps ==
  ASSUME BootInv, lApp.isBooted, NEW p \in LProviders, ~Known(p),
         NEW rest \in Seq(Frames), SameCalls(rest, lCalls), Join(p, rest)
  PROVE BootInv'
<1>t. /\ LTypes /\ ProvidersHold /\ AfterBoot /\ RegisteredFirst /\ JoinedOnes /\ CallsNest /\ LateOnesDone
      /\ LateInOrder /\ InnerOnesFirst /\ NobodyElseRegisters /\ CalledAreKnown /\ lApp.loop = "none"
  BY DEF BootInv, LateInv, AfterBoot
<1>l. /\ lLog \in Seq(LogEntries) /\ lApp.providers \in Seq(LProviders) /\ lEarly \subseteq LProviders
      /\ lCalls \in Seq(Frames)
  BY <1>t, AppIs
<1> DEFINE f == CallOf(p, "Register")
           stack == <<f>> \o rest
           end == Len(lLog) + 1
           list == lApp.providers \o <<p>>
<1>1. /\ lEarly' = lEarly /\ lCalls' = stack /\ lLog' = Append(lLog, <<"Join", p>>)
      /\ lApp' = [lApp EXCEPT !.providers = list]
  <2>1. \A s \in Seq(LProviders) : Append(s, p) = s \o <<p>>
    OBVIOUS
  <2> QED
    BY <1>l, <2>1 DEF Join
<1>a. p \notin lEarly /\ p \notin Joined
  BY <1>t DEF ProvidersHold, JoinedOnes, Known
<1>b. /\ Calls("Register", p) = {} /\ Calls("Boot", p) = {} /\ Calls("Join", p) = {}
  BY <1>t, <1>a DEF NobodyElseRegisters, CalledAreKnown, Joined
<1>2. /\ lLog' \in Seq(LogEntries) /\ GrowsBy(lLog, lLog', "Join", p) /\ Len(lLog) \in Nat
  BY <1>l, <1>1, CallsGrow DEF CallKinds
<1>3. /\ \A call \in CallKinds, q \in LProviders : Calls(call, q) \subseteq 1 .. Len(lLog)
      /\ \A call \in CallKinds, q \in LProviders :
           Calls(call, q)' = IF call = "Join" /\ q = p THEN {end} ELSE Calls(call, q)
  <2>1. \A call, q : Calls(call, q)' = CallsIn(lLog', call, q)
    BY DEF Calls, CallsIn
  <2> QED
    BY <1>b, <1>2, <2>1, CallsAre DEF GrowsBy
<1> HIDE DEF end
<1>4. /\ f \in Frames /\ f.provider = p /\ f.call = "Register"
  BY CallOfIs
<1> HIDE DEF f
<1>5. /\ stack \in Seq(Frames) /\ stack # <<>> /\ stack[1] = f /\ 1 \in 1 .. Len(stack)
      /\ \A i \in 1 .. Len(stack) : i = 1 \/ (i - 1 \in 1 .. Len(rest) /\ stack[i] = rest[i - 1])
      /\ \A i \in 1 .. Len(rest) : i + 1 \in 1 .. Len(stack) /\ stack[i + 1] = rest[i]
  BY <1>4, FramePush
<1> HIDE DEF stack
<1>6. /\ list \in Seq(LProviders) /\ UniqueIn(list, lEarly) /\ Contains(list, p)
      /\ \A q : Contains(lApp.providers, q) => Contains(list, q)
  <2>1. <<p>> \in Seq(LProviders) /\ \A i \in 1 .. Len(<<p>>) : <<p>>[i] \notin lEarly
    BY <1>a
  <2>2. list \in Seq(LProviders) /\ Len(list) = Len(lApp.providers) + 1 /\ list[Len(lApp.providers) + 1] = p
        /\ Len(lApp.providers) \in Nat
    BY <1>l
  <2>3. Contains(list, p)
    BY <2>2 DEF Contains
  <2> QED
    BY <1>l, <1>t, <2>1, <2>3, ListGrows DEF ProvidersHold
<1> HIDE DEF list
<1>7. /\ lApp' \in [providers : Seq(LProviders), isBooted : BOOLEAN, loop : Loops, left : Seq(LProviders)]
      /\ lApp'.providers = list /\ lApp'.isBooted = lApp.isBooted /\ lApp'.loop = "none"
  BY <1>1, <1>6, <1>t DEF LTypes
<1>8. LTypes' /\ ProvidersHold'
  BY <1>1, <1>l, <1>t, <1>2, <1>5, <1>6, <1>7 DEF LTypes, ProvidersHold
<1>9. BeforeBoot' /\ InRegister' /\ InBoot' /\ AfterBoot' /\ RegisteredFirst'
  BY <1>l, <1>1, <1>3, <1>7, LateLeavesPasses DEF CallKinds
<1>10. Joined' = Joined \cup {p}
  <2>1. \A q \in LProviders : q \in Joined' <=> q \in Joined \/ q = p
    BY <1>3 DEF Joined, CallKinds
  <2> QED
    BY <2>1 DEF Joined
<1>11. \A q \in Joined : /\ q # p /\ q \in LProviders
                         /\ \A call \in CallKinds : Calls(call, q)' = Calls(call, q) /\ (Once(call, q)' <=> Once(call, q))
  BY <1>a, <1>3 DEF Joined, Once
<1>12. Calls("Register", p)' = {} /\ Calls("Boot", p)' = {} /\ Calls("Join", p)' = {end} /\ Once("Join", p)'
  BY <1>3, <1>b DEF CallKinds, Once
<1>13. JoinedOnes'
  BY <1>t, <1>a, <1>1, <1>6, <1>7, <1>10, <1>11, <1>12 DEF JoinedOnes, Known, CallKinds
<1>14. CallsNest'
  <2>1. CallsInOrder(rest)
    BY <1>t, SameCallsSame DEF CallsNest
  <2>2. \A i \in 1 .. Len(rest) : /\ rest[i].provider \in Joined
                                  /\ Calls("Join", rest[i].provider)' = Calls("Join", rest[i].provider)
                                  /\ Calls("Join", rest[i].provider) \subseteq 1 .. Len(lLog)
    BY <2>1, <1>3, <1>11 DEF CallsInOrder, CallKinds, Joined
  <2>3. ASSUME NEW i \in 1 .. Len(stack) PROVE stack[i].provider \in Joined'
    BY <1>4, <1>5, <1>10, <2>2
  <2>4. ASSUME NEW i \in 1 .. Len(stack), NEW j \in 1 .. Len(stack), i < j,
               NEW m \in Calls("Join", stack[i].provider)', NEW n \in Calls("Join", stack[j].provider)'
        PROVE n < m
    <3>0. Len(stack) \in Nat /\ Len(rest) \in Nat
      BY <1>5
    <3>1. j # 1 /\ j - 1 \in 1 .. Len(rest) /\ stack[j] = rest[j - 1]
      BY <1>5, <2>4, <3>0
    <3>2. n \in Calls("Join", rest[j - 1].provider) /\ n \in 1 .. Len(lLog)
      BY <2>2, <2>4, <3>1
    <3>3. CASE i = 1
      <4>1. m = end
        BY <1>4, <1>5, <1>12, <2>4, <3>3
      <4> QED
        BY <1>2, <3>2, <4>1 DEF end
    <3>4. CASE i # 1
      <4>1. i - 1 \in 1 .. Len(rest) /\ stack[i] = rest[i - 1] /\ i - 1 < j - 1
        BY <1>5, <2>4, <3>0, <3>4
      <4>2. m \in Calls("Join", rest[i - 1].provider)
        BY <2>2, <2>4, <4>1
      <4> QED
        BY <2>1, <3>1, <3>2, <4>1, <4>2 DEF CallsInOrder
    <3> QED
      BY <3>3, <3>4
  <2> QED
    BY <1>1, <2>3, <2>4 DEF CallsNest, CallsInOrder
<1>15. \A q : Pending(stack, q) <=> q = p \/ Pending(lCalls, q)
  <2>1. \A q : Pending(rest, q) <=> Pending(lCalls, q)
    BY SameCallsSame
  <2>2. ASSUME NEW q, Pending(stack, q) PROVE q = p \/ Pending(rest, q)
    <3>1. PICK i \in 1 .. Len(stack) : stack[i].provider = q /\ stack[i].call = "Register"
      BY <2>2 DEF Pending
    <3>2. CASE i = 1
      BY <1>4, <1>5, <3>1, <3>2
    <3>3. CASE i # 1
      <4>1. i - 1 \in 1 .. Len(rest) /\ stack[i] = rest[i - 1]
        BY <1>5, <3>3
      <4> QED
        BY <3>1, <4>1 DEF Pending
    <3> QED
      BY <3>2, <3>3
  <2>3. ASSUME NEW q, Pending(rest, q) PROVE Pending(stack, q)
    <3>1. PICK i \in 1 .. Len(rest) : rest[i].provider = q /\ rest[i].call = "Register"
      BY <2>3 DEF Pending
    <3>2. i + 1 \in 1 .. Len(stack) /\ stack[i + 1] = rest[i]
      BY <1>5
    <3> QED
      BY <3>1, <3>2 DEF Pending
  <2>4. Pending(stack, p)
    BY <1>4, <1>5 DEF Pending
  <2> QED
    BY <2>1, <2>2, <2>3, <2>4
<1>16. LateOnesDone'
  <2>1. \A q : Pending(lCalls', q) <=> q = p \/ Pending(lCalls, q)
    BY <1>1, <1>15
  <2> QED
    BY <1>t, <1>10, <1>11, <1>12, <2>1 DEF LateOnesDone, CallKinds
<1>17. LateInOrder'
  BY <1>t, <1>10, <1>11, <1>12 DEF LateInOrder, CallKinds
<1>18. InnerOnesFirst'
  <2> SUFFICES ASSUME NEW a \in Joined', NEW b \in Joined', NEW i \in Calls("Join", a)',
                      NEW j \in Calls("Join", b)', NEW n \in Calls("Register", a)', i < j, j < n
               PROVE \E m \in Calls("Boot", b)' : m < n
    BY DEF InnerOnesFirst
  <2>1. a \in Joined /\ a # p /\ a \in LProviders /\ n \in Calls("Register", a) /\ i \in Calls("Join", a)
    BY <1>10, <1>11, <1>12 DEF CallKinds
  <2>2. n \in 1 .. Len(lLog)
    BY <1>3, <2>1 DEF CallKinds
  <2>3. b # p
    BY <1>12, <1>2, <2>2 DEF end
  <2>4. b \in Joined /\ j \in Calls("Join", b) /\ Calls("Boot", b)' = Calls("Boot", b)
    BY <1>10, <1>11, <2>3 DEF CallKinds
  <2> QED
    BY <1>t, <2>1, <2>4 DEF InnerOnesFirst
<1>19. NobodyElseRegisters'
  BY <1>t, <1>1, <1>3, <1>10 DEF NobodyElseRegisters, CallKinds
<1>20. CalledAreKnown'
  <2>1. \A q : Known(q) => Known(q)'
    BY <1>6, <1>7 DEF Known
  <2> QED
    BY <1>t, <1>3, <1>7, <2>1 DEF CalledAreKnown, CallKinds
<1> QED
  BY <1>8, <1>9, <1>13, <1>14, <1>16, <1>17, <1>18, <1>19, <1>20 DEF BootInv, LateInv

LEMMA RegisterLateKeeps ==
  ASSUME BootInv, NEW p \in LProviders, RegisterProvider(p), lApp.isBooted
  PROVE BootInv'
<1>1. <<>> \in Seq(Frames) /\ SameCalls(<<>>, lCalls) /\ ~Known(p) /\ Join(p, <<>>)
  BY DEF RegisterProvider, SameCalls
<1> QED
  BY <1>1, JoinKeeps

\* Calls are under way in a booted application only.
LEMMA CallsAreLate ==
  ASSUME BootInv, lCalls # <<>>
  PROVE lApp.isBooted /\ lCalls \in Seq(Frames) /\ CallsInOrder(lCalls)
BY AppIs DEF BootInv, LateInv, JoinedOnes, LTypes, CallsNest

LEMMA NestedRegisterKeeps == ASSUME BootInv, NestedRegister PROVE BootInv'
<1> DEFINE p == Head(Head(lCalls).left)
           rest == <<[Head(lCalls) EXCEPT !.left = Tail(@)]>> \o Tail(lCalls)
<1>1. /\ lCalls # <<>> /\ Head(lCalls).left # <<>>
      /\ IF Known(p) THEN lCalls' = rest /\ UNCHANGED <<lApp, lLog, lEarly>> ELSE Join(p, rest)
  BY DEF NestedRegister
<1>2. lApp.isBooted /\ lCalls \in Seq(Frames) /\ CallsInOrder(lCalls)
  BY <1>1, CallsAreLate
<1>3. p \in LProviders /\ rest \in Seq(Frames) /\ SameCalls(rest, lCalls)
  BY <1>1, <1>2, FrameTakes
<1> HIDE DEF p, rest
<1>4. CASE Known(p)
  <2>1. CallsInOrder(rest) /\ \A q : Pending(rest, q) <=> Pending(lCalls, q)
    BY <1>2, <1>3, SameCallsSame
  <2> QED
    BY <1>1, <1>2, <1>3, <1>4, <2>1, StackMoves
<1>5. CASE ~Known(p)
  BY <1>1, <1>2, <1>3, <1>5, JoinKeeps
<1> QED
  BY <1>4, <1>5

\* The Register of a provider ends and its Boot begins.
LEMMA RegisterEndsKeeps ==
  ASSUME BootInv, CallReturns, Head(lCalls).call = "Register"
  PROVE BootInv'
<1>t. /\ LTypes /\ ProvidersHold /\ AfterBoot /\ RegisteredFirst /\ JoinedOnes /\ CallsNest /\ LateOnesDone
      /\ LateInOrder /\ InnerOnesFirst /\ NobodyElseRegisters /\ CalledAreKnown
  BY DEF BootInv, LateInv
<1>0. lCalls # <<>> /\ lApp.isBooted /\ lCalls \in Seq(Frames) /\ CallsInOrder(lCalls) /\ lApp.loop = "none"
  BY <1>t, CallsAreLate DEF CallReturns, AfterBoot
<1>l. lLog \in Seq(LogEntries) /\ lEarly \subseteq LProviders
  BY <1>t, AppIs
<1> DEFINE top == Head(lCalls).provider
<1>s. /\ top \in LProviders /\ lCalls[1] = Head(lCalls) /\ 1 \in 1 .. Len(lCalls) /\ Tail(lCalls) \in Seq(Frames)
      /\ \A i \in 1 .. Len(Tail(lCalls)) : i + 1 \in 1 .. Len(lCalls) /\ Tail(lCalls)[i] = lCalls[i + 1] /\ 1 < i + 1
      /\ \A i \in 1 .. Len(lCalls) : i = 1 \/ (i - 1 \in 1 .. Len(Tail(lCalls)) /\ lCalls[i] = Tail(lCalls)[i - 1])
  BY <1>0, FrameTop DEF Frames
<1>p. PICK p \in LProviders : p = top
  BY <1>s
<1> DEFINE f == CallOf(p, "Boot")
           stack == <<f>> \o Tail(lCalls)
           one == Append(lLog, <<"Register", p>>)
           end == Len(lLog) + 1
<1>1. /\ lApp' = lApp /\ lEarly' = lEarly /\ lCalls' = stack
      /\ lLog' = lLog \o <<<<"Register", p>>, <<"Boot", p>>>>
  BY <1>p DEF CallReturns
<1>a. p \in Joined /\ p \notin lEarly /\ Pending(lCalls, p)
  BY <1>t, <1>0, <1>s, <1>p DEF CallsInOrder, JoinedOnes, Pending
<1>b. Calls("Register", p) = {} /\ Calls("Boot", p) = {} /\ Once("Join", p)
  BY <1>t, <1>a DEF LateOnesDone, JoinedOnes
<1> HIDE DEF top
<1>2. /\ one \in Seq(LogEntries) /\ Len(one) = Len(lLog) + 1 /\ Len(lLog) \in Nat
      /\ GrowsBy(lLog, one, "Register", p)
  BY <1>l, CallsGrow DEF CallKinds
<1>3. /\ Append(one, <<"Boot", p>>) \in Seq(LogEntries)
      /\ GrowsBy(one, Append(one, <<"Boot", p>>), "Boot", p)
  <2> HIDE DEF one
  <2> QED
    BY <1>2, CallsGrow DEF CallKinds
<1>4. lLog' = Append(one, <<"Boot", p>>)
  <2>1. <<"Register", p>> \in LogEntries /\ <<"Boot", p>> \in LogEntries
    BY DEF LogEntries, CallKinds
  <2> DEFINE a == <<"Register", p>>
             b == <<"Boot", p>>
  <2> HIDE DEF a, b
  <2>2. a \in LogEntries /\ b \in LogEntries
    BY <2>1 DEF a, b
  <2>3. lLog \o <<a, b>> = Append(Append(lLog, a), b)
    BY <1>l, <2>2
  <2> QED
    BY <1>1, <2>3 DEF a, b
<1> HIDE DEF one
<1>5. /\ \A call \in CallKinds, q \in LProviders : Calls(call, q) \subseteq 1 .. Len(lLog)
      /\ \A call \in CallKinds, q \in LProviders : q # p \/ call = "Join" => Calls(call, q)' = Calls(call, q)
      /\ Calls("Register", p)' = {end} /\ Calls("Boot", p)' = {end + 1}
  <2>1. \A call, q : Calls(call, q)' = CallsIn(lLog', call, q)
    BY DEF Calls, CallsIn
  <2>2. Len(one) + 1 = end + 1
    BY <1>2
  <2> QED
    BY <1>b, <1>2, <1>3, <1>4, <2>1, <2>2, CallsAre DEF GrowsBy, CallKinds
<1>e. end \in Nat /\ \A i \in 1 .. Len(lLog) : i \in Nat /\ i < end /\ i < end + 1
  BY <1>2
<1> HIDE DEF end
<1>6. Once("Register", p)' /\ Once("Boot", p)'
  BY <1>5 DEF Once
<1>7. Joined' = Joined
  <2>1. \A q \in LProviders : q \in Joined' <=> q \in Joined
    BY <1>5 DEF Joined, CallKinds
  <2> QED
    BY <2>1 DEF Joined
<1>8. \A q \in LProviders : q # p => \A call \in CallKinds : Once(call, q)' <=> Once(call, q)
  BY <1>5 DEF Once
<1>9. f \in Frames /\ f.provider = p /\ f.call = "Boot"
  BY CallOfIs
<1> HIDE DEF f
<1>10. /\ stack \in Seq(Frames) /\ stack[1] = f /\ 1 \in 1 .. Len(stack)
       /\ \A i \in 1 .. Len(stack) : i = 1 \/ (i - 1 \in 1 .. Len(Tail(lCalls)) /\ stack[i] = Tail(lCalls)[i - 1])
       /\ \A i \in 1 .. Len(Tail(lCalls)) : i + 1 \in 1 .. Len(stack) /\ stack[i + 1] = Tail(lCalls)[i]
  BY <1>s, <1>9, FramePush
<1> HIDE DEF stack
<1>11. \A i \in 1 .. Len(stack) : /\ i \in 1 .. Len(lCalls) /\ stack[i].provider = lCalls[i].provider
                                  /\ i # 1 => stack[i] = lCalls[i]
  <2> SUFFICES ASSUME NEW i \in 1 .. Len(stack)
               PROVE /\ i \in 1 .. Len(lCalls) /\ stack[i].provider = lCalls[i].provider
                     /\ i # 1 => stack[i] = lCalls[i]
    OBVIOUS
  <2>1. CASE i = 1
    BY <1>p, <1>s, <1>9, <1>10, <2>1 DEF top
  <2>2. CASE i # 1
    <3>1. i - 1 \in 1 .. Len(Tail(lCalls)) /\ stack[i] = Tail(lCalls)[i - 1] /\ (i - 1) + 1 = i
      BY <1>10, <2>2
    <3>2. i \in 1 .. Len(lCalls) /\ Tail(lCalls)[i - 1] = lCalls[i]
      BY <1>s, <3>1
    <3> QED
      BY <3>1, <3>2
  <2> QED
    BY <2>1, <2>2
<1>12. CallsNest'
  <2>1. \A i \in 1 .. Len(stack) : stack[i].provider \in LProviders
    <3>1. \A i \in 1 .. Len(stack) : stack[i] \in Frames
      BY <1>10, ElementOfSeq
    <3> QED
      BY <3>1 DEF Frames
  <2>2. \A q \in LProviders : CallsIn(lLog', "Join", q) = CallsIn(lLog, "Join", q)
    <3>1. \A q \in LProviders : Calls("Join", q)' = Calls("Join", q)
      BY <1>5 DEF CallKinds
    <3> QED
      BY <3>1 DEF Calls, CallsIn
  <2>3. \A i \in 1 .. Len(stack) : CallsIn(lLog', "Join", stack[i].provider) = CallsIn(lLog, "Join", lCalls[i].provider)
    BY <1>11, <2>1, <2>2
  <2>4. ASSUME NEW i \in 1 .. Len(stack), NEW j \in 1 .. Len(stack), i < j,
               NEW m \in CallsIn(lLog', "Join", stack[i].provider),
               NEW n \in CallsIn(lLog', "Join", stack[j].provider)
        PROVE n < m
    BY <1>0, <1>11, <2>3, <2>4, CallsAre DEF CallsInOrder
  <2>5. \A i \in 1 .. Len(stack) : stack[i].provider \in Joined'
    BY <1>0, <1>7, <1>11 DEF CallsInOrder
  <2>6. \A i, j \in 1 .. Len(stack) : i < j =>
           \A m \in CallsIn(lLog', "Join", stack[i].provider), n \in CallsIn(lLog', "Join", stack[j].provider) : n < m
    BY <2>4
  <2>7. \A i, j \in 1 .. Len(lCalls') : i < j =>
           \A m \in Calls("Join", lCalls[i].provider)', n \in Calls("Join", lCalls[j].provider)' : n < m
    BY <1>1, <2>6 DEF Calls, CallsIn
  <2> QED
    BY <1>1, <2>5, <2>7 DEF CallsNest, CallsInOrder
<1>13. \A i \in 1 .. Len(lCalls) : i # 1 => lCalls[i].provider # p
  <2> SUFFICES ASSUME NEW i \in 1 .. Len(lCalls), i # 1, lCalls[i].provider = p PROVE FALSE
    OBVIOUS
  <2>1. PICK m \in Calls("Join", p) : TRUE
    BY <1>b DEF Once
  <2>2. 1 < i /\ lCalls[1].provider = p
    BY <1>s, <1>p DEF top
  <2>3. m \in Nat
    BY <1>5, <2>1 DEF CallKinds
  <2>4. m < m
    BY <1>0, <1>s, <2>1, <2>2 DEF CallsInOrder
  <2> QED
    BY <2>3, <2>4
<1>14. \A q : Pending(stack, q) <=> q # p /\ Pending(lCalls, q)
  <2>1. ASSUME NEW q, Pending(stack, q) PROVE q # p /\ Pending(lCalls, q)
    <3>1. PICK i \in 1 .. Len(stack) : stack[i].provider = q /\ stack[i].call = "Register"
      BY <2>1 DEF Pending
    <3>2. i # 1 /\ i \in 1 .. Len(lCalls) /\ lCalls[i] = stack[i]
      BY <1>9, <1>10, <1>11, <3>1
    <3> QED
      BY <1>13, <3>1, <3>2 DEF Pending
  <2>2. ASSUME NEW q, q # p, Pending(lCalls, q) PROVE Pending(stack, q)
    <3>1. PICK i \in 1 .. Len(lCalls) : lCalls[i].provider = q /\ lCalls[i].call = "Register"
      BY <2>2 DEF Pending
    <3>2. i # 1
      BY <1>p, <1>s, <2>2, <3>1 DEF top
    <3>3. i - 1 \in 1 .. Len(Tail(lCalls)) /\ lCalls[i] = Tail(lCalls)[i - 1] /\ (i - 1) + 1 = i
      BY <1>s, <3>2
    <3>4. i \in 1 .. Len(stack) /\ stack[i] = lCalls[i]
      BY <1>10, <3>3
    <3> QED
      BY <3>1, <3>4 DEF Pending
  <2> QED
    BY <2>1, <2>2
<1>15. LateOnesDone'
  <2>1. \A q : Pending(lCalls', q) <=> q # p /\ Pending(lCalls, q)
    BY <1>1, <1>14
  <2> QED
    BY <1>t, <1>5, <1>6, <1>7, <1>8, <2>1 DEF LateOnesDone, CallKinds, Joined
<1>16. LateInOrder'
  <2>1. \A n \in Calls("Boot", p)' : \E m \in Calls("Register", p)' : m < n
    BY <1>5, <1>e
  <2> QED
    BY <1>t, <1>5, <1>7, <2>1 DEF LateInOrder, CallKinds, Joined
<1>17. InnerOnesFirst'
  <2> SUFFICES ASSUME NEW a \in Joined, NEW b \in Joined, NEW i \in Calls("Join", a),
                      NEW j \in Calls("Join", b), NEW n \in Calls("Register", a)', i < j, j < n
               PROVE \E m \in Calls("Boot", b)' : m < n
    BY <1>5, <1>7 DEF InnerOnesFirst, CallKinds, Joined
  <2>0. a \in LProviders /\ b \in LProviders /\ i \in 1 .. Len(lLog) /\ j \in 1 .. Len(lLog)
    BY <1>5 DEF Joined, CallKinds
  <2>1. CASE a # p
    <3>1. n \in Calls("Register", a) /\ n \in 1 .. Len(lLog)
      BY <1>5, <2>0, <2>1 DEF CallKinds
    <3>2. PICK m \in Calls("Boot", b) : m < n
      BY <1>t, <3>1 DEF InnerOnesFirst
    <3>3. b # p
      BY <1>b, <3>2
    <3> QED
      BY <1>5, <2>0, <3>2, <3>3 DEF CallKinds
  <2>2. CASE a = p
    <3>1. n = end
      BY <1>5, <2>2
    <3>2. b # p
      <4>1. b = p => i = j
        BY <1>b, <2>2 DEF Once
      <4> QED
        BY <2>0, <4>1
    <3>3. ~Pending(lCalls, b)
      <4> SUFFICES ASSUME NEW k \in 1 .. Len(lCalls), lCalls[k].provider = b PROVE FALSE
        BY DEF Pending
      <4>1. k # 1 /\ lCalls[1].provider = p
        BY <1>p, <1>s, <3>2 DEF top
      <4>2. 1 < k
        BY <4>1
      <4>3. j < i
        BY <1>0, <1>s, <2>2, <4>1, <4>2 DEF CallsInOrder
      <4> QED
        BY <2>0, <4>3
    <3>4. PICK m \in Calls("Boot", b) : TRUE
      BY <1>t, <3>3 DEF LateOnesDone, Once
    <3>5. m < n
      BY <1>5, <1>e, <2>0, <3>1, <3>4 DEF CallKinds
    <3> QED
      BY <1>5, <2>0, <3>2, <3>4, <3>5 DEF CallKinds
  <2> QED
    BY <2>1, <2>2
<1>18. LTypes' /\ ProvidersHold'
  BY <1>1, <1>t, <1>3, <1>4, <1>10 DEF LTypes, ProvidersHold
<1>19. BeforeBoot' /\ InRegister' /\ InBoot' /\ AfterBoot' /\ RegisteredFirst'
  <2>1. \A call \in {"Register", "Boot"}, q \in lEarly : Calls(call, q)' = Calls(call, q)
    BY <1>a, <1>l, <1>5 DEF CallKinds
  <2> QED
    BY <1>0, <1>1, <2>1, LateLeavesPasses
<1>20. JoinedOnes'
  <2>1. \A q \in LProviders : Once("Join", q)' <=> Once("Join", q)
    BY <1>5 DEF Once, CallKinds
  <2> QED
    BY <1>t, <1>0, <1>1, <1>7, <2>1 DEF JoinedOnes, Known, Joined
<1>21. NobodyElseRegisters' /\ CalledAreKnown'
  <2>1. Known(p) /\ \A q : Known(q)' <=> Known(q)
    BY <1>t, <1>a, <1>1 DEF JoinedOnes, Known
  <2> QED
    BY <1>t, <1>a, <1>1, <1>5, <1>7, <2>1 DEF NobodyElseRegisters, CalledAreKnown, CallKinds
<1> QED
  BY <1>12, <1>15, <1>16, <1>17, <1>18, <1>19, <1>20, <1>21 DEF BootInv, LateInv

\* The Boot of a provider ends.
LEMMA BootEndsKeeps ==
  ASSUME BootInv, CallReturns, Head(lCalls).call # "Register"
  PROVE BootInv'
<1> DEFINE rest == Tail(lCalls)
<1>1. lCalls # <<>> /\ lCalls' = rest /\ UNCHANGED <<lApp, lLog, lEarly>>
  BY DEF CallReturns
<1>2. lApp.isBooted /\ lCalls \in Seq(Frames) /\ CallsInOrder(lCalls)
  BY <1>1, CallsAreLate
<1>3. /\ rest \in Seq(Frames) /\ lCalls[1] = Head(lCalls)
      /\ \A i \in 1 .. Len(rest) : i + 1 \in 1 .. Len(lCalls) /\ rest[i] = lCalls[i + 1]
      /\ \A i \in 1 .. Len(lCalls) : i = 1 \/ (i - 1 \in 1 .. Len(rest) /\ lCalls[i] = rest[i - 1])
  BY <1>1, <1>2, FrameTop
<1> HIDE DEF rest
<1>4. \A i, j \in 1 .. Len(rest) : i < j => i + 1 < j + 1
  OBVIOUS
<1>5. CallsInOrder(rest)
  BY <1>2, <1>3, <1>4 DEF CallsInOrder
<1>6. ASSUME NEW q PROVE Pending(rest, q) <=> Pending(lCalls, q)
  <2>1. Pending(rest, q) => Pending(lCalls, q)
    BY <1>3 DEF Pending
  <2>2. Pending(lCalls, q) => Pending(rest, q)
    BY <1>3 DEF Pending
  <2> QED
    BY <2>1, <2>2
<1> QED
  BY <1>1, <1>2, <1>3, <1>5, <1>6, StackMoves

\* Boot begins.
LEMMA BootStartKeeps == ASSUME BootInv, BootStart PROVE BootInv'
<1>t. /\ LTypes /\ ProvidersHold /\ lApp.loop = "none" /\ ~lApp.isBooted /\ lLog = <<>>
      /\ lApp.providers \in Seq(lEarly)
  BY DEF BootInv, BeforeBoot, BootStart
<1>1. /\ lLog' = lLog /\ lEarly' = lEarly /\ lCalls' = lCalls /\ lCalls = <<>>
      /\ lApp' = [lApp EXCEPT !.loop = "Register", !.left = lApp.providers]
  BY <1>t DEF BootStart, BootInv, LateInv, JoinedOnes
<1>2. /\ lApp' \in [providers : Seq(LProviders), isBooted : BOOLEAN, loop : Loops, left : Seq(LProviders)]
      /\ lApp'.providers = lApp.providers /\ lApp'.isBooted = lApp.isBooted /\ lApp'.loop = "Register"
      /\ lApp'.left = lApp.providers
  BY <1>1, <1>t DEF LTypes, Loops
<1>3. LTypes' /\ ProvidersHold'
  BY <1>1, <1>2, <1>t DEF LTypes, ProvidersHold
<1>4. \A call, q : Calls(call, q)' = {}
  BY <1>t, <1>1 DEF Calls
<1>5. BeforeBoot' /\ InRegister' /\ InBoot' /\ AfterBoot'
  BY <1>t, <1>1, <1>2, <1>4 DEF BeforeBoot, InRegister, InBoot, AfterBoot, ProvidersHold
<1>6. LateInv'
  BY <1>1, <1>2, <1>4, NothingCalledYet
<1> QED
  BY <1>3, <1>4, <1>5, <1>6 DEF BootInv, RegisteredFirst

\* A loop is at its end.
LEMMA BootLoopEndKeeps == ASSUME BootInv, BootLoopEnd PROVE BootInv'
<1>t. LTypes /\ ProvidersHold /\ InRegister /\ InBoot /\ AfterBoot /\ RegisteredFirst /\ LateInv
  BY DEF BootInv
<1>1. lLog' = lLog /\ lEarly' = lEarly /\ lApp.left = <<>> /\ lApp.loop # "none" /\ lCalls' = lCalls
  BY DEF BootLoopEnd
<1>2. \A q : ~Contains(lApp.left, q)
  BY <1>1 DEF Contains
<1>3. \A call, q : Calls(call, q)' = Calls(call, q)
  BY <1>1 DEF Calls
<1>4. RegisteredFirst'
  BY <1>t, <1>1, <1>3 DEF RegisteredFirst
<1>n. /\ lCalls' = <<>> /\ Joined' = {} /\ NobodyElseRegisters
      /\ \A q \in LProviders : ~Known(q) => Calls("Boot", q) = {}
  BY <1>t, <1>1, <1>3 DEF LateInv, JoinedOnes, AfterBoot, Joined, CalledAreKnown
<1>m. lApp'.providers = lApp.providers => NobodyElseRegisters'
  BY <1>t, <1>1, <1>3, <1>n DEF NobodyElseRegisters, Joined, LateInv, JoinedOnes
<1>5. \A call, q : Once(call, q)' <=> Once(call, q)
  BY <1>3 DEF Once
<1>6. CASE lApp.loop = "Register"
  <2>1. lApp' = [lApp EXCEPT !.loop = "Boot", !.left = lApp.providers]
    BY <1>6 DEF BootLoopEnd
  <2>2. /\ lApp' \in [providers : Seq(LProviders), isBooted : BOOLEAN, loop : Loops, left : Seq(LProviders)]
        /\ lApp'.providers = lApp.providers /\ lApp'.isBooted = lApp.isBooted /\ lApp'.loop = "Boot"
        /\ lApp'.left = lApp.providers
    BY <2>1, <1>t DEF LTypes, Loops
  <2>3. LTypes' /\ ProvidersHold'
    BY <1>1, <2>2, <1>t DEF LTypes, ProvidersHold
  <2>4. ~lApp.isBooted /\ \A q \in lEarly : Once("Register", q) /\ Calls("Boot", q) = {}
    BY <1>t, <1>2, <1>6 DEF InRegister, LTypes
  <2>5. BeforeBoot' /\ InRegister' /\ InBoot' /\ AfterBoot'
    BY <1>t, <1>1, <1>3, <1>5, <2>2, <2>4 DEF BeforeBoot, InRegister, InBoot, AfterBoot, ProvidersHold
  <2>6. LateInv'
    BY <1>m, <1>n, <1>3, <2>2, StillBooting DEF CalledAreKnown, Known
  <2> QED
    BY <1>4, <2>3, <2>5, <2>6 DEF BootInv
<1>7. CASE lApp.loop = "Boot"
  <2>1. lApp' = [lApp EXCEPT !.loop = "none", !.isBooted = TRUE]
    BY <1>7 DEF BootLoopEnd
  <2>2. /\ lApp' \in [providers : Seq(LProviders), isBooted : BOOLEAN, loop : Loops, left : Seq(LProviders)]
        /\ lApp'.providers = lApp.providers /\ lApp'.isBooted = TRUE /\ lApp'.loop = "none"
    BY <2>1, <1>t DEF LTypes, Loops
  <2>3. LTypes' /\ ProvidersHold'
    BY <1>1, <2>2, <1>t DEF LTypes, ProvidersHold
  <2>4. \A q \in lEarly : Once("Register", q) /\ Once("Boot", q)
    BY <1>t, <1>2, <1>7 DEF InBoot
  <2>5. BeforeBoot' /\ InRegister' /\ InBoot' /\ AfterBoot'
    BY <1>1, <1>5, <2>2, <2>4 DEF BeforeBoot, InRegister, InBoot, AfterBoot
  <2>6. LateInv'
    BY <1>m, <1>n, <1>3, <2>2, StillBooting DEF CalledAreKnown, Known
  <2> QED
    BY <1>4, <2>3, <2>5, <2>6 DEF BootInv
<1> QED
  BY <1>1, <1>t, <1>6, <1>7, AppIs DEF Loops

\* One callback of either loop: the list is longer, what is left is shorter, the log
\* has the call.
LEMMA BootStepIs ==
  ASSUME LTypes, ProvidersHold, BootStep, UniqueIn(lApp.left, lEarly)
  PROVE /\ LTypes' /\ ProvidersHold' /\ lEarly' = lEarly
        /\ lApp'.isBooted = lApp.isBooted /\ lApp'.loop = lApp.loop /\ lApp'.left = Tail(lApp.left)
        /\ GrowsBy(lLog, lLog', lApp.loop, Head(lApp.left)) /\ lApp.loop \in {"Register", "Boot"}
        /\ Len(lLog) \in Nat /\ lCalls' = lCalls /\ \A q : Known(q) => Known(q)'
<1> DEFINE p == Head(lApp.left)
           new == Keep(Registers(p, lApp.loop), {q \in LProviders : ~Known(q)})
           list == lApp.providers \o new
<1>1. /\ lApp.loop # "none" /\ lApp.left # <<>> /\ lEarly' = lEarly /\ lCalls' = lCalls
      /\ lLog' = Append(lLog, <<lApp.loop, p>>)
      /\ lApp' = [lApp EXCEPT !.left = Tail(lApp.left), !.providers = list]
  BY DEF BootStep
<1>2. /\ lApp.providers \in Seq(LProviders) /\ lApp.loop \in {"Register", "Boot"}
      /\ lApp.left \in Seq(LProviders) /\ lLog \in Seq(LogEntries) /\ lEarly \subseteq LProviders
  BY <1>1, AppIs DEF Loops
<1>3. p \in LProviders /\ Tail(lApp.left) \in Seq(LProviders)
  BY <1>1, <1>2, HeadTailProperties
<1>4. new \in Seq(LProviders) /\ \A i \in 1 .. Len(new) : new[i] \notin lEarly
  <2> DEFINE S == {q \in LProviders : ~Known(q)}
  <2>1. Registers(p, lApp.loop) \in Seq(LProviders)
    BY <1>3, RegistersAre
  <2>2. new \in Seq(S) /\ new \in Seq(LProviders)
    <3> HIDE DEF S
    <3>1. Keep(Registers(p, lApp.loop), S) \in Seq(S) /\ Keep(Registers(p, lApp.loop), S) \in Seq(LProviders)
      BY <2>1, KeepType
    <3> QED
      BY <3>1 DEF S
  <2>3. \A q \in S : q \notin lEarly
    BY DEF ProvidersHold, Known
  <2> HIDE DEF S, new
  <2> QED
    BY <2>2, <2>3, ElementOfSeq
<1> HIDE DEF new
<1>5. /\ list \in Seq(LProviders) /\ UniqueIn(list, lEarly)
      /\ \A q : Contains(lApp.providers, q) => Contains(list, q)
  BY <1>2, <1>4, ListGrows DEF ProvidersHold
<1>6. lLog' \in Seq(LogEntries) /\ GrowsBy(lLog, lLog', lApp.loop, p) /\ Len(lLog) \in Nat
  <2> HIDE DEF p
  <2>1. \A c \in {"Register", "Boot"}, q \in LProviders :
          /\ Append(lLog, <<c, q>>) \in Seq(LogEntries) /\ Len(lLog) \in Nat
          /\ GrowsBy(lLog, Append(lLog, <<c, q>>), c, q)
    BY <1>2, CallsGrow DEF CallKinds
  <2> QED
    BY <1>1, <1>2, <1>3, <2>1
<1> HIDE DEF list
<1>7. /\ lApp' \in [providers : Seq(LProviders), isBooted : BOOLEAN, loop : Loops, left : Seq(LProviders)]
      /\ lApp'.providers = list /\ lApp'.isBooted = lApp.isBooted /\ lApp'.loop = lApp.loop
      /\ lApp'.left = Tail(lApp.left)
  <2> DEFINE a == [lApp EXCEPT !.left = Tail(lApp.left)]
             R == [providers : Seq(LProviders), isBooted : BOOLEAN, loop : Loops, left : Seq(LProviders)]
  <2>1. a \in R /\ a.isBooted = lApp.isBooted /\ a.loop = lApp.loop /\ a.left = Tail(lApp.left)
    BY <1>3 DEF LTypes
  <2>2. lApp' = [a EXCEPT !.providers = list]
    BY <1>1
  <2> HIDE DEF a
  <2> QED
    BY <1>5, <2>1, <2>2
<1>8. LTypes' /\ ProvidersHold'
  BY <1>1, <1>2, <1>5, <1>6, <1>7 DEF LTypes, ProvidersHold
<1>9. \A q : Known(q) => Known(q)'
  BY <1>5, <1>7 DEF Known
<1> QED
  BY <1>1, <1>2, <1>6, <1>7, <1>8, <1>9

LEMMA BootStepKeeps == ASSUME BootInv, BootStep PROVE BootInv'
<1>t. LTypes /\ ProvidersHold /\ InRegister /\ InBoot /\ AfterBoot /\ RegisteredFirst /\ LateInv
  BY DEF BootInv
<1>0. lApp.loop \in {"Register", "Boot"} /\ lApp.left # <<>> /\ lApp.left \in Seq(LProviders)
      /\ lEarly \subseteq LProviders
  BY <1>t, AppIs DEF BootStep, Loops
<1>1. UniqueIn(lApp.left, lEarly) /\ ~lApp.isBooted
  BY <1>t, <1>0 DEF InRegister, InBoot
<1>p. Head(lApp.left) \in LProviders
  BY <1>0, HeadTailProperties
<1>q. PICK p \in LProviders : p = Head(lApp.left)
  BY <1>p
<1> DEFINE end == Len(lLog) + 1
<1>2. /\ LTypes' /\ ProvidersHold' /\ lEarly' = lEarly
      /\ lApp'.isBooted = lApp.isBooted /\ lApp'.loop = lApp.loop /\ lApp'.left = Tail(lApp.left)
      /\ GrowsBy(lLog, lLog', lApp.loop, p) /\ Len(lLog) \in Nat /\ lCalls' = lCalls
      /\ \A q : Known(q) => Known(q)'
  BY <1>t, <1>1, <1>q, BootStepIs
<1>3. /\ p \in LProviders /\ UniqueIn(Tail(lApp.left), lEarly)
      /\ \A q : Contains(lApp.left, q) <=> q = p \/ Contains(Tail(lApp.left), q)
      /\ p \in lEarly => ~Contains(Tail(lApp.left), p)
  BY <1>0, <1>1, <1>q, TailIs
<1>4. /\ \A call \in CallKinds, q \in LProviders :
           /\ Calls(call, q) \subseteq 1 .. Len(lLog)
           /\ Calls(call, q)' = IF call = lApp.loop /\ q = p THEN Calls(call, q) \cup {end}
                                ELSE Calls(call, q)
  <2>1. \A call, q : Calls(call, q)' = CallsIn(lLog', call, q)
    BY DEF Calls, CallsIn
  <2> QED
    BY <1>2, <2>1, CallsAre DEF GrowsBy
<1> HIDE DEF end
<1>5. \A call, q : Calls(call, q)' = {end} => Once(call, q)'
  BY DEF Once
<1>6. \A call, q : Calls(call, q)' = Calls(call, q) => (Once(call, q)' <=> Once(call, q))
  BY DEF Once
<1>7. BeforeBoot' /\ AfterBoot'
  BY <1>0, <1>1, <1>2 DEF BeforeBoot, AfterBoot
<1>n. /\ lCalls' = <<>> /\ Joined = {} /\ NobodyElseRegisters /\ CalledAreKnown /\ Known(p)
  BY <1>t, <1>0, <1>1, <1>2, <1>3 DEF LateInv, JoinedOnes, CalledAreKnown
<1>m. Joined' = {}
  BY <1>0, <1>4, <1>n DEF Joined, CallKinds
<1>k. CalledAreKnown'
  BY <1>0, <1>2, <1>3, <1>4, <1>n DEF CalledAreKnown, CallKinds
<1>8. CASE lApp.loop = "Register"
  <2>1. p \in lEarly /\ Tail(lApp.left) \in Seq(lEarly)
    <3>1. lApp.left \in Seq(lEarly)
      BY <1>t, <1>8 DEF InRegister
    <3> QED
      BY <1>0, <1>q, <3>1, HeadTailProperties
  <2>2. /\ \A q \in LProviders : Calls("Boot", q)' = {} /\ Calls("Boot", q) = {}
        /\ \A q \in lEarly : q # p => Calls("Register", q)' = Calls("Register", q)
        /\ Calls("Register", p)' = {end}
    BY <1>t, <1>0, <1>3, <1>4, <1>8, <2>1 DEF InRegister, CallKinds
  <2>3. InRegister'
    BY <1>t, <1>0, <1>2, <1>1, <1>3, <1>5, <1>6, <1>8, <2>1, <2>2 DEF InRegister
  <2>4. InBoot'
    BY <1>2, <1>8 DEF InBoot
  <2>5. RegisteredFirst'
    BY <1>0, <1>2, <2>2 DEF RegisteredFirst
  <2>6. LateInv'
    <3>1. \A q \in LProviders \ lEarly : Calls("Register", q)' = Calls("Register", q)
      BY <1>4, <2>1 DEF CallKinds
    <3>2. NobodyElseRegisters'
      BY <1>2, <1>m, <1>n, <3>1 DEF NobodyElseRegisters
    <3> QED
      BY <1>k, <1>m, <1>n, <3>2, StillBooting
  <2> QED
    BY <1>2, <1>7, <2>3, <2>4, <2>5, <2>6 DEF BootInv
<1>9. CASE lApp.loop = "Boot"
  <2>1. /\ \A q \in LProviders : /\ Calls("Register", q)' = Calls("Register", q)
                                 /\ q # p => Calls("Boot", q)' = Calls("Boot", q)
        /\ Calls("Boot", p)' = Calls("Boot", p) \cup {end}
        /\ p \in lEarly => Calls("Boot", p)' = {end}
    BY <1>t, <1>0, <1>3, <1>4, <1>9 DEF InBoot, CallKinds
  <2>2. InBoot'
    <3> SUFFICES ASSUME NEW q \in lEarly
                 PROVE /\ Once("Register", q)'
                       /\ IF Contains(Tail(lApp.left), q) THEN Calls("Boot", q)' = {} ELSE Once("Boot", q)'
      BY <1>1, <1>2, <1>3 DEF InBoot
    <3>1. q \in LProviders /\ Once("Register", q)
      BY <1>t, <1>0, <1>9 DEF InBoot
    <3>2. Once("Register", q)'
      BY <1>6, <2>1, <3>1
    <3>3. IF Contains(lApp.left, q) THEN Calls("Boot", q) = {} ELSE Once("Boot", q)
      BY <1>t, <1>9 DEF InBoot
    <3>4. CASE q = p
      BY <1>3, <1>5, <2>1, <3>2, <3>4
    <3>5. CASE q # p
      BY <1>3, <1>6, <2>1, <3>1, <3>2, <3>3, <3>5
    <3> QED
      BY <3>4, <3>5
  <2>3. InRegister'
    BY <1>2, <1>9 DEF InRegister
  <2>4. RegisteredFirst'
    <3> SUFFICES ASSUME NEW a \in lEarly, NEW b \in lEarly, NEW n \in Calls("Boot", a)'
                 PROVE \E m \in Calls("Register", b)' : m < n
      BY <1>2 DEF RegisteredFirst
    <3>1. a \in LProviders /\ b \in LProviders
      BY <1>0
    <3>2. CASE n \in Calls("Boot", a)
      BY <1>t, <2>1, <3>1, <3>2 DEF RegisteredFirst
    <3>3. CASE n = end
      <4>1. PICK m \in Calls("Register", b) : TRUE
        BY <1>t, <1>9 DEF InBoot, Once
      <4>2. m \in 1 .. Len(lLog) /\ m \in Calls("Register", b)'
        BY <1>4, <2>1, <3>1 DEF CallKinds
      <4>3. m < n
        BY <1>2, <3>3, <4>2 DEF end
      <4> QED
        BY <4>2, <4>3
    <3> QED
      BY <2>1, <3>1, <3>2, <3>3
  <2>5. LateInv'
    <3>1. NobodyElseRegisters'
      BY <1>2, <1>m, <1>n, <2>1 DEF NobodyElseRegisters
    <3> QED
      BY <1>k, <1>m, <1>n, <3>1, StillBooting
  <2> QED
    BY <1>2, <1>7, <2>2, <2>3, <2>4, <2>5 DEF BootInv
<1> QED
  BY <1>0, <1>8, <1>9

-----------------------------------------------------------------------------
(* The shutdown of the kernel *)

KTypes ==
  /\ lKernel \in [phase : {"new", "serving", "draining", "cleanup", "returned"}, ran : Seq(Nat),
                  db : {"open", "closed"}, timedOut : BOOLEAN, result : {"none", "error", "nil"}]
  /\ lRequest \in [LRequests -> {"new", "open", "refused", "done"}]

\* The callbacks that ran are the first ones, in their order.
CallbacksInOrder == \A n \in 1 .. Len(lKernel.ran) : lKernel.ran[n] = n
NothingShut == lKernel.ran = <<>> /\ lKernel.db = "open"
\* What the drain leaves, for every request of the ones that were being served.
DrainIsOver == lKernel.timedOut \/ \A r \in LRequests : lRequest[r] # "open"

BeforeShutdown ==
  lKernel.phase \in {"new", "serving", "draining"} => NothingShut /\ lKernel.result = "none"
InCleanup ==
  lKernel.phase = "cleanup" => lKernel.db = "open" /\ lKernel.result = "none" /\ DrainIsOver
AfterRun ==
  lKernel.phase = "returned" =>
    \/ lKernel.result = "error" /\ NothingShut
    \/ lKernel.result = "nil" /\ lKernel.db = "closed" /\ Len(lKernel.ran) = LCallbacks /\ DrainIsOver

KernelInv == KTypes /\ CallbacksInOrder /\ BeforeShutdown /\ InCleanup /\ AfterRun

LIndInv == BootInv /\ KernelInv

\* The steps that are not of the kernel nor of a request.
LEMMA BootLeavesKernel == ASSUME KernelInv, UNCHANGED <<lKernel, lRequest>> PROVE KernelInv'
BY DEF KernelInv, KTypes, CallbacksInOrder, BeforeShutdown, InCleanup, AfterRun, NothingShut, DrainIsOver

LEMMA KernelLeavesBoot == ASSUME BootInv, UNCHANGED <<lApp, lCalls, lLog, lEarly>> PROVE BootInv'
<1>1. lCalls' = lCalls /\ lApp' = lApp /\ lLog' = lLog /\ lEarly' = lEarly
  OBVIOUS
<1>2. \A call, q : Calls(call, q)' = Calls(call, q)
  BY <1>1 DEF Calls
<1>3. \A call, q : Once(call, q)' <=> Once(call, q)
  BY <1>2 DEF Once
<1>4. LTypes' /\ ProvidersHold' /\ BeforeBoot'
  BY <1>1 DEF BootInv, LTypes, ProvidersHold, BeforeBoot
<1>5. InRegister' /\ InBoot' /\ AfterBoot'
  BY <1>1, <1>2, <1>3 DEF BootInv, InRegister, InBoot, AfterBoot
<1>6. RegisteredFirst'
  BY <1>1, <1>2 DEF BootInv, RegisteredFirst
<1>7. Joined' = Joined
  BY <1>2 DEF Joined
<1>8. JoinedOnes' /\ NobodyElseRegisters' /\ CalledAreKnown'
  BY <1>1, <1>2, <1>3, <1>7 DEF BootInv, LateInv, JoinedOnes, NobodyElseRegisters, CalledAreKnown, Known
<1>9. CallsNest' /\ LateOnesDone'
  BY <1>1, <1>2, <1>3, <1>7 DEF BootInv, LateInv, CallsNest, CallsInOrder, LateOnesDone, Pending
<1>10. LateInOrder' /\ InnerOnesFirst'
  BY <1>2, <1>7 DEF BootInv, LateInv, LateInOrder, InnerOnesFirst
<1> QED
  BY <1>4, <1>5, <1>6, <1>8, <1>9, <1>10 DEF BootInv, LateInv

\* A step that sets the kernel's phase and what goes with it.
LEMMA KernelSteps ==
  ASSUME KernelInv, \/ Serve \/ ListenError \/ Signal \/ Drained \/ DrainTimeout \/ CloseDB
  PROVE KernelInv'
<1>1. lRequest' = lRequest
  BY DEF Serve, ListenError, Signal, Drained, DrainTimeout, CloseDB, KernelTo
<1>t. KTypes
  BY DEF KernelInv
<1>2. CASE Serve
  <2>1. lKernel' = [lKernel EXCEPT !.phase = "serving"] /\ lKernel.phase = "new"
    BY <1>2 DEF Serve, KernelTo, ServesNothing
  <2>2. /\ KTypes' /\ lKernel'.phase = "serving" /\ lKernel'.ran = lKernel.ran
        /\ lKernel'.db = lKernel.db /\ lKernel'.result = lKernel.result
    BY <1>1, <1>t, <2>1 DEF KTypes
  <2> QED
    BY <1>1, <2>1, <2>2
    DEF KernelInv, CallbacksInOrder, BeforeShutdown, InCleanup, AfterRun, NothingShut
<1>3. CASE ListenError
  <2>1. /\ lKernel' = [lKernel EXCEPT !.phase = "returned", !.result = "error"]
        /\ lKernel.phase = "serving"
    BY <1>3 DEF ListenError, KernelTo
  <2>2. /\ KTypes' /\ lKernel'.phase = "returned" /\ lKernel'.ran = lKernel.ran
        /\ lKernel'.db = lKernel.db /\ lKernel'.result = "error"
    BY <1>1, <1>t, <2>1 DEF KTypes
  <2> QED
    BY <1>1, <2>1, <2>2
    DEF KernelInv, CallbacksInOrder, BeforeShutdown, InCleanup, AfterRun, NothingShut
<1>4. CASE Signal
  <2>1. lKernel' = [lKernel EXCEPT !.phase = "draining"] /\ lKernel.phase = "serving"
    BY <1>4 DEF Signal, KernelTo
  <2>2. /\ KTypes' /\ lKernel'.phase = "draining" /\ lKernel'.ran = lKernel.ran
        /\ lKernel'.db = lKernel.db /\ lKernel'.result = lKernel.result
    BY <1>1, <1>t, <2>1 DEF KTypes
  <2> QED
    BY <1>1, <2>1, <2>2
    DEF KernelInv, CallbacksInOrder, BeforeShutdown, InCleanup, AfterRun, NothingShut
<1>5. CASE Drained
  <2>1. lKernel' = [lKernel EXCEPT !.phase = "cleanup"] /\ lKernel.phase = "draining"
    BY <1>5 DEF Drained, KernelTo
  <2>2. /\ KTypes' /\ lKernel'.phase = "cleanup" /\ lKernel'.ran = lKernel.ran
        /\ lKernel'.db = lKernel.db /\ lKernel'.result = lKernel.result
    BY <1>1, <1>t, <2>1 DEF KTypes
  <2>3. \A r \in LRequests : lRequest[r] # "open"
    BY <1>5 DEF Drained, InFlight
  <2> QED
    BY <1>1, <2>1, <2>2, <2>3
    DEF KernelInv, CallbacksInOrder, BeforeShutdown, InCleanup, AfterRun, NothingShut, DrainIsOver
<1>6. CASE DrainTimeout
  <2>1. /\ lKernel' = [lKernel EXCEPT !.phase = "cleanup", !.timedOut = TRUE]
        /\ lKernel.phase = "draining"
    BY <1>6 DEF DrainTimeout, KernelTo
  <2>2. /\ KTypes' /\ lKernel'.phase = "cleanup" /\ lKernel'.ran = lKernel.ran
        /\ lKernel'.db = lKernel.db /\ lKernel'.result = lKernel.result /\ lKernel'.timedOut = TRUE
    BY <1>1, <1>t, <2>1 DEF KTypes
  <2> QED
    BY <1>1, <2>1, <2>2
    DEF KernelInv, CallbacksInOrder, BeforeShutdown, InCleanup, AfterRun, NothingShut, DrainIsOver
<1>7. CASE CloseDB
  <2>1. /\ lKernel' = [lKernel EXCEPT !.db = "closed", !.phase = "returned", !.result = "nil"]
        /\ lKernel.phase = "cleanup" /\ Len(lKernel.ran) = LCallbacks
    BY <1>7 DEF CloseDB, KernelTo
  <2>2. /\ KTypes' /\ lKernel'.phase = "returned" /\ lKernel'.ran = lKernel.ran
        /\ lKernel'.db = "closed" /\ lKernel'.result = "nil" /\ lKernel'.timedOut = lKernel.timedOut
    BY <1>1, <1>t, <2>1 DEF KTypes
  <2> QED
    BY <1>1, <2>1, <2>2
    DEF KernelInv, CallbacksInOrder, BeforeShutdown, InCleanup, AfterRun, NothingShut, DrainIsOver
<1> QED
  BY <1>2, <1>3, <1>4, <1>5, <1>6, <1>7

LEMMA CallbackKeeps == ASSUME KernelInv, Callback PROVE KernelInv'
<1> DEFINE ran == Append(lKernel.ran, Len(lKernel.ran) + 1)
<1>1. lRequest' = lRequest /\ lKernel.phase = "cleanup" /\ lKernel' = [lKernel EXCEPT !.ran = ran]
  BY DEF Callback, KernelTo
<1>t. KTypes /\ CallbacksInOrder /\ InCleanup
  BY DEF KernelInv
<1>2. /\ ran \in Seq(Nat) /\ Len(ran) = Len(lKernel.ran) + 1 /\ Len(lKernel.ran) \in Nat
      /\ \A i \in 1 .. Len(lKernel.ran) : ran[i] = lKernel.ran[i]
      /\ ran[Len(lKernel.ran) + 1] = Len(lKernel.ran) + 1
  <2>1. lKernel.ran \in Seq(Nat) /\ Len(lKernel.ran) + 1 \in Nat
    BY <1>t DEF KTypes
  <2> QED
    BY <2>1, PushIs
<1>3. \A n \in 1 .. Len(ran) : ran[n] = n
  <2>1. \A n \in 1 .. Len(ran) : n \in 1 .. Len(lKernel.ran) \/ n = Len(lKernel.ran) + 1
    BY <1>2
  <2> QED
    BY <1>t, <1>2, <2>1 DEF CallbacksInOrder
<1> HIDE DEF ran
<1>4. /\ KTypes' /\ lKernel'.phase = "cleanup" /\ lKernel'.ran = ran /\ lKernel'.db = lKernel.db
      /\ lKernel'.result = lKernel.result /\ lKernel'.timedOut = lKernel.timedOut
  BY <1>1, <1>2, <1>t DEF KTypes
<1> QED
  BY <1>1, <1>t, <1>3, <1>4
  DEF KernelInv, CallbacksInOrder, BeforeShutdown, InCleanup, AfterRun, DrainIsOver

\* No request is open before the server serves; once it drains none is opened.
LEMMA RequestKeeps ==
  ASSUME KernelInv, NEW r \in LRequests, Arrive(r) \/ Respond(r)
  PROVE KernelInv'
<1>1. lKernel' = lKernel /\ \E s \in {"open", "refused", "done"} :
          lRequest' = [lRequest EXCEPT ![r] = s] /\ (s = "open" => lKernel.phase = "serving")
  BY DEF Arrive, Respond, RequestTo
<1>2. PICK s \in {"open", "refused", "done"} :
          lRequest' = [lRequest EXCEPT ![r] = s] /\ (s = "open" => lKernel.phase = "serving")
  BY <1>1
<1>3. KTypes'
  BY <1>1, <1>2 DEF KernelInv, KTypes
<1>4. lKernel.phase # "serving" /\ DrainIsOver => DrainIsOver'
  BY <1>1, <1>2 DEF KernelInv, KTypes, DrainIsOver
<1> QED
  BY <1>1, <1>3, <1>4
  DEF KernelInv, CallbacksInOrder, BeforeShutdown, InCleanup, AfterRun, NothingShut

-----------------------------------------------------------------------------
(* Both *)

\* The invariant of an application and its kernel, at the start and at every step: the two
\* passes of Boot (Application.Boot), the calls inside calls of providers that join later
\* (RegisterProvider) and the shutdown (Kernel.shutdown) hold their order.
THEOREM LifecycleInvariance == LSpec => []LIndInv
<1>1. LInit => LIndInv
  <2> SUFFICES ASSUME LInit PROVE LIndInv
    OBVIOUS
  <2>1. LTypes
    BY DEF LInit, LTypes, Loops
  <2>2. \A call, p : Calls(call, p) = {}
    BY DEF LInit, Calls
  <2>3. BootInv
    <3>1. LateInv
      BY <2>2 DEF LInit, LateInv, JoinedOnes, Joined, CallsNest, CallsInOrder, LateOnesDone, LateInOrder,
        InnerOnesFirst, NobodyElseRegisters, CalledAreKnown
    <3> QED
      BY <2>1, <2>2, <3>1 DEF LInit, BootInv, ProvidersHold, BeforeBoot, InRegister, InBoot, AfterBoot,
        RegisteredFirst, UniqueIn
  <2>4. KernelInv
    BY DEF LInit, KernelInv, KTypes, CallbacksInOrder, BeforeShutdown, InCleanup, AfterRun, NothingShut
  <2> QED
    BY <2>3, <2>4 DEF LIndInv
<1>2. LIndInv /\ [LNext]_lvars => LIndInv'
  <2> SUFFICES ASSUME LIndInv, [LNext]_lvars PROVE LIndInv'
    OBVIOUS
  <2>0. BootInv /\ KernelInv
    BY DEF LIndInv
  <2>1. ASSUME NEW p \in LProviders, RegisterProvider(p) PROVE LIndInv'
    BY <2>0, <2>1, RegisterEarlyKeeps, RegisterLateKeeps, BootLeavesKernel DEF LIndInv, RegisterProvider
  <2>9. CASE NestedRegister
    BY <2>0, <2>9, NestedRegisterKeeps, BootLeavesKernel DEF LIndInv, NestedRegister
  <2>10. CASE CallReturns
    BY <2>0, <2>10, RegisterEndsKeeps, BootEndsKeeps, BootLeavesKernel DEF LIndInv, CallReturns
  <2>2. CASE BootStart
    BY <2>0, <2>2, BootStartKeeps, BootLeavesKernel DEF LIndInv, BootStart
  <2>3. CASE BootStep
    BY <2>0, <2>3, BootStepKeeps, BootLeavesKernel DEF LIndInv, BootStep
  <2>4. CASE BootLoopEnd
    BY <2>0, <2>4, BootLoopEndKeeps, BootLeavesKernel DEF LIndInv, BootLoopEnd
  <2>5. CASE Serve \/ ListenError \/ Signal \/ Drained \/ DrainTimeout \/ CloseDB
    <3>1. UNCHANGED <<lApp, lCalls, lLog, lEarly>>
      BY <2>5 DEF Serve, ListenError, Signal, Drained, DrainTimeout, CloseDB, KernelTo
    <3> QED
      BY <2>0, <2>5, <3>1, KernelSteps, KernelLeavesBoot DEF LIndInv
  <2>6. CASE Callback
    BY <2>0, <2>6, CallbackKeeps, KernelLeavesBoot DEF LIndInv, Callback, KernelTo
  <2>7. ASSUME NEW r \in LRequests, Arrive(r) \/ Respond(r) PROVE LIndInv'
    BY <2>0, <2>7, RequestKeeps, KernelLeavesBoot DEF LIndInv, Arrive, Respond, RequestTo
  <2>8. CASE UNCHANGED lvars
    BY <2>0, <2>8, KernelLeavesBoot, BootLeavesKernel DEF LIndInv, lvars
  <2> QED
    BY <2>1, <2>2, <2>3, <2>4, <2>5, <2>6, <2>7, <2>8, <2>9, <2>10 DEF LNext
<1> QED
  BY <1>1, <1>2, PTL DEF LSpec

\* Every variable of the application and of the kernel has its type.
THEOREM LifecycleTypeCorrect == LSpec => []LTypeOK
<1>1. LIndInv => LTypeOK
  BY DEF LIndInv, BootInv, LTypes, Loops, Frames, KernelInv, KTypes, LTypeOK
<1> QED
  BY <1>1, LifecycleInvariance, PTL

\* No provider registered ahead of Boot is booted before all of those are registered, and
\* each of them is registered and booted once; one that joins a booted application is
\* registered before it is booted, and those it registers on the way before that; who is
\* registered while Boot's loops run is never registered with the container.  The shutdown
\* runs every callback once, in order, before the database is closed, under no request
\* unless the drain timed out.
THEOREM LivesAreInOrder == LSpec => []LivesInOrder
<1>1. LIndInv => TwoPhaseBoot
  <2> SUFFICES ASSUME BootInv PROVE TwoPhaseBoot
    BY DEF LIndInv
  <2>1. TwoPasses
    BY DEF BootInv, AfterBoot, RegisteredFirst, TwoPasses
  <2>2. lCalls = <<>> => \A p : ~Pending(lCalls, p)
    BY DEF Pending
  <2>3. LateOnesNest
    BY <2>2 DEF BootInv, LateInv, LateOnesDone, LateInOrder, InnerOnesFirst, LateOnesNest
  <2> QED
    BY <2>1, <2>3 DEF BootInv, LateInv, TwoPhaseBoot
<1>2. LIndInv => ShutdownInOrder
  <2> SUFFICES ASSUME KernelInv PROVE ShutdownInOrder
    BY DEF LIndInv
  <2>1. DrainIsOver => lKernel.timedOut \/ InFlight = {}
    BY DEF DrainIsOver, InFlight
  <2>2. lKernel.phase \in {"new", "serving", "draining", "cleanup", "returned"}
    BY DEF KernelInv, KTypes
  <2>3. lKernel.ran \in Seq(Nat) /\ CallbacksInOrder
    BY DEF KernelInv, KTypes
  <2>4. Len(lKernel.ran) = LCallbacks => lKernel.ran = [n \in 1 .. LCallbacks |-> n]
    BY <2>3 DEF CallbacksInOrder
  <2> QED
    BY <2>1, <2>2, <2>4
    DEF KernelInv, BeforeShutdown, InCleanup, AfterRun, NothingShut, ShutdownInOrder
<1> QED
  BY <1>1, <1>2, LifecycleInvariance, PTL DEF LivesInOrder

-----------------------------------------------------------------------------
(* The rate limiters *)

Instants == 0 .. TMaxTime
Answers == [key : Keys, at : Instants, ok : BOOLEAN]

\* The requests of a key that a limiter let through: of one window, and after an instant.
PassedIn(log, l, k, upTo, at) ==
  {n \in 1 .. upTo : log[n].key = k /\ log[n].ok /\ log[n].at <= at /\ log[n].at + TPeriod[l] > at}
Since(log, l, k, time) ==
  {n \in 1 .. Len(log) : log[n].key = k /\ log[n].ok /\ log[n].at + TPeriod[l] > time}
Young(l, time) == {ts \in Instants : ts + TPeriod[l] > time}

\* The list of a key has, at any later time, an instant for each request that counts then.
CountsMatch(l, now, clients, log) ==
  \A k \in Keys, time \in now .. TMaxTime :
    Cardinality(Since(log, l, k, time)) = Len(Keep(clients[k], Young(l, time)))
WindowsHold(l, now, log) ==
  \A k \in Keys, at \in 0 .. now : Cardinality(PassedIn(log, l, k, Len(log), at)) <= TLimit[l]
RefusesWhenFull(l, log) ==
  \A k \in Keys, n \in 1 .. Len(log) :
    log[n].key = k /\ ~log[n].ok => Cardinality(PassedIn(log, l, k, n, log[n].at)) = TLimit[l]
LimiterTypes(l, now, clients, log) ==
  /\ clients \in [Keys -> Seq(Instants)] /\ log \in Seq(Answers)
  /\ \A n \in 1 .. Len(log) : log[n].at <= now
  /\ \A k \in Keys : Len(clients[k]) <= TLimit[l]
LimiterHolds(l, now, clients, log) ==
  /\ LimiterTypes(l, now, clients, log) /\ CountsMatch(l, now, clients, log)
  /\ WindowsHold(l, now, log) /\ RefusesWhenFull(l, log)

TIndInv ==
  /\ tNow \in Instants
  /\ \A l \in Limiters : LimiterHolds(l, tNow, tClients[l], tAnswered[l])

LEMMA LimitsAre ==
  ASSUME NEW l \in Limiters
  PROVE TLimit[l] \in Nat /\ TPeriod[l] \in Nat /\ TMaxTime \in Nat
BY ThrottleAssumption

\* An answer of a log.
LEMMA AnswerIs ==
  ASSUME NEW log \in Seq(Answers), NEW n \in 1 .. Len(log)
  PROVE log[n].key \in Keys /\ log[n].at \in Instants /\ log[n].at \in Nat /\ log[n].ok \in BOOLEAN
<1>1. log[n] \in Answers
  BY ElementOfSeq
<1> QED
  BY <1>1, ThrottleAssumption DEF Answers, Instants

\* Sets of positions are finite.
LEMMA PositionsFinite ==
  ASSUME NEW n \in Nat, NEW S \in SUBSET (1 .. n)
  PROVE IsFiniteSet(S) /\ Cardinality(S) \in Nat
<1>1. IsFiniteSet(1 .. n)
  BY FS_Interval
<1> QED
  BY <1>1, FS_Subset, FS_CardinalityType

\* A longer log has the windows that ended in the shorter one.
LEMMA WindowsKept ==
  ASSUME NEW log \in Seq(Answers), NEW e \in Answers, NEW l, NEW k, NEW at, NEW n \in 0 .. Len(log)
  PROVE PassedIn(Append(log, e), l, k, n, at) = PassedIn(log, l, k, n, at)
<1>1. \A i \in 1 .. n : Append(log, e)[i] = log[i]
  BY PushIs
<1> QED
  BY <1>1 DEF PassedIn

\* A window that ends now has what counts now.
LEMMA WindowNow ==
  ASSUME NEW l \in Limiters, NEW now \in Instants, NEW log \in Seq(Answers), NEW k \in Keys,
         \A n \in 1 .. Len(log) : log[n].at <= now
  PROVE PassedIn(log, l, k, Len(log), now) = Since(log, l, k, now)
BY DEF PassedIn, Since

\* Time passes.
LEMMA TickHolds ==
  ASSUME NEW l \in Limiters, NEW now \in Instants, NEW clients, NEW log,
         LimiterHolds(l, now, clients, log), now < TMaxTime
  PROVE LimiterHolds(l, now + 1, clients, log)
<1>1. LimiterTypes(l, now, clients, log) /\ now \in Nat /\ TPeriod[l] \in Nat /\ TLimit[l] \in Nat
  BY LimitsAre DEF LimiterHolds, Instants
<1>2. log \in Seq(Answers) /\ Len(log) \in Nat /\ \A n \in 1 .. Len(log) : log[n].at <= now
  BY <1>1 DEF LimiterTypes
<1>n. \A n \in 1 .. Len(log) : log[n].at \in Nat
  BY <1>2, AnswerIs
<1>3. LimiterTypes(l, now + 1, clients, log)
  BY <1>1, <1>n DEF LimiterTypes
<1>4. CountsMatch(l, now + 1, clients, log)
  <2>1. \A time \in now + 1 .. TMaxTime : time \in now .. TMaxTime
    BY <1>1, LimitsAre
  <2> QED
    BY <2>1 DEF LimiterHolds, CountsMatch
<1>5. WindowsHold(l, now + 1, log)
  <2> SUFFICES ASSUME NEW k \in Keys, NEW at \in 0 .. now + 1
               PROVE Cardinality(PassedIn(log, l, k, Len(log), at)) <= TLimit[l]
    BY DEF WindowsHold
  <2>1. CASE at \in 0 .. now
    BY <2>1 DEF LimiterHolds, WindowsHold
  <2>2. CASE at = now + 1
    <3>1. PassedIn(log, l, k, Len(log), at) \subseteq PassedIn(log, l, k, Len(log), now)
      BY <1>1, <1>2, <1>n, <2>2 DEF PassedIn
    <3>2. PassedIn(log, l, k, Len(log), now) \subseteq 1 .. Len(log)
      BY DEF PassedIn
    <3>3. /\ Cardinality(PassedIn(log, l, k, Len(log), at)) <= Cardinality(PassedIn(log, l, k, Len(log), now))
          /\ Cardinality(PassedIn(log, l, k, Len(log), at)) \in Nat
          /\ Cardinality(PassedIn(log, l, k, Len(log), now)) \in Nat
      BY <1>2, <3>1, <3>2, PositionsFinite, FS_Subset
    <3>4. now \in 0 .. now
      BY <1>1
    <3>5. Cardinality(PassedIn(log, l, k, Len(log), now)) <= TLimit[l]
      BY <3>4 DEF LimiterHolds, WindowsHold
    <3> QED
      BY <1>1, <3>3, <3>5
  <2> QED
    BY <1>1, <2>1, <2>2
<1> QED
  BY <1>3, <1>4, <1>5 DEF LimiterHolds

\* The answer that a log is longer by.
LEMMA AnswerAdded ==
  ASSUME NEW log \in Seq(Answers), NEW e \in Answers, NEW now \in Instants, e.at = now,
         \A n \in 1 .. Len(log) : log[n].at <= now
  PROVE /\ Append(log, e) \in Seq(Answers) /\ Len(Append(log, e)) = Len(log) + 1 /\ Len(log) \in Nat
        /\ Append(log, e)[Len(log) + 1] = e /\ \A n \in 1 .. Len(log) : Append(log, e)[n] = log[n]
        /\ \A n \in 1 .. Len(log) + 1 : Append(log, e)[n].at <= now
<1>1. /\ Append(log, e) \in Seq(Answers) /\ Len(Append(log, e)) = Len(log) + 1 /\ Len(log) \in Nat
      /\ Append(log, e)[Len(log) + 1] = e /\ \A n \in 1 .. Len(log) : Append(log, e)[n] = log[n]
  BY PushIs
<1>2. now \in Nat
  BY ThrottleAssumption DEF Instants
<1>3. \A n \in 1 .. Len(log) + 1 : n \in 1 .. Len(log) \/ n = Len(log) + 1
  BY <1>1
<1> QED
  BY <1>1, <1>2, <1>3

\* A request that is refused.
LEMMA RefuseHolds ==
  ASSUME NEW l \in Limiters, NEW now \in Instants, NEW clients, NEW log, NEW key \in Keys,
         NEW e \in Answers, e.key = key, e.at = now, ~e.ok,
         LimiterHolds(l, now, clients, log),
         ~(Len(Keep(clients[key], Young(l, now))) < TLimit[l])
  PROVE LimiterHolds(l, now, clients, Append(log, e))
<1> DEFINE longer == Append(log, e)
<1>1. /\ LimiterTypes(l, now, clients, log) /\ now \in Nat /\ TLimit[l] \in Nat /\ now \in 0 .. now
      /\ now \in now .. TMaxTime
  BY LimitsAre DEF LimiterHolds, Instants
<1>2. log \in Seq(Answers) /\ \A n \in 1 .. Len(log) : log[n].at <= now
  BY <1>1 DEF LimiterTypes
<1>3. /\ longer \in Seq(Answers) /\ Len(longer) = Len(log) + 1 /\ Len(log) \in Nat
      /\ longer[Len(log) + 1] = e /\ \A n \in 1 .. Len(log) : longer[n] = log[n]
      /\ \A n \in 1 .. Len(log) + 1 : longer[n].at <= now
  BY <1>2, AnswerAdded
<1>w. \A n \in 0 .. Len(log) : \A k, at : PassedIn(longer, l, k, n, at) = PassedIn(log, l, k, n, at)
  BY <1>2, WindowsKept
<1>4. Len(log) \in 0 .. Len(log) /\ \A n \in 1 .. Len(log) : n \in 0 .. Len(log)
  BY <1>3
<1>5. \A n \in 1 .. Len(longer) : n \in 1 .. Len(log) \/ n = Len(log) + 1
  BY <1>3
<1> HIDE DEF longer
<1>6. \A k, at : PassedIn(longer, l, k, Len(longer), at) = PassedIn(log, l, k, Len(log), at)
  <2>1. \A k, at : PassedIn(longer, l, k, Len(longer), at) = PassedIn(longer, l, k, Len(log), at)
    <3>1. \A n \in 1 .. Len(log) : n \in 1 .. Len(longer)
      BY <1>3
    <3> QED
      BY <1>3, <1>5, <3>1 DEF PassedIn
  <2> QED
    BY <1>w, <1>4, <2>1
<1>7. \A k, time : Since(longer, l, k, time) = Since(log, l, k, time)
  <2>1. \A n \in 1 .. Len(log) : n \in 1 .. Len(longer)
    BY <1>3
  <2> QED
    BY <1>3, <1>5, <2>1 DEF Since
<1>8. LimiterTypes(l, now, clients, longer)
  BY <1>1, <1>3 DEF LimiterTypes
<1>9. CountsMatch(l, now, clients, longer) /\ WindowsHold(l, now, longer)
  BY <1>6, <1>7 DEF LimiterHolds, CountsMatch, WindowsHold
<1>10. RefusesWhenFull(l, longer)
  <2> SUFFICES ASSUME NEW k \in Keys, NEW n \in 1 .. Len(longer), longer[n].key = k, ~longer[n].ok
               PROVE Cardinality(PassedIn(longer, l, k, n, longer[n].at)) = TLimit[l]
    BY DEF RefusesWhenFull
  <2>1. CASE n \in 1 .. Len(log)
    <3>1. log[n].key = k /\ ~log[n].ok /\ longer[n].at = log[n].at
      BY <1>3, <2>1
    <3>2. Cardinality(PassedIn(log, l, k, n, log[n].at)) = TLimit[l]
      BY <2>1, <3>1 DEF LimiterHolds, RefusesWhenFull
    <3> QED
      BY <1>w, <1>4, <2>1, <3>1, <3>2
  <2>2. CASE n = Len(log) + 1
    <3>1. n = Len(longer) /\ k = key /\ longer[n].at = now
      BY <1>3, <2>2
    <3>2. PassedIn(log, l, key, Len(log), now) = Since(log, l, key, now)
      BY <1>2, WindowNow
    <3>3. Cardinality(Since(log, l, key, now)) = Len(Keep(clients[key], Young(l, now)))
      BY <1>1 DEF LimiterHolds, CountsMatch
    <3>4. Cardinality(PassedIn(log, l, key, Len(log), now)) <= TLimit[l]
      BY <1>1 DEF LimiterHolds, WindowsHold
    <3>5. Keep(clients[key], Young(l, now)) \in Seq(Instants)
      BY <1>1, KeepType DEF LimiterTypes
    <3>6. Len(Keep(clients[key], Young(l, now))) \in Nat
      BY <3>5
    <3>7. Len(Keep(clients[key], Young(l, now))) = TLimit[l]
      BY <1>1, <3>2, <3>3, <3>4, <3>6
    <3> QED
      BY <1>6, <3>1, <3>2, <3>3, <3>7
  <2> QED
    BY <1>5, <2>1, <2>2
<1> QED
  BY <1>8, <1>9, <1>10 DEF LimiterHolds, longer

\* A request that is let through.
LEMMA PassHolds ==
  ASSUME NEW l \in Limiters, NEW now \in Instants, NEW clients, NEW log, NEW key \in Keys,
         NEW e \in Answers, e.key = key, e.at = now, e.ok,
         LimiterHolds(l, now, clients, log),
         Len(Keep(clients[key], Young(l, now))) < TLimit[l]
  PROVE LimiterHolds(l, now, [clients EXCEPT ![key] = Append(Keep(clients[key], Young(l, now)), now)],
                     Append(log, e))
<1> DEFINE longer == Append(log, e)
           kept == Keep(clients[key], Young(l, now))
           list == Append(kept, now)
           after == [clients EXCEPT ![key] = list]
<1>1. /\ LimiterTypes(l, now, clients, log) /\ now \in Nat /\ TLimit[l] \in Nat /\ TPeriod[l] \in Nat
      /\ now \in 0 .. now /\ now \in now .. TMaxTime /\ TMaxTime \in Nat
  BY LimitsAre DEF LimiterHolds, Instants
<1>2. /\ log \in Seq(Answers) /\ \A n \in 1 .. Len(log) : log[n].at <= now
      /\ clients \in [Keys -> Seq(Instants)] /\ clients[key] \in Seq(Instants)
  BY <1>1 DEF LimiterTypes
<1>3. /\ longer \in Seq(Answers) /\ Len(longer) = Len(log) + 1 /\ Len(log) \in Nat
      /\ longer[Len(log) + 1] = e /\ \A n \in 1 .. Len(log) : longer[n] = log[n]
      /\ \A n \in 1 .. Len(log) + 1 : longer[n].at <= now
  BY <1>2, AnswerAdded
<1>w. \A n \in 0 .. Len(log) : \A k, at : PassedIn(longer, l, k, n, at) = PassedIn(log, l, k, n, at)
  BY <1>2, WindowsKept
<1>4. Len(log) \in 0 .. Len(log) /\ \A n \in 1 .. Len(log) : n \in 0 .. Len(log)
  BY <1>3
<1>5. \A n \in 1 .. Len(longer) : n \in 1 .. Len(log) \/ n = Len(log) + 1
  BY <1>3
<1>6. \A n \in 1 .. Len(log) : n \in 1 .. Len(longer)
  BY <1>3
<1>l. Len(log) + 1 \in 1 .. Len(longer)
  BY <1>3
<1>7. kept \in Seq(Instants) /\ list \in Seq(Instants) /\ Len(list) = Len(kept) + 1 /\ Len(kept) \in Nat
  <2>1. kept \in Seq(Instants)
    BY <1>2, KeepType
  <2> HIDE DEF kept
  <2> QED
    BY <2>1
<1>8. \A time \in now .. TMaxTime :
        Keep(list, Young(l, time)) = IF now \in Young(l, time)
                                     THEN Append(Keep(clients[key], Young(l, time)), now)
                                     ELSE Keep(clients[key], Young(l, time))
  <2> SUFFICES ASSUME NEW time \in now .. TMaxTime
               PROVE Keep(list, Young(l, time)) = IF now \in Young(l, time)
                                                  THEN Append(Keep(clients[key], Young(l, time)), now)
                                                  ELSE Keep(clients[key], Young(l, time))
    OBVIOUS
  <2>1. Young(l, time) \in SUBSET Young(l, now)
    BY <1>1 DEF Young, Instants
  <2>2. Keep(kept, Young(l, time)) = Keep(clients[key], Young(l, time))
    BY <1>2, <2>1, KeepKeep
  <2> HIDE DEF kept
  <2>3. Keep(Append(kept, now), Young(l, time))
          = IF now \in Young(l, time) THEN Append(Keep(kept, Young(l, time)), now)
            ELSE Keep(kept, Young(l, time))
    BY <1>7, KeepAppend
  <2> QED
    BY <2>2, <2>3
<1>9. /\ after \in [Keys -> Seq(Instants)] /\ after[key] = list
      /\ \A k \in Keys : k # key => after[k] = clients[k]
  BY <1>2, <1>7
<1>10. Len(kept) < TLimit[l]
  OBVIOUS
<1> HIDE DEF longer, list, after, kept
<1>11. \A k, time : k # key => Since(longer, l, k, time) = Since(log, l, k, time)
  BY <1>3, <1>5, <1>6 DEF Since
<1>12. \A time \in now .. TMaxTime :
         Since(longer, l, key, time)
           = IF now + TPeriod[l] > time THEN Since(log, l, key, time) \cup {Len(log) + 1}
             ELSE Since(log, l, key, time)
  <2> SUFFICES ASSUME NEW time \in now .. TMaxTime
               PROVE Since(longer, l, key, time)
                       = IF now + TPeriod[l] > time THEN Since(log, l, key, time) \cup {Len(log) + 1}
                         ELSE Since(log, l, key, time)
    OBVIOUS
  <2>1. \A n \in 1 .. Len(log) : n \in Since(longer, l, key, time) <=> n \in Since(log, l, key, time)
    BY <1>3, <1>6 DEF Since
  <2>2. Len(log) + 1 \in Since(longer, l, key, time) <=> now + TPeriod[l] > time
    BY <1>3, <1>l DEF Since
  <2>3. Since(longer, l, key, time) \subseteq 1 .. Len(longer) /\ Since(log, l, key, time) \subseteq 1 .. Len(log)
    BY DEF Since
  <2>4. \A n : n \in Since(longer, l, key, time) =>
               \/ n \in Since(log, l, key, time)
               \/ n = Len(log) + 1 /\ now + TPeriod[l] > time
    BY <1>5, <2>1, <2>2, <2>3
  <2>5. \A n : n \in Since(log, l, key, time) => n \in Since(longer, l, key, time)
    BY <2>1, <2>3
  <2> QED
    BY <2>2, <2>4, <2>5
<1>13. \A k, time : /\ IsFiniteSet(Since(log, l, k, time)) /\ Cardinality(Since(log, l, k, time)) \in Nat
                    /\ Len(log) + 1 \notin Since(log, l, k, time)
  <2>1. \A k, time : Since(log, l, k, time) \in SUBSET (1 .. Len(log))
    BY DEF Since
  <2>2. Len(log) + 1 \notin 1 .. Len(log)
    BY <1>3
  <2> QED
    BY <1>3, <2>1, <2>2, PositionsFinite
<1>14. \A time : Cardinality(Since(log, l, key, time) \cup {Len(log) + 1}) = Cardinality(Since(log, l, key, time)) + 1
  BY <1>13, FS_AddElement
<1>15. CountsMatch(l, now, after, longer)
  <2> SUFFICES ASSUME NEW k \in Keys, NEW time \in now .. TMaxTime
               PROVE Cardinality(Since(longer, l, k, time)) = Len(Keep(after[k], Young(l, time)))
    BY DEF CountsMatch
  <2>1. Cardinality(Since(log, l, k, time)) = Len(Keep(clients[k], Young(l, time)))
    BY DEF LimiterHolds, CountsMatch
  <2>2. CASE k # key
    BY <1>9, <1>11, <2>1, <2>2
  <2>3. CASE k = key
    <3>1. now \in Young(l, time) <=> now + TPeriod[l] > time
      BY DEF Young
    <3>2. Keep(clients[key], Young(l, time)) \in Seq(Instants)
      BY <1>2, KeepType
    <3>3. Len(Append(Keep(clients[key], Young(l, time)), now)) = Len(Keep(clients[key], Young(l, time))) + 1
      BY <3>2, PushIs
    <3>4. CASE now + TPeriod[l] > time
      <4>1. Keep(list, Young(l, time)) = Append(Keep(clients[key], Young(l, time)), now)
        BY <1>8, <3>1, <3>4
      <4>2. Since(longer, l, key, time) = Since(log, l, key, time) \cup {Len(log) + 1}
        BY <1>12, <3>4
      <4> QED
        BY <1>9, <1>14, <2>1, <2>3, <3>3, <4>1, <4>2
    <3>5. CASE ~(now + TPeriod[l] > time)
      <4>1. Keep(list, Young(l, time)) = Keep(clients[key], Young(l, time))
        BY <1>8, <3>1, <3>5
      <4>2. Since(longer, l, key, time) = Since(log, l, key, time)
        BY <1>12, <3>5
      <4> QED
        BY <1>9, <2>1, <2>3, <4>1, <4>2
    <3> QED
      BY <3>4, <3>5
  <2> QED
    BY <2>2, <2>3
<1>16. WindowsHold(l, now, longer)
  <2> SUFFICES ASSUME NEW k \in Keys, NEW at \in 0 .. now
               PROVE Cardinality(PassedIn(longer, l, k, Len(longer), at)) <= TLimit[l]
    BY DEF WindowsHold
  <2>0. Cardinality(PassedIn(log, l, k, Len(log), at)) <= TLimit[l]
    BY DEF LimiterHolds, WindowsHold
  <2>1. CASE at # now \/ k # key
    <3>1. ~(e.key = k /\ e.at <= at)
      BY <1>1, <2>1
    <3>2. PassedIn(longer, l, k, Len(longer), at) = PassedIn(longer, l, k, Len(log), at)
      BY <1>3, <1>5, <1>6, <3>1 DEF PassedIn
    <3>3. PassedIn(longer, l, k, Len(log), at) = PassedIn(log, l, k, Len(log), at)
      BY <1>w, <1>4
    <3> QED
      BY <2>0, <3>2, <3>3
  <2>2. CASE at = now /\ k = key
    <3>1. PassedIn(longer, l, k, Len(longer), now) = Since(longer, l, key, now)
      BY <1>3, <2>2, WindowNow
    <3>2. Cardinality(Since(log, l, key, now)) = Len(kept)
      BY <1>1 DEF LimiterHolds, CountsMatch, kept
    <3>3. Cardinality(Since(longer, l, key, now)) \in {Len(kept), Len(kept) + 1}
      <4>1. Since(longer, l, key, now) \in {Since(log, l, key, now), Since(log, l, key, now) \cup {Len(log) + 1}}
        BY <1>1, <1>12
      <4> QED
        BY <1>14, <3>2, <4>1
    <3> QED
      BY <1>1, <1>7, <1>10, <2>2, <3>1, <3>3
  <2> QED
    BY <2>1, <2>2
<1>17. RefusesWhenFull(l, longer)
  <2> SUFFICES ASSUME NEW k \in Keys, NEW n \in 1 .. Len(longer), longer[n].key = k, ~longer[n].ok
               PROVE Cardinality(PassedIn(longer, l, k, n, longer[n].at)) = TLimit[l]
    BY DEF RefusesWhenFull
  <2>1. n \in 1 .. Len(log)
    BY <1>3, <1>5
  <2>2. log[n].key = k /\ ~log[n].ok /\ longer[n].at = log[n].at
    BY <1>3, <2>1
  <2>3. Cardinality(PassedIn(log, l, k, n, log[n].at)) = TLimit[l]
    BY <2>1, <2>2 DEF LimiterHolds, RefusesWhenFull
  <2> QED
    BY <1>w, <1>4, <2>1, <2>2, <2>3
<1>18. LimiterTypes(l, now, after, longer)
  <2>1. \A k \in Keys : Len(after[k]) <= TLimit[l]
    <3>1. \A k \in Keys : Len(clients[k]) <= TLimit[l]
      BY <1>1 DEF LimiterTypes
    <3>2. Len(list) <= TLimit[l]
      BY <1>1, <1>7, <1>10
    <3> QED
      BY <1>9, <3>1, <3>2
  <2> QED
    BY <1>3, <1>9, <2>1 DEF LimiterTypes
<1> QED
  BY <1>15, <1>16, <1>17, <1>18 DEF LimiterHolds, longer, after, list, kept

\* What a limiter decides.
LEMMA DecideHolds ==
  ASSUME TIndInv, NEW l \in Limiters, NEW key \in Keys
  PROVE LimiterHolds(l, tNow, Decide(l, key).clients, Decide(l, key).answered)
<1> DEFINE e == [key |-> key, at |-> tNow, ok |-> Allows(l, key)]
<1>1. tNow \in Instants /\ LimiterHolds(l, tNow, tClients[l], tAnswered[l])
  BY DEF TIndInv
<1>2. Active(l, key) = Keep(tClients[l][key], Young(l, tNow))
  BY DEF Active, Young, Instants
<1>3. Allows(l, key) \in BOOLEAN
  BY DEF Allows
<1>4. e \in Answers /\ e.key = key /\ e.at = tNow /\ (e.ok <=> Allows(l, key))
  BY <1>1, <1>3, Zenon DEF Answers
<1>5. /\ Decide(l, key).answered = Append(tAnswered[l], e)
      /\ Decide(l, key).clients = IF Allows(l, key)
                                  THEN [tClients[l] EXCEPT ![key] = Append(Active(l, key), tNow)]
                                  ELSE tClients[l]
  BY DEF Decide
<1> HIDE DEF e
<1>6. CASE Allows(l, key)
  <2>1. Len(Keep(tClients[l][key], Young(l, tNow))) < TLimit[l]
    BY <1>2, <1>6 DEF Allows
  <2>2. LimiterHolds(l, tNow,
          [tClients[l] EXCEPT ![key] = Append(Keep(tClients[l][key], Young(l, tNow)), tNow)],
          Append(tAnswered[l], e))
    BY <1>1, <1>4, <1>6, <2>1, PassHolds
  <2> QED
    BY <1>2, <1>5, <1>6, <2>2
<1>7. CASE ~Allows(l, key)
  <2>1. ~(Len(Keep(tClients[l][key], Young(l, tNow))) < TLimit[l])
    BY <1>2, <1>7 DEF Allows
  <2>2. LimiterHolds(l, tNow, tClients[l], Append(tAnswered[l], e))
    BY <1>1, <1>4, <1>7, <2>1, RefuseHolds
  <2> QED
    BY <1>5, <1>7, <2>2
<1> QED
  BY <1>6, <1>7

\* The invariant of the limiters, at the start and at every step: the list each keeps of a
\* client has an instant for every request that still counts (http.Throttle, auth.AuthThrottle).
THEOREM ThrottleInvariance == TSpec => []TIndInv
<1>1. TInit => TIndInv
  <2> SUFFICES ASSUME TInit, NEW l \in Limiters
               PROVE tNow \in Instants /\ LimiterHolds(l, tNow, tClients[l], tAnswered[l])
    BY DEF TIndInv, TInit, Instants, Limiters
  <2>1. tNow = 0 /\ tClients[l] = [k \in Keys |-> <<>>] /\ tAnswered[l] = <<>>
    BY DEF TInit
  <2>2. TMaxTime \in Nat /\ TLimit[l] \in Nat
    BY LimitsAre
  <2> DEFINE clients == [k \in Keys |-> <<>>]
  <2>3. LimiterTypes(l, 0, clients, <<>>)
    BY <2>2 DEF LimiterTypes
  <2>4. \A k \in Keys : clients[k] = <<>>
    OBVIOUS
  <2> HIDE DEF clients
  <2>5. \A k, time : Since(<<>>, l, k, time) = {} /\ PassedIn(<<>>, l, k, Len(<<>>), time) = {}
    BY DEF Since, PassedIn
  <2>6. Cardinality({}) = 0 /\ Len(<<>>) = 0
    BY FS_EmptySet
  <2>7. CountsMatch(l, 0, clients, <<>>)
    BY <2>4, <2>5, <2>6, KeepEmpty DEF CountsMatch
  <2>8. WindowsHold(l, 0, <<>>) /\ RefusesWhenFull(l, <<>>)
    <3>1. WindowsHold(l, 0, <<>>)
      <4>1. 0 <= TLimit[l]
        BY <2>2
      <4> QED
        BY <2>5, <2>6, <4>1 DEF WindowsHold
    <3>2. 1 .. Len(<<>>) = {}
      BY <2>6
    <3> QED
      BY <3>1, <3>2 DEF RefusesWhenFull
  <2> QED
    BY <2>1, <2>2, <2>3, <2>7, <2>8 DEF LimiterHolds, Instants, clients
<1>2. TIndInv /\ [TNext]_tvars => TIndInv'
  <2> SUFFICES ASSUME TIndInv, [TNext]_tvars PROVE TIndInv'
    OBVIOUS
  <2>1. CASE TTick
    <3>1. tNow < TMaxTime /\ tNow' = tNow + 1 /\ tClients' = tClients /\ tAnswered' = tAnswered
      BY <2>1 DEF TTick
    <3>2. tNow + 1 \in Instants
      BY <3>1, ThrottleAssumption DEF TIndInv, Instants
    <3>3. \A l \in Limiters : LimiterHolds(l, tNow + 1, tClients[l], tAnswered[l])
      BY <3>1, TickHolds DEF TIndInv
    <3> QED
      BY <3>1, <3>2, <3>3 DEF TIndInv
  <2>2. ASSUME NEW ip \in TAddresses, NEW credential \in TCredentials, Request(ip, credential)
        PROVE TIndInv'
    <3> SUFFICES ASSUME NEW l \in Limiters
                 PROVE LimiterHolds(l, tNow, tClients'[l], tAnswered'[l])
      BY <2>2 DEF TIndInv, Request
    <3>1. Key(l, ip, credential) \in Keys
      BY DEF Keys
    <3>2. \/ /\ tClients'[l] = Decide(l, Key(l, ip, credential)).clients
             /\ tAnswered'[l] = Decide(l, Key(l, ip, credential)).answered
          \/ tClients'[l] = tClients[l] /\ tAnswered'[l] = tAnswered[l]
      BY <2>2 DEF Request
    <3> QED
      BY <3>1, <3>2, DecideHolds DEF TIndInv
  <2>3. CASE UNCHANGED tvars
    BY <2>3 DEF tvars, TIndInv
  <2>4. ASSUME NEW forwarded \in {<<>>} \cup {<<a, "proxy">> : a \in TAddresses}, NEW remote \in TAddresses
        PROVE ClientIP(forwarded, "", remote) \in TAddresses
    <3>1. CASE forwarded = <<>>
      BY <3>1 DEF ClientIP
    <3>2. CASE forwarded # <<>>
      <4>1. PICK a \in TAddresses : forwarded = <<a, "proxy">>
        BY <3>2
      <4> QED
        BY <3>2, <4>1 DEF ClientIP
    <3> QED
      BY <3>1, <3>2
  <2> QED
    BY <2>1, <2>2, <2>3, <2>4 DEF TNext
<1> QED
  BY <1>1, <1>2, PTL DEF TSpec

\* The clock and the lists of the limiters have their types, and no list is over the limit.
THEOREM ThrottleTypeCorrect == TSpec => []TTypeOK
<1>1. TIndInv => TTypeOK
  BY DEF TIndInv, LimiterHolds, LimiterTypes, TTypeOK, Instants
<1> QED
  BY <1>1, ThrottleInvariance, PTL

\* No window of a period has more requests than the limit, and a refusal means it was full.
THEOREM LimitsHold == TSpec => []WindowHoldsLimit
<1>1. TIndInv => WindowHoldsLimit
  <2> SUFFICES ASSUME TIndInv, NEW l \in Limiters, NEW k \in Keys
               PROVE /\ \A at \in 0 .. tNow : Cardinality(Passed(l, k, Len(tAnswered[l]), at)) <= TLimit[l]
                     /\ \A n \in DOMAIN tAnswered[l] :
                          tAnswered[l][n].key = k /\ ~tAnswered[l][n].ok =>
                            Cardinality(Passed(l, k, n, tAnswered[l][n].at)) = TLimit[l]
    BY DEF WindowHoldsLimit
  <2>1. \A upTo, at : Passed(l, k, upTo, at) = PassedIn(tAnswered[l], l, k, upTo, at)
    BY DEF Passed, PassedIn
  <2>2. LimiterHolds(l, tNow, tClients[l], tAnswered[l])
    BY DEF TIndInv
  <2>3. tAnswered[l] \in Seq(Answers)
    BY <2>2 DEF LimiterHolds, LimiterTypes
  <2>4. DOMAIN tAnswered[l] = 1 .. Len(tAnswered[l])
    BY <2>3
  <2> QED
    BY <2>1, <2>2, <2>4 DEF LimiterHolds, WindowsHold, RefusesWhenFull
<1> QED
  BY <1>1, ThrottleInvariance, PTL

-----------------------------------------------------------------------------
(* The batch *)

\* What the assumption says where it is used.
LEMMA BatchBasics ==
  /\ BLength \in Nat /\ NoMember \notin BMembers /\ "new" \notin BMembers /\ "done" \notin BMembers
  /\ \A m \in BMembers : m # NoMember /\ m # "new" /\ m # "done"
BY BatchAssumption DEF BatchAssumption

\* The first state of a batch.
LEMMA BatchBegins == BInit => BIndInv
BY BatchBasics
DEF BInit, BIndInv, BTypeOK, FirstErrorWins, CalledByTheOnce

\* Every step keeps the types and what the sync.Once and Handle have done.
LEMMA BatchGoesOn == BIndInv /\ [BNext]_bvars => BIndInv'
<1> SUFFICES ASSUME BTypeOK, FirstErrorWins, CalledByTheOnce, [BNext]_bvars PROVE BIndInv'
  BY DEF BIndInv
<1>0. /\ Append(<<>>, "onFail") = <<"onFail">> /\ Append(<<>>, "onSuccess") = <<"onSuccess">>
      /\ Append(bCalled, "onFail") \in Seq({"onFail", "onSuccess"})
      /\ Append(bCalled, "onSuccess") \in Seq({"onFail", "onSuccess"})
  BY DEF BTypeOK
<1>1. ASSUME NEW m \in BMembers, BStart(m) PROVE BIndInv'
  <2>1. BTypeOK'
    BY <1>1 DEF BStart, BTypeOK
  <2>2. FirstErrorWins'
    BY <1>1, BatchBasics DEF BStart, BTypeOK, FirstErrorWins
  <2>3. CalledByTheOnce'
    BY <1>1, BatchBasics DEF BStart, BTypeOK, FirstErrorWins, CalledByTheOnce
  <2> QED
    BY <2>1, <2>2, <2>3 DEF BIndInv
<1>2. ASSUME NEW m \in BMembers, ChainJob(m) PROVE BIndInv'
  <2>1. BTypeOK'
    BY <1>2, BatchBasics DEF ChainJob, BTypeOK
  <2>2. FirstErrorWins'
    BY <1>2, BatchBasics DEF ChainJob, BTypeOK, FirstErrorWins
  <2>3. CalledByTheOnce'
    BY <1>2, BatchBasics DEF ChainJob, BTypeOK, FirstErrorWins, CalledByTheOnce
  <2> QED
    BY <2>1, <2>2, <2>3 DEF BIndInv
<1>3. ASSUME NEW m \in BMembers, ChainEnd(m) PROVE BIndInv'
  <2>1. BTypeOK'
    BY <1>3 DEF ChainEnd, BTypeOK
  <2>2. FirstErrorWins'
    BY <1>3, BatchBasics DEF ChainEnd, BTypeOK, FirstErrorWins
  <2>3. CalledByTheOnce'
    BY <1>3, BatchBasics DEF ChainEnd, BTypeOK, FirstErrorWins, CalledByTheOnce
  <2> QED
    BY <2>1, <2>2, <2>3 DEF BIndInv
<1>4. ASSUME NEW m \in BMembers, OnceEnter(m) PROVE BIndInv'
  <2>1. BTypeOK'
    BY <1>4 DEF OnceEnter, BTypeOK
  <2>2. FirstErrorWins'
    BY <1>4, BatchBasics DEF OnceEnter, BTypeOK, FirstErrorWins
  <2>3. CalledByTheOnce'
    BY <1>4, BatchBasics DEF OnceEnter, BTypeOK, FirstErrorWins, CalledByTheOnce
  <2> QED
    BY <2>1, <2>2, <2>3 DEF BIndInv
<1>5. ASSUME NEW m \in BMembers, OnceLeave(m) PROVE BIndInv'
  <2>1. BTypeOK'
    BY <1>5 DEF OnceLeave, BTypeOK
  <2>2. FirstErrorWins'
    BY <1>5, BatchBasics DEF OnceLeave, BTypeOK, FirstErrorWins
  <2>3. CalledByTheOnce'
    <3>1. bHandle = "run" /\ bCalled = <<>>
      BY <1>5, BatchBasics DEF OnceLeave, FirstErrorWins, CalledByTheOnce
    <3>2. bHandle' = "run" /\ bCalled' = <<"onFail">> /\ bOnce' = "done"
      BY <1>0, <1>5, <3>1 DEF OnceLeave
    <3> QED
      BY <3>2 DEF CalledByTheOnce
  <2> QED
    BY <2>1, <2>2, <2>3 DEF BIndInv
<1>6. ASSUME NEW m \in BMembers, OncePass(m) PROVE BIndInv'
  <2>1. BTypeOK'
    BY <1>6 DEF OncePass, BTypeOK
  <2>2. FirstErrorWins'
    BY <1>6, BatchBasics DEF OncePass, BTypeOK, FirstErrorWins
  <2>3. CalledByTheOnce'
    BY <1>6, BatchBasics DEF OncePass, BTypeOK, FirstErrorWins, CalledByTheOnce
  <2> QED
    BY <2>1, <2>2, <2>3 DEF BIndInv
<1>7. CASE BReturn
  <2>1. BTypeOK'
    BY <1>0, <1>7 DEF BReturn, BTypeOK
  <2>2. FirstErrorWins'
    BY <1>7, BatchBasics DEF BReturn, BTypeOK, FirstErrorWins
  <2>3. CalledByTheOnce'
    <3>1. bOnce \notin BMembers
      BY <1>7, BatchBasics DEF BReturn, FirstErrorWins
    <3>2. CASE bFirstErr = NoMember
      <4>1. bOnce = "new" /\ bCalled = <<>>
        BY <1>7, <3>2 DEF BReturn, FirstErrorWins, CalledByTheOnce
      <4> QED
        BY <1>0, <1>7, <3>2, <4>1 DEF BReturn, CalledByTheOnce
    <3>3. CASE bFirstErr # NoMember
      <4>1. bOnce = "done" /\ bCalled = <<"onFail">>
        BY <1>7, <3>1, <3>3 DEF BReturn, BTypeOK, FirstErrorWins, CalledByTheOnce
      <4> QED
        BY <1>7, <3>3, <4>1 DEF BReturn, CalledByTheOnce
    <3> QED
      BY <3>2, <3>3
  <2> QED
    BY <2>1, <2>2, <2>3 DEF BIndInv
<1>8. CASE UNCHANGED bvars
  <2>1. BTypeOK'
    BY <1>8 DEF bvars, BTypeOK
  <2>2. FirstErrorWins'
    BY <1>8, BatchBasics DEF bvars, BTypeOK, FirstErrorWins
  <2>3. CalledByTheOnce'
    BY <1>8, BatchBasics DEF bvars, BTypeOK, FirstErrorWins, CalledByTheOnce
  <2> QED
    BY <2>1, <2>2, <2>3 DEF BIndInv
<1> QED
  BY <1>1, <1>2, <1>3, <1>4, <1>5, <1>6, <1>7, <1>8 DEF BNext

\* The state of a batch is as BIndInv has it, whichever members fail and when.
THEOREM BatchInvariance == BSpec => []BIndInv
BY BatchBegins, BatchGoesOn, PTL DEF BSpec

\* However many members fail at once, OnFail is called once and never with OnSuccess,
\* and Handle's answer is that of the chains.
THEOREM BatchReports == BSpec => []BatchReportsOnce
<1>1. BIndInv => BatchReportsOnce
  <2> SUFFICES ASSUME BTypeOK, FirstErrorWins, CalledByTheOnce PROVE BatchReportsOnce
    BY DEF BIndInv
  <2>1. Len(bCalled) <= 1
    <3>1. bCalled = <<>> \/ bCalled = <<"onFail">> \/ bCalled = <<"onSuccess">>
      BY DEF CalledByTheOnce, BTypeOK
    <3>2. CASE bCalled = <<>>
      BY <3>2
    <3>3. CASE bCalled = <<"onFail">>
      BY <3>3
    <3>4. CASE bCalled = <<"onSuccess">>
      BY <3>4
    <3> QED
      BY <3>1, <3>2, <3>3, <3>4
  <2>2. bFirstErr = NoMember \/ bFirstErr \in BMembers
    BY DEF BTypeOK
  <2>3. bHandle = "nil" => \A m \in BMembers : bStep[m] = BLength
    BY DEF FirstErrorWins, CalledByTheOnce
  <2>4. bHandle = "error" => \E m \in BMembers : bStep[m] # BLength
    BY <2>2, BatchBasics DEF FirstErrorWins, CalledByTheOnce, BTypeOK
  <2> QED
    BY <2>1, <2>3, <2>4 DEF BatchReportsOnce, CalledByTheOnce, BTypeOK
<1> QED
  BY <1>1, BatchInvariance, PTL

-----------------------------------------------------------------------------
(* The services side by side *)

\* The spec in which one service moves implements the spec of every service.
EachMeetsItsSpec == /\ RSpec /\ BSpec /\ CSpec /\ LSpec /\ ESpec /\ KSpec
                    /\ TSpec /\ SSpec /\ TxSpec /\ GSpec /\ HSpec /\ DSpec

\* A step of the composition is a step of each service, or leaves it alone.
LEMMA StepsOfOne ==
  ASSUME ServicesNext \/ UNCHANGED servicesVars
  PROVE  /\ RNext \/ UNCHANGED rvars
         /\ BNext \/ UNCHANGED bvars
         /\ CNext \/ UNCHANGED cvars
         /\ LNext \/ UNCHANGED lvars
         /\ ENext \/ UNCHANGED evars
         /\ KNext \/ UNCHANGED kvars
         /\ TNext \/ UNCHANGED tvars
         /\ SNext \/ UNCHANGED svars
         /\ TxNext \/ UNCHANGED txvars
         /\ GNext \/ UNCHANGED gvars
         /\ HNext \/ UNCHANGED hvars
         /\ DNext \/ UNCHANGED dvars
<1>1. CASE RedisStep
  BY <1>1 DEF RedisStep
<1>2. CASE BatchStep
  BY <1>2 DEF BatchStep
<1>3. CASE ContainerStep
  BY <1>3 DEF ContainerStep
<1>4. CASE ServerStep
  BY <1>4 DEF ServerStep
<1>5. CASE EventsStep
  BY <1>5 DEF EventsStep
<1>6. CASE CacheStep
  BY <1>6 DEF CacheStep
<1>7. CASE LimitsStep
  BY <1>7 DEF LimitsStep
<1>8. CASE BrowserStep
  BY <1>8 DEF BrowserStep
<1>9. CASE TxStep
  BY <1>9 DEF TxStep
<1>10. CASE MigratorStep
  BY <1>10 DEF MigratorStep
<1>11. CASE ReloadStep
  BY <1>11 DEF ReloadStep
<1>12. CASE DevStep
  BY <1>12 DEF DevStep
<1>13. CASE UNCHANGED servicesVars
  BY <1>13 DEF servicesVars
<1> QED
  BY <1>1, <1>2, <1>3, <1>4, <1>5, <1>6, <1>7, <1>8, <1>9, <1>10, <1>11, <1>12, <1>13 DEF ServicesNext

THEOREM ServicesImplementEach == ServicesSpec => EachMeetsItsSpec
<1>1. ServicesInit => /\ RInit /\ BInit /\ CInit /\ LInit /\ EInit /\ KInit
                      /\ TInit /\ SInit /\ TxInit /\ GInit /\ HInit /\ DInit
  BY DEF ServicesInit, AllBegin
<1>2. [ServicesNext]_servicesVars => [RNext]_rvars
  BY StepsOfOne
<1>3. [ServicesNext]_servicesVars => [BNext]_bvars
  BY StepsOfOne
<1>4. [ServicesNext]_servicesVars => [CNext]_cvars
  BY StepsOfOne
<1>5. [ServicesNext]_servicesVars => [LNext]_lvars
  BY StepsOfOne
<1>6. [ServicesNext]_servicesVars => [ENext]_evars
  BY StepsOfOne
<1>7. [ServicesNext]_servicesVars => [KNext]_kvars
  BY StepsOfOne
<1>8. [ServicesNext]_servicesVars => [TNext]_tvars
  BY StepsOfOne
<1>9. [ServicesNext]_servicesVars => [SNext]_svars
  BY StepsOfOne
<1>10. [ServicesNext]_servicesVars => [TxNext]_txvars
  BY StepsOfOne
<1>11. [ServicesNext]_servicesVars => [GNext]_gvars
  BY StepsOfOne
<1>12. [ServicesNext]_servicesVars => [HNext]_hvars
  BY StepsOfOne
<1>13. [ServicesNext]_servicesVars => [DNext]_dvars
  BY StepsOfOne
<1> QED
  BY <1>1, <1>2, <1>3, <1>4, <1>5, <1>6, <1>7,
     <1>8, <1>9, <1>10, <1>11, <1>12, <1>13, PTL
     DEF ServicesSpec, EachMeetsItsSpec, RSpec, BSpec, CSpec, LSpec, ESpec, KSpec, TSpec, SSpec, TxSpec, GSpec, HSpec, DSpec

\* The state of a service that others run beside is of the values its module names,
\* for any of the services' constants.
THEOREM ServicesTypeCorrect == ServicesSpec => []ServicesTypeOK
<1>1. BIndInv => BTypeOK
  BY DEF BIndInv
<1>2. BSpec => []BTypeOK
  BY <1>1, BatchInvariance, PTL
<1> QED
  BY <1>2, ServicesImplementEach, RedisTypeCorrect, ContainerTypeCorrect, LifecycleTypeCorrect,
     EventsTypeCorrect, CacheTypeCorrect, ThrottleTypeCorrect, SessionsTypeCorrect, TxTypeCorrect,
     MigratorTypeCorrect, HotReloadTypeCorrect, DevServerTypeCorrect, PTL
     DEF ServicesTypeOK, EachMeetsItsSpec

\* What each service promises alone it keeps beside the others: its invariant holds of
\* the composition, and the cache implements the map of its contract in it.
THEOREM ServicesKeepTheirPromises ==
  ServicesSpec => /\ [](RedisJobsAccountedFor /\ BatchReportsOnce /\ OneInstancePerBinding)
                  /\ [](LivesInOrder /\ ScreensFollowSaves /\ DispatchesItsSnapshot)
                  /\ [](WindowHoldsLimit /\ BrowserKeepsItsSession /\ OneObjectPerId)
                  /\ [](NestedAllOrNothing /\ SchemaMatchesVersions)
                  /\ ImplementsExpiringMap
<1>1. EachMeetsItsSpec => ScreensSpec
  BY DEF EachMeetsItsSpec, ScreensSpec
<1> QED
  BY <1>1, ServicesImplementEach, RedisLosesNothing, BatchReports, SingletonsAreSingle, LivesAreInOrder,
     SavesReachTheScreen, DispatchesAreOfTheirSnapshot, LimitsHold, BrowserIsRemembered,
     OneObjectForEveryId, TransactionsAreAllOrNothing, VersionsMatchTheSchema, CacheImplementsTheMap, PTL
     DEF EachMeetsItsSpec
=============================================================================
