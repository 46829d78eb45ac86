----------------------------- MODULE StoresProofs -----------------------------
(***************************************************************************)
(* What the application keeps.  The cache implements the expiring map that  *)
(* contract.CacheStore promises, over either store, for any keys, values,   *)
(* times to live and callers of Remember; nested transactions are all or    *)
(* nothing, for any depth; the migrator's versions match the schema, for    *)
(* any processes and failures; a browser finds the session its last Save    *)
(* left, as far as JSON keeps it; and a job of the Redis queue is somewhere *)
(* until it is settled, for any instances and interleaving of commands.     *)
(***************************************************************************)
EXTENDS Cache, Sessions, Transactions, Migrator, RedisQueue, SlicesProofs, FiniteSetTheorems

\* An item that ends does so later than the moment it is put.
LEMMA Moments ==
  ASSUME KTypeOK, NEW val \in KValues, NEW ttl \in KTTLs
  PROVE  LET until == IF ttl > 0 THEN kNow + ttl ELSE 0 IN
         /\ Stored(val) \in KStored /\ until \in KMoments
         /\ until \in Nat /\ (until > 0 => until > kNow)
<1>1. ttl \in Nat /\ kNow \in Nat /\ kNow \in 0 .. KMaxTime
  BY CacheAssumption DEF CacheAssumption, KTypeOK
<1>2. Stored(val) \in KStored
  BY DEF Stored, KStored
<1> QED
  BY <1>1, <1>2 DEF KMoments

\* The moments are numbers.
LEMMA MomentsAreNumbers == KMoments \subseteq Nat
<1>1. KTTLs \subseteq Nat
  BY CacheAssumption DEF CacheAssumption
<1>2. \A t \in 0 .. KMaxTime, ttl \in KTTLs : t + ttl \in Nat
  BY <1>1
<1> QED
  BY <1>2 DEF KMoments

\* What a Put does: a typed table, in which only this key has changed.
LEMMA PutItemIs ==
  ASSUME KTypeOK, NEW k \in KKeys, NEW val \in KValues, NEW ttl \in KTTLs
  PROVE  /\ PutItem(k, val, ttl) \in [KKeys -> [val : KStored \cup {NoItem.val}, until : KMoments]]
         /\ PutItem(k, val, ttl)[k].val \in KStored
         /\ PutItem(k, val, ttl)[k].until \in KMoments
         /\ ~Expired(PutItem(k, val, ttl)[k], kNow)
         /\ PutItem(k, val, ttl)[k] =
              [val |-> PutItem(k, val, ttl)[k].val, until |-> PutItem(k, val, ttl)[k].until]
         /\ \A j \in KKeys : j # k => PutItem(k, val, ttl)[j] = kItems[j]
<1> DEFINE until == IF ttl > 0 THEN kNow + ttl ELSE 0
           item == [val |-> Stored(val), until |-> until]
<1>1. /\ Stored(val) \in KStored /\ until \in KMoments
      /\ until \in Nat /\ (until > 0 => until > kNow) /\ kNow \in Nat
  BY Moments, CacheAssumption DEF KTypeOK, CacheAssumption
<1>2. PutItem(k, val, ttl) = [kItems EXCEPT ![k] = item]
  BY DEF PutItem
<1> HIDE DEF until
<1>3. item \in [val : KStored \cup {NoItem.val}, until : KMoments] /\ ~Expired(item, kNow)
  BY <1>1 DEF Expired
<1>4. kItems \in [KKeys -> [val : KStored \cup {NoItem.val}, until : KMoments]]
  BY DEF KTypeOK
<1> QED
  BY <1>1, <1>2, <1>3, <1>4

\* The cache's types, its callers' included.
LEMMA CacheTypes == KTypeOK /\ [KNext]_kvars => KTypeOK'
<1> SUFFICES ASSUME KTypeOK, [KNext]_kvars PROVE KTypeOK'
  OBVIOUS
<1>n. NoItem \in [val : KStored \cup {NoItem.val}, until : KMoments]
  BY DEF NoItem, KMoments
<1>k. /\ kItems \in [KKeys -> [val : KStored \cup {NoItem.val}, until : KMoments]]
      /\ kCaller \in [KCallers -> Computes \cup {KIdle}]
  BY DEF KTypeOK
<1>1. CASE UNCHANGED kvars
  BY <1>1 DEF kvars, KTypeOK
<1>2. ASSUME NEW k \in KKeys, Forget(k) PROVE KTypeOK'
  <2>1. kItems' \in [KKeys -> [val : KStored \cup {NoItem.val}, until : KMoments]]
    BY <1>2, <1>n, <1>k DEF Forget
  <2> QED
    BY <1>2, <2>1 DEF Forget, KTypeOK
<1>3. ASSUME NEW k \in KKeys, NEW val \in KValues, NEW ttl \in KTTLs, Put(k, val, ttl)
      PROVE KTypeOK'
  BY <1>3, PutItemIs DEF Put, KTypeOK
<1>4. ASSUME NEW k \in KKeys, NEW val \in KValues, NEW ttl \in KTTLs, NEW c \in KCallers,
             RememberGet(c, k, val, ttl)
      PROVE KTypeOK'
  <2>1. [at |-> "compute", key |-> k, val |-> val, ttl |-> ttl] \in Computes
    BY DEF Computes
  <2>2. kCaller' \in [KCallers -> Computes \cup {KIdle}]
    BY <1>4, <1>k, <2>1 DEF RememberGet
  <2> QED
    BY <1>4, <2>2 DEF RememberGet, KTypeOK
<1>5. CASE Flush
  BY <1>5, <1>n DEF Flush, KTypeOK
<1>6. CASE cleanup
  <2>1. kItems' \in [KKeys -> [val : KStored \cup {NoItem.val}, until : KMoments]]
    BY <1>6, <1>n, <1>k DEF cleanup
  <2> QED
    BY <1>6, <2>1 DEF cleanup, KTypeOK
<1>7. CASE ClockTick
  <2>1. kItems' \in [KKeys -> [val : KStored \cup {NoItem.val}, until : KMoments]]
    BY <1>7, <1>n, <1>k DEF ClockTick
  <2>2. kNow' \in 0 .. KMaxTime
    BY <1>7, CacheAssumption DEF ClockTick, KTypeOK, CacheAssumption
  <2> QED
    BY <1>7, <2>1, <2>2 DEF ClockTick, KTypeOK
<1>8. ASSUME NEW c \in KCallers, NEW ok \in BOOLEAN, RememberPut(c, ok) PROVE KTypeOK'
  <2>1. kCaller[c] \in Computes
    BY <1>8, <1>k DEF RememberPut
  <2>2. kCaller[c].key \in KKeys /\ kCaller[c].val \in KValues /\ kCaller[c].ttl \in KTTLs
    BY <2>1 DEF Computes
  <2>3. kItems' \in [KKeys -> [val : KStored \cup {NoItem.val}, until : KMoments]]
    BY <1>8, <1>k, <2>2, PutItemIs DEF RememberPut
  <2>4. kCaller' \in [KCallers -> Computes \cup {KIdle}]
    BY <1>8, <1>k DEF RememberPut
  <2> QED
    BY <1>8, <2>3, <2>4 DEF RememberPut, KTypeOK
<1> QED
  BY <1>1, <1>2, <1>3, <1>4, <1>5, <1>6, <1>7, <1>8 DEF KNext

-----------------------------------------------------------------------------
\* What Get can return, as the refinement has it.
Live == [k \in KKeys |-> IF Found(k) THEN kItems[k] ELSE NoItem]

\* A Put of the store is a Put of the map.
LEMMA PutIsPut ==
  ASSUME KTypeOK, NEW k \in KKeys, NEW val \in KValues, NEW ttl \in KTTLs,
         kItems' = PutItem(k, val, ttl), kNow' = kNow
  PROVE  Contract!XPut
<1>1. DEFINE item == kItems'[k]
<1>2. /\ item.val \in KStored /\ item.until \in KMoments /\ ~Expired(item, kNow)
      /\ item = [val |-> item.val, until |-> item.until]
      /\ \A j \in KKeys : j # k => kItems'[j] = kItems[j]
  BY PutItemIs
<1>3. Live'[k] = item
  BY <1>2 DEF Live, Found
<1>4. \A j \in KKeys : j # k => Live'[j] = Live[j]
  BY <1>2 DEF Live, Found
<1>5. Live' = [Live EXCEPT ![k] = [val |-> item.val, until |-> item.until]]
  <2>1. DOMAIN Live = KKeys /\ Live = [j \in KKeys |-> Live[j]] /\ Live' = [j \in KKeys |-> Live'[j]]
    BY DEF Live
  <2> QED
    BY <1>2, <1>3, <1>4, <2>1
<1> QED
  BY ZenonT(60), <1>2, <1>5 DEF Contract!XPut, Live

\* Nothing that Get can return is touched.
LEMMA SameIsStutter ==
  ASSUME \A k \in KKeys : Live'[k] = Live[k], kNow' = kNow
  PROVE  UNCHANGED <<Live, kNow>>
BY DEF Live

\* Every step of the cache is a step of the map, or changes nothing that Get can return.
LEMMA CacheRefines ==
  KTypeOK /\ [KNext]_kvars =>
    [Contract!XPut \/ Contract!XForget \/ Contract!XFlush \/ Contract!XTick]_<<Live, kNow>>
<1> SUFFICES ASSUME KTypeOK, [KNext]_kvars
             PROVE  \/ Contract!XPut \/ Contract!XForget \/ Contract!XFlush \/ Contract!XTick
                    \/ UNCHANGED <<Live, kNow>>
  OBVIOUS
<1>k. /\ kItems \in [KKeys -> [val : KStored \cup {NoItem.val}, until : KMoments]]
      /\ kCaller \in [KCallers -> Computes \cup {KIdle}] /\ kNow \in Nat
      /\ \A k \in KKeys : kItems[k].until \in Nat
  <2>1. kItems \in [KKeys -> [val : KStored \cup {NoItem.val}, until : KMoments]]
    BY DEF KTypeOK
  <2>2. \A k \in KKeys : kItems[k].until \in KMoments
    BY <2>1
  <2>3. kCaller \in [KCallers -> Computes \cup {KIdle}] /\ kNow \in Nat
    BY CacheAssumption DEF KTypeOK, CacheAssumption
  <2> QED
    BY <2>1, <2>2, <2>3, MomentsAreNumbers
<1>1. CASE UNCHANGED kvars
  BY <1>1 DEF kvars, Live, Found
<1>2. ASSUME NEW k \in KKeys, Forget(k) PROVE Contract!XForget
  <2>1. /\ kItems' = [kItems EXCEPT ![k] = NoItem] /\ kNow' = kNow
    BY <1>2 DEF Forget
  <2>2. Live' = [Live EXCEPT ![k] = NoItem]
    BY <1>k, <2>1 DEF Live, Found
  <2> QED
    BY <2>1, <2>2 DEF Contract!XForget, Contract!Missing, Live, NoItem
<1>3. ASSUME NEW k \in KKeys, NEW val \in KValues, NEW ttl \in KTTLs, Put(k, val, ttl)
      PROVE Contract!XPut
  BY <1>3, PutIsPut DEF Put
<1>4. ASSUME NEW k \in KKeys, NEW val \in KValues, NEW ttl \in KTTLs, NEW c \in KCallers,
             RememberGet(c, k, val, ttl)
      PROVE UNCHANGED <<Live, kNow>>
  BY <1>4 DEF RememberGet, Live, Found
<1>5. CASE Flush
  <2>1. Live' = [k \in KKeys |-> NoItem]
    BY <1>5 DEF Flush, Live, Found
  <2> QED
    BY <1>5, <2>1 DEF Flush, Contract!XFlush, Contract!Missing, Live, NoItem
<1>6. CASE cleanup
  <2>1. ASSUME NEW k \in KKeys PROVE Live'[k] = Live[k]
    <3>1. kItems'[k] = IF Expired(kItems[k], kNow) THEN NoItem ELSE kItems[k]
      BY <1>6 DEF cleanup
    <3> QED
      BY <1>6, <3>1 DEF cleanup, Live, Found
  <2> QED
    BY <1>6, <2>1, SameIsStutter DEF cleanup
<1>7. CASE ClockTick
  <2>1. kNow' = kNow + 1
    BY <1>7 DEF ClockTick
  <2>2. ASSUME NEW k \in KKeys
        PROVE Live'[k] = IF Contract!Lives(Live[k], kNow + 1) THEN Live[k] ELSE NoItem
    <3>1. kItems'[k] = IF kStore = "redis" /\ Expired(kItems[k], kNow + 1) THEN NoItem ELSE kItems[k]
      BY <1>7 DEF ClockTick
    <3>2. Live'[k] = IF kItems[k] # NoItem /\ ~Expired(kItems[k], kNow + 1) THEN kItems[k] ELSE NoItem
      BY <2>1, <3>1 DEF Live, Found
    <3>3. Expired(kItems[k], kNow) => Expired(kItems[k], kNow + 1)
      BY <1>k DEF Expired
    <3>4. kItems[k] # NoItem =>
            (Contract!Lives(kItems[k], kNow + 1) <=> ~Expired(kItems[k], kNow + 1))
      BY <1>k DEF Contract!Lives, Contract!Missing, Expired, NoItem
    <3>5. Contract!Lives(NoItem, kNow + 1)
      BY DEF Contract!Lives, Contract!Missing, NoItem
    <3>6. Live[k] = IF kItems[k] # NoItem /\ ~Expired(kItems[k], kNow) THEN kItems[k] ELSE NoItem
      BY DEF Live, Found
    <3> QED
      BY <3>2, <3>3, <3>4, <3>5, <3>6
  <2>3. Live' = [k \in KKeys |-> IF Contract!Lives(Live[k], kNow + 1) THEN Live[k] ELSE NoItem]
    <3>1. Live' = [k \in KKeys |-> Live'[k]]
      BY DEF Live
    <3> QED
      BY <2>2, <3>1
  <2> QED
    BY <2>1, <2>3 DEF Contract!XTick, Contract!Kept, Contract!Missing, Live, NoItem
<1>8. ASSUME NEW c \in KCallers, NEW ok \in BOOLEAN, RememberPut(c, ok)
      PROVE Contract!XPut \/ UNCHANGED <<Live, kNow>>
  <2>1. CASE ok
    <3>1. kCaller[c] \in Computes
      BY <1>8, <1>k DEF RememberPut
    <3>2. kCaller[c].key \in KKeys /\ kCaller[c].val \in KValues /\ kCaller[c].ttl \in KTTLs
      BY <3>1 DEF Computes
    <3> QED
      BY <1>8, <2>1, <3>2, PutIsPut DEF RememberPut
  <2>2. CASE ~ok
    BY <1>8, <2>2 DEF RememberPut, Live, Found
  <2> QED
    BY <2>1, <2>2
<1> QED
  BY <1>1, <1>2, <1>3, <1>4, <1>5, <1>6, <1>7, <1>8 DEF KNext

\* The cache's types hold, with what a caller of Remember has in its hands.
THEOREM CacheTypeCorrect == KSpec => []KTypeOK
<1>1. KInit => KTypeOK
  BY CacheAssumption DEF KInit, KTypeOK, CacheAssumption, NoItem, KMoments
<1> QED
  BY <1>1, CacheTypes, PTL DEF KSpec

\* Both stores implement the expiring map, whatever the cleanup goroutine has or has not
\* removed yet and whoever computes a value in Remember meanwhile.
THEOREM CacheImplementsTheMap == KSpec => ImplementsExpiringMap
<1>1. KInit => Contract!XInit
  BY DEF KInit, Contract!XInit, Contract!Missing, Found, NoItem
<1>2. KTypeOK /\ [KNext]_kvars =>
        [Contract!XPut \/ Contract!XForget \/ Contract!XFlush \/ Contract!XTick]_<<Live, kNow>>
  BY CacheRefines
<1> QED
  BY <1>1, <1>2, CacheTypeCorrect, PTL DEF KSpec, ImplementsExpiringMap, Contract!XSpec, Live

-----------------------------------------------------------------------------
\* Transactions.  Names that grow are those of a prefix, and of a sequence that got a fresh one.
TxCallsOf == [name : Nat, keep : SUBSET TxWrites]

LEMMA GrowPrefix ==
  ASSUME NEW s, NEW t, NEW top, Grow(s, top), Len(s) \in Nat, Len(t) \in Nat, Len(t) <= Len(s),
         \A i \in 1 .. Len(t) : t[i].name = s[i].name
  PROVE  Grow(t, top)
BY DEF Grow

LEMMA GrowAppend ==
  ASSUME NEW E, \A e \in E : e.name \in Nat, NEW s \in Seq(E), NEW top \in Nat, Grow(s, top),
         NEW x \in E, x.name = top + 1
  PROVE  Grow(Append(s, x), top + 1)
<1> DEFINE t == Append(s, x)
<1>1. /\ Len(t) = Len(s) + 1 /\ t[Len(s) + 1] = x /\ \A i \in 1 .. Len(s) : t[i] = s[i]
      /\ Len(s) \in Nat
  BY PushIs
<1>2. \A i \in 1 .. Len(s) : s[i].name \in Nat
  BY ElementOfSeq
<1> HIDE DEF t
<1>3. \A i \in 1 .. Len(t) : i \in 1 .. Len(s) \/ i = Len(s) + 1
  BY <1>1
<1>4. \A i \in 1 .. Len(t) : t[i].name <= top + 1
  BY <1>1, <1>2, <1>3 DEF Grow
<1>5. \A m, n \in 1 .. Len(t) : m < n => t[m].name < t[n].name
  <2> SUFFICES ASSUME NEW m \in 1 .. Len(t), NEW n \in 1 .. Len(t), m < n
               PROVE t[m].name < t[n].name
    OBVIOUS
  <2>1. m \in 1 .. Len(s)
    BY <1>1
  <2>2. CASE n \in 1 .. Len(s)
    BY <1>1, <2>1, <2>2 DEF Grow
  <2>3. CASE n = Len(s) + 1
    BY <1>1, <1>2, <2>1, <2>3 DEF Grow
  <2> QED
    BY <1>3, <2>2, <2>3
<1> QED
  BY <1>4, <1>5 DEF Grow, t

\* The statements around a call.
LEMMA AroundSame ==
  ASSUME NEW s, NEW t, NEW d, \A e \in 1 .. d - 1 : s[e].keep = t[e].keep
  PROVE  Around(s, d) = Around(t, d)
BY DEF Around

LEMMA AroundNext ==
  ASSUME NEW s, NEW d \in Nat, d >= 1
  PROVE  Around(s, d + 1) = Around(s, d) \cup s[d].keep
<1>1. 1 .. (d + 1) - 1 = (1 .. d - 1) \cup {d}
  OBVIOUS
<1> QED
  BY <1>1, Zenon DEF Around

LEMMA KeptIs == ASSUME TxTypeOK PROVE Kept = Around(txCalls, Len(txCalls) + 1)
<1>1. Len(txCalls) \in Nat /\ DOMAIN txCalls = 1 .. (Len(txCalls) + 1) - 1
  BY LenProperties DEF TxTypeOK
<1> QED
  BY <1>1, Zenon DEF Kept, Around

\* What the types say, one variable at a time.
LEMMA TxBasics ==
  ASSUME TxTypeOK
  PROVE  /\ txCalls \in Seq(TxCallsOf) /\ Len(txCalls) \in Nat /\ Len(txCalls) <= txCounter + 1
         /\ txCounter \in Nat /\ txCounter \in 0 .. TxNested /\ txRows \subseteq TxWrites
         /\ txOpen.savepoints \in Seq(Savepoints) /\ Len(txOpen.savepoints) \in Nat
         /\ txOpen.rows \subseteq TxWrites /\ txOpen.aborted \in BOOLEAN /\ txOpen.lost \in BOOLEAN
         /\ \A c \in TxCallsOf : c.name \in Nat /\ c.keep \subseteq TxWrites
         /\ \A p \in Savepoints : p.name \in Nat /\ p.rows \subseteq TxWrites
<1>1. txCalls \in Seq(TxCallsOf) /\ Len(txCalls) <= txCounter + 1 /\ txCounter \in 0 .. TxNested /\ txCounter \in Nat
  BY TxAssumption DEF TxTypeOK, TxCallsOf, TxAssumption
<1>2. /\ txOpen.savepoints \in Seq(Savepoints) /\ txOpen.rows \subseteq TxWrites
      /\ txOpen.aborted \in BOOLEAN /\ txOpen.lost \in BOOLEAN
  BY DEF TxTypeOK
<1>3. txRows \subseteq TxWrites
  BY DEF TxTypeOK
<1> QED
  BY <1>1, <1>2, <1>3, LenProperties DEF TxCallsOf, Savepoints

\* The database finds the savepoint of the call on top, and it holds the rows of those around it.
LEMMA SavepointIs ==
  ASSUME TxTypeOK, FreshNames, SavepointsHold, Nested, ~txOpen.lost
  PROVE  /\ Savepoint(Call.name) \in 1 .. Len(txOpen.savepoints)
         /\ txOpen.savepoints[Savepoint(Call.name)].name = Call.name
         /\ txOpen.savepoints[Savepoint(Call.name)].rows = Around(txCalls, Len(txCalls))
<1>1. txCalls # <<>> /\ Len(txCalls) \in 2 .. Len(txCalls) /\ Call = txCalls[Len(txCalls)]
  <2>1. txCalls # <<>>
    BY TxBasics DEF Nested
  <2> QED
    <3>1. txCalls \in Seq(TxCallsOf)
      BY TxBasics
    <3>2. Last(txCalls) = txCalls[Len(txCalls)]
      BY <2>1, <3>1, FrontIs
    <3> QED
      BY <2>1, <3>2, TxBasics DEF Nested, Call
<1>2. PICK n \in 1 .. Len(txOpen.savepoints) :
        /\ txOpen.savepoints[n].name = txCalls[Len(txCalls)].name
        /\ txOpen.savepoints[n].rows = Around(txCalls, Len(txCalls))
  BY <1>1 DEF SavepointsHold
<1>3. \A m \in 1 .. Len(txOpen.savepoints) :
        txOpen.savepoints[m].name \in Nat
  BY TxBasics, ElementOfSeq
<1>4. \A m \in 1 .. Len(txOpen.savepoints) : txOpen.savepoints[m].name = Call.name => m = n
  <2>1. /\ Len(txOpen.savepoints) \in Nat
        /\ \A m, k \in 1 .. Len(txOpen.savepoints) :
             m < k => txOpen.savepoints[m].name < txOpen.savepoints[k].name
    BY TxBasics DEF FreshNames, Grow
  <2>2. txOpen.savepoints[n].name = Call.name
    BY <1>1, <1>2
  <2> SUFFICES ASSUME NEW m \in 1 .. Len(txOpen.savepoints), txOpen.savepoints[m].name = Call.name
               PROVE  m = n
    OBVIOUS
  <2>3. ~(m < n)
    BY <1>3, <2>1, <2>2
  <2>4. ~(n < m)
    BY <1>3, <2>1, <2>2
  <2> QED
    BY <2>1, <2>3, <2>4
<1>5. DOMAIN txOpen.savepoints = 1 .. Len(txOpen.savepoints)
  BY TxBasics, LenProperties
<1>6. Savepoint(Call.name) = n
  BY <1>1, <1>2, <1>4, <1>5 DEF Savepoint
<1> QED
  BY <1>1, <1>2, <1>6

\* What a step other than BeginTx and the outermost end leaves: nothing is committed yet.
LEMMA StillOpen ==
  ASSUME TxIndInv, Inside, UNCHANGED <<txRows, txOutcome>>,
         Works' => txOpen'.rows = Kept'
  PROVE  EndsOnce' /\ NestedAllOrNothing'
BY DEF TxIndInv, EndsOnce, NestedAllOrNothing, Inside

\* BeginTx.
LEMMA BeginKeeps == ASSUME TxIndInv, Begin PROVE TxIndInv'
<1>1. /\ txCalls' = <<[name |-> 0, keep |-> {}]>> /\ txOpen' = Closed
      /\ UNCHANGED <<txAborts, txRows, txCounter, txTried, txOutcome>>
      /\ txRows = {} /\ txOutcome.result = "none" /\ ~Inside
  BY DEF Begin, TxIndInv, EndsOnce
<1>2. /\ Len(txCalls') = 1 /\ txCalls'[1].name = 0 /\ txCalls'[1].keep = {}
      /\ txCalls' \in Seq([name : Nat, keep : SUBSET TxWrites]) /\ txCalls' # <<>>
  BY <1>1
<1>3. txOpen'.savepoints = <<>> /\ txOpen'.rows = {} /\ Len(txOpen'.savepoints) = 0
  BY <1>1 DEF Closed
<1>4. TxTypeOK'
  BY <1>1, <1>2, TxBasics DEF TxIndInv, TxTypeOK, Closed
<1>5. FreshNames'
  BY <1>1, <1>2, <1>3, TxBasics DEF FreshNames, Grow, TxIndInv
<1>6. SavepointsHold'
  BY <1>2 DEF SavepointsHold
<1>7. Kept' = {}
  BY <1>2 DEF Kept
<1> QED
  BY <1>1, <1>2, <1>3, <1>4, <1>5, <1>6, <1>7
  DEF TxIndInv, EndsOnce, NestedAllOrNothing, Inside

\* A statement, that succeeds or is refused.
LEMMA StatementKeeps ==
  ASSUME TxIndInv, NEW w \in TxWrites, NEW ok \in BOOLEAN, Statement(w, ok)
  PROVE  TxIndInv'
<1> DEFINE n == Len(txCalls)
<1>b. TxTypeOK /\ FreshNames /\ SavepointsHold /\ txCalls \in Seq(TxCallsOf)
  BY TxBasics DEF TxIndInv
<1>0. /\ txCalls # <<>> /\ n \in 1 .. n /\ n \in Nat
      /\ UNCHANGED <<txAborts, txRows, txCounter, txOutcome>>
  BY <1>b, TxBasics, FrontIs DEF Statement, Inside
<1>1. CASE ~ok
  <2>1. txCalls' = txCalls /\ txOpen' = [txOpen EXCEPT !.aborted = txOpen.aborted \/ txAborts]
    BY <1>1 DEF Statement
  <2>t. txOpen \in [rows : SUBSET TxWrites, savepoints : Seq(Savepoints), aborted : BOOLEAN, lost : BOOLEAN]
    BY <1>b DEF TxTypeOK
  <2>2. txOpen'.rows = txOpen.rows /\ txOpen'.savepoints = txOpen.savepoints /\ txOpen'.lost = txOpen.lost
    BY <2>1, <2>t
  <2>3. (txOpen.aborted \/ txAborts) \in BOOLEAN /\ txOpen'.aborted = (txOpen.aborted \/ txAborts)
    BY <2>1, <2>t
  <2>4. TxTypeOK'
    BY <1>0, <1>b, <2>1, <2>3, <2>t DEF TxTypeOK
  <2>5. FreshNames' /\ SavepointsHold'
    BY <1>0, <1>b, <2>1, <2>2 DEF FreshNames, SavepointsHold
  <2>6. Works' => txOpen'.rows = Kept'
    BY <1>0, <2>1, <2>2, <2>3 DEF TxIndInv, NestedAllOrNothing, Inside, Works, Kept
  <2> QED
    BY <1>0, <2>4, <2>5, <2>6, StillOpen DEF TxIndInv, Inside
<1>2. CASE ok
  <2> DEFINE top == [txCalls[n] EXCEPT !.keep = txCalls[n].keep \cup {w}]
  <2>1. /\ txCalls' = [txCalls EXCEPT ![n] = top] /\ Works
        /\ txOpen' = [txOpen EXCEPT !.rows = txOpen.rows \cup {w}]
    BY <1>2 DEF Statement
  <2>t. txOpen \in [rows : SUBSET TxWrites, savepoints : Seq(Savepoints), aborted : BOOLEAN, lost : BOOLEAN]
    BY <1>b DEF TxTypeOK
  <2>2. /\ txOpen'.savepoints = txOpen.savepoints /\ txOpen'.lost = txOpen.lost
        /\ txOpen'.rows = txOpen.rows \cup {w}
    BY <2>1, <2>t
  <2>3. txCalls[n] \in TxCallsOf
    BY <1>0, <1>b, ElementOfSeq
  <2>4. top \in TxCallsOf /\ top.name = txCalls[n].name /\ top.keep = txCalls[n].keep \cup {w}
    BY <2>3 DEF TxCallsOf
  <2> HIDE DEF top
  <2>5. /\ txCalls' \in Seq(TxCallsOf) /\ Len(txCalls') = n
        /\ \A i \in 1 .. n : txCalls'[i] = IF i = n THEN top ELSE txCalls[i]
    BY <1>0, <1>b, <2>1, <2>4, TopIs
  <2>6. TxTypeOK'
    BY <1>0, <1>b, <2>1, <2>5, <2>t DEF TxTypeOK, TxCallsOf
  <2>7. FreshNames'
    <3>1. \A i \in 1 .. Len(txCalls') : txCalls'[i].name = txCalls[i].name
      BY <2>4, <2>5
    <3>2. Grow(txCalls', txCounter)
      BY <1>0, <1>b, <2>5, <3>1, GrowPrefix DEF FreshNames
    <3> QED
      BY <1>0, <1>b, <2>2, <3>2 DEF FreshNames
  <2>8. \A d \in 1 .. n : Around(txCalls', d) = Around(txCalls, d)
    <3> SUFFICES ASSUME NEW d \in 1 .. n PROVE Around(txCalls', d) = Around(txCalls, d)
      OBVIOUS
    <3>1. \A e \in 1 .. d - 1 : txCalls'[e].keep = txCalls[e].keep
      BY <1>0, <2>5
    <3> QED
      BY <3>1, AroundSame
  <2>9. SavepointsHold'
    <3> SUFFICES ASSUME ~txOpen.lost, NEW d \in 2 .. n
                 PROVE \E m \in 1 .. Len(txOpen.savepoints) :
                         /\ txOpen.savepoints[m].name = txCalls'[d].name
                         /\ txOpen.savepoints[m].rows = Around(txCalls', d)
      BY <2>2, <2>5 DEF SavepointsHold
    <3>1. txCalls'[d].name = txCalls[d].name /\ Around(txCalls', d) = Around(txCalls, d)
      BY <1>0, <2>4, <2>5, <2>8
    <3> QED
      BY <1>b, <3>1 DEF SavepointsHold
  <2>10. Kept' = Kept \cup {w}
    <3>1. Kept = Around(txCalls, n) \cup txCalls[n].keep
      BY <1>0, <1>b, KeptIs, AroundNext
    <3>2. DOMAIN txCalls' = 1 .. (n + 1) - 1
      BY <1>0, <2>5, LenProperties
    <3>3. Kept' = Around(txCalls', n + 1)
      BY <3>2, Zenon DEF Kept, Around
    <3>4. Kept' = Around(txCalls', n) \cup top.keep
      BY <1>0, <2>5, <3>3, AroundNext
    <3> QED
      BY <1>0, <2>4, <2>8, <3>1, <3>4
  <2>11. Works' => txOpen'.rows = Kept'
    BY <1>0, <2>1, <2>2, <2>10 DEF TxIndInv, NestedAllOrNothing, Inside
  <2> QED
    BY <1>0, <2>6, <2>7, <2>9, <2>11, StillOpen DEF TxIndInv, Inside
<1> QED
  BY <1>1, <1>2

\* SAVEPOINT.
LEMMA NestKeeps == ASSUME TxIndInv, Nest PROVE TxIndInv'
<1> DEFINE n == Len(txCalls)
           m == Len(txOpen.savepoints)
           call == [name |-> txCounter + 1, keep |-> {}]
           point == [name |-> txCounter + 1, rows |-> txOpen.rows]
<1>b. /\ TxTypeOK /\ FreshNames /\ SavepointsHold /\ txCalls \in Seq(TxCallsOf)
      /\ txOpen.savepoints \in Seq(Savepoints) /\ n \in Nat /\ m \in Nat /\ n <= txCounter + 1
      /\ txOpen \in [rows : SUBSET TxWrites, savepoints : Seq(Savepoints), aborted : BOOLEAN, lost : BOOLEAN]
  BY TxBasics DEF TxIndInv, TxTypeOK
<1>0. /\ txCalls # <<>> /\ txCounter' = txCounter + 1 /\ txCounter' \in 0 .. TxNested
      /\ UNCHANGED <<txAborts, txRows, txTried, txOutcome>> /\ txCounter \in Nat
  BY <1>b, TxBasics, TxAssumption DEF Nest, Inside, TxAssumption
<1>1. CASE ~Works
  <2>1. UNCHANGED <<txOpen, txCalls>>
    BY <1>1 DEF Nest
  <2>2. TxTypeOK'
    BY <1>0, <1>b, <2>1 DEF TxTypeOK
  <2>3. FreshNames'
    <3>1. \A d \in 1 .. n : txCalls[d].name \in Nat
      BY <1>b, TxBasics, ElementOfSeq
    <3>2. \A d \in 1 .. m : txOpen.savepoints[d].name \in Nat
      BY <1>b, TxBasics, ElementOfSeq
    <3> QED
      <4>1. Grow(txCalls, txCounter + 1)
        BY <1>0, <1>b, <3>1 DEF FreshNames, Grow
      <4>2. Grow(txOpen.savepoints, txCounter + 1)
        BY <1>0, <1>b, <3>2 DEF FreshNames, Grow
      <4> QED
        BY <1>0, <2>1, <4>1, <4>2 DEF FreshNames
  <2>4. SavepointsHold'
    BY <1>b, <2>1 DEF SavepointsHold
  <2>5. Works' => txOpen'.rows = Kept'
    BY <1>1, <2>1 DEF Works
  <2> QED
    BY <1>0, <2>2, <2>3, <2>4, <2>5, StillOpen DEF TxIndInv, Inside
<1>2. CASE Works
  <2>1. /\ txOpen' = [txOpen EXCEPT !.savepoints = Append(txOpen.savepoints, point)]
        /\ txCalls' = Append(txCalls, call)
    BY <1>0, <1>2 DEF Nest
  <2>2. call \in TxCallsOf /\ call.name = txCounter + 1 /\ call.keep = {}
    BY <1>0 DEF TxCallsOf
  <2>3. point \in Savepoints /\ point.name = txCounter + 1 /\ point.rows = txOpen.rows
    BY <1>0, <1>b, TxBasics DEF Savepoints
  <2> HIDE DEF call, point
  <2>4. /\ txCalls' \in Seq(TxCallsOf) /\ Len(txCalls') = n + 1 /\ txCalls'[n + 1] = call
        /\ \A i \in 1 .. n : txCalls'[i] = txCalls[i]
    BY <1>b, <2>1, <2>2, PushIs
  <2>5. txOpen'.savepoints = Append(txOpen.savepoints, point) /\ txOpen'.rows = txOpen.rows
    BY <1>b, <2>1
  <2>6. /\ txOpen'.savepoints \in Seq(Savepoints) /\ Len(txOpen'.savepoints) = m + 1
        /\ txOpen'.savepoints[m + 1] = point
        /\ \A i \in 1 .. m : txOpen'.savepoints[i] = txOpen.savepoints[i]
    BY <1>b, <2>3, <2>5, PushIs
  <2>7. TxTypeOK'
    <3>1. txOpen' \in [rows : SUBSET TxWrites, savepoints : Seq(Savepoints), aborted : BOOLEAN, lost : BOOLEAN]
      BY <1>b, <2>1, <2>5, <2>6
    <3> QED
      BY <1>0, <1>b, <2>4, <3>1 DEF TxTypeOK, TxCallsOf
  <2>8. FreshNames'
    <3>0. /\ Grow(txCalls, txCounter) /\ Grow(txOpen.savepoints, txCounter)
          /\ \A c \in TxCallsOf : c.name \in Nat
          /\ \A c \in Savepoints : c.name \in Nat
      BY <1>b, TxBasics DEF FreshNames
    <3>1. Grow(Append(txCalls, call), txCounter + 1)
      BY <1>0, <1>b, <2>2, <3>0, GrowAppend
    <3>2. Grow(Append(txOpen.savepoints, point), txCounter + 1)
      BY <1>0, <1>b, <2>3, <3>0, GrowAppend
    <3> QED
      BY <1>0, <2>1, <2>5, <3>1, <3>2 DEF FreshNames
  <2>9. \A d \in 1 .. n + 1 : Around(txCalls', d) = Around(txCalls, d)
    <3> SUFFICES ASSUME NEW d \in 1 .. n + 1 PROVE Around(txCalls', d) = Around(txCalls, d)
      OBVIOUS
    <3>1. \A e \in 1 .. d - 1 : txCalls'[e].keep = txCalls[e].keep
      BY <1>b, <2>4
    <3> QED
      BY <3>1, AroundSame
  <2>10. txOpen.rows = Around(txCalls, n + 1) /\ ~txOpen.lost
    BY <1>0, <1>2, <1>b, KeptIs DEF TxIndInv, NestedAllOrNothing, Inside, Works
  <2>11. SavepointsHold'
    <3> SUFFICES ASSUME NEW d \in 2 .. n + 1
                 PROVE \E i \in 1 .. m + 1 :
                         /\ txOpen'.savepoints[i].name = txCalls'[d].name
                         /\ txOpen'.savepoints[i].rows = Around(txCalls', d)
      BY <2>4, <2>6 DEF SavepointsHold
    <3>1. CASE d = n + 1
      <4>1. Around(txCalls', d) = txOpen.rows
        BY <1>b, <2>9, <2>10, <3>1
      <4>2. m + 1 \in 1 .. m + 1
        BY <1>b
      <4>3. txOpen'.savepoints[m + 1].name = txCalls'[d].name /\ txOpen'.savepoints[m + 1].rows = txOpen.rows
        BY <2>2, <2>3, <2>4, <2>6, <3>1
      <4> QED
        BY <4>1, <4>2, <4>3
    <3>2. CASE d \in 2 .. n
      <4>1. PICK i \in 1 .. m : /\ txOpen.savepoints[i].name = txCalls[d].name
                                /\ txOpen.savepoints[i].rows = Around(txCalls, d)
        BY <1>b, <2>10, <3>2 DEF SavepointsHold
      <4>2. i \in 1 .. m + 1 /\ txOpen'.savepoints[i] = txOpen.savepoints[i]
        BY <1>b, <2>6
      <4>3. txCalls'[d] = txCalls[d] /\ Around(txCalls', d) = Around(txCalls, d)
        BY <1>b, <2>4, <2>9, <3>2
      <4> QED
        BY <4>1, <4>2, <4>3
    <3> QED
      BY <1>b, <3>1, <3>2
  <2>12. Kept' = Around(txCalls', n + 1)
    <3>1. DOMAIN txCalls' = 1 .. (n + 2) - 1
      BY <1>b, <2>4, LenProperties
    <3>2. Kept' = Around(txCalls', n + 2)
      BY <3>1, Zenon DEF Kept, Around
    <3>3. n + 1 \in Nat /\ n + 1 >= 1 /\ (n + 1) + 1 = n + 2
      BY <1>b
    <3>4. Around(txCalls', n + 2) = Around(txCalls', n + 1) \cup txCalls'[n + 1].keep
      BY <3>3, AroundNext
    <3> QED
      BY <2>2, <2>4, <3>2, <3>4
  <2>13. Works' => txOpen'.rows = Kept'
    BY <1>b, <2>5, <2>9, <2>10, <2>12
  <2> QED
    BY <1>0, <2>7, <2>8, <2>11, <2>13, StillOpen DEF TxIndInv, Inside
<1> QED
  BY <1>1, <1>2

\* What a nested call leaves when it ends: the calls around it, its own result apart.
LEMMA NestedEnds ==
  ASSUME TxIndInv, Nested
  PROVE  LET n == Len(txCalls) IN
         /\ n \in Nat /\ n > 1 /\ txCalls # <<>> /\ Front(txCalls) # <<>>
         /\ Front(txCalls) \in Seq(TxCallsOf) /\ Len(Front(txCalls)) = n - 1
         /\ \A i \in 1 .. n - 1 : Front(txCalls)[i] = txCalls[i]
         /\ Call = txCalls[n] /\ Call \in TxCallsOf
<1>1. txCalls \in Seq(TxCallsOf) /\ Len(txCalls) \in Nat /\ Len(txCalls) > 1
  BY TxBasics DEF TxIndInv, Nested
<1>2. txCalls # <<>>
  BY <1>1
<1>3. /\ Front(txCalls) \in Seq(TxCallsOf) /\ Len(Front(txCalls)) = Len(txCalls) - 1
      /\ \A i \in 1 .. Len(txCalls) - 1 : Front(txCalls)[i] = txCalls[i]
      /\ Last(txCalls) = txCalls[Len(txCalls)] /\ Last(txCalls) \in TxCallsOf
  BY <1>1, <1>2, FrontIs
<1>4. Front(txCalls) # <<>>
  BY <1>1, <1>3
<1> QED
  BY <1>1, <1>2, <1>3, <1>4 DEF Call

\* The savepoints below an index are those of the calls around the one it belongs to.
LEMMA SavepointsBelow ==
  ASSUME TxIndInv, Nested, ~txOpen.lost,
         NEW d \in 2 .. Len(txCalls) - 1
  PROVE  \E i \in 1 .. Savepoint(Call.name) - 1 :
           /\ txOpen.savepoints[i].name = txCalls[d].name
           /\ txOpen.savepoints[i].rows = Around(txCalls, d)
<1> DEFINE n == Len(txCalls)
           p == Savepoint(Call.name)
<1>1. /\ p \in 1 .. Len(txOpen.savepoints) /\ txOpen.savepoints[p].name = txCalls[n].name
      /\ n \in Nat /\ n > 1 /\ Len(txOpen.savepoints) \in Nat
  BY SavepointIs, NestedEnds, TxBasics DEF TxIndInv
<1> HIDE DEF p
<1>2. PICK i \in 1 .. Len(txOpen.savepoints) :
        /\ txOpen.savepoints[i].name = txCalls[d].name
        /\ txOpen.savepoints[i].rows = Around(txCalls, d)
  BY <1>1 DEF TxIndInv, SavepointsHold
<1>3. txCalls[d].name < txCalls[n].name
  BY <1>1 DEF TxIndInv, FreshNames, Grow
<1>4. txCalls[d].name \in Nat /\ txCalls[n].name \in Nat
  <2>1. txCalls[d] \in TxCallsOf /\ txCalls[n] \in TxCallsOf
    BY <1>1, TxBasics, ElementOfSeq DEF TxIndInv
  <2> QED
    BY <2>1 DEF TxCallsOf
<1>5. p < i => txOpen.savepoints[p].name < txOpen.savepoints[i].name
  BY <1>1 DEF TxIndInv, FreshNames, Grow
<1>6. i < p
  BY <1>1, <1>2, <1>3, <1>4, <1>5
<1> QED
  BY <1>1, <1>2, <1>6 DEF p

\* A nested call ends: the savepoints of the calls around it are still there.
LEMMA PopHolds ==
  ASSUME TxIndInv, Nested, Len(txCalls') = Len(txCalls) - 1, txCounter' = txCounter,
         \A i \in 1 .. Len(txCalls) - 2 : txCalls'[i] = txCalls[i],
         txCalls'[Len(txCalls) - 1].name = txCalls[Len(txCalls) - 1].name,
         txOpen'.lost = txOpen.lost, Len(txOpen'.savepoints) \in Nat,
         Len(txOpen'.savepoints) <= Len(txOpen.savepoints),
         ~txOpen.lost => Savepoint(Call.name) - 1 <= Len(txOpen'.savepoints),
         \A i \in 1 .. Len(txOpen'.savepoints) : txOpen'.savepoints[i] = txOpen.savepoints[i]
  PROVE  /\ FreshNames' /\ SavepointsHold'
         /\ Around(txCalls', Len(txCalls) - 1) = Around(txCalls, Len(txCalls) - 1)
<1> DEFINE n == Len(txCalls)
           p == Savepoint(Call.name)
<1>1. n \in Nat /\ n > 1 /\ Len(txOpen.savepoints) \in Nat /\ FreshNames
  BY NestedEnds, TxBasics DEF TxIndInv
<1>2. \A i \in 1 .. n - 1 : txCalls'[i].name = txCalls[i].name
  <2> SUFFICES ASSUME NEW i \in 1 .. n - 1 PROVE txCalls'[i].name = txCalls[i].name
    OBVIOUS
  <2>1. i \in 1 .. n - 2 \/ i = n - 1
    BY <1>1
  <2>2. CASE i \in 1 .. n - 2
    BY <2>2, Zenon
  <2>3. CASE i = n - 1
    BY <2>3, Zenon
  <2> QED
    BY <2>1, <2>2, <2>3
<1>3. Grow(txCalls', txCounter)
  <2>1. /\ Len(txCalls') \in Nat /\ Len(txCalls') <= Len(txCalls)
        /\ \A i \in 1 .. Len(txCalls') : txCalls'[i].name = txCalls[i].name
    BY <1>1, <1>2
  <2>2. Grow(txCalls, txCounter) /\ Len(txCalls) \in Nat
    BY <1>1 DEF FreshNames
  <2> QED
    BY <2>1, <2>2, GrowPrefix
<1>4. Grow(txOpen'.savepoints, txCounter)
  BY <1>1, GrowPrefix DEF FreshNames
<1>5. \A d \in 1 .. n - 1 : Around(txCalls', d) = Around(txCalls, d)
  <2> SUFFICES ASSUME NEW d \in 1 .. n - 1 PROVE Around(txCalls', d) = Around(txCalls, d)
    OBVIOUS
  <2>1. \A e \in 1 .. d - 1 : txCalls'[e].keep = txCalls[e].keep
    <3>1. \A e \in 1 .. d - 1 : e \in 1 .. n - 2
      BY <1>1
    <3> QED
      BY <3>1, Zenon
  <2> QED
    BY <2>1, AroundSame
<1>6. SavepointsHold'
  <2> SUFFICES ASSUME ~txOpen.lost, NEW d \in 2 .. n - 1
               PROVE \E i \in 1 .. Len(txOpen'.savepoints) :
                       /\ txOpen'.savepoints[i].name = txCalls'[d].name
                       /\ txOpen'.savepoints[i].rows = Around(txCalls', d)
    BY DEF SavepointsHold
  <2>1. PICK i \in 1 .. p - 1 : /\ txOpen.savepoints[i].name = txCalls[d].name
                                /\ txOpen.savepoints[i].rows = Around(txCalls, d)
    BY SavepointsBelow
  <2>2. p \in 1 .. Len(txOpen.savepoints)
    BY SavepointIs DEF TxIndInv
  <2>q. p - 1 <= Len(txOpen'.savepoints)
    OBVIOUS
  <2> HIDE DEF p
  <2>3. i \in 1 .. Len(txOpen'.savepoints)
    BY <1>1, <2>1, <2>2, <2>q
  <2>4. txCalls'[d].name = txCalls[d].name /\ Around(txCalls', d) = Around(txCalls, d)
    <3>1. d \in 1 .. n - 1
      BY <1>1
    <3> QED
      BY <1>2, <1>5, <3>1
  <2> QED
    BY <2>1, <2>3, <2>4
<1>7. n - 1 \in 1 .. n - 1
  BY <1>1
<1> QED
  BY <1>1, <1>3, <1>4, <1>5, <1>6, <1>7 DEF FreshNames

\* RELEASE of the savepoint of a nested call.
LEMMA ReleaseKeeps == ASSUME TxIndInv, Release PROVE TxIndInv'
<1> DEFINE n == Len(txCalls)
           outer == Front(txCalls)
           sps == txOpen.savepoints
<1>b. /\ TxTypeOK /\ txCalls \in Seq(TxCallsOf) /\ sps \in Seq(Savepoints) /\ Len(sps) \in Nat
      /\ txOpen \in [rows : SUBSET TxWrites, savepoints : Seq(Savepoints), aborted : BOOLEAN, lost : BOOLEAN]
      /\ txCounter \in 0 .. TxNested /\ txCounter \in Nat /\ n <= txCounter + 1
  BY TxBasics DEF TxIndInv, TxTypeOK
<1>0. /\ Nested /\ UNCHANGED <<txAborts, txRows, txCounter, txTried, txOutcome>> /\ Inside
  BY <1>b DEF Release, Nested, Inside
<1>f. /\ n \in Nat /\ n > 1 /\ outer # <<>> /\ outer \in Seq(TxCallsOf) /\ Len(outer) = n - 1
      /\ \A i \in 1 .. n - 1 : outer[i] = txCalls[i]
      /\ Call = txCalls[n] /\ Call \in TxCallsOf
  BY <1>0, NestedEnds
<1> HIDE DEF outer
<1>1. CASE ~Works
  <2>1. txOpen' = txOpen /\ txCalls' = outer
    BY <1>1 DEF Release, outer
  <2>2. TxTypeOK'
    BY <1>0, <1>b, <1>f, <2>1 DEF TxTypeOK, TxCallsOf
  <2>3. ~txOpen.lost => Savepoint(Call.name) - 1 <= Len(sps)
    BY <1>0, <1>b, SavepointIs DEF TxIndInv
  <2>4. FreshNames' /\ SavepointsHold'
    BY <1>0, <1>b, <1>f, <2>1, <2>3, PopHolds
  <2>5. ~Works'
    BY <1>1, <2>1 DEF Works
  <2>6. Inside'
    BY <1>f, <2>1 DEF Inside
  <2> QED
    BY <1>0, <2>2, <2>4, <2>5, StillOpen DEF TxIndInv
<1>2. CASE Works
  <2> DEFINE p == Savepoint(Call.name)
             top == [outer[n - 1] EXCEPT !.keep = outer[n - 1].keep \cup Call.keep]
  <2>1. /\ txOpen' = [txOpen EXCEPT !.savepoints = SubSeq(sps, 1, p - 1)]
        /\ txCalls' = [outer EXCEPT ![n - 1] = top]
    BY <1>2, <1>f DEF Release, outer
  <2>2. p \in 1 .. Len(sps) /\ ~txOpen.lost
    BY <1>0, <1>2, SavepointIs DEF Works, TxIndInv
  <2> HIDE DEF p
  <2>3. outer[n - 1] \in TxCallsOf
    BY <1>f, ElementOfSeq
  <2>4. top \in TxCallsOf /\ top.name = outer[n - 1].name /\ top.keep = outer[n - 1].keep \cup Call.keep
    BY <1>f, <2>3 DEF TxCallsOf
  <2> HIDE DEF top
  <2>5. txCalls' = [outer EXCEPT ![Len(outer)] = top]
    BY <1>f, <2>1
  <2>6. /\ txCalls' \in Seq(TxCallsOf) /\ Len(txCalls') = Len(outer)
        /\ \A i \in 1 .. Len(outer) : txCalls'[i] = IF i = Len(outer) THEN top ELSE outer[i]
    BY <1>f, <2>4, <2>5, TopIs
  <2>7. /\ Len(txCalls') = n - 1 /\ txCalls'[n - 1] = top /\ txCalls'[n - 1].name = txCalls[n - 1].name
        /\ \A i \in 1 .. n - 2 : txCalls'[i] = txCalls[i]
    BY <1>f, <2>4, <2>6
  <2>8. /\ txOpen'.savepoints = SubSeq(sps, 1, p - 1) /\ txOpen'.rows = txOpen.rows
        /\ txOpen'.lost = txOpen.lost
    BY <1>b, <2>1
  <2>9. /\ SubSeq(sps, 1, p - 1) \in Seq(Savepoints) /\ Len(SubSeq(sps, 1, p - 1)) = p - 1
        /\ \A i \in 1 .. p - 1 : SubSeq(sps, 1, p - 1)[i] = sps[i]
    BY <1>b, <2>2
  <2>10. TxTypeOK'
    <3>1. txOpen' \in [rows : SUBSET TxWrites, savepoints : Seq(Savepoints), aborted : BOOLEAN, lost : BOOLEAN]
      BY <1>b, <2>1, <2>9
    <3>2. Len(txCalls') <= txCounter + 1
      BY <1>b, <1>f, <2>7
    <3> QED
      BY <1>0, <1>b, <2>6, <3>1, <3>2 DEF TxTypeOK, TxCallsOf
  <2>11. /\ FreshNames' /\ SavepointsHold'
         /\ Around(txCalls', n - 1) = Around(txCalls, n - 1)
    <3>1. /\ Len(txOpen'.savepoints) = p - 1 /\ p - 1 \in Nat /\ p - 1 <= Len(sps)
          /\ \A i \in 1 .. Len(txOpen'.savepoints) : txOpen'.savepoints[i] = sps[i]
      BY <1>b, <2>2, <2>8, <2>9
    <3> QED
      BY <1>0, <1>b, <1>f, <2>7, <2>8, <3>1, PopHolds DEF p
  <2>12. Works' => txOpen'.rows = Kept'
    <3>1. txOpen.rows = Kept
      BY <1>0, <1>2 DEF TxIndInv, NestedAllOrNothing
    <3>2. Kept = Around(txCalls, n) \cup txCalls[n].keep
      BY <1>b, <1>f, KeptIs, AroundNext
    <3>3. n - 1 \in Nat /\ n - 1 >= 1 /\ (n - 1) + 1 = n
      BY <1>f
    <3>4. Around(txCalls, n) = Around(txCalls, n - 1) \cup txCalls[n - 1].keep
      BY <3>3, AroundNext
    <3>5. Around(txCalls', n) = Around(txCalls', n - 1) \cup txCalls'[n - 1].keep
      BY <3>3, AroundNext
    <3>6. DOMAIN txCalls' = 1 .. n - 1
      BY <1>f, <2>6, <2>7, LenProperties
    <3>7. Kept' = Around(txCalls', n)
      BY <3>6, Zenon DEF Kept, Around
    <3>8. outer[n - 1] = txCalls[n - 1]
      BY <1>f
    <3> QED
      BY <1>f, <2>4, <2>7, <2>8, <2>11, <3>1, <3>2, <3>4, <3>5, <3>7, <3>8
  <2> QED
    BY <1>0, <2>10, <2>11, <2>12, StillOpen DEF TxIndInv
<1> QED
  BY <1>1, <1>2

\* ROLLBACK TO the savepoint of a nested call.
LEMMA RollbackToKeeps == ASSUME TxIndInv, RollbackTo PROVE TxIndInv'
<1> DEFINE n == Len(txCalls)
           outer == Front(txCalls)
           sps == txOpen.savepoints
           p == Savepoint(Call.name)
<1>b. /\ TxTypeOK /\ txCalls \in Seq(TxCallsOf) /\ sps \in Seq(Savepoints) /\ Len(sps) \in Nat
      /\ txOpen \in [rows : SUBSET TxWrites, savepoints : Seq(Savepoints), aborted : BOOLEAN, lost : BOOLEAN]
      /\ txCounter \in 0 .. TxNested /\ txCounter \in Nat /\ n <= txCounter + 1
  BY TxBasics DEF TxIndInv, TxTypeOK
<1>0. /\ Nested /\ UNCHANGED <<txAborts, txRows, txCounter, txTried, txOutcome>> /\ Inside
  BY <1>b DEF RollbackTo, Nested, Inside
<1>f. /\ n \in Nat /\ n > 1 /\ outer # <<>> /\ outer \in Seq(TxCallsOf) /\ Len(outer) = n - 1
      /\ \A i \in 1 .. n - 1 : outer[i] = txCalls[i]
      /\ txCalls' = outer
  BY <1>0, NestedEnds DEF RollbackTo
<1> HIDE DEF outer, p
<1>g. /\ Len(txCalls') = Len(txCalls) - 1 /\ txCounter' = txCounter
      /\ \A i \in 1 .. Len(txCalls) - 2 : txCalls'[i] = txCalls[i]
      /\ txCalls'[Len(txCalls) - 1].name = txCalls[Len(txCalls) - 1].name
  <2>1. n - 1 \in 1 .. n - 1 /\ \A i \in 1 .. n - 2 : i \in 1 .. n - 1
    BY <1>f
  <2> QED
    BY <1>0, <1>f, <2>1
<1>1. CASE txOpen.lost
  <2>1. txOpen' = txOpen
    BY <1>1 DEF RollbackTo
  <2>2. TxTypeOK'
    BY <1>0, <1>b, <1>f, <2>1 DEF TxTypeOK, TxCallsOf
  <2>3. FreshNames' /\ SavepointsHold'
    <3>1. /\ txOpen'.lost = txOpen.lost /\ Len(txOpen'.savepoints) \in Nat
          /\ Len(txOpen'.savepoints) <= Len(txOpen.savepoints)
          /\ \A i \in 1 .. Len(txOpen'.savepoints) : txOpen'.savepoints[i] = txOpen.savepoints[i]
      BY <1>b, <2>1
    <3> QED
      BY <1>0, <1>1, <1>g, <3>1, PopHolds
  <2>4. ~Works'
    BY <1>1, <2>1 DEF Works
  <2> QED
    BY <1>0, <2>2, <2>3, <2>4, StillOpen DEF TxIndInv
<1>2. CASE ~txOpen.lost
  <2>1. txOpen' = [txOpen EXCEPT !.rows = sps[p].rows, !.aborted = FALSE, !.savepoints = SubSeq(sps, 1, p)]
    BY <1>2 DEF RollbackTo, p
  <2>2. p \in 1 .. Len(sps) /\ sps[p].rows = Around(txCalls, n)
    BY <1>0, <1>2, SavepointIs DEF TxIndInv, p
  <2>3. /\ SubSeq(sps, 1, p) \in Seq(Savepoints) /\ Len(SubSeq(sps, 1, p)) = p
        /\ \A i \in 1 .. p : SubSeq(sps, 1, p)[i] = sps[i]
    BY <1>b, <2>2
  <2>4. /\ txOpen'.savepoints = SubSeq(sps, 1, p) /\ txOpen'.rows = Around(txCalls, n)
        /\ txOpen'.lost = txOpen.lost
    BY <1>b, <2>1, <2>2
  <2>5. TxTypeOK'
    <3>1. sps[p] \in Savepoints
      BY <1>b, <2>2, ElementOfSeq
    <3>2. sps[p].rows \subseteq TxWrites
      BY <3>1 DEF Savepoints
    <3>3. txOpen' \in [rows : SUBSET TxWrites, savepoints : Seq(Savepoints), aborted : BOOLEAN, lost : BOOLEAN]
      BY <1>b, <2>1, <2>3, <3>2
    <3>4. Len(txCalls') <= txCounter + 1
      BY <1>b, <1>f
    <3> QED
      BY <1>0, <1>b, <1>f, <3>3, <3>4 DEF TxTypeOK, TxCallsOf
  <2>6. FreshNames' /\ SavepointsHold'
    <3>1. /\ Len(txOpen'.savepoints) = p /\ p \in Nat /\ p <= Len(sps) /\ p - 1 <= p
          /\ \A i \in 1 .. Len(txOpen'.savepoints) : txOpen'.savepoints[i] = sps[i]
      BY <1>b, <2>2, <2>3, <2>4
    <3> QED
      BY <1>0, <1>b, <1>g, <2>4, <3>1, PopHolds DEF p
  <2>7. Works' => txOpen'.rows = Kept'
    <3>1. DOMAIN outer = 1 .. n - 1
      BY <1>f, LenProperties
    <3>2. Kept' = Around(outer, n)
      BY <1>f, <3>1, Zenon DEF Kept, Around
    <3>3. Around(outer, n) = Around(txCalls, n)
      BY <1>f, AroundSame
    <3> QED
      BY <2>4, <3>2, <3>3
  <2> QED
    BY <1>0, <2>5, <2>6, <2>7, StillOpen DEF TxIndInv
<1> QED
  BY <1>1, <1>2

\* The connection is lost.
LEMMA LoseKeeps == ASSUME TxIndInv, Lose PROVE TxIndInv'
<1>1. /\ Inside /\ UNCHANGED <<txAborts, txRows, txCalls, txCounter, txTried, txOutcome>>
      /\ txOpen' = [Closed EXCEPT !.lost = TRUE]
  BY DEF Lose
<1>2. /\ txOpen' \in [rows : SUBSET TxWrites, savepoints : Seq(Savepoints), aborted : BOOLEAN, lost : BOOLEAN]
      /\ txOpen'.lost /\ txOpen'.savepoints = <<>> /\ Len(txOpen'.savepoints) = 0
  <2>1. txOpen' = [rows |-> {}, savepoints |-> <<>>, aborted |-> FALSE, lost |-> TRUE]
    BY <1>1 DEF Closed
  <2> QED
    BY <2>1
<1>3. TxTypeOK'
  BY <1>1, <1>2 DEF TxIndInv, TxTypeOK
<1>4. FreshNames' /\ SavepointsHold'
  BY <1>1, <1>2 DEF TxIndInv, FreshNames, Grow, SavepointsHold
<1>5. ~Works'
  BY <1>2 DEF Works
<1> QED
  BY <1>1, <1>3, <1>4, <1>5, StillOpen DEF TxIndInv

\* The outermost call ends: what it commits is what its closures kept, or nothing.
LEMMA EndsKeeps ==
  ASSUME TxIndInv, Inside, ~Nested, NEW rows, NEW result \in {"nil", "error"}, NEW doubt \in BOOLEAN,
         Ends(rows, result, doubt),
         \/ rows = {} /\ result = "error" 
         \/ rows = txOpen.rows /\ Works /\ (result = "error" => doubt)
  PROVE  TxIndInv'
<1>b. /\ TxTypeOK /\ txCalls \in Seq(TxCallsOf) /\ Len(txCalls) \in Nat /\ txCounter \in Nat
      /\ txRows = {} /\ (Works => txOpen.rows = Kept) /\ txOpen.rows \subseteq TxWrites
  BY TxBasics DEF TxIndInv, NestedAllOrNothing
<1>1. /\ txRows' = rows /\ txOpen' = Closed /\ txCalls' = <<>> /\ txCounter' = txCounter
      /\ txOutcome' = [result |-> result, keep |-> Call.keep, doubt |-> doubt]
      /\ rows \subseteq TxWrites
  BY <1>b DEF Ends
<1>2. Len(txCalls) = 1 /\ Call = txCalls[1] /\ Call \in TxCallsOf
  <2>1. txCalls # <<>> /\ ~(Len(txCalls) > 1)
    BY DEF Inside, Nested
  <2>2. Len(txCalls) \in 1 .. Len(txCalls) /\ Call = txCalls[Len(txCalls)] /\ Call \in TxCallsOf
    <3>1. Len(txCalls) \in 1 .. Len(txCalls) /\ Last(txCalls) = txCalls[Len(txCalls)] /\ Last(txCalls) \in TxCallsOf
      BY <1>b, <2>1, FrontIs
    <3> QED
      BY <3>1 DEF Call
  <2>3. Len(txCalls) = 1
    <3>1. \A k \in Nat : k \in 1 .. k /\ ~(k > 1) => k = 1
      OBVIOUS
    <3> QED
      BY <1>b, <2>1, <2>2, <3>1, Zenon
  <2> QED
    BY <2>2, <2>3
<1>3. Kept = Call.keep
  <2>1. DOMAIN txCalls = {1}
    BY <1>b, <1>2
  <2> QED
    BY <1>2, <2>1 DEF Kept
<1>4. txOpen'.savepoints = <<>> /\ Len(txOpen'.savepoints) = 0 /\ Len(txCalls') = 0
  BY <1>1 DEF Closed
<1>5. TxTypeOK'
  <2>1. txOpen' \in [rows : SUBSET TxWrites, savepoints : Seq(Savepoints), aborted : BOOLEAN, lost : BOOLEAN]
    BY <1>1 DEF Closed
  <2>2. txOutcome' \in [result : {"none", "nil", "error"}, keep : SUBSET TxWrites, doubt : BOOLEAN]
    BY <1>1, <1>2 DEF TxCallsOf
  <2>3. txCalls' \in Seq(TxCallsOf) /\ Len(txCalls') <= txCounter + 1
    BY <1>b, <1>1, <1>4
  <2> QED
    BY <1>b, <1>1, <2>1, <2>2, <2>3 DEF TxTypeOK, TxCallsOf
<1>6. FreshNames' /\ SavepointsHold'
  BY <1>4 DEF FreshNames, Grow, SavepointsHold
<1>7. EndsOnce' /\ NestedAllOrNothing'
  BY <1>b, <1>1, <1>3 DEF EndsOnce, NestedAllOrNothing, Inside
<1> QED
  BY <1>5, <1>6, <1>7 DEF TxIndInv

\* The transactions' state is as TxIndInv has it, whatever nests, fails, panics and breaks.
THEOREM TxInvariance == TxSpec => []TxIndInv
<1>1. TxInit => TxIndInv
  <2> SUFFICES ASSUME TxInit PROVE TxIndInv
    OBVIOUS
  <2>1. /\ Len(txCalls) = 0 /\ txOpen.savepoints = <<>> /\ Len(txOpen.savepoints) = 0
        /\ txCalls = <<>> /\ txRows = {} /\ txOutcome = Running /\ txCounter = 0 /\ txOpen = Closed
    BY DEF TxInit, Closed
  <2>2. TxTypeOK
    BY <2>1, TxAssumption DEF TxTypeOK, TxAssumption, Closed, Running
  <2>3. FreshNames /\ SavepointsHold
    BY <2>1 DEF FreshNames, Grow, SavepointsHold
  <2> QED
    BY <2>1, <2>2, <2>3 DEF TxIndInv, EndsOnce, NestedAllOrNothing, Inside, Running
<1>2. TxIndInv /\ [TxNext]_txvars => TxIndInv'
  <2> SUFFICES ASSUME TxIndInv, [TxNext]_txvars PROVE TxIndInv'
    OBVIOUS
  <2>1. CASE UNCHANGED txvars
    <3>1. TxTypeOK'
      BY <2>1 DEF txvars, TxIndInv, TxTypeOK
    <3>2. FreshNames' /\ SavepointsHold' /\ EndsOnce'
      BY <2>1 DEF txvars, TxIndInv, FreshNames, SavepointsHold, EndsOnce, Inside
    <3>3. NestedAllOrNothing'
      BY <2>1 DEF txvars, TxIndInv, NestedAllOrNothing, Inside, Works, Kept
    <3> QED
      BY <3>1, <3>2, <3>3 DEF TxIndInv
  <2>2. CASE Commit \/ Rollback
    BY <2>2, EndsKeeps DEF Commit, Rollback
  <2>3. CASE Begin \/ Nest \/ Release \/ RollbackTo \/ Lose
    BY <2>3, BeginKeeps, NestKeeps, ReleaseKeeps, RollbackToKeeps, LoseKeeps
  <2>4. ASSUME NEW w \in TxWrites, NEW ok \in BOOLEAN, Statement(w, ok) PROVE TxIndInv'
    BY <2>4, StatementKeeps
  <2> QED
    BY <2>1, <2>2, <2>3, <2>4 DEF TxNext
<1> QED
  BY <1>1, <1>2, PTL DEF TxSpec

\* The types of the transactions' variables.
THEOREM TxTypeCorrect == TxSpec => []TxTypeOK
BY TxInvariance, PTL DEF TxIndInv

\* What is committed in the end are exactly the statements of the calls whose closures returned
\* nil all the way up, for any depth of nesting, with any errors swallowed on the way.
THEOREM TransactionsAreAllOrNothing == TxSpec => []NestedAllOrNothing
BY TxInvariance, PTL DEF TxIndInv

-----------------------------------------------------------------------------
\* Migrations.  A set of versions has a last one.
LEMMA MaxIs ==
  ASSUME NEW S \in SUBSET GVersions, S # {}
  PROVE  Max(S) \in S /\ \A u \in S : u <= Max(S)
<1>1. S \in SUBSET Nat /\ IsFiniteSet(S)
  BY MigratorAssumption, FS_Subset DEF MigratorAssumption
<1>2. PICK x \in S : \A y \in S : x >= y
  BY <1>1, FiniteHasMax DEF HasMax
<1>3. Max(S) \in S /\ \A y \in S : Max(S) >= y
  BY <1>2 DEF Max
<1> QED
  BY <1>1, <1>3

\* The types, one variable at a time, and the version a command is at.
LEMMA GBasics ==
  ASSUME GTypeOK, WorkLeft, NEW p \in GProcesses
  PROVE  /\ gProc \in [GProcesses -> GProcs] /\ gProc[p] \in GProcs
         /\ gProc[p].todo \subseteq GVersions /\ gProc[p].tx \in GTxs
         /\ gProc[p].op \in {"none", "run", "rollback"}
         /\ gProc[p].tx.add \subseteq GVersions /\ gProc[p].tx.drop \subseteq GVersions
         /\ gProc[p].tx.row \subseteq GVersions
         /\ GIdle \in GProcs /\ NoTx \in GTxs
         /\ ~At(p, "idle") => /\ Version(p) \in gProc[p].todo /\ Version(p) \in GVersions
                              /\ \A u \in gProc[p].todo : Version(p) <= u
<1>1. gProc \in [GProcesses -> GProcs]
  BY DEF GTypeOK
<1>2. gProc[p] \in GProcs
  BY <1>1
<1>3. /\ gProc[p].todo \subseteq GVersions /\ gProc[p].tx \in GTxs
      /\ gProc[p].op \in {"none", "run", "rollback"}
  BY <1>2 DEF GProcs
<1>4. NoTx \in GTxs
  BY DEF NoTx, GTxs
<1>5. GIdle \in GProcs
  BY <1>4 DEF GIdle, GProcs
<1>6. ASSUME ~At(p, "idle")
      PROVE  /\ Version(p) \in gProc[p].todo /\ Version(p) \in GVersions
             /\ \A u \in gProc[p].todo : Version(p) <= u
  <2>1. gProc[p].todo # {} /\ gProc[p].todo \in SUBSET Nat
    BY <1>3, <1>6, MigratorAssumption DEF WorkLeft, MigratorAssumption
  <2> QED
    BY <1>3, <2>1, MinIs DEF Version
<1> QED
  BY <1>1, <1>2, <1>3, <1>4, <1>5, <1>6 DEF GTxs

\* While no Rollback overlaps another command, two that are under way are Runs.
LEMMA BothRun ==
  ASSUME GIndInv, ~gSeen.mixed, NEW p \in GProcesses, NEW q \in GProcesses, q # p,
         ~At(p, "idle"), ~At(q, "idle")
  PROVE  gProc[p].op = "run" /\ gProc[q].op = "run"
<1>1. p \in Busy(q) /\ q \in Busy(p)
  BY DEF Busy
<1>2. gProc[p].op # "rollback" /\ gProc[q].op # "rollback"
  BY <1>1 DEF GIndInv, MigratesInOrder, RollsBackAlone
<1> QED
  BY <1>2 DEF GIndInv, WorkLeft

\* What a step of one process leaves of another's place.
InPlace(q) == RollsBackAlone(q) /\ RunsTheRest(q) /\ ChangesOneVersion(q)

LEMMA OthersInPlace ==
  ASSUME GIndInv, ~gSeen.mixed, NEW q \in GProcesses, gProc'[q] = gProc[q], gDDL' = gDDL,
         ~At(q, "idle") => /\ gProc[q].op = "run" /\ gTracked \subseteq gTracked'
                           /\ gDDL => gSchema \subseteq gSchema'
  PROVE  InPlace(q)'
<1>1. RollsBackAlone(q) /\ RunsTheRest(q) /\ ChangesOneVersion(q)
  BY DEF GIndInv, MigratesInOrder
<1>2. Version(q)' = Version(q) /\ \A pc : At(q, pc)' = At(q, pc)
  BY DEF Version, At
<1>3. RollsBackAlone(q)'
  BY <1>2 DEF RollsBackAlone
<1>4. RunsTheRest(q)'
  BY <1>1, <1>2 DEF RunsTheRest
<1>5. ChangesOneVersion(q)'
  <2>1. CASE At(q, "idle")
    BY <1>2, <2>1 DEF ChangesOneVersion, At
  <2>2. CASE ~At(q, "idle")
    BY <1>1, <1>2, <2>2 DEF ChangesOneVersion
  <2> QED
    BY <2>1, <2>2
<1> QED
  BY <1>3, <1>4, <1>5 DEF InPlace

\* A step of p that puts r in its place.
LEMMA SetIs ==
  ASSUME GTypeOK, WorkLeft, NEW p \in GProcesses, NEW r \in GProcs, Set(p, r),
         r.at # "idle" => r.op \in {"run", "rollback"} /\ r.todo # {}
  PROVE  /\ gProc' \in [GProcesses -> GProcs] /\ WorkLeft' /\ gProc'[p] = r
         /\ \A q \in GProcesses : q # p => gProc'[q] = gProc[q]
<1>1. gProc \in [GProcesses -> GProcs] /\ gProc' = [gProc EXCEPT ![p] = r]
  BY DEF GTypeOK, Set
<1> QED
  BY <1>1 DEF WorkLeft, At

\* A process that has nothing under way is in its place.
LEMMA IdleInPlace == ASSUME NEW p, At(p, "idle") PROVE InPlace(p)
BY DEF InPlace, RollsBackAlone, RunsTheRest, ChangesOneVersion, At

\* What is left to show of a step of p.
LEMMA StepKeeps ==
  ASSUME GIndInv, NEW p \in GProcesses, GTypeOK', WorkLeft', gDDL' = gDDL,
         ~gSeen.mixed' => /\ ~gSeen.mixed /\ InPlace(p)' /\ SchemaMatchesVersions'
                          /\ \A q \in GProcesses : q # p => InPlace(q)'
  PROVE  GIndInv'
<1>1. CASE gSeen.mixed'
  BY <1>1 DEF GIndInv, SchemaMatchesVersions
<1>2. CASE ~gSeen.mixed'
  <2>1. \A q \in GProcesses : InPlace(q)'
    BY <1>2
  <2> QED
    BY <1>2, <2>1 DEF GIndInv, MigratesInOrder, InPlace
<1> QED
  BY <1>1, <1>2

\* The completed versions are read.
LEMMA ReadKeeps ==
  ASSUME GIndInv, NEW p \in GProcesses, NEW op \in {"run", "rollback"}, NEW seen \in SUBSET gTracked,
         Read(p, op, seen)
  PROVE  GIndInv'
<1> DEFINE todo == IF op = "run" THEN GVersions \ seen
                   ELSE IF seen \cap GVersions = {} THEN {} ELSE {Max(seen \cap GVersions)}
           r == [at |-> IF todo = {} THEN "idle" ELSE "change", op |-> op, todo |-> todo, tx |-> NoTx]
<1>t. GTypeOK /\ WorkLeft /\ gTracked \subseteq GVersions /\ seen \subseteq GVersions /\ seen \cap GVersions = seen
  BY DEF GIndInv, GTypeOK
<1> DEFINE late == \/ gSeen.mixed \/ (op = "rollback" /\ seen # gTracked)
                   \/ \E q \in Busy(p) : "rollback" \in {op, gProc[q].op}
<1>1. /\ At(p, "idle") /\ Set(p, r) /\ UNCHANGED <<gDDL, gSchema, gTracked>>
      /\ gSeen.commands[p] < GCommands /\ (seen # gTracked => gSeen.faults < GFaults)
      /\ gSeen' = [gSeen EXCEPT !.commands[p] = gSeen.commands[p] + 1,
                     !.faults = IF seen = gTracked THEN gSeen.faults ELSE gSeen.faults + 1, !.mixed = late]
  BY DEF Read
<1> HIDE DEF late
<1>2. todo \subseteq GVersions
  <2>1. CASE op = "run" \/ seen = {}
    BY <1>t, <2>1
  <2>2. CASE op # "run" /\ seen # {}
    <3>1. Max(seen) \in seen
      BY <1>t, <2>2, MaxIs
    <3> QED
      BY <1>t, <2>2, <3>1
  <2> QED
    BY <2>1, <2>2
<1>3. op = "rollback" /\ todo # {} =>
        \E v \in seen : todo = {v} /\ \A u \in seen : u <= v
  <2> SUFFICES ASSUME op = "rollback", todo # {}
               PROVE \E v \in seen : todo = {v} /\ \A u \in seen : u <= v
    OBVIOUS
  <2>1. seen # {} /\ todo = {Max(seen)}
    BY <1>t
  <2> QED
    BY <1>t, <2>1, MaxIs
<1>4. op = "run" => GVersions \ todo \subseteq gTracked
  OBVIOUS
<1> HIDE DEF todo
<1>5. r \in GProcs /\ (r.at # "idle" => r.op \in {"run", "rollback"} /\ r.todo # {})
  BY <1>t, <1>2, GBasics DEF GProcs
<1>6. /\ gProc' \in [GProcesses -> GProcs] /\ WorkLeft' /\ gProc'[p] = r
      /\ \A q \in GProcesses : q # p => gProc'[q] = gProc[q]
  BY <1>t, <1>1, <1>5, SetIs
<1>7. /\ gSeen' \in [faults : 0 .. GFaults, commands : [GProcesses -> 0 .. GCommands], mixed : BOOLEAN]
      /\ gSeen'.mixed <=> late
  <2> DEFINE counted == IF seen = gTracked THEN gSeen.faults ELSE gSeen.faults + 1
             spent == [gSeen.commands EXCEPT ![p] = gSeen.commands[p] + 1]
  <2>1. gSeen \in [faults : 0 .. GFaults, commands : [GProcesses -> 0 .. GCommands], mixed : BOOLEAN]
    BY <1>t DEF GTypeOK
  <2>2. gSeen.commands[p] + 1 \in 0 .. GCommands
    BY <1>1, <2>1, MigratorAssumption DEF MigratorAssumption
  <2>3. counted \in 0 .. GFaults
    BY <1>1, <2>1, MigratorAssumption DEF MigratorAssumption
  <2>4. spent \in [GProcesses -> 0 .. GCommands]
    BY <2>1, <2>2
  <2>5. late \in BOOLEAN
    BY <2>1 DEF late
  <2>6. gSeen' = [faults |-> counted, commands |-> spent, mixed |-> late]
    BY <1>1, <2>1
  <2> HIDE DEF counted, spent
  <2> QED
    BY <2>3, <2>4, <2>5, <2>6
<1>8. GTypeOK'
  BY <1>t, <1>1, <1>6, <1>7 DEF GTypeOK
<1>9. ASSUME ~gSeen.mixed'
      PROVE  /\ ~gSeen.mixed /\ InPlace(p)' /\ SchemaMatchesVersions'
             /\ \A q \in GProcesses : q # p => InPlace(q)'
  <2>1. /\ ~gSeen.mixed /\ (op = "rollback" => seen = gTracked)
        /\ \A q \in Busy(p) : op = "run" /\ gProc[q].op # "rollback"
    BY <1>7, <1>9 DEF late
  <2>2. SchemaMatchesVersions'
    BY <1>1, <2>1 DEF GIndInv, SchemaMatchesVersions
  <2>3. \A q \in GProcesses : q # p => InPlace(q)'
    <3> SUFFICES ASSUME NEW q \in GProcesses, q # p PROVE InPlace(q)'
      OBVIOUS
    <3>1. ~At(q, "idle") => gProc[q].op = "run"
      BY <1>t, <2>1 DEF Busy, WorkLeft
    <3> QED
      BY <1>1, <1>6, <2>1, <3>1, OthersInPlace
  <2>4. InPlace(p)'
    <3>1. RollsBackAlone(p)'
      <4> SUFFICES ASSUME ~At(p, "idle")', r.op = "rollback"
                   PROVE /\ Busy(p)' = {}
                         /\ \E v \in gTracked' : r.todo = {v} /\ \A u \in gTracked' : u <= v
        BY <1>6 DEF RollsBackAlone
      <4>1. Busy(p)' = {}
        BY <1>6, <2>1 DEF Busy, At
      <4>2. todo # {}
        BY <1>6 DEF At
      <4> QED
        BY <1>1, <1>3, <2>1, <4>1, <4>2
    <3>2. RunsTheRest(p)'
      BY <1>1, <1>4, <1>6 DEF RunsTheRest
    <3>3. ChangesOneVersion(p)'
      BY <1>6 DEF ChangesOneVersion, At
    <3> QED
      BY <3>1, <3>2, <3>3 DEF InPlace
  <2> QED
    BY <2>1, <2>2, <2>3, <2>4
<1> QED
  BY <1>1, <1>6, <1>8, <1>9, StepKeeps

\* What is known of a process that has a version in hand.
LEMMA AtWork ==
  ASSUME GIndInv, NEW p \in GProcesses, ~At(p, "idle")
  PROVE  /\ GTypeOK /\ WorkLeft /\ gProc[p] \in GProcs /\ gProc[p].todo \subseteq GVersions
         /\ gProc[p].op \in {"run", "rollback"} /\ gProc[p].todo # {} /\ gProc[p].tx \in GTxs
         /\ Version(p) \in gProc[p].todo /\ Version(p) \in GVersions
         /\ \A u \in gProc[p].todo : Version(p) <= u
         /\ gSchema \subseteq GVersions /\ gTracked \subseteq GVersions /\ gDDL \in BOOLEAN
BY GBasics DEF GIndInv, WorkLeft, GTypeOK

\* Up or Down of a version.
LEMMA ChangeKeeps == ASSUME GIndInv, NEW p \in GProcesses, Change(p) PROVE GIndInv'
<1> DEFINE v == Version(p)
           up == gProc[p].op = "run"
           add == IF up /\ v \notin gSchema THEN {v} ELSE {}
           drop == IF ~up THEN {v} ELSE {}
           tx == [gProc[p].tx EXCEPT !.add = add, !.drop = drop]
           r == [gProc[p] EXCEPT !.at = "track", !.tx = tx]
<1>1. /\ At(p, "change") /\ ~At(p, "idle") /\ UNCHANGED <<gDDL, gTracked, gSeen>>
      /\ gSchema' = IF gDDL THEN gSchema ELSE IF up THEN gSchema \cup {v} ELSE gSchema \ {v}
  BY DEF Change, At
<1>2. /\ GTypeOK /\ WorkLeft /\ gProc[p] \in GProcs /\ gProc[p].tx \in GTxs
      /\ gProc[p].op \in {"run", "rollback"} /\ gProc[p].todo # {} /\ v \in GVersions
      /\ gSchema \subseteq GVersions /\ gProc[p].todo \subseteq GVersions /\ gDDL \in BOOLEAN
  BY <1>1, AtWork
<1>3. tx \in GTxs /\ tx.add = add /\ tx.drop = drop
  BY <1>2 DEF GTxs
<1>4. gProc[p].tx \in [add : SUBSET GVersions, drop : SUBSET GVersions, row : SUBSET GVersions]
  BY <1>2 DEF GTxs
<1>5. Set(p, r)
  BY <1>2, <1>4 DEF Change, GProcs
<1> HIDE DEF tx
<1>6. r \in GProcs /\ r.at = "track" /\ r.op = gProc[p].op /\ r.todo = gProc[p].todo /\ r.tx = tx
  BY <1>2, <1>3 DEF GProcs
<1> HIDE DEF r
<1>7. /\ gProc' \in [GProcesses -> GProcs] /\ WorkLeft' /\ gProc'[p] = r
      /\ \A q \in GProcesses : q # p => gProc'[q] = gProc[q]
  BY <1>2, <1>5, <1>6, SetIs
<1>8. GTypeOK'
  BY <1>1, <1>2, <1>7 DEF GTypeOK
<1>9. ASSUME ~gSeen.mixed
      PROVE  InPlace(p)' /\ SchemaMatchesVersions' /\ \A q \in GProcesses : q # p => InPlace(q)'
  <2>1. SchemaMatchesVersions'
    BY <1>1 DEF GIndInv, SchemaMatchesVersions
  <2>2. \A q \in GProcesses : q # p => InPlace(q)'
    <3> SUFFICES ASSUME NEW q \in GProcesses, q # p PROVE InPlace(q)'
      OBVIOUS
    <3>1. ~At(q, "idle") => gProc[q].op = "run"
      BY <1>1, <1>9, BothRun
    <3> QED
      BY <1>1, <1>7, <1>9, <3>1, OthersInPlace
  <2>3. RollsBackAlone(p) /\ RunsTheRest(p)
    BY <1>9 DEF GIndInv, MigratesInOrder
  <2>4. RollsBackAlone(p)'
    <3>1. gProc[p].op = "rollback" => Busy(p)' = {}
      BY <1>1, <1>7, <2>3 DEF RollsBackAlone, Busy, At
    <3> QED
      BY <1>1, <1>6, <1>7, <2>3, <3>1 DEF RollsBackAlone
  <2>5. RunsTheRest(p)'
    BY <1>1, <1>6, <1>7, <2>3 DEF RunsTheRest
  <2>6. ChangesOneVersion(p)'
    <3>1. Version(p)' = v /\ gProc'[p].tx.add = add /\ gProc'[p].tx.drop = drop
      BY <1>3, <1>6, <1>7 DEF Version
    <3>2. up => {v} \subseteq gSchema \cup add /\ drop = {} /\ add \subseteq {v}
      OBVIOUS
    <3>3. ~up => drop = {v} /\ add = {}
      OBVIOUS
    <3> HIDE DEF add, drop
    <3> QED
      BY <1>1, <1>6, <1>7, <3>1, <3>2, <3>3 DEF ChangesOneVersion, At
  <2> QED
    BY <2>1, <2>2, <2>4, <2>5, <2>6 DEF InPlace
<1> QED
  BY <1>1, <1>7, <1>8, <1>9, StepKeeps

\* A process gives up: nothing is left of it.
LEMMA GivesUp ==
  ASSUME GIndInv, NEW p \in GProcesses, ~At(p, "idle"), Set(p, GIdle),
         UNCHANGED <<gDDL, gSchema, gTracked>>, gSeen'.mixed = gSeen.mixed,
         gSeen' \in [faults : 0 .. GFaults, commands : [GProcesses -> 0 .. GCommands], mixed : BOOLEAN]
  PROVE  GIndInv'
<1>1. GTypeOK /\ WorkLeft /\ GIdle \in GProcs /\ GIdle.at = "idle"
  BY GBasics DEF GIndInv, GIdle
<1>2. /\ gProc' \in [GProcesses -> GProcs] /\ WorkLeft' /\ gProc'[p] = GIdle
      /\ \A q \in GProcesses : q # p => gProc'[q] = gProc[q]
  BY <1>1, SetIs
<1>3. GTypeOK'
  BY <1>1, <1>2 DEF GTypeOK
<1>4. ASSUME ~gSeen.mixed
      PROVE  InPlace(p)' /\ SchemaMatchesVersions' /\ \A q \in GProcesses : q # p => InPlace(q)'
  <2>1. SchemaMatchesVersions'
    BY <1>4 DEF GIndInv, SchemaMatchesVersions
  <2>2. \A q \in GProcesses : q # p => InPlace(q)'
    <3> SUFFICES ASSUME NEW q \in GProcesses, q # p PROVE InPlace(q)'
      OBVIOUS
    <3>1. ~At(q, "idle") => gProc[q].op = "run"
      BY <1>4, BothRun
    <3> QED
      BY <1>2, <1>4, <3>1, OthersInPlace
  <2>3. InPlace(p)'
    BY <1>1, <1>2 DEF InPlace, RollsBackAlone, RunsTheRest, ChangesOneVersion, At
  <2> QED
    BY <2>1, <2>2, <2>3
<1> QED
  BY <1>2, <1>3, <1>4, StepKeeps

\* A statement or the COMMIT fails, or the process stops.
LEMMA FailsKeeps == ASSUME GIndInv, NEW p \in GProcesses, Fails(p) PROVE GIndInv'
<1>1. /\ ~At(p, "idle") /\ Set(p, GIdle) /\ UNCHANGED <<gDDL, gSchema, gTracked>>
      /\ gSeen.faults < GFaults /\ gSeen' = [gSeen EXCEPT !.faults = gSeen.faults + 1]
  BY DEF Fails, Fault
<1>2. gSeen \in [faults : 0 .. GFaults, commands : [GProcesses -> 0 .. GCommands], mixed : BOOLEAN]
  BY DEF GIndInv, GTypeOK
<1>3. gSeen.faults + 1 \in 0 .. GFaults
  BY <1>1, <1>2, MigratorAssumption DEF MigratorAssumption
<1>4. /\ gSeen'.mixed = gSeen.mixed
      /\ gSeen' \in [faults : 0 .. GFaults, commands : [GProcesses -> 0 .. GCommands], mixed : BOOLEAN]
  BY <1>1, <1>2, <1>3
<1> QED
  BY <1>1, <1>4, GivesUp

\* The version's row is inserted or deleted, or is there already.
LEMMA TrackKeeps == ASSUME GIndInv, NEW p \in GProcesses, Track(p) PROVE GIndInv'
<1> DEFINE v == Version(p)
           tx == [gProc[p].tx EXCEPT !.row = {v}]
           r == [gProc[p] EXCEPT !.at = "commit", !.tx = tx]
<1>1. /\ At(p, "track") /\ ~At(p, "idle") /\ UNCHANGED <<gDDL, gSchema, gTracked, gSeen>>
  BY DEF Track, At
<1>2. /\ GTypeOK /\ WorkLeft /\ gProc[p] \in GProcs /\ gProc[p].tx \in GTxs
      /\ gProc[p].op \in {"run", "rollback"} /\ gProc[p].todo # {} /\ v \in GVersions
      /\ gSeen \in [faults : 0 .. GFaults, commands : [GProcesses -> 0 .. GCommands], mixed : BOOLEAN]
  BY <1>1, AtWork DEF GTypeOK
<1>3. CASE gProc[p].op = "run" /\ v \in gTracked
  BY <1>1, <1>2, <1>3, GivesUp DEF Track
<1>4. CASE ~(gProc[p].op = "run" /\ v \in gTracked)
  <2>1. tx \in GTxs /\ tx.add = gProc[p].tx.add /\ tx.drop = gProc[p].tx.drop /\ tx.row = {v}
    BY <1>2 DEF GTxs
  <2>2. Set(p, r)
    BY <1>2, <1>4 DEF Track, GProcs
  <2> HIDE DEF tx
  <2>3. r \in GProcs /\ r.at = "commit" /\ r.op = gProc[p].op /\ r.todo = gProc[p].todo /\ r.tx = tx
    BY <1>2, <2>1 DEF GProcs
  <2> HIDE DEF r
  <2>4. /\ gProc' \in [GProcesses -> GProcs] /\ WorkLeft' /\ gProc'[p] = r
        /\ \A q \in GProcesses : q # p => gProc'[q] = gProc[q]
    BY <1>2, <2>2, <2>3, SetIs
  <2>5. GTypeOK'
    BY <1>1, <1>2, <2>4 DEF GTypeOK
  <2>6. ASSUME ~gSeen.mixed
        PROVE  InPlace(p)' /\ SchemaMatchesVersions' /\ \A q \in GProcesses : q # p => InPlace(q)'
    <3>1. SchemaMatchesVersions'
      BY <1>1 DEF GIndInv, SchemaMatchesVersions
    <3>2. \A q \in GProcesses : q # p => InPlace(q)'
      <4> SUFFICES ASSUME NEW q \in GProcesses, q # p PROVE InPlace(q)'
        OBVIOUS
      <4>1. ~At(q, "idle") => gProc[q].op = "run"
        BY <1>1, <2>6, BothRun
      <4> QED
        BY <1>1, <2>4, <2>6, <4>1, OthersInPlace
    <3>3. RollsBackAlone(p) /\ RunsTheRest(p) /\ ChangesOneVersion(p)
      BY <2>6 DEF GIndInv, MigratesInOrder
    <3>4. RollsBackAlone(p)'
      <4>1. gProc[p].op = "rollback" => Busy(p)' = {}
        BY <1>1, <2>4, <3>3 DEF RollsBackAlone, Busy, At
      <4> QED
        BY <1>1, <2>3, <2>4, <3>3, <4>1 DEF RollsBackAlone
    <3>5. RunsTheRest(p)'
      BY <1>1, <2>3, <2>4, <3>3 DEF RunsTheRest
    <3>6. ChangesOneVersion(p)'
      <4>1. /\ Version(p)' = v /\ gProc'[p].tx.add = gProc[p].tx.add
            /\ gProc'[p].tx.drop = gProc[p].tx.drop /\ gProc'[p].tx.row = {v} /\ gProc'[p].op = gProc[p].op
        BY <2>1, <2>3, <2>4 DEF Version
      <4> QED
        BY <1>1, <3>3, <4>1 DEF ChangesOneVersion, At
    <3> QED
      BY <3>1, <3>2, <3>4, <3>5, <3>6 DEF InPlace
  <2> QED
    BY <1>1, <2>4, <2>5, <2>6, StepKeeps
<1> QED
  BY <1>3, <1>4

\* COMMIT: the change and the row become visible together.
LEMMA CommitVersionKeeps == ASSUME GIndInv, NEW p \in GProcesses, CommitVersion(p) PROVE GIndInv'
<1> DEFINE v == Version(p)
           g == gProc[p]
           left == g.todo \ {v}
           r == IF left = {} THEN GIdle
                ELSE [g EXCEPT !.at = "change", !.todo = left, !.tx = NoTx]
<1>1. /\ At(p, "commit") /\ ~At(p, "idle") /\ UNCHANGED <<gDDL, gSeen>> /\ Set(p, r)
      /\ gSchema' = IF gDDL THEN (gSchema \cup g.tx.add) \ g.tx.drop ELSE gSchema
      /\ gTracked' = IF g.op = "run" THEN gTracked \cup g.tx.row ELSE gTracked \ g.tx.row
  BY DEF CommitVersion, At
<1>2. /\ GTypeOK /\ WorkLeft /\ g \in GProcs /\ g.tx \in GTxs
      /\ g.op \in {"run", "rollback"} /\ g.todo # {} /\ v \in GVersions /\ v \in g.todo
      /\ g.todo \subseteq GVersions /\ gSchema \subseteq GVersions /\ gTracked \subseteq GVersions
      /\ gDDL \in BOOLEAN /\ GIdle \in GProcs /\ NoTx \in GTxs
      /\ \A u \in g.todo : v <= u
  BY <1>1, AtWork, GBasics
<1>3. g.tx.add \subseteq GVersions /\ g.tx.row \subseteq GVersions
  BY <1>2 DEF GTxs
<1> HIDE DEF left
<1>4. /\ r \in GProcs /\ (left = {} => r = GIdle /\ r.at = "idle")
      /\ left # {} => r.at = "change" /\ r.op = g.op /\ r.todo = left
  <2>1. left \subseteq GVersions
    BY <1>2 DEF left
  <2>2. CASE left = {}
    BY <1>2, <2>2 DEF GIdle
  <2>3. CASE left # {}
    BY <1>2, <2>1, <2>3 DEF GProcs
  <2> QED
    BY <2>2, <2>3
<1> HIDE DEF r
<1>5. /\ gProc' \in [GProcesses -> GProcs] /\ WorkLeft' /\ gProc'[p] = r
      /\ \A q \in GProcesses : q # p => gProc'[q] = gProc[q]
  BY <1>1, <1>2, <1>4, SetIs
<1>6. GTypeOK'
  <2>1. gSchema' \subseteq GVersions /\ gTracked' \subseteq GVersions
    BY <1>1, <1>2, <1>3
  <2> QED
    BY <1>1, <1>2, <1>5, <2>1 DEF GTypeOK
<1>7. ASSUME ~gSeen.mixed
      PROVE  InPlace(p)' /\ SchemaMatchesVersions' /\ \A q \in GProcesses : q # p => InPlace(q)'
  <2>1. RollsBackAlone(p) /\ RunsTheRest(p) /\ ChangesOneVersion(p) /\ SchemaMatchesVersions
    BY <1>7 DEF GIndInv, MigratesInOrder
  <2>2. g.tx.row = {v}
    BY <1>1, <2>1 DEF ChangesOneVersion
  <2>3. CASE g.op = "run"
    <3>1. /\ gTracked' = gTracked \cup {v} /\ GVersions \ g.todo \subseteq gTracked
          /\ g.tx.drop = {} /\ g.tx.add \subseteq {v} /\ (gDDL => {v} \subseteq gSchema \cup g.tx.add)
      BY <1>1, <2>1, <2>2, <2>3 DEF RunsTheRest, ChangesOneVersion, At
    <3>2. gDDL => gSchema' = gSchema \cup {v}
      BY <1>1, <3>1
    <3>3. SchemaMatchesVersions'
      <4>1. \A u \in GVersions : u < v => u \in gTracked
        <5> SUFFICES ASSUME NEW u \in GVersions, u < v PROVE u \notin g.todo
          BY <3>1
        <5>1. u \in Nat /\ v \in Nat
          BY <1>2, MigratorAssumption DEF MigratorAssumption
        <5>2. u \in g.todo => v <= u
          BY <1>2
        <5> QED
          BY <5>1, <5>2
      <4>2. \A w \in gTracked' : \A u \in GVersions : u < w => u \in gTracked'
        BY <1>7, <2>1, <3>1, <4>1 DEF SchemaMatchesVersions
      <4>3. gDDL => gSchema' = gTracked'
        BY <1>7, <2>1, <3>1, <3>2 DEF SchemaMatchesVersions
      <4> QED
        BY <1>1, <4>2, <4>3 DEF SchemaMatchesVersions
    <3>4. \A q \in GProcesses : q # p => InPlace(q)'
      <4> SUFFICES ASSUME NEW q \in GProcesses, q # p PROVE InPlace(q)'
        OBVIOUS
      <4>1. ~At(q, "idle") => gProc[q].op = "run"
        BY <1>1, <1>7, BothRun
      <4>2. gTracked \subseteq gTracked' /\ (gDDL => gSchema \subseteq gSchema')
        BY <3>1, <3>2
      <4> QED
        BY <1>1, <1>5, <1>7, <4>1, <4>2, OthersInPlace
    <3>5. InPlace(p)'
      <4>1. CASE left = {}
        BY <1>4, <1>5, <4>1 DEF InPlace, RollsBackAlone, RunsTheRest, ChangesOneVersion, At
      <4>2. CASE left # {}
        <5>1. GVersions \ left \subseteq gTracked'
          BY <3>1 DEF left
        <5> QED
          BY <1>4, <1>5, <2>3, <4>2, <5>1 DEF InPlace, RollsBackAlone, RunsTheRest, ChangesOneVersion, At
      <4> QED
        BY <4>1, <4>2
    <3> QED
      BY <3>3, <3>4, <3>5
  <2>4. CASE g.op = "rollback"
    <3>1. /\ Busy(p) = {} /\ gTracked' = gTracked \ {v} /\ g.tx.drop = {v} /\ g.tx.add = {}
      BY <1>1, <2>1, <2>2, <2>4 DEF RollsBackAlone, ChangesOneVersion, At
    <3>2. PICK w \in gTracked : g.todo = {w} /\ \A u \in gTracked : u <= w
      BY <1>1, <2>1, <2>4 DEF RollsBackAlone
    <3>3. v = w /\ left = {} /\ v \in gTracked
      BY <1>2, <3>2 DEF left
    <3>4. SchemaMatchesVersions'
      <4>1. gDDL => gSchema' = gTracked'
        BY <1>1, <1>7, <2>1, <3>1 DEF SchemaMatchesVersions
      <4>2. \A x \in gTracked' : \A u \in GVersions : u < x => u \in gTracked'
        <5> SUFFICES ASSUME NEW x \in gTracked, x # v, NEW u \in GVersions, u < x
                     PROVE u \in gTracked /\ u # v
          BY <3>1
        <5>1. x \in Nat /\ u \in Nat /\ v \in Nat /\ x <= v
          BY <1>2, <3>2, <3>3, MigratorAssumption DEF MigratorAssumption
        <5>2. u # v
          BY <5>1
        <5> QED
          BY <1>7, <2>1, <5>2 DEF SchemaMatchesVersions
      <4> QED
        BY <1>1, <4>1, <4>2 DEF SchemaMatchesVersions
    <3>5. \A q \in GProcesses : q # p => InPlace(q)'
      <4> SUFFICES ASSUME NEW q \in GProcesses, q # p PROVE InPlace(q)'
        OBVIOUS
      <4>1. At(q, "idle")
        BY <3>1 DEF Busy
      <4> QED
        BY <1>1, <1>5, <1>7, <4>1, OthersInPlace
    <3>6. InPlace(p)'
      BY <1>4, <1>5, <3>3 DEF InPlace, RollsBackAlone, RunsTheRest, ChangesOneVersion, At
    <3> QED
      BY <3>4, <3>5, <3>6
  <2> QED
    BY <1>2, <2>3, <2>4
<1> QED
  BY <1>1, <1>5, <1>6, <1>7, StepKeeps

\* The migrator's state is as GIndInv has it, whoever runs and rolls back and whatever fails.
THEOREM MigratorInvariance == GSpec => []GIndInv
<1>1. GInit => GIndInv
  <2> SUFFICES ASSUME GInit PROVE GIndInv
    OBVIOUS
  <2>1. GIdle \in GProcs /\ GIdle.at = "idle"
    BY DEF GIdle, GProcs, NoTx, GTxs
  <2>2. /\ gProc = [p \in GProcesses |-> GIdle] /\ gSchema = {} /\ gTracked = {} /\ gDDL \in BOOLEAN
        /\ gSeen = [faults |-> 0, commands |-> [p \in GProcesses |-> 0], mixed |-> FALSE]
    BY DEF GInit
  <2>3. GTypeOK
    BY <2>1, <2>2, MigratorAssumption DEF GTypeOK, MigratorAssumption
  <2>4. \A p \in GProcesses : InPlace(p) /\ At(p, "idle")
    BY <2>1, <2>2, IdleInPlace DEF At
  <2> QED
    BY <2>2, <2>3, <2>4 DEF GIndInv, WorkLeft, MigratesInOrder, InPlace, SchemaMatchesVersions
<1>2. GIndInv /\ [GNext]_gvars => GIndInv'
  <2> SUFFICES ASSUME GIndInv, [GNext]_gvars PROVE GIndInv'
    OBVIOUS
  <2>1. CASE UNCHANGED gvars
    BY <2>1 DEF gvars, GIndInv, GTypeOK, WorkLeft, MigratesInOrder, RollsBackAlone, RunsTheRest,
                ChangesOneVersion, SchemaMatchesVersions, At, Busy, Version
  <2>2. ASSUME NEW p \in GProcesses,
               \/ \E op \in {"run", "rollback"}, seen \in SUBSET gTracked : Read(p, op, seen)
               \/ Change(p) \/ Track(p) \/ CommitVersion(p) \/ Fails(p)
        PROVE GIndInv'
    BY <2>2, ReadKeeps, ChangeKeeps, TrackKeeps, CommitVersionKeeps, FailsKeeps
  <2> QED
    BY <2>1, <2>2 DEF GNext
<1> QED
  BY <1>1, <1>2, PTL DEF GSpec

\* The types of the migrator's variables.
THEOREM MigratorTypeCorrect == GSpec => []GTypeOK
BY MigratorInvariance, PTL DEF GIndInv

\* A version is tracked exactly when its change is in the schema, and the tracked versions are the
\* first ones, for any number of processes, versions and failures, until a Rollback overlaps.
THEOREM VersionsMatchTheSchema == GSpec => []SchemaMatchesVersions
BY MigratorInvariance, PTL DEF GIndInv

-----------------------------------------------------------------------------
\* Sessions.  The types, one variable at a time.
SHeapType == [Objects -> [id : SomeId, data : Datas]]
SSeenType == [lapses : 0 .. SLapses, faults : 0 .. SFaults, overlapped : BOOLEAN,
              regenerated : BOOLEAN, lost : BOOLEAN, last : Datas]

LEMMA SBasics ==
  ASSUME STypeOK
  PROVE  /\ sHeap \in SHeapType /\ sTable \in [SIds -> Rows] /\ sReq \in [SRequests -> Visits]
         /\ sJar \in [session : SomeId, token : SomeToken] /\ sSeen \in SSeenType
         /\ \A r \in SRequests : sReq[r] \in Visits /\ r # None
         /\ \A o \in Objects : sHeap[o].id \in SomeId /\ sHeap[o].data \in Datas
BY SessionsAssumption DEF STypeOK, SHeapType, SSeenType, SessionsAssumption, None

LEMMA VisitIs ==
  ASSUME NEW x \in Visits
  PROVE  /\ x.pc \in Stages /\ x.cookie \in SomeId /\ x.sent \in SomeToken /\ x.id \in SomeId
         /\ x.sess \in SomeObject /\ x.token \in SomeToken /\ x.auth \in BOOLEAN
         /\ x.status \in Statuses /\ x.loaded \in Datas
BY DEF Visits

\* What the assignment of one field makes of a request.
LEMMA WithPc ==
  ASSUME NEW q \in Visits, NEW v \in Stages
  PROVE  LET x == [q EXCEPT !.pc = v] IN
         /\ x \in Visits /\ x.pc = v
         /\ x.cookie = q.cookie /\ x.sent = q.sent /\ x.id = q.id /\ x.sess = q.sess
         /\ x.token = q.token /\ x.auth = q.auth /\ x.status = q.status /\ x.loaded = q.loaded
BY DEF Visits

LEMMA WithOp ==
  ASSUME NEW q \in Visits, NEW v \in {"none"} \cup UNION {SOps[r] : r \in SRequests}
  PROVE  LET x == [q EXCEPT !.op = v] IN
         /\ x \in Visits /\ x.op = v
         /\ x.pc = q.pc /\ x.cookie = q.cookie /\ x.sent = q.sent /\ x.id = q.id
         /\ x.sess = q.sess /\ x.token = q.token /\ x.auth = q.auth /\ x.status = q.status /\ x.loaded = q.loaded
BY DEF Visits

LEMMA WithCookie ==
  ASSUME NEW q \in Visits, NEW v \in SomeId
  PROVE  LET x == [q EXCEPT !.cookie = v] IN
         /\ x \in Visits /\ x.cookie = v
         /\ x.pc = q.pc /\ x.sent = q.sent /\ x.id = q.id /\ x.sess = q.sess
         /\ x.token = q.token /\ x.auth = q.auth /\ x.status = q.status /\ x.loaded = q.loaded
BY DEF Visits

LEMMA WithSent ==
  ASSUME NEW q \in Visits, NEW v \in SomeToken
  PROVE  LET x == [q EXCEPT !.sent = v] IN
         /\ x \in Visits /\ x.sent = v
         /\ x.pc = q.pc /\ x.cookie = q.cookie /\ x.id = q.id /\ x.sess = q.sess
         /\ x.token = q.token /\ x.auth = q.auth /\ x.status = q.status /\ x.loaded = q.loaded
BY DEF Visits

LEMMA WithId ==
  ASSUME NEW q \in Visits, NEW v \in SomeId
  PROVE  LET x == [q EXCEPT !.id = v] IN
         /\ x \in Visits /\ x.id = v
         /\ x.pc = q.pc /\ x.cookie = q.cookie /\ x.sent = q.sent /\ x.sess = q.sess
         /\ x.token = q.token /\ x.auth = q.auth /\ x.status = q.status /\ x.loaded = q.loaded
BY DEF Visits

LEMMA WithSess ==
  ASSUME NEW q \in Visits, NEW v \in SomeObject
  PROVE  LET x == [q EXCEPT !.sess = v] IN
         /\ x \in Visits /\ x.sess = v
         /\ x.pc = q.pc /\ x.cookie = q.cookie /\ x.sent = q.sent /\ x.id = q.id
         /\ x.token = q.token /\ x.auth = q.auth /\ x.status = q.status /\ x.loaded = q.loaded
BY DEF Visits

LEMMA WithToken ==
  ASSUME NEW q \in Visits, NEW v \in SomeToken
  PROVE  LET x == [q EXCEPT !.token = v] IN
         /\ x \in Visits /\ x.token = v
         /\ x.pc = q.pc /\ x.cookie = q.cookie /\ x.sent = q.sent /\ x.id = q.id
         /\ x.sess = q.sess /\ x.auth = q.auth /\ x.status = q.status /\ x.loaded = q.loaded
BY DEF Visits

LEMMA WithAuth ==
  ASSUME NEW q \in Visits, NEW v \in BOOLEAN
  PROVE  LET x == [q EXCEPT !.auth = v] IN
         /\ x \in Visits /\ x.auth = v
         /\ x.pc = q.pc /\ x.cookie = q.cookie /\ x.sent = q.sent /\ x.id = q.id
         /\ x.sess = q.sess /\ x.token = q.token /\ x.status = q.status /\ x.loaded = q.loaded
BY DEF Visits

LEMMA WithStatus ==
  ASSUME NEW q \in Visits, NEW v \in Statuses
  PROVE  LET x == [q EXCEPT !.status = v] IN
         /\ x \in Visits /\ x.status = v
         /\ x.pc = q.pc /\ x.cookie = q.cookie /\ x.sent = q.sent /\ x.id = q.id
         /\ x.sess = q.sess /\ x.token = q.token /\ x.auth = q.auth /\ x.loaded = q.loaded
BY DEF Visits

LEMMA WithLoaded ==
  ASSUME NEW q \in Visits, NEW v \in Datas
  PROVE  LET x == [q EXCEPT !.loaded = v] IN
         /\ x \in Visits /\ x.loaded = v
         /\ x.pc = q.pc /\ x.cookie = q.cookie /\ x.sent = q.sent /\ x.id = q.id
         /\ x.sess = q.sess /\ x.token = q.token /\ x.auth = q.auth /\ x.status = q.status
BY DEF Visits

\* Names are pairs, and none of them is the lack of one.
LEMMA Names ==
  /\ \A r \in SRequests : /\ <<r, "new">> \in SIds /\ <<r, "reissued">> \in SIds
                          /\ <<r, "regenerated">> \in SIds
                          /\ <<r, "load">> \in Objects /\ <<r, "regen">> \in Objects
  /\ NoId \notin SIds /\ NoId \notin Objects
  /\ \A i \in SIds : i \in SomeId
  /\ \A o \in Objects : o \in SomeObject
BY DEF SIds, Objects, NoId, SomeId, SomeObject

LEMMA EmptyIs == Empty \in Datas /\ NoRow \in Rows /\ ~NoRow.live /\ NoRow.object = NoId
BY DEF Empty, Datas, NoRow, Rows, SomeObject, SomeToken, Users, None

\* What the store keeps of the data.
LEMMA ReadBackIs ==
  /\ \A d \in Datas : /\ Decoded(d) \in Datas /\ Decoded(d).token = d.token
                       /\ ReadBack(d) \in Datas /\ ReadBack(d).token = d.token
  /\ Decoded(Empty) = Empty /\ ReadBack(Empty) = Empty
<1>1. \A d \in Datas : Decoded(d) \in Datas /\ Decoded(d).token = d.token
  BY DEF Decoded, Datas, Users
<1>2. Decoded(Empty) = Empty
  BY DEF Decoded, Empty
<1> QED
  BY <1>1, <1>2 DEF ReadBack

\* Whose data are known, and stay so while the application is as it is.
LEMMA KnownIs ==
  /\ KnownUser(Empty)
  /\ \A d \in Datas : KnownUser(d) => KnownUser(ReadBack(d)) /\ (~InMemory => KnownUser(Decoded(d)))
  /\ \A d, e : KnownUser(d) /\ e.user = d.user => KnownUser(e)
<1>1. KnownUser(Empty)
  BY DEF KnownUser, Empty
<1>2. ASSUME NEW d \in Datas, KnownUser(d), ~InMemory PROVE KnownUser(Decoded(d))
  <2>1. Decoded(d).user = IF d.user = "int" THEN "float64" ELSE d.user
    BY DEF Decoded, Datas
  <2> QED
    BY <1>2, <2>1 DEF KnownUser
<1>3. \A d, e : KnownUser(d) /\ e.user = d.user => KnownUser(e)
  BY DEF KnownUser
<1> QED
  BY <1>1, <1>2, <1>3 DEF ReadBack

LEMMA KnownStays ==
  ASSUME sConf' = sConf, NEW d
  PROVE  KnownUser(d)' = KnownUser(d)
BY DEF KnownUser, InMemory

\* A step that leaves the rows and the history alone.
LEMMA RowsStay ==
  ASSUME UNCHANGED <<sConf, sTable, sSeen>>, NEW i
  PROVE  /\ InMemory' = InMemory /\ sSeen' = sSeen
         /\ \A d : ReadBack(d)' = ReadBack(d)
         /\ verifyID(i)' = verifyID(i)
         /\ ~InMemory => Saved(i)' = Saved(i)
BY DEF InMemory, ReadBack, Decoded, verifyID, Saved

\* The object a request works on.
LEMMA ObjectIs ==
  ASSUME SIndInv, NEW r \in SRequests, Begun(r)
  PROVE  /\ sReq[r].sess \in Objects /\ sHeap[sReq[r].sess].id \in SIds /\ Data(r) \in Datas
         /\ sHeap[sReq[r].sess] \in [id : SomeId, data : Datas]
<1>1. sReq[r].sess \in Objects /\ sHeap[sReq[r].sess].id \in SIds
  BY DEF SIndInv, WorksOnAnObject
<1>2. sHeap \in SHeapType
  BY SBasics DEF SIndInv
<1>3. sHeap[sReq[r].sess] \in [id : SomeId, data : Datas]
  BY <1>1, <1>2 DEF SHeapType
<1> QED
  BY <1>1, <1>3 DEF Data

\* Only the first request that is under way matters to a browser that sends one at a time.
LEMMA OthersWait ==
  ASSUME OneAtATime, Calm, NEW r \in SRequests, NEW q \in SRequests, q # r,
         sReq[r].pc \notin {"new", "done", "refused"}
  PROVE  sReq[q].pc \in {"new", "done", "refused"}
BY DEF OneAtATime

\* A request works on its object: it stays where it is, and changes at most the object's data.
LEMMA WorksOn ==
  ASSUME SIndInv, NEW r \in SRequests, Begun(r), NEW x \in Visits, NEW d \in Datas,
         sReq' = [sReq EXCEPT ![r] = x], x.pc \notin {"new", "load", "destroy", "regen", "done", "refused"},
         sReq[r].pc \notin {"done", "refused"},
         x.cookie = sReq[r].cookie, x.id = sReq[r].id, x.sess = sReq[r].sess,
         sHeap' = [sHeap EXCEPT ![sReq[r].sess] = [id |-> sHeap[sReq[r].sess].id, data |-> d]],
         UNCHANGED <<sConf, sTable, sJar, sSeen>>,
         KnownUser(d), Calm => InHand(r)'
  PROVE  SIndInv'
<1> DEFINE o == sReq[r].sess
<1>t. /\ STypeOK /\ sHeap \in SHeapType /\ sReq \in [SRequests -> Visits] /\ o \in Objects
      /\ sHeap[o].id \in SIds
  BY SBasics, ObjectIs DEF SIndInv
<1>1. /\ sReq' \in [SRequests -> Visits] /\ sReq'[r] = x
      /\ \A q \in SRequests : q # r => sReq'[q] = sReq[q]
      /\ \A q \in SRequests : sReq'[q].sess = sReq[q].sess /\ sReq'[q].id = sReq[q].id
                              /\ sReq'[q].cookie = sReq[q].cookie
  BY <1>t
<1> HIDE DEF o
<1>2. /\ sHeap' \in SHeapType /\ sHeap'[o].data = d
      /\ \A p \in Objects : sHeap'[p].id = sHeap[p].id /\ (p # o => sHeap'[p] = sHeap[p])
  <2>1. [id |-> sHeap[o].id, data |-> d] \in [id : SomeId, data : Datas]
    BY <1>t, Names
  <2>2. sHeap' = [sHeap EXCEPT ![o] = [id |-> sHeap[o].id, data |-> d]]
    BY DEF o
  <2>3. sHeap' \in SHeapType
    BY <1>t, <2>1, <2>2 DEF SHeapType
  <2>4. sHeap'[o] = [id |-> sHeap[o].id, data |-> d]
    BY <1>t, <2>2 DEF SHeapType
  <2>5. \A p \in Objects : p # o => sHeap'[p] = sHeap[p]
    BY <1>t, <2>2 DEF SHeapType
  <2>6. sHeap'[o].id = sHeap[o].id /\ sHeap'[o].data = d
    BY <2>4
  <2> QED
    BY <2>3, <2>5, <2>6
<1>3. STypeOK'
  BY <1>t, <1>1, <1>2 DEF STypeOK, SHeapType
<1>4. \A q \in SRequests : Begun(q)' = Begun(q)
  BY <1>1 DEF Begun
<1>5. \A i : Issued(i) => Issued(i)'
  <2>1. Begun(r)'
    BY <1>1 DEF Begun
  <2>2. \A q : Begun(q) => Begun(q)'
    BY <2>1, <1>t DEF Begun
  <2> QED
    BY <2>2 DEF Issued
<1>6. NamesIssued'
  BY <1>1, <1>2, <1>5 DEF SIndInv, NamesIssued
<1>7. \A q \in SRequests : WorksOnAnObject(q)'
  BY <1>1, <1>2, <1>4 DEF SIndInv, WorksOnAnObject
<1>8. RowsHold'
  <2>0. /\ InMemory' = InMemory /\ sTable' = sTable /\ sSeen' = sSeen
        /\ \A q \in SRequests : sReq'[q].sess = sReq[q].sess
    BY <1>1 DEF InMemory
  <2> SUFFICES ASSUME InMemory
               PROVE  /\ \A i \in SIds : sTable[i].live => sTable[i].object \in Objects
                      /\ ~sSeen.regenerated =>
                           /\ \A i \in SIds : sTable[i].live => sHeap'[sTable[i].object].id = i
                           /\ \A q \in SRequests : Begun(q) =>
                                LET row == sTable[sHeap'[sReq[q].sess].id] IN
                                row.live /\ row.object = sReq[q].sess
    BY ZenonT(60), <1>4, <2>0 DEF RowsHold
  <2>1. \A q \in SRequests : Begun(q) => sReq[q].sess \in Objects
    BY DEF SIndInv, WorksOnAnObject
  <2> QED
    BY <1>2, <2>1 DEF SIndInv, RowsHold
<1>10. UsersKnown'
  BY <1>2, KnownStays DEF SIndInv, UsersKnown
<1>9. OneAtATime'
  <2> SUFFICES ASSUME Calm
               PROVE  /\ \A p, q \in SRequests : {sReq'[p].pc, sReq'[q].pc} \cap {"new", "done", "refused"} = {} => p = q
                      /\ \A q \in SRequests : InHand(q)'
                      /\ ~\A q \in SRequests : sReq'[q].pc \in {"new", "load", "done", "refused"}
    BY DEF OneAtATime, Calm
  <2>1. \A q \in SRequests : q # r => sReq[q].pc \in {"new", "done", "refused"}
    BY OthersWait DEF SIndInv, Begun
  <2>2. \A p \in SRequests : sReq'[p].pc \notin {"new", "done", "refused"} => p = r
    BY <1>1, <2>1
  <2>3. \A q \in SRequests : q # r => InHand(q)'
    BY <1>1, <2>1 DEF SIndInv, OneAtATime, InHand, Begun
  <2>4. sReq'[r].pc \notin {"new", "load", "done", "refused"}
    BY <1>1
  <2> QED
    BY <2>2, <2>3, <2>4
<1> QED
  BY <1>3, <1>6, <1>7, <1>8, <1>9, <1>10 DEF SIndInv

\* The five stages of a request that work on its object alone.
LEMMA CsrfGetKeeps == ASSUME SIndInv, NEW r \in SRequests, CsrfGet(r) PROVE SIndInv'
<1> DEFINE q == sReq[r]
           none == Data(r).token = None
           x == [q EXCEPT !.token = IF none THEN r ELSE Data(r).token,
                          !.pc = IF none THEN "seed" ELSE "check"]
<1>1. /\ q.pc = "csrf" /\ Begun(r) /\ sReq' = [sReq EXCEPT ![r] = x]
      /\ UNCHANGED <<sConf, sHeap, sTable, sJar, sSeen>>
  BY DEF CsrfGet, Begun
<1>2. /\ q \in Visits /\ Data(r) \in Datas /\ q.sess \in Objects
      /\ sHeap[q.sess] \in [id : SomeId, data : Datas]
      /\ sHeap \in SHeapType /\ sReq \in [SRequests -> Visits] /\ r # None
  BY <1>1, SBasics, ObjectIs DEF SIndInv
<1>3. Data(r).token \in SomeToken /\ r \in SomeToken
  BY <1>2 DEF Datas, SomeToken
<1>4. /\ x \in Visits /\ x.pc = (IF none THEN "seed" ELSE "check")
      /\ x.token = (IF none THEN r ELSE Data(r).token) /\ x.status = q.status
      /\ x.cookie = q.cookie /\ x.id = q.id /\ x.sess = q.sess /\ x.sent = q.sent
  <2> DEFINE pc == IF none THEN "seed" ELSE "check"
             token == IF none THEN r ELSE Data(r).token
             y == [q EXCEPT !.token = token]
  <2>1. pc \in Stages /\ token \in SomeToken
    BY <1>3 DEF Stages
  <2> HIDE DEF pc, token
  <2>2. x = [y EXCEPT !.pc = pc]
    BY DEF pc, token
  <2>3. /\ y \in Visits /\ y.token = token /\ y.status = q.status
        /\ y.cookie = q.cookie /\ y.id = q.id /\ y.sess = q.sess /\ y.sent = q.sent
    BY <1>2, <2>1, WithToken
  <2> HIDE DEF x, y
  <2>4. /\ x \in Visits /\ x.pc = pc /\ x.token = token /\ x.status = q.status
        /\ x.cookie = q.cookie /\ x.id = q.id /\ x.sess = q.sess /\ x.sent = q.sent
    BY <2>1, <2>2, <2>3, WithPc
  <2> QED
    BY <2>4 DEF pc, token
<1> HIDE DEF x
<1>5. sReq'[r] = x
  BY <1>1, <1>2
<1>6. sHeap' = [sHeap EXCEPT ![q.sess] = [id |-> sHeap[q.sess].id, data |-> Data(r)]]
  BY <1>1, <1>2 DEF SHeapType, Data
<1>7. Calm => InHand(r)'
  <2> SUFFICES ASSUME Calm PROVE InHand(r)'
    OBVIOUS
  <2>1. /\ q.status = 403 /\ ~sSeen.lost => q.sent = None
        /\ q.id \in SIds /\ verifyID(q.id) /\ sHeap[q.sess].id = q.id
        /\ Data(r) = ReadBack(sSeen.last) /\ (~sSeen.lost => q.sent = Data(r).token)
        /\ ~InMemory => Saved(q.id) = sSeen.last
    BY <1>1 DEF SIndInv, OneAtATime, InHand
  <2>2. /\ Data(r)' = Data(r) /\ verifyID(q.id)'
        /\ ReadBack(sSeen.last)' = ReadBack(sSeen.last) /\ (~InMemory => Saved(q.id) = sSeen.last)'
    BY <1>1, <1>4, <1>5, <2>1 DEF Data, verifyID, ReadBack, Decoded, InMemory, Saved
  <2>3. x.pc \in {"seed", "check"}
    BY <1>4
  <2> QED
    BY <1>1, <1>2, <1>4, <1>5, <2>1, <2>2, <2>3 DEF InHand
<1>9. KnownUser(Data(r))
  BY <1>2 DEF SIndInv, UsersKnown, Data
<1> QED
  BY <1>9, <1>1, <1>2, <1>4, <1>6, <1>7, WorksOn

LEMMA CsrfSeedKeeps == ASSUME SIndInv, NEW r \in SRequests, CsrfSeed(r) PROVE SIndInv'
<1> DEFINE q == sReq[r]
           x == [q EXCEPT !.pc = "check"]
           d == [Data(r) EXCEPT !.token = r]
<1>1. /\ q.pc = "seed" /\ Begun(r) /\ sReq' = [sReq EXCEPT ![r] = x]
      /\ sHeap' = [sHeap EXCEPT ![q.sess].data = d]
      /\ UNCHANGED <<sConf, sTable, sJar, sSeen>>
  BY DEF CsrfSeed, SetData, Goto, Begun
<1>2. /\ q \in Visits /\ Data(r) \in Datas /\ q.sess \in Objects
      /\ sHeap[q.sess] \in [id : SomeId, data : Datas]
      /\ sHeap \in SHeapType /\ sReq \in [SRequests -> Visits] /\ r # None /\ r \in SomeToken
  BY <1>1, SBasics, ObjectIs DEF SIndInv, SomeToken
<1>3. d \in Datas /\ d.token = r /\ d.user = Data(r).user
  BY <1>2 DEF Datas
<1>4. /\ x \in Visits /\ x.pc = "check" /\ x.token = q.token /\ x.status = q.status
      /\ x.cookie = q.cookie /\ x.id = q.id /\ x.sess = q.sess /\ x.sent = q.sent
  BY <1>2 DEF Visits, Stages
<1> HIDE DEF x, d
<1>5. sReq'[r] = x
  BY <1>1, <1>2
<1>6. sHeap' = [sHeap EXCEPT ![q.sess] = [id |-> sHeap[q.sess].id, data |-> d]]
  <2> DEFINE h == sHeap[q.sess]
  <2>1. sHeap' = [sHeap EXCEPT ![q.sess] = [h EXCEPT !.data = d]]
    BY <1>1
  <2>2. [h EXCEPT !.data = d] = [id |-> h.id, data |-> d]
    BY <1>2
  <2> QED
    BY <2>1, <2>2
<1>7. Calm => InHand(r)'
  <2> SUFFICES ASSUME Calm PROVE InHand(r)'
    OBVIOUS
  <2>1. /\ q.status = 403 /\ ~sSeen.lost => q.sent = None
        /\ q.id \in SIds /\ verifyID(q.id) /\ sHeap[q.sess].id = q.id
        /\ q.token = r /\ (~sSeen.lost => q.sent = None) /\ Data(r).user = ReadBack(sSeen.last).user
        /\ ~InMemory => Saved(q.id) = sSeen.last
    BY <1>1 DEF SIndInv, OneAtATime, InHand, Begun
  <2>2. sHeap'[q.sess] = [id |-> sHeap[q.sess].id, data |-> d]
    BY <1>2, <1>6 DEF SHeapType
  <2>3. /\ Data(r)' = d /\ sHeap'[q.sess].id = q.id /\ verifyID(q.id)'
        /\ ReadBack(sSeen.last)' = ReadBack(sSeen.last) /\ (~InMemory => Saved(q.id) = sSeen.last)'
    BY <1>1, <1>4, <1>5, <2>1, <2>2 DEF Data, verifyID, ReadBack, Decoded, InMemory, Saved
  <2> QED
    BY <1>1, <1>2, <1>3, <1>4, <1>5, <2>1, <2>3 DEF InHand
<1>9. KnownUser(d)
  BY <1>2, <1>3, KnownIs DEF SIndInv, UsersKnown, Data
<1> QED
  BY <1>9, <1>1, <1>2, <1>3, <1>4, <1>6, <1>7, WorksOn

LEMMA CsrfCheckKeeps == ASSUME SIndInv, NEW r \in SRequests, CsrfCheck(r) PROVE SIndInv'
<1> DEFINE q == sReq[r]
           passes == Safe(q.op) \/ q.sent = q.token
           x == IF passes THEN [q EXCEPT !.pc = "gate"]
                ELSE [q EXCEPT !.pc = "save", !.status = 403]
<1>2. /\ q.pc = "check" /\ Begun(r) /\ UNCHANGED <<sConf, sHeap, sTable, sJar, sSeen>>
  BY DEF CsrfCheck, Begun
<1>3. /\ q \in Visits /\ Data(r) \in Datas /\ q.sess \in Objects
      /\ sHeap[q.sess] \in [id : SomeId, data : Datas]
      /\ sHeap \in SHeapType /\ sReq \in [SRequests -> Visits]
  BY <1>2, SBasics, ObjectIs DEF SIndInv
<1>1. sReq' = [sReq EXCEPT ![r] = x]
  <2>1. CASE passes
    <3>1. sReq' = [sReq EXCEPT ![r].pc = "gate"]
      BY <2>1 DEF CsrfCheck
    <3> QED
      BY <2>1, <3>1
  <2>2. CASE ~passes
    <3>1. sReq' = [sReq EXCEPT ![r].pc = "save", ![r].status = 403]
      BY <2>2 DEF CsrfCheck
    <3> QED
      BY ZenonT(60), <2>2, <3>1
  <2> QED
    BY <2>1, <2>2
<1>4. /\ x \in Visits /\ x.pc \in {"gate", "save"} /\ x.token = q.token
      /\ x.status = (IF passes THEN q.status ELSE 403)
      /\ x.cookie = q.cookie /\ x.id = q.id /\ x.sess = q.sess /\ x.sent = q.sent
  <2> DEFINE y == [q EXCEPT !.pc = "save"]
  <2>1. "gate" \in Stages /\ "save" \in Stages
    BY DEF Stages
  <2>2. CASE passes
    BY <1>3, <2>1, <2>2, WithPc
  <2>3. CASE ~passes
    <3>1. /\ y \in Visits /\ y.pc = "save" /\ y.token = q.token
          /\ y.cookie = q.cookie /\ y.id = q.id /\ y.sess = q.sess /\ y.sent = q.sent
      BY <1>3, <2>1, WithPc
    <3>2. x = [y EXCEPT !.status = 403]
      BY <2>3
    <3> HIDE DEF x, y, passes
    <3>3. 403 \in Statuses
      BY DEF Statuses
    <3> DEFINE status == 403
    <3> HIDE DEF status
    <3>4. /\ x \in Visits /\ x.pc = "save" /\ x.token = q.token /\ x.status = status
          /\ x.cookie = q.cookie /\ x.id = q.id /\ x.sess = q.sess /\ x.sent = q.sent
      BY <3>1, <3>2, <3>3, WithStatus DEF status
    <3> QED
      BY <2>3, <3>4 DEF status
  <2> QED
    BY <2>2, <2>3
<1> HIDE DEF x
<1>5. sReq'[r] = x
  BY <1>1, <1>3
<1>6. sHeap' = [sHeap EXCEPT ![q.sess] = [id |-> sHeap[q.sess].id, data |-> Data(r)]]
  BY <1>2, <1>3 DEF SHeapType, Data
<1>7. Calm => InHand(r)'
  <2> SUFFICES ASSUME Calm PROVE InHand(r)'
    OBVIOUS
  <2>1. /\ q.status = 403 /\ ~sSeen.lost => q.sent = None
        /\ q.id \in SIds /\ verifyID(q.id) /\ sHeap[q.sess].id = q.id
        /\ Data(r).token = q.token /\ q.token # None /\ (~sSeen.lost => q.sent \in {None, q.token})
        /\ Data(r).user = ReadBack(sSeen.last).user /\ (~InMemory => Saved(q.id) = sSeen.last)
    BY <1>2 DEF SIndInv, OneAtATime, InHand
  <2>2. /\ Data(r)' = Data(r) /\ verifyID(q.id)'
        /\ ReadBack(sSeen.last)' = ReadBack(sSeen.last) /\ (~InMemory => Saved(q.id) = sSeen.last)'
    BY <1>2, <1>4, <1>5, <2>1 DEF Data, verifyID, ReadBack, Decoded, InMemory, Saved
  <2> QED
    BY <1>2, <1>4, <1>5, <2>1, <2>2 DEF InHand
<1>8. x.pc \notin {"new", "load", "destroy", "regen", "done", "refused"} /\ q.pc \notin {"done", "refused"}
  BY <1>2, <1>4
<1>9. KnownUser(Data(r))
  BY <1>3 DEF SIndInv, UsersKnown, Data
<1> QED
  BY ZenonT(60), <1>9, <1>1, <1>2, <1>3, <1>4, <1>6, <1>7, <1>8, WorksOn

LEMMA GateKeeps == ASSUME SIndInv, NEW r \in SRequests, Gate(r) PROVE SIndInv'
<1> DEFINE q == sReq[r]
           status == IF q.op = "logout" /\ ~User(r) THEN 401
                     ELSE IF q.op = "login" /\ User(r) THEN 302 ELSE 200
           x == [q EXCEPT !.auth = User(r), !.status = status,
                          !.pc = IF status = 200 THEN "handle" ELSE "save"]
<1>1. /\ q.pc = "gate" /\ Begun(r) /\ sReq' = [sReq EXCEPT ![r] = x]
      /\ UNCHANGED <<sConf, sHeap, sTable, sJar, sSeen>>
  <2>1. /\ q.pc = "gate" /\ Begun(r) /\ UNCHANGED <<sConf, sHeap, sTable, sJar, sSeen>>
    BY DEF Gate, Begun
  <2>2. sReq' = [sReq EXCEPT ![r].auth = User(r), ![r].status = status,
                             ![r].pc = IF status = 200 THEN "handle" ELSE "save"]
    BY DEF Gate
  <2> HIDE DEF status
  <2>3. sReq' = [sReq EXCEPT ![r] = x]
    BY <2>2
  <2> QED
    BY <2>1, <2>3
<1>2. /\ q \in Visits /\ Data(r) \in Datas /\ q.sess \in Objects
      /\ sHeap[q.sess] \in [id : SomeId, data : Datas]
      /\ sHeap \in SHeapType /\ sReq \in [SRequests -> Visits]
  BY <1>1, SBasics, ObjectIs DEF SIndInv
<1>3. User(r) \in BOOLEAN /\ status \in {200, 302, 401}
  BY DEF User, HasSession
<1> HIDE DEF status
<1>4. /\ x \in Visits /\ x.pc \in {"handle", "save"} /\ x.token = q.token /\ x.status # 403
      /\ x.auth = User(r)
      /\ x.cookie = q.cookie /\ x.id = q.id /\ x.sess = q.sess /\ x.sent = q.sent
  <2> DEFINE pc == IF status = 200 THEN "handle" ELSE "save"
             u == User(r)
             y == [q EXCEPT !.auth = u]
             z == [y EXCEPT !.status = status]
  <2>1. pc \in Stages /\ pc \in {"handle", "save"} /\ status \in Statuses /\ status # 403
        /\ u \in BOOLEAN /\ u = User(r)
    BY <1>3 DEF Stages, Statuses
  <2> HIDE DEF pc, u
  <2>2. x = [z EXCEPT !.pc = pc]
    BY DEF pc, u
  <2>3. /\ y \in Visits /\ y.token = q.token /\ y.auth = u
        /\ y.cookie = q.cookie /\ y.id = q.id /\ y.sess = q.sess /\ y.sent = q.sent
    BY <1>2, <2>1, WithAuth
  <2> HIDE DEF x, y
  <2>4. /\ z \in Visits /\ z.token = q.token /\ z.status = status /\ z.auth = u
        /\ z.cookie = q.cookie /\ z.id = q.id /\ z.sess = q.sess /\ z.sent = q.sent
    BY <2>1, <2>3, WithStatus
  <2> HIDE DEF z
  <2> QED
    BY <2>1, <2>2, <2>4, WithPc
<1> HIDE DEF x
<1>5. sReq'[r] = x
  BY <1>1, <1>2
<1>6. sHeap' = [sHeap EXCEPT ![q.sess] = [id |-> sHeap[q.sess].id, data |-> Data(r)]]
  BY <1>1, <1>2 DEF SHeapType, Data
<1>7. Calm => InHand(r)'
  <2> SUFFICES ASSUME Calm PROVE InHand(r)'
    OBVIOUS
  <2>1. /\ q.id \in SIds /\ verifyID(q.id) /\ sHeap[q.sess].id = q.id
        /\ Data(r).token = q.token /\ q.token # None
        /\ Data(r).user = ReadBack(sSeen.last).user /\ (~InMemory => Saved(q.id) = sSeen.last)
    BY <1>1 DEF SIndInv, OneAtATime, InHand
  <2>2. /\ Data(r)' = Data(r) /\ verifyID(q.id)'
        /\ ReadBack(sSeen.last)' = ReadBack(sSeen.last) /\ (~InMemory => Saved(q.id) = sSeen.last)'
    BY <1>1, <1>4, <1>5, <2>1 DEF Data, verifyID, ReadBack, Decoded, InMemory, Saved
  <2>3. User(r)' = User(r)
    BY <1>1, <2>2 DEF User, HasSession, RetrieveByID
  <2> QED
    BY <1>1, <1>4, <1>5, <2>1, <2>2, <2>3 DEF InHand
<1>8. x.pc \notin {"new", "load", "destroy", "regen", "done", "refused"} /\ q.pc \notin {"done", "refused"}
  BY <1>1, <1>4
<1>9. KnownUser(Data(r))
  BY <1>2 DEF SIndInv, UsersKnown, Data
<1> QED
  BY ZenonT(60), <1>9, <1>1, <1>2, <1>4, <1>6, <1>7, <1>8, WorksOn

LEMMA HandleKeeps == ASSUME SIndInv, NEW r \in SRequests, Handle(r) PROVE SIndInv'
<1> DEFINE q == sReq[r]
           old == Data(r)
           d == CASE q.op = "login" /\ HasSession -> [old EXCEPT !.user = sConf.ids]
                  [] q.op = "logout" /\ HasSession -> [old EXCEPT !.user = "nobody"]
                  [] q.op = "flash" -> [old EXCEPT !.flash = "text"]
                  [] q.op = "flashfunc" -> [old EXCEPT !.flash = "func"]
                  [] q.op = "getflash" -> [old EXCEPT !.flash = "none"]
                  [] OTHER -> old
           auth == HasSession /\ (q.op = "login" \/ (q.op # "logout" /\ q.auth))
           x == [q EXCEPT !.pc = "save", !.auth = auth]
<1>1. /\ q.pc = "handle" /\ Begun(r) /\ sReq' = [sReq EXCEPT ![r] = x]
      /\ sHeap' = [sHeap EXCEPT ![q.sess].data = d]
      /\ UNCHANGED <<sConf, sTable, sJar, sSeen>>
  BY DEF Handle, SetData, Begun
<1>2. /\ q \in Visits /\ old \in Datas /\ q.sess \in Objects
      /\ sHeap[q.sess] \in [id : SomeId, data : Datas]
      /\ sHeap \in SHeapType /\ sReq \in [SRequests -> Visits]
  BY <1>1, SBasics, ObjectIs DEF SIndInv
<1>3. d \in Datas /\ d.token = old.token /\ KnownUser(d)
  <2>0. KnownUser(old)
    BY <1>2 DEF SIndInv, UsersKnown, Data
  <2> HIDE DEF old
  <2>1. \A u \in Users : /\ [old EXCEPT !.user = u] \in Datas /\ [old EXCEPT !.user = u].token = old.token
                          /\ [old EXCEPT !.user = u].user = u
    BY <1>2 DEF Datas
  <2>2. \A f \in {"none", "text", "func"} : /\ [old EXCEPT !.flash = f] \in Datas /\ [old EXCEPT !.flash = f].token = old.token
                          /\ [old EXCEPT !.flash = f].user = old.user
    BY <1>2 DEF Datas
  <2>3. sConf.ids \in Users /\ "nobody" \in Users
    BY <1>2, SessionsAssumption DEF SIndInv, STypeOK, SessionsAssumption, Users
  <2>4. \A e \in Datas : e.user \in {"nobody", sConf.ids, old.user} => KnownUser(e)
    BY <2>0 DEF KnownUser
  <2> QED
    BY <1>2, <2>1, <2>2, <2>3, <2>4
<1>4. auth \in BOOLEAN
  OBVIOUS
<1> HIDE DEF d, auth, old
<1>5. /\ x \in Visits /\ x.pc = "save" /\ x.token = q.token /\ x.status = q.status
      /\ x.cookie = q.cookie /\ x.id = q.id /\ x.sess = q.sess /\ x.sent = q.sent
  <2> DEFINE y == [q EXCEPT !.pc = "save"]
  <2>1. /\ y \in Visits /\ y.pc = "save" /\ y.token = q.token /\ y.status = q.status
        /\ y.cookie = q.cookie /\ y.id = q.id /\ y.sess = q.sess /\ y.sent = q.sent
    BY <1>2, WithPc DEF Stages
  <2>2. x = [y EXCEPT !.auth = auth]
    OBVIOUS
  <2> HIDE DEF x, y
  <2> QED
    BY <1>4, <2>1, <2>2, WithAuth
<1> HIDE DEF x
<1>6. sReq'[r] = x
  BY <1>1, <1>2
<1>7. sHeap' = [sHeap EXCEPT ![q.sess] = [id |-> sHeap[q.sess].id, data |-> d]]
  <2> DEFINE h == sHeap[q.sess]
  <2>1. sHeap' = [sHeap EXCEPT ![q.sess] = [h EXCEPT !.data = d]]
    BY <1>1
  <2>2. [h EXCEPT !.data = d] = [id |-> h.id, data |-> d]
    BY <1>2
  <2> QED
    BY <2>1, <2>2
<1>8. Calm => InHand(r)'
  <2> SUFFICES ASSUME Calm PROVE InHand(r)'
    OBVIOUS
  <2>1. /\ q.status = 403 /\ ~sSeen.lost => q.sent = None
        /\ q.id \in SIds /\ verifyID(q.id) /\ sHeap[q.sess].id = q.id
        /\ old.token = q.token /\ q.token # None /\ (~InMemory => Saved(q.id) = sSeen.last)
    BY <1>1 DEF SIndInv, OneAtATime, InHand, old
  <2>2. sHeap'[q.sess] = [id |-> sHeap[q.sess].id, data |-> d]
    BY <1>2, <1>7 DEF SHeapType
  <2>3. /\ Data(r)' = d /\ sHeap'[q.sess].id = q.id /\ verifyID(q.id)'
        /\ (~InMemory => Saved(q.id) = sSeen.last)'
    BY <1>1, <1>5, <1>6, <2>1, <2>2 DEF Data, verifyID, InMemory, Saved
  <2> QED
    BY <1>1, <1>3, <1>5, <1>6, <2>1, <2>3 DEF InHand
<1> QED
  BY <1>1, <1>2, <1>3, <1>5, <1>7, <1>8, WorksOn

\* A request is sent.
LEMMA SendKeeps ==
  ASSUME SIndInv, NEW r \in SRequests, NEW op \in SOps[r], Send(r, op) PROVE SIndInv'
<1> DEFINE q == sReq[r]
           a == [NewRequest EXCEPT !.pc = "load"]
           b == [a EXCEPT !.op = op]
           c == [b EXCEPT !.cookie = sJar.session]
           x == [c EXCEPT !.sent = sJar.token]
           busy == \E p \in SRequests : sReq[p].pc \notin {"new", "done", "refused"}
<1>1. /\ q.pc = "new" /\ sReq' = [sReq EXCEPT ![r] = x]
      /\ sSeen' = [sSeen EXCEPT !.overlapped = sSeen.overlapped \/ busy]
      /\ UNCHANGED <<sConf, sHeap, sTable, sJar>>
  BY DEF Send
<1>2. /\ STypeOK /\ sReq \in [SRequests -> Visits] /\ sSeen \in SSeenType
      /\ sJar.session \in SomeId /\ sJar.token \in SomeToken
  BY SBasics DEF SIndInv
<1>3. /\ x \in Visits /\ x.pc = "load" /\ x.id = NoId /\ x.sess = NoId /\ x.status = 200
      /\ x.cookie = sJar.session /\ x.sent = sJar.token
  <2>1. /\ NewRequest \in Visits /\ NewRequest.id = NoId /\ NewRequest.sess = NoId
        /\ NewRequest.status = 200
    BY EmptyIs DEF NewRequest, Visits, Stages, Statuses, SomeId, SomeObject, SomeToken
  <2>2. "load" \in Stages /\ op \in {"none"} \cup UNION {SOps[p] : p \in SRequests}
    BY DEF Stages
  <2> HIDE DEF b, c, x
  <2>3. a \in Visits /\ a.pc = "load" /\ a.id = NoId /\ a.sess = NoId /\ a.status = 200
    BY <2>1, <2>2, WithPc
  <2> HIDE DEF a
  <2>4. b \in Visits /\ b.pc = "load" /\ b.id = NoId /\ b.sess = NoId /\ b.status = 200
    BY <2>2, <2>3, WithOp DEF b
  <2>5. /\ c \in Visits /\ c.pc = "load" /\ c.id = NoId /\ c.sess = NoId /\ c.status = 200
        /\ c.cookie = sJar.session
    BY <1>2, <2>4, WithCookie DEF c
  <2> QED
    BY <1>2, <2>5, WithSent DEF x
<1> HIDE DEF x, busy
<1>4. /\ sReq' \in [SRequests -> Visits] /\ sReq'[r] = x
      /\ \A p \in SRequests : p # r => sReq'[p] = sReq[p]
      /\ \A p : Begun(p)' = Begun(p)
  BY <1>1, <1>2, <1>3 DEF Begun
<1>5. /\ sSeen' \in SSeenType /\ sSeen'.lapses = sSeen.lapses /\ sSeen'.last = sSeen.last
      /\ sSeen'.regenerated = sSeen.regenerated /\ sSeen'.overlapped = (sSeen.overlapped \/ busy)
      /\ sSeen'.lost = sSeen.lost
  <2>1. busy \in BOOLEAN
    BY DEF busy
  <2> QED
    BY <1>1, <1>2, <2>1 DEF SSeenType
<1>6. STypeOK'
  BY <1>1, <1>2, <1>4, <1>5 DEF STypeOK, SSeenType
<1>7. NamesIssued'
  BY <1>1, <1>3, <1>4 DEF SIndInv, NamesIssued, Issued
<1>8. \A p \in SRequests : WorksOnAnObject(p)'
  BY <1>1, <1>3, <1>4, <1>5 DEF SIndInv, WorksOnAnObject, Begun
<1>9. RowsHold'
  BY <1>1, <1>4, <1>5 DEF SIndInv, RowsHold, InMemory, Begun
<1>11. UsersKnown'
  BY <1>1, <1>5, KnownStays DEF SIndInv, UsersKnown
<1>10. OneAtATime'
  <2> SUFFICES ASSUME Calm'
               PROVE  /\ \A p, t \in SRequests : {sReq'[p].pc, sReq'[t].pc} \cap {"new", "done", "refused"} = {} => p = t
                      /\ \A p \in SRequests : InHand(p)'
                      /\ JarRemembers'
    BY DEF OneAtATime
  <2>1. Calm /\ ~busy
    BY <1>1, <1>5 DEF Calm
  <2>2. \A p \in SRequests : sReq[p].pc \in {"new", "done", "refused"}
    BY <2>1 DEF busy
  <2>3. JarRemembers /\ \A p \in SRequests : InHand(p)
    BY <2>1, <2>2 DEF SIndInv, OneAtATime
  <2>4. JarRemembers'
    BY <1>1, <1>5, <2>3 DEF JarRemembers, Remembers, Saved, InMemory, verifyID
  <2>5. \A p \in SRequests : p # r => InHand(p)'
    BY <1>1, <1>4, <1>5, <2>2, <2>3 DEF InHand, Begun
  <2>6. InHand(r)'
    BY <1>1, <1>3, <1>4 DEF InHand, Begun
  <2> QED
    BY <1>4, <2>2, <2>4, <2>5, <2>6
<1> QED
  BY <1>6, <1>7, <1>8, <1>9, <1>10, <1>11 DEF SIndInv

\* A request loads its session.
LEMMA LoadKeeps == ASSUME SIndInv, NEW r \in SRequests, Load(r) PROVE SIndInv'
<1> DEFINE q == sReq[r]
           asked == IF q.cookie # NoId THEN q.cookie ELSE <<r, "new">>
           id == IF verifyID(asked) THEN asked ELSE <<r, "reissued">>
           row == sTable[id]
           o == IF InMemory /\ row.live THEN row.object ELSE <<r, "load">>
           data == IF ~row.live THEN Empty ELSE IF InMemory THEN sHeap[o].data ELSE Decoded(row.data)
           entry == [NoRow EXCEPT !.live = TRUE, !.object = o]
           a == [q EXCEPT !.pc = "csrf"]
           b == [a EXCEPT !.id = asked]
           c == [b EXCEPT !.sess = o]
           x == [c EXCEPT !.loaded = data]
<1>1. /\ q.pc = "load" /\ sReq' = [sReq EXCEPT ![r] = x]
      /\ sHeap' = [sHeap EXCEPT ![o] = [id |-> id, data |-> data]]
      /\ sTable' = IF InMemory THEN [sTable EXCEPT ![id] = entry] ELSE sTable
      /\ UNCHANGED <<sConf, sJar, sSeen>>
  BY DEF Load
<1>2. /\ STypeOK /\ sReq \in [SRequests -> Visits] /\ sHeap \in SHeapType /\ sTable \in [SIds -> Rows]
      /\ q \in Visits /\ q.cookie \in SomeId
      /\ \A p \in Objects : sHeap[p].id \in SomeId /\ sHeap[p].data \in Datas
  BY SBasics, VisitIs DEF SIndInv
<1>3. asked \in SIds /\ id \in SIds /\ asked \in SomeId /\ id \in SomeId
  <2>1. asked \in SIds
    BY <1>2, Names DEF SomeId
  <2> HIDE DEF asked
  <2> QED
    BY <2>1, Names
<1>4. row \in Rows /\ row.live \in BOOLEAN /\ row.object \in SomeObject /\ row.data \in Datas
  <2>1. row \in Rows
    BY <1>2, <1>3
  <2> HIDE DEF row
  <2> QED
    BY <2>1 DEF Rows
<1>5. o \in Objects /\ o \in SomeObject /\ (InMemory /\ row.live => o = row.object)
      /\ (~(InMemory /\ row.live) => o = <<r, "load">>)
  <2> HIDE DEF id
  <2>1. InMemory /\ row.live => row.object \in Objects
    BY <1>3 DEF SIndInv, RowsHold
  <2> QED
    BY <2>1, Names
<1> HIDE DEF o
<1>6. data \in Datas /\ KnownUser(data)
  <2>1. KnownUser(row.data) /\ KnownUser(sHeap[o].data)
    BY <1>3, <1>5 DEF SIndInv, UsersKnown
  <2> HIDE DEF row
  <2> QED
    BY <1>2, <1>4, <1>5, <2>1, EmptyIs, ReadBackIs, KnownIs
<1>7. entry \in Rows /\ entry.live /\ entry.object = o
  BY <1>5, EmptyIs DEF Rows, NoRow
<1> HIDE DEF asked, id, data, entry
<1>8. /\ x \in Visits /\ x.pc = "csrf" /\ x.id = asked /\ x.sess = o /\ x.loaded = data
      /\ x.status = q.status /\ x.cookie = q.cookie /\ x.sent = q.sent
  <2>1. "csrf" \in Stages
    BY DEF Stages
  <2> HIDE DEF b, c, x
  <2>2. /\ a \in Visits /\ a.pc = "csrf"
        /\ a.status = q.status /\ a.cookie = q.cookie /\ a.sent = q.sent
    BY <1>2, <2>1, WithPc
  <2> HIDE DEF a
  <2>3. /\ b \in Visits /\ b.pc = "csrf" /\ b.id = asked
        /\ b.status = q.status /\ b.cookie = q.cookie /\ b.sent = q.sent
    BY <1>3, <2>2, WithId DEF b
  <2>4. /\ c \in Visits /\ c.pc = "csrf" /\ c.id = asked /\ c.sess = o
        /\ c.status = q.status /\ c.cookie = q.cookie /\ c.sent = q.sent
    BY <1>5, <2>3, WithSess DEF c
  <2> QED
    BY <1>6, <2>4, WithLoaded DEF x
<1> HIDE DEF x
<1>9. /\ sReq' \in [SRequests -> Visits] /\ sReq'[r] = x
      /\ \A p \in SRequests : p # r => sReq'[p] = sReq[p]
  BY <1>1, <1>2, <1>8
<1>10. /\ sHeap' \in SHeapType /\ sHeap'[o].id = id /\ sHeap'[o].data = data
       /\ \A p \in Objects : p # o => sHeap'[p] = sHeap[p]
  <2>1. [id |-> id, data |-> data] \in [id : SomeId, data : Datas]
    BY <1>3, <1>6
  <2>2. sHeap'[o] = [id |-> id, data |-> data]
    BY <1>1, <1>2, <1>5 DEF SHeapType
  <2>3. sHeap' \in SHeapType /\ \A p \in Objects : p # o => sHeap'[p] = sHeap[p]
    BY <1>1, <1>2, <2>1 DEF SHeapType
  <2> QED
    BY <2>2, <2>3
<1>11. /\ sTable' \in [SIds -> Rows] /\ (~InMemory => sTable' = sTable)
       /\ InMemory => sTable'[id] = entry /\ \A i \in SIds : i # id => sTable'[i] = sTable[i]
  BY <1>1, <1>2, <1>3, <1>7
<1>12. STypeOK'
  BY <1>1, <1>2, <1>9, <1>10, <1>11 DEF STypeOK, SHeapType
<1>13. /\ ~Begun(r) /\ Begun(r)' /\ \A p \in SRequests : p # r => Begun(p)' = Begun(p)
  BY <1>1, <1>8, <1>9 DEF Begun
<1> DEFINE Now(i) == i = NoId \/ sReq'[i[1]].pc \notin {"new", "load", "refused"}
<1>14. /\ \A i : Issued(i) => Now(i)
       /\ \A kind : Now(<<r, kind>>) /\ (<<r, kind>> # NoId => ~Issued(<<r, kind>>))
  <2>1. \A p : Begun(p) => sReq'[p].pc \notin {"new", "load", "refused"}
    BY <1>1, <1>2, <1>8 DEF Begun
  <2>2. sReq'[r].pc \notin {"new", "load", "refused"}
    BY <1>8, <1>9
  <2> QED
    BY <1>13, <2>1, <2>2 DEF Issued
<1> HIDE DEF Now
<1>15. Now(id) /\ Now(asked) /\ Now(o)
  <2>1. Issued(q.cookie)
    BY DEF SIndInv, NamesIssued
  <2>2. Now(asked)
    BY <1>14, <2>1 DEF asked
  <2>3. Now(id)
    BY <1>14, <2>2 DEF id
  <2>4. Issued(row.object)
    BY <1>3 DEF SIndInv, NamesIssued
  <2> QED
    BY <1>5, <1>14, <2>2, <2>3, <2>4
<1>16. NamesIssued'
  <2>1. Now(sJar.session)
    BY <1>14 DEF SIndInv, NamesIssued
  <2>2. \A p \in SRequests : Now(sReq'[p].cookie) /\ Now(sReq'[p].id) /\ Now(sReq'[p].sess)
    BY <1>8, <1>9, <1>14, <1>15 DEF SIndInv, NamesIssued
  <2>3. \A p \in Objects : Now(sHeap'[p].id)
    BY <1>10, <1>14, <1>15 DEF SIndInv, NamesIssued
  <2>4. \A i \in SIds : (sTable'[i].live => Now(i)) /\ Now(sTable'[i].object)
    BY <1>7, <1>11, <1>14, <1>15 DEF SIndInv, NamesIssued
  <2> QED
    BY <1>1, <2>1, <2>2, <2>3, <2>4 DEF NamesIssued, Issued, Begun, Now
<1>17. \A p \in SRequests : WorksOnAnObject(p)'
  <2> SUFFICES ASSUME NEW p \in SRequests PROVE WorksOnAnObject(p)'
    OBVIOUS
  <2>1. CASE p = r
    BY <1>3, <1>5, <1>8, <1>9, <1>10, <1>13, <2>1 DEF WorksOnAnObject
  <2>2. CASE p # r
    BY <1>1, <1>3, <1>9, <1>10, <1>13, <2>2 DEF SIndInv, WorksOnAnObject
  <2> QED
    BY <2>1, <2>2
<1>18. RowsHold'
  <2> SUFFICES ASSUME InMemory
               PROVE  /\ \A i \in SIds : sTable'[i].live => sTable'[i].object \in Objects
                      /\ ~sSeen.regenerated =>
                           /\ \A i \in SIds : sTable'[i].live => sHeap'[sTable'[i].object].id = i
                           /\ \A p \in SRequests : Begun(p)' =>
                                LET w == sTable'[sHeap'[sReq'[p].sess].id] IN
                                w.live /\ w.object = sReq'[p].sess
    BY <1>1 DEF RowsHold, InMemory
  <2>1. \A i \in SIds : sTable[i].live => sTable[i].object \in Objects
    BY DEF SIndInv, RowsHold
  <2>2. \A i \in SIds : sTable'[i].live => sTable'[i].object \in Objects
    BY <1>5, <1>7, <1>11, <2>1
  <2> SUFFICES ASSUME ~sSeen.regenerated
               PROVE  /\ \A i \in SIds : sTable'[i].live => sHeap'[sTable'[i].object].id = i
                      /\ \A p \in SRequests : Begun(p)' =>
                           LET w == sTable'[sHeap'[sReq'[p].sess].id] IN
                           w.live /\ w.object = sReq'[p].sess
    BY <2>2
  <2>3. /\ \A i \in SIds : sTable[i].live => sHeap[sTable[i].object].id = i
        /\ \A p \in SRequests : Begun(p) =>
             LET w == sTable[sHeap[sReq[p].sess].id] IN w.live /\ w.object = sReq[p].sess
    BY DEF SIndInv, RowsHold
  <2>4. ASSUME NEW i \in SIds, i # id, sTable[i].live PROVE sTable[i].object # o
    <3>1. Issued(sTable[i].object) /\ sTable[i].object \in Objects /\ sHeap[sTable[i].object].id = i
      BY <2>1, <2>3, <2>4 DEF SIndInv, NamesIssued
    <3>2. CASE row.live
      BY <1>3, <1>5, <2>3, <2>4, <3>1, <3>2
    <3>3. CASE ~row.live
      BY <1>5, <1>14, <3>1, <3>3, Names
    <3> QED
      BY <3>2, <3>3
  <2>5. ASSUME NEW i \in SIds, sTable'[i].live PROVE sHeap'[sTable'[i].object].id = i
    BY <1>7, <1>10, <1>11, <2>1, <2>3, <2>4, <2>5
  <2>6. ASSUME NEW p \in SRequests, Begun(p)'
        PROVE  LET w == sTable'[sHeap'[sReq'[p].sess].id] IN w.live /\ w.object = sReq'[p].sess
    <3>1. CASE sReq'[p].sess = o
      BY <1>7, <1>10, <1>11, <3>1
    <3>2. CASE sReq'[p].sess # o
      <4> DEFINE t == sReq[p].sess
      <4>1. p # r /\ sReq'[p] = sReq[p] /\ Begun(p)
        BY <1>8, <1>9, <1>13, <2>6, <3>2
      <4>2. t \in Objects /\ t # o /\ sHeap[t].id \in SIds
        BY <3>2, <4>1 DEF SIndInv, WorksOnAnObject
      <4>3. sTable[sHeap[t].id].live /\ sTable[sHeap[t].id].object = t
        BY <2>3, <4>1
      <4> HIDE DEF t
      <4>4. sHeap[t].id # id
        BY <1>5, <4>2, <4>3
      <4> QED
        BY <1>10, <1>11, <4>1, <4>2, <4>3, <4>4 DEF t
    <3> QED
      BY <3>1, <3>2
  <2> QED
    BY <2>5, <2>6
<1>20. UsersKnown'
  <2>1. KnownUser(entry.data)
    BY KnownIs DEF entry, NoRow
  <2> QED
    BY <1>1, <1>6, <1>10, <1>11, <2>1, KnownStays DEF SIndInv, UsersKnown
<1>19. OneAtATime'
  <2> SUFFICES ASSUME Calm
               PROVE  /\ \A p, t \in SRequests : {sReq'[p].pc, sReq'[t].pc} \cap {"new", "done", "refused"} = {} => p = t
                      /\ \A p \in SRequests : InHand(p)'
                      /\ ~\A p \in SRequests : sReq'[p].pc \in {"new", "load", "done", "refused"}
    BY <1>1 DEF OneAtATime, Calm
  <2>1. \A p \in SRequests : p # r => sReq[p].pc \in {"new", "done", "refused"}
    BY <1>1, OthersWait DEF SIndInv
  <2>2. JarRemembers /\ InHand(r)
    BY <1>1, <2>1 DEF SIndInv, OneAtATime
  <2>3. /\ q.status = 403 /\ ~sSeen.lost => q.sent = None
        /\ q.cookie = sJar.session /\ q.sent = sJar.token
    BY <1>1, <2>2 DEF InHand
  <2>4. verifyID(asked) /\ id = asked /\ data = ReadBack(sSeen.last)
        /\ (~sSeen.lost => q.sent = data.token) /\ Saved(asked) = sSeen.last
    <3>1. CASE q.cookie = NoId
      <4>1. asked = <<r, "new">> /\ asked[2] = "new" /\ asked # NoId
        BY <1>3, <3>1, Names DEF asked
      <4>2. verifyID(asked)
        BY <4>1 DEF Calm, verifyID
      <4>3. id = asked
        BY <4>2 DEF id
      <4>4. ~row.live
        BY <1>3, <1>14, <4>1, <4>3 DEF SIndInv, NamesIssued
      <4>5. data = Empty /\ Empty.token = None
        BY <4>4 DEF data, Empty
      <4>6. sSeen.last = Empty /\ q.sent = None
        BY <2>2, <2>3, <3>1 DEF JarRemembers
      <4>7. Saved(asked) = Empty
        BY <4>3, <4>4 DEF Saved
      <4> QED
        BY <4>2, <4>3, <4>5, <4>6, <4>7, ReadBackIs
    <3>2. CASE q.cookie # NoId
      <4>1. asked = q.cookie /\ Remembers(asked, q.sent)
        BY <2>2, <2>3, <3>2 DEF JarRemembers, asked
      <4>2. id = asked /\ verifyID(asked) /\ Saved(asked) = sSeen.last
        BY <4>1 DEF Remembers, id
      <4>3. data = ReadBack(Saved(asked))
        BY <1>5, <4>2, ReadBackIs DEF data, Saved, ReadBack
      <4>4. sSeen.last \in Datas
        BY <1>2 DEF STypeOK
      <4>5. ~sSeen.lost => q.sent = sSeen.last.token
        BY <4>1 DEF Remembers
      <4> QED
        BY <4>2, <4>3, <4>4, <4>5, ReadBackIs
    <3> QED
      BY <3>1, <3>2
  <2>5. InHand(r)'
    <3>1. /\ Data(r)' = data /\ sHeap'[sReq'[r].sess].id = asked /\ sSeen' = sSeen
          /\ ReadBack(sSeen.last)' = ReadBack(sSeen.last)
      BY <1>1, <1>8, <1>9, <1>10, <2>4 DEF Data, ReadBack, Decoded, InMemory
    <3>3. (~InMemory => Saved(sReq[r].id) = sSeen.last)'
      BY <1>1, <1>8, <1>9, <2>4 DEF Saved, InMemory
    <3>2. verifyID(sReq[r].id)'
      BY <1>1, <1>8, <1>9, <2>4 DEF verifyID
    <3> QED
      BY <1>3, <1>8, <1>9, <2>3, <2>4, <3>1, <3>2, <3>3 DEF InHand
  <2>6. \A p \in SRequests : p # r => InHand(p)'
    BY <1>9, <2>1 DEF SIndInv, OneAtATime, InHand, Begun
  <2> QED
    BY <1>8, <1>9, <2>1, <2>5, <2>6
<1> QED
  BY <1>12, <1>16, <1>17, <1>18, <1>19, <1>20 DEF SIndInv

\* RegenerateSessionID, in its three steps: what it leaves of an ID is said of no request any more.
LEMMA RegenerateCopyKeeps == ASSUME SIndInv, NEW r \in SRequests, RegenerateCopy(r) PROVE SIndInv'
<1> DEFINE q == sReq[r]
           x == [q EXCEPT !.pc = "destroy"]
           o == <<r, "regen">>
           e == [id |-> <<r, "regenerated">>, data |-> IF InMemory THEN Data(r) ELSE Empty]
<1>1. /\ q.pc = "handle" /\ Begun(r) /\ sReq' = [sReq EXCEPT ![r] = x]
      /\ sHeap' = [sHeap EXCEPT ![o] = e]
      /\ sSeen' = [sSeen EXCEPT !.regenerated = TRUE]
      /\ UNCHANGED <<sConf, sTable, sJar>>
  BY DEF RegenerateCopy, Goto, Begun
<1>2. /\ STypeOK /\ sReq \in [SRequests -> Visits] /\ sHeap \in SHeapType /\ sTable \in [SIds -> Rows]
      /\ sSeen \in SSeenType /\ q \in Visits /\ q.sess \in Objects /\ sHeap[q.sess].id \in SIds
      /\ Data(r) \in Datas
  BY <1>1, SBasics, ObjectIs DEF SIndInv
<1>3. /\ x \in Visits /\ x.pc = "destroy" /\ x.token = q.token /\ x.status = q.status
      /\ x.cookie = q.cookie /\ x.id = q.id /\ x.sess = q.sess /\ x.sent = q.sent
  BY ZenonT(60), <1>2, WithPc DEF Stages
<1> HIDE DEF x
<1>4. /\ sReq' \in [SRequests -> Visits] /\ sReq'[r] = x
      /\ \A p \in SRequests : p # r => sReq'[p] = sReq[p]
      /\ \A p : Begun(p)' = Begun(p)
      /\ \A p \in SRequests : sReq'[p].sess = sReq[p].sess /\ sReq'[p].cookie = sReq[p].cookie
  BY <1>1, <1>2, <1>3 DEF Begun
<1>5. /\ e \in [id : SomeId, data : Datas] /\ e.id = <<r, "regenerated">> /\ e.id \in SIds
      /\ o \in Objects
  BY <1>2, Names, EmptyIs
<1>13. KnownUser(e.data)
  BY <1>2, KnownIs DEF SIndInv, UsersKnown, Data
<1> HIDE DEF o, e
<1>6. /\ sHeap' \in SHeapType /\ sHeap'[o] = e
      /\ \A p \in Objects : p # o => sHeap'[p] = sHeap[p]
  BY <1>1, <1>2, <1>5 DEF SHeapType
<1>7. sSeen' \in SSeenType /\ sSeen'.regenerated
  BY <1>1, <1>2 DEF SSeenType
<1>8. STypeOK'
  BY <1>1, <1>2, <1>4, <1>6, <1>7 DEF STypeOK, SHeapType, SSeenType
<1>9. NamesIssued'
  <2>1. \A p \in Objects : sHeap'[p].id = sHeap[p].id \/ sHeap'[p].id = <<r, "regenerated">>
    BY <1>5, <1>6
  <2>2. \A p \in SRequests : sReq'[p].id = sReq[p].id
    BY <1>3, <1>4
  <2> QED
    BY <1>1, <1>4, <2>1, <2>2 DEF SIndInv, NamesIssued, Issued
<1>10. \A p \in SRequests : WorksOnAnObject(p)'
  BY <1>3, <1>4, <1>5, <1>6, <1>7 DEF SIndInv, WorksOnAnObject
<1>11. RowsHold'
  BY <1>1, <1>7 DEF SIndInv, RowsHold, InMemory
<1>14. UsersKnown'
  <2>1. sSeen'.last = sSeen.last
    BY <1>1, <1>2 DEF SSeenType
  <2> QED
    BY <1>1, <1>6, <1>13, <2>1, KnownStays DEF SIndInv, UsersKnown
<1>12. OneAtATime'
  BY <1>7 DEF OneAtATime, Calm
<1> QED
  BY <1>8, <1>9, <1>10, <1>11, <1>12, <1>14 DEF SIndInv

LEMMA OneMoreFault ==
  ASSUME sSeen \in SSeenType, MayFail, sSeen' = [sSeen EXCEPT !.faults = sSeen.faults + 1]
  PROVE  /\ sSeen' \in SSeenType /\ sSeen'.lapses = sSeen.lapses
         /\ sSeen'.overlapped = sSeen.overlapped /\ sSeen'.regenerated = sSeen.regenerated
         /\ sSeen'.lost = sSeen.lost /\ sSeen'.last = sSeen.last
<1>1. sSeen.faults + 1 \in 0 .. SFaults
  BY SessionsAssumption DEF SSeenType, MayFail, SessionsAssumption
<1> QED
  BY <1>1 DEF SSeenType

LEMMA DestroyKeeps == ASSUME SIndInv, NEW r \in SRequests, Destroy(r) PROVE SIndInv'
<1> DEFINE q == sReq[r]
           x == [q EXCEPT !.pc = "regen"]
           i == sHeap[q.sess].id
<1>1. /\ q.pc = "destroy" /\ Begun(r) /\ sReq' = [sReq EXCEPT ![r] = x]
      /\ sTable' = [sTable EXCEPT ![i] = NoRow] \/ sTable' = sTable
      /\ \/ sSeen' = sSeen
         \/ MayFail /\ sSeen' = [sSeen EXCEPT !.faults = sSeen.faults + 1]
      /\ UNCHANGED <<sConf, sHeap, sJar>>
  BY DEF Destroy, Goto, Begun
<1>2. /\ STypeOK /\ sReq \in [SRequests -> Visits] /\ sHeap \in SHeapType /\ sTable \in [SIds -> Rows]
      /\ sSeen \in SSeenType /\ q \in Visits /\ q.sess \in Objects /\ sHeap[q.sess].id \in SIds
      /\ Data(r) \in Datas
  BY <1>1, SBasics, ObjectIs DEF SIndInv
<1>3. /\ x \in Visits /\ x.pc = "regen" /\ x.token = q.token /\ x.status = q.status
      /\ x.cookie = q.cookie /\ x.id = q.id /\ x.sess = q.sess /\ x.sent = q.sent
  <2>1. q \in Visits /\ "regen" \in Stages
    BY <1>2 DEF Stages
  <2> HIDE DEF q
  <2> QED
    BY <2>1, WithPc
<1> HIDE DEF x
<1>4. /\ sReq' \in [SRequests -> Visits] /\ sReq'[r] = x
      /\ \A p \in SRequests : p # r => sReq'[p] = sReq[p]
      /\ \A p : Begun(p)' = Begun(p)
      /\ \A p \in SRequests : sReq'[p].sess = sReq[p].sess /\ sReq'[p].cookie = sReq[p].cookie
  BY <1>1, <1>2, <1>3 DEF Begun
<1>5. sSeen.regenerated /\ sSeen' \in SSeenType /\ sSeen'.regenerated /\ sSeen'.last = sSeen.last
  BY <1>1, <1>2, OneMoreFault DEF SIndInv, WorksOnAnObject
<1> HIDE DEF i
<1>6. /\ sTable' \in [SIds -> Rows]
      /\ \A j \in SIds : sTable'[j] = sTable[j] \/ sTable'[j] = NoRow
  BY <1>1, <1>2, EmptyIs
<1>7. STypeOK'
  BY <1>1, <1>2, <1>4, <1>5, <1>6 DEF STypeOK, SSeenType
<1>8. NamesIssued'
  <2>1. \A p \in SRequests : sReq'[p].id = sReq[p].id
    BY <1>3, <1>4
  <2>2. \A j \in SIds : (sTable'[j].live => sTable[j].live)
                       /\ (sTable'[j].object = sTable[j].object \/ sTable'[j].object = NoId)
    BY <1>6, EmptyIs
  <2> QED
    BY <1>1, <1>4, <2>1, <2>2 DEF SIndInv, NamesIssued, Issued
<1>9. \A p \in SRequests : WorksOnAnObject(p)'
  BY <1>1, <1>3, <1>4, <1>5 DEF SIndInv, WorksOnAnObject
<1>10. RowsHold'
  BY <1>1, <1>5, <1>6, EmptyIs DEF SIndInv, RowsHold, InMemory
<1>12. UsersKnown'
  <2>1. KnownUser(NoRow.data)
    BY KnownIs DEF NoRow
  <2> QED
    BY <1>1, <1>5, <1>6, <2>1, KnownStays DEF SIndInv, UsersKnown
<1>11. OneAtATime'
  BY <1>1, <1>5 DEF OneAtATime, Calm
<1> QED
  BY <1>7, <1>8, <1>9, <1>10, <1>11, <1>12 DEF SIndInv

LEMMA RegenerateSaveKeeps == ASSUME SIndInv, NEW r \in SRequests, RegenerateSave(r) PROVE SIndInv'
<1> DEFINE q == sReq[r]
           new == <<r, "regenerated">>
           o == <<r, "regen">>
           y == [q EXCEPT !.pc = "save"]
           x == IF InMemory THEN [q EXCEPT !.id = new, !.pc = "save"] ELSE y
           entry == [NoRow EXCEPT !.live = TRUE, !.object = o]
<1>1. /\ q.pc = "regen" /\ Begun(r) /\ sReq' = [sReq EXCEPT ![r] = x]
      /\ sTable' = IF InMemory THEN [sTable EXCEPT ![new] = entry] ELSE sTable
      /\ UNCHANGED <<sConf, sHeap, sJar, sSeen>>
  BY DEF RegenerateSave, Goto, Begun
<1>2. /\ STypeOK /\ sReq \in [SRequests -> Visits] /\ sHeap \in SHeapType /\ sTable \in [SIds -> Rows]
      /\ sSeen \in SSeenType /\ q \in Visits /\ q.sess \in Objects /\ sHeap[q.sess].id \in SIds
      /\ Data(r) \in Datas
  BY <1>1, SBasics, ObjectIs DEF SIndInv
<1>3. /\ x \in Visits /\ x.pc = "save" /\ x.id \in {q.id, new}
      /\ x.cookie = q.cookie /\ x.sess = q.sess
  <2>1. "save" \in Stages /\ new \in SomeId
    BY Names DEF Stages
  <2>2. CASE InMemory
    <3> DEFINE z == [q EXCEPT !.id = new]
    <3>1. z \in Visits /\ z.id = new /\ z.cookie = q.cookie /\ z.sess = q.sess
      BY <1>2, <2>1, WithId
    <3>2. x = [z EXCEPT !.pc = "save"]
      BY <2>2
    <3> HIDE DEF x, z
    <3> QED
      BY <2>1, <3>1, <3>2, WithPc
  <2>3. CASE ~InMemory
    <3>1. x = y
      BY <2>3
    <3> HIDE DEF x
    <3> QED
      BY <1>2, <2>1, <3>1, WithPc
  <2> QED
    BY <2>2, <2>3
<1> HIDE DEF x
<1>4. /\ sReq' \in [SRequests -> Visits] /\ sReq'[r] = x
      /\ \A p \in SRequests : p # r => sReq'[p] = sReq[p]
      /\ \A p : Begun(p)' = Begun(p)
      /\ \A p \in SRequests : sReq'[p].sess = sReq[p].sess /\ sReq'[p].cookie = sReq[p].cookie
  BY <1>1, <1>2, <1>3 DEF Begun
<1>5. sSeen.regenerated
  BY <1>1 DEF SIndInv, WorksOnAnObject
<1>6. entry \in Rows /\ entry.object = o /\ o \in Objects /\ KnownUser(entry.data)
  BY Names, EmptyIs, KnownIs DEF Rows, NoRow
<1> HIDE DEF entry
<1>7. /\ sTable' \in [SIds -> Rows]
      /\ ~InMemory => sTable' = sTable
      /\ \A j \in SIds : sTable'[j] = sTable[j] \/ (j = new /\ sTable'[j] = entry)
  BY <1>1, <1>2, <1>6, Names
<1>8. STypeOK'
  BY <1>1, <1>2, <1>4, <1>7 DEF STypeOK
<1>9. NamesIssued'
  <2>1. \A p \in SRequests : sReq'[p].id \in {sReq[p].id, new}
    BY <1>3, <1>4
  <2>2. \A j \in SIds : (sTable'[j].live => sTable[j].live \/ j = new)
                       /\ sTable'[j].object \in {sTable[j].object, o}
    BY <1>6, <1>7
  <2> QED
    BY <1>1, <1>4, <2>1, <2>2 DEF SIndInv, NamesIssued, Issued
<1>10. \A p \in SRequests : WorksOnAnObject(p)'
  BY <1>1, <1>3, <1>4, <1>5 DEF SIndInv, WorksOnAnObject
<1>11. RowsHold'
  BY <1>1, <1>5, <1>6, <1>7 DEF SIndInv, RowsHold, InMemory
<1>13. UsersKnown'
  BY <1>1, <1>6, <1>7, KnownStays DEF SIndInv, UsersKnown
<1>12. OneAtATime'
  BY <1>1, <1>5 DEF OneAtATime, Calm
<1> QED
  BY <1>8, <1>9, <1>10, <1>11, <1>12, <1>13 DEF SIndInv

\* The middleware saves.
LEMMA SaveEndsKeeps ==
  ASSUME SIndInv, NEW r \in SRequests, sReq[r].pc = "save", NEW written \in BOOLEAN,
         NEW faults \in 0 .. SFaults, SaveEnds(r, written, faults), InMemory => written
  PROVE  SIndInv'
<1> DEFINE q == sReq[r]
           x == [q EXCEPT !.pc = "answered"]
           o == q.sess
           i == sHeap[o].id
           entry == IF InMemory THEN [NoRow EXCEPT !.live = TRUE, !.object = o]
                    ELSE [NoRow EXCEPT !.live = TRUE, !.data = sHeap[o].data]
<1>1. /\ q.pc = "save" /\ Begun(r) /\ sReq' = [sReq EXCEPT ![r] = x]
      /\ sTable' = IF written THEN [sTable EXCEPT ![i] = entry] ELSE sTable
      /\ sSeen' = [sSeen EXCEPT !.faults = faults, !.lost = sSeen.lost \/ ~written,
                               !.last = IF written THEN Data(r) ELSE sSeen.last]
      /\ UNCHANGED <<sConf, sHeap, sJar>>
  BY DEF SaveEnds, Goto, Begun
<1>2. /\ STypeOK /\ sReq \in [SRequests -> Visits] /\ sHeap \in SHeapType /\ sTable \in [SIds -> Rows]
      /\ sSeen \in SSeenType /\ q \in Visits /\ q.sess \in Objects /\ sHeap[q.sess].id \in SIds
      /\ Data(r) \in Datas
  BY <1>1, SBasics, ObjectIs DEF SIndInv
<1>3. /\ x \in Visits /\ x.pc = "answered" /\ x.token = q.token /\ x.status = q.status
      /\ x.cookie = q.cookie /\ x.id = q.id /\ x.sess = q.sess /\ x.sent = q.sent
  BY <1>2, WithPc DEF Stages
<1> HIDE DEF x
<1>4. /\ sReq' \in [SRequests -> Visits] /\ sReq'[r] = x
      /\ \A p \in SRequests : p # r => sReq'[p] = sReq[p]
      /\ \A p : Begun(p)' = Begun(p)
      /\ \A p \in SRequests : sReq'[p].sess = sReq[p].sess /\ sReq'[p].cookie = sReq[p].cookie
  BY <1>1, <1>2, <1>3 DEF Begun
<1>5. /\ entry \in Rows /\ entry.live /\ entry.object \in {o, NoId}
      /\ InMemory => entry.object = o
      /\ ~InMemory => entry.data = Data(r)
      /\ KnownUser(entry.data)
  <2>1. KnownUser(Data(r)) /\ KnownUser(Empty)
    BY <1>2, KnownIs DEF SIndInv, UsersKnown, Data
  <2> QED
    BY <1>2, <2>1, EmptyIs, Names DEF Rows, NoRow, Data
<1> HIDE DEF entry
<1>6. /\ sTable' \in [SIds -> Rows] /\ sTable'[i] = (IF written THEN entry ELSE sTable[i])
      /\ \A j \in SIds : j # i => sTable'[j] = sTable[j]
  BY <1>1, <1>2, <1>5
<1>7. /\ sSeen' \in SSeenType /\ sSeen'.last = (IF written THEN Data(r) ELSE sSeen.last)
      /\ sSeen'.lost = (sSeen.lost \/ ~written)
      /\ sSeen'.lapses = sSeen.lapses /\ sSeen'.overlapped = sSeen.overlapped
      /\ sSeen'.regenerated = sSeen.regenerated
  BY <1>1, <1>2 DEF SSeenType
<1>8. STypeOK'
  BY <1>1, <1>2, <1>4, <1>6, <1>7 DEF STypeOK, SSeenType
<1>9. NamesIssued'
  <2>1. \A p \in SRequests : sReq'[p].id = sReq[p].id
    BY <1>3, <1>4
  <2>2. Issued(i) /\ Issued(o) /\ Issued(NoId)
    BY <1>2 DEF SIndInv, NamesIssued, Issued
  <2>3. \A j \in SIds : (sTable'[j].live => Issued(j)) /\ Issued(sTable'[j].object)
    BY <1>5, <1>6, <2>2 DEF SIndInv, NamesIssued
  <2> QED
    BY <1>1, <1>4, <2>1, <2>3 DEF SIndInv, NamesIssued, Issued
<1>10. \A p \in SRequests : WorksOnAnObject(p)'
  BY <1>1, <1>3, <1>4, <1>7 DEF SIndInv, WorksOnAnObject
<1>11. RowsHold'
  <2>0. /\ InMemory' = InMemory /\ sHeap' = sHeap /\ sSeen'.regenerated = sSeen.regenerated
        /\ \A p \in SRequests : sReq'[p].sess = sReq[p].sess
        /\ \A p : Begun(p)' = Begun(p)
    BY <1>1, <1>4, <1>7 DEF InMemory
  <2> SUFFICES ASSUME InMemory
               PROVE  /\ \A j \in SIds : sTable'[j].live => sTable'[j].object \in Objects
                      /\ ~sSeen.regenerated =>
                           /\ \A j \in SIds : sTable'[j].live => sHeap[sTable'[j].object].id = j
                           /\ \A p \in SRequests : Begun(p) =>
                                LET w == sTable'[sHeap[sReq[p].sess].id] IN
                                w.live /\ w.object = sReq[p].sess
    BY ZenonT(60), <2>0 DEF RowsHold
  <2>1. \A j \in SIds : sTable[j].live => sTable[j].object \in Objects
    BY DEF SIndInv, RowsHold
  <2>2. \A j \in SIds : sTable'[j].live => sTable'[j].object \in Objects
    BY <1>2, <1>5, <1>6, <2>1
  <2> SUFFICES ASSUME ~sSeen.regenerated
               PROVE  /\ \A j \in SIds : sTable'[j].live => sHeap[sTable'[j].object].id = j
                      /\ \A p \in SRequests : Begun(p) =>
                           LET w == sTable'[sHeap[sReq[p].sess].id] IN
                           w.live /\ w.object = sReq[p].sess
    BY <2>2
  <2>3. /\ \A j \in SIds : sTable[j].live => sHeap[sTable[j].object].id = j
        /\ \A p \in SRequests : Begun(p) =>
             LET w == sTable[sHeap[sReq[p].sess].id] IN w.live /\ w.object = sReq[p].sess
    BY DEF SIndInv, RowsHold
  <2>4. ASSUME NEW j \in SIds
        PROVE  /\ sTable[j].live => sTable'[j].live
               /\ sTable'[j].live => sTable[j].live
               /\ sTable'[j].live => sTable'[j].object = sTable[j].object
    <3>1. CASE j # i
      BY <1>6, <3>1
    <3>2. CASE j = i
      <4>1. sTable[i].live /\ sTable[i].object = o
        BY <1>1, <2>3
      <4>2. entry.live /\ entry.object = o
        BY <1>5
      <4> QED
        BY <1>6, <3>2, <4>1, <4>2
    <3> QED
      BY <3>1, <3>2
  <2>5. \A p \in SRequests : Begun(p) => sHeap[sReq[p].sess].id \in SIds
    BY DEF SIndInv, WorksOnAnObject
  <2>6. ASSUME NEW j \in SIds, sTable'[j].live PROVE sHeap[sTable'[j].object].id = j
    <3>1. sTable[j].live
      BY <2>4, <2>6
    <3>2. sTable'[j].object = sTable[j].object
      BY <2>4, <2>6
    <3> QED
      BY <2>3, <3>1, <3>2
  <2>7. ASSUME NEW p \in SRequests, Begun(p)
        PROVE  LET w == sTable'[sHeap[sReq[p].sess].id] IN w.live /\ w.object = sReq[p].sess
    <3> DEFINE j == sHeap[sReq[p].sess].id
    <3>1. j \in SIds /\ sTable[j].live /\ sTable[j].object = sReq[p].sess
      BY <2>3, <2>5, <2>7
    <3> HIDE DEF j
    <3>2. sTable'[j].live
      BY <2>4, <3>1
    <3>3. sTable'[j].object = sReq[p].sess
      BY <2>4, <3>1, <3>2
    <3> QED
      BY <3>2, <3>3 DEF j
  <2> QED
    BY <2>6, <2>7
<1>13. UsersKnown'
  <2>1. KnownUser(Data(r))
    BY <1>2 DEF SIndInv, UsersKnown, Data
  <2> QED
    BY <1>1, <1>5, <1>6, <1>7, <2>1, KnownStays DEF SIndInv, UsersKnown
<1>12. OneAtATime'
  <2> SUFFICES ASSUME Calm
               PROVE  /\ \A p, t \in SRequests : {sReq'[p].pc, sReq'[t].pc} \cap {"new", "done", "refused"} = {} => p = t
                      /\ \A p \in SRequests : InHand(p)'
                      /\ ~\A p \in SRequests : sReq'[p].pc \in {"new", "load", "done", "refused"}
    BY <1>1, <1>7 DEF OneAtATime, Calm
  <2>1. \A p \in SRequests : p # r => sReq[p].pc \in {"new", "done", "refused"}
    BY <1>1, OthersWait DEF SIndInv
  <2>2. /\ q.status = 403 /\ ~sSeen.lost => q.sent = None
        /\ q.id \in SIds /\ verifyID(q.id) /\ i = q.id
        /\ Data(r).token = q.token /\ q.token # None
        /\ ~InMemory => Saved(q.id) = sSeen.last
    BY <1>1 DEF SIndInv, OneAtATime, InHand
  <2>3. Saved(sReq[r].id)' = IF written THEN Data(r) ELSE sSeen.last
    <3>1. sReq'[r].id = i
      BY <1>3, <1>4, <2>2
    <3>2. InMemory' = InMemory
      BY <1>1 DEF InMemory
    <3>3. CASE InMemory
      <4>1. sTable'[i].object = o /\ sTable'[i].live
        BY <1>5, <1>6, <3>3
      <4> QED
        BY <1>1, <3>1, <3>2, <3>3, <4>1 DEF Saved, Data
    <3>4. CASE ~InMemory /\ written
      <4>1. sTable'[i].data = Data(r) /\ sTable'[i].live
        BY <1>5, <1>6, <3>4
      <4> QED
        BY <3>1, <3>2, <3>4, <4>1 DEF Saved
    <3>5. CASE ~InMemory /\ ~written
      <4>1. sTable' = sTable /\ sReq'[r].id = q.id /\ Saved(q.id) = sSeen.last
        BY <1>1, <1>3, <1>4, <2>2, <3>5
      <4> QED
        BY <3>2, <3>5, <4>1 DEF Saved
    <3> QED
      BY <3>3, <3>4, <3>5
  <2>4. Remembers(sReq[r].id, sReq[r].token)'
    <3>1. sReq'[r].id = i /\ sReq'[r].token = q.token
      BY <1>3, <1>4, <2>2
    <3>2. verifyID(sReq[r].id)'
      BY <1>1, <2>2, <3>1 DEF verifyID
    <3>3. sSeen'.last = Saved(sReq[r].id)'
      BY <1>7, <2>3
    <3>4. ~sSeen'.lost => sSeen'.last = Data(r)
      BY <1>7
    <3> QED
      BY <1>2, <2>2, <3>1, <3>2, <3>3, <3>4 DEF Remembers
  <2>5. InHand(r)'
    BY <1>3, <1>4, <1>7, <2>2, <2>4 DEF InHand
  <2>6. \A p \in SRequests : p # r => InHand(p)'
    BY <1>4, <1>7, <2>1 DEF SIndInv, OneAtATime, InHand, Begun
  <2> QED
    BY <1>3, <1>4, <2>1, <2>5, <2>6
<1> QED
  BY <1>8, <1>9, <1>10, <1>11, <1>12, <1>13 DEF SIndInv

LEMMA SaveKeeps == ASSUME SIndInv, NEW r \in SRequests, Save(r) PROVE SIndInv'
<1>1. sReq[r].pc = "save" /\ sSeen \in SSeenType
  BY SBasics DEF Save, SIndInv
<1>2. sSeen.faults \in 0 .. SFaults
  BY <1>1 DEF SSeenType
<1>3. MayFail => sSeen.faults + 1 \in 0 .. SFaults /\ ~InMemory
  BY <1>2, SessionsAssumption DEF MayFail, SessionsAssumption
<1>4. CASE (InMemory \/ Encodable(Data(r))) /\ SaveEnds(r, TRUE, sSeen.faults)
  BY <1>1, <1>2, <1>4, SaveEndsKeeps
<1>5. CASE ~InMemory /\ ~Encodable(Data(r)) /\ SaveEnds(r, FALSE, sSeen.faults)
  BY <1>1, <1>2, <1>5, SaveEndsKeeps
<1>6. ASSUME MayFail, NEW written \in BOOLEAN, SaveEnds(r, written, sSeen.faults + 1) PROVE SIndInv'
  BY <1>1, <1>3, <1>6, SaveEndsKeeps
<1> QED
  BY <1>4, <1>5, <1>6 DEF Save

\* The response reaches the browser.
LEMMA AnswerKeeps == ASSUME SIndInv, NEW r \in SRequests, Answer(r) PROVE SIndInv'
<1> DEFINE q == sReq[r]
           x == [q EXCEPT !.pc = "done"]
<1>1. /\ q.pc = "answered" /\ Begun(r) /\ sReq' = [sReq EXCEPT ![r] = x]
      /\ sJar' = [session |-> q.id, token |-> q.token]
      /\ UNCHANGED <<sConf, sHeap, sTable, sSeen>>
  BY DEF Answer, Goto, Begun
<1>2. /\ STypeOK /\ sReq \in [SRequests -> Visits] /\ sHeap \in SHeapType /\ sTable \in [SIds -> Rows]
      /\ sSeen \in SSeenType /\ q \in Visits /\ q.sess \in Objects /\ sHeap[q.sess].id \in SIds
      /\ Data(r) \in Datas
  BY <1>1, SBasics, ObjectIs DEF SIndInv
<1>3. /\ x \in Visits /\ x.pc = "done" /\ x.token = q.token /\ x.status = q.status
      /\ x.cookie = q.cookie /\ x.id = q.id /\ x.sess = q.sess /\ x.sent = q.sent
  BY <1>2, WithPc DEF Stages
<1> HIDE DEF x
<1>4. /\ sReq' \in [SRequests -> Visits] /\ sReq'[r] = x
      /\ \A p \in SRequests : p # r => sReq'[p] = sReq[p]
      /\ \A p : Begun(p)' = Begun(p)
      /\ \A p \in SRequests : sReq'[p].sess = sReq[p].sess /\ sReq'[p].cookie = sReq[p].cookie
  BY <1>1, <1>2, <1>3 DEF Begun
<1>5. /\ sJar' \in [session : SomeId, token : SomeToken]
      /\ sJar'.session = q.id /\ sJar'.token = q.token
  BY <1>1, <1>2, VisitIs
<1>6. STypeOK'
  BY <1>1, <1>2, <1>4, <1>5 DEF STypeOK
<1>7. NamesIssued'
  <2>1. \A p \in SRequests : sReq'[p].id = sReq[p].id
    BY <1>3, <1>4
  <2> QED
    BY <1>1, <1>4, <1>5, <2>1 DEF SIndInv, NamesIssued, Issued
<1>8. \A p \in SRequests : WorksOnAnObject(p)'
  BY <1>1, <1>3, <1>4 DEF SIndInv, WorksOnAnObject
<1>9. RowsHold'
  BY <1>1, <1>4 DEF SIndInv, RowsHold, InMemory
<1>11. UsersKnown'
  BY <1>1, KnownStays DEF SIndInv, UsersKnown
<1>10. OneAtATime'
  <2> SUFFICES ASSUME Calm
               PROVE  /\ \A p, t \in SRequests : {sReq'[p].pc, sReq'[t].pc} \cap {"new", "done", "refused"} = {} => p = t
                      /\ \A p \in SRequests : InHand(p)'
                      /\ JarRemembers'
    BY <1>1 DEF OneAtATime, Calm
  <2>1. \A p \in SRequests : p # r => sReq[p].pc \in {"new", "done", "refused"}
    BY <1>1, OthersWait DEF SIndInv
  <2>2. (q.status = 403 /\ ~sSeen.lost => q.sent = None) /\ Remembers(q.id, q.token)
    BY <1>1 DEF SIndInv, OneAtATime, InHand
  <2>3. InHand(r)'
    BY <1>1, <1>3, <1>4, <2>2 DEF InHand
  <2>4. \A p \in SRequests : p # r => InHand(p)'
    BY <1>4, <2>1 DEF SIndInv, OneAtATime, InHand, Begun
  <2>5. JarRemembers'
    <3>1. q.id \in SIds /\ q.id # NoId
      BY <2>2, Names DEF Remembers
    <3> QED
      BY <1>1, <1>5, <2>2, <3>1 DEF JarRemembers, Remembers, Saved, InMemory, verifyID
  <2> QED
    BY <1>3, <1>4, <2>1, <2>3, <2>4, <2>5
<1> QED
  BY <1>6, <1>7, <1>8, <1>9, <1>10, <1>11 DEF SIndInv

\* A row's time to live passes.
LEMMA LapseKeeps == ASSUME SIndInv, NEW i \in SIds, Lapse(i) PROVE SIndInv'
<1>1. /\ ~InMemory /\ sSeen.lapses < SLapses
      /\ sTable' = [sTable EXCEPT ![i] = NoRow]
      /\ sSeen' = [sSeen EXCEPT !.lapses = sSeen.lapses + 1]
      /\ UNCHANGED <<sConf, sHeap, sReq, sJar>>
  BY DEF Lapse
<1>2. /\ STypeOK /\ sTable \in [SIds -> Rows] /\ sSeen \in SSeenType
      /\ sSeen.lapses \in 0 .. SLapses /\ SLapses \in Nat
  BY SBasics, SessionsAssumption DEF SIndInv, SSeenType, SessionsAssumption
<1>3. /\ sTable' \in [SIds -> Rows]
      /\ \A j \in SIds : sTable'[j] = sTable[j] \/ sTable'[j] = NoRow
  BY <1>1, <1>2, EmptyIs
<1>4. /\ sSeen' \in SSeenType /\ sSeen'.lapses # 0 /\ sSeen'.regenerated = sSeen.regenerated
      /\ sSeen'.last = sSeen.last
  <2>1. sSeen.lapses + 1 \in 0 .. SLapses /\ sSeen.lapses + 1 # 0
    BY <1>1, <1>2
  <2> QED
    BY <1>1, <1>2, <2>1 DEF SSeenType
<1>5. STypeOK'
  BY <1>1, <1>2, <1>3, <1>4 DEF STypeOK, SSeenType
<1>6. NamesIssued'
  <2>1. \A j \in SIds : (sTable'[j].live => sTable[j].live)
                       /\ (sTable'[j].object = sTable[j].object \/ sTable'[j].object = NoId)
    BY <1>3, EmptyIs
  <2> QED
    BY <1>1, <2>1 DEF SIndInv, NamesIssued, Issued, Begun
<1>7. \A p \in SRequests : WorksOnAnObject(p)'
  BY <1>1, <1>4 DEF SIndInv, WorksOnAnObject, Begun
<1>8. RowsHold' /\ OneAtATime'
  BY <1>1, <1>4 DEF RowsHold, InMemory, OneAtATime, Calm
<1>9. UsersKnown'
  <2>1. KnownUser(NoRow.data)
    BY KnownIs DEF NoRow
  <2> QED
    BY <1>1, <1>3, <1>4, <2>1, KnownStays DEF SIndInv, UsersKnown
<1> QED
  BY <1>5, <1>6, <1>7, <1>8, <1>9 DEF SIndInv

\* The store cannot be read: the request ends, and nothing of it is left.
LEMMA LoadFailsKeeps == ASSUME SIndInv, NEW r \in SRequests, LoadFails(r) PROVE SIndInv'
<1> DEFINE q == sReq[r]
           x == [q EXCEPT !.pc = "refused"]
<1>1. /\ q.pc = "load" /\ MayFail /\ sReq' = [sReq EXCEPT ![r] = x]
      /\ sSeen' = [sSeen EXCEPT !.faults = sSeen.faults + 1]
      /\ UNCHANGED <<sConf, sHeap, sTable, sJar>>
  BY DEF LoadFails, Goto
<1>2. /\ STypeOK /\ sReq \in [SRequests -> Visits] /\ sSeen \in SSeenType /\ q \in Visits
  BY SBasics DEF SIndInv
<1>3. /\ x \in Visits /\ x.pc = "refused" /\ x.status = q.status
      /\ x.cookie = q.cookie /\ x.id = q.id /\ x.sess = q.sess /\ x.sent = q.sent
  BY <1>2, WithPc DEF Stages
<1> HIDE DEF x
<1>4. /\ sReq' \in [SRequests -> Visits] /\ sReq'[r] = x
      /\ \A p \in SRequests : p # r => sReq'[p] = sReq[p]
      /\ \A p : Begun(p)' = Begun(p)
      /\ \A p \in SRequests : /\ sReq'[p].sess = sReq[p].sess /\ sReq'[p].cookie = sReq[p].cookie
                              /\ sReq'[p].id = sReq[p].id
  BY <1>1, <1>2, <1>3 DEF Begun
<1>5. /\ sSeen' \in SSeenType /\ sSeen'.lapses = sSeen.lapses
      /\ sSeen'.overlapped = sSeen.overlapped /\ sSeen'.regenerated = sSeen.regenerated
      /\ sSeen'.lost = sSeen.lost /\ sSeen'.last = sSeen.last
  BY <1>1, <1>2, OneMoreFault
<1>6. STypeOK'
  BY <1>1, <1>2, <1>4, <1>5 DEF STypeOK, SSeenType
<1>7. NamesIssued'
  BY <1>1, <1>4 DEF SIndInv, NamesIssued, Issued
<1>8. \A p \in SRequests : WorksOnAnObject(p)'
  BY <1>1, <1>3, <1>4, <1>5 DEF SIndInv, WorksOnAnObject
<1>9. RowsHold'
  BY <1>1, <1>4, <1>5 DEF SIndInv, RowsHold, InMemory
<1>10. UsersKnown'
  BY <1>1, <1>5, KnownStays DEF SIndInv, UsersKnown
<1>11. OneAtATime'
  <2> SUFFICES ASSUME Calm
               PROVE  /\ \A p, t \in SRequests :
                            {sReq'[p].pc, sReq'[t].pc} \cap {"new", "done", "refused"} = {} => p = t
                      /\ \A p \in SRequests : InHand(p)'
                      /\ JarRemembers'
    BY <1>1, <1>5 DEF OneAtATime, Calm
  <2>1. \A p \in SRequests : p # r => sReq[p].pc \in {"new", "done", "refused"}
    BY <1>1, OthersWait DEF SIndInv
  <2>2. JarRemembers /\ \A p \in SRequests : InHand(p)
    BY <1>1, <2>1 DEF SIndInv, OneAtATime
  <2>3. JarRemembers'
    BY <1>1, <1>5, <2>2 DEF JarRemembers, Remembers, Saved, InMemory, verifyID
  <2>4. \A p \in SRequests : p # r => InHand(p)'
    BY <1>4, <1>5, <2>1, <2>2 DEF InHand, Begun
  <2>5. InHand(r)'
    BY <1>1, <1>3, <1>4, <1>5, <2>2 DEF InHand, Begun
  <2> QED
    BY <1>3, <1>4, <2>1, <2>3, <2>4, <2>5
<1> QED
  BY <1>6, <1>7, <1>8, <1>9, <1>10, <1>11 DEF SIndInv

\* The sessions are as SIndInv has them, for any number of requests, in any store and middleware.
THEOREM SessionsInvariance == SSpec => []SIndInv
<1>1. SInit => SIndInv
  <2> SUFFICES ASSUME SInit PROVE SIndInv
    OBVIOUS
  <2>1. /\ sConf \in SConfigs /\ sHeap = [o \in Objects |-> [id |-> NoId, data |-> Empty]]
        /\ sTable = [i \in SIds |-> NoRow] /\ sReq = [r \in SRequests |-> NewRequest]
        /\ sJar = [session |-> NoId, token |-> None]
        /\ sSeen = [lapses |-> 0, faults |-> 0, overlapped |-> FALSE, regenerated |-> FALSE,
                     lost |-> FALSE, last |-> Empty]
    BY DEF SInit
  <2>2. NewRequest \in Visits
    BY EmptyIs DEF NewRequest, Visits, Stages, Statuses, SomeId, SomeObject, SomeToken
  <2>3. /\ NewRequest.pc = "new" /\ NewRequest.cookie = NoId /\ NewRequest.id = NoId
        /\ NewRequest.sess = NoId /\ NewRequest.status = 200
    BY DEF NewRequest
  <2> HIDE DEF NewRequest
  <2>4. STypeOK
    BY <2>1, <2>2, EmptyIs, SessionsAssumption DEF STypeOK, SessionsAssumption, SomeId, SomeToken
  <2>5. \A r \in SRequests : sReq[r] = NewRequest /\ ~Begun(r)
    BY <2>1, <2>3 DEF Begun
  <2>6. NamesIssued
    BY <2>1, <2>3, <2>5, EmptyIs DEF NamesIssued, Issued
  <2>7. \A r \in SRequests : WorksOnAnObject(r)
    BY <2>3, <2>5 DEF WorksOnAnObject
  <2>8. RowsHold
    BY <2>1, <2>5, EmptyIs DEF RowsHold
  <2>10. UsersKnown
    BY <2>1, KnownIs DEF UsersKnown, NoRow
  <2>9. OneAtATime
    <3>1. \A r, q \in SRequests : {sReq[r].pc, sReq[q].pc} \cap {"new", "done", "refused"} # {}
      <4> SUFFICES ASSUME NEW r \in SRequests, NEW q \in SRequests
                   PROVE  {sReq[r].pc, sReq[q].pc} \cap {"new", "done", "refused"} # {}
        OBVIOUS
      <4>1. sReq[r].pc = "new"
        BY <2>3, <2>5
      <4>2. "new" \in {sReq[r].pc, sReq[q].pc} \cap {"new", "done", "refused"}
        BY <4>1
      <4> QED
        BY <4>2
    <3>2. \A r \in SRequests : InHand(r)
      BY <2>3, <2>5 DEF InHand
    <3>3. JarRemembers
      BY <2>1 DEF JarRemembers, Empty
    <3> QED
      BY <3>1, <3>2, <3>3 DEF OneAtATime
  <2> QED
    BY <2>4, <2>6, <2>7, <2>8, <2>9, <2>10 DEF SIndInv
<1>2. SIndInv /\ [SNext]_svars => SIndInv'
  <2> SUFFICES ASSUME SIndInv, [SNext]_svars PROVE SIndInv'
    OBVIOUS
  <2>1. CASE UNCHANGED svars
    <3>1. UNCHANGED <<sConf, sHeap, sTable, sReq, sJar, sSeen>>
      BY <2>1 DEF svars
    <3>2. STypeOK'
      BY <3>1 DEF SIndInv, STypeOK
    <3>3. NamesIssued' /\ RowsHold' /\ \A r \in SRequests : WorksOnAnObject(r)'
      BY <3>1 DEF SIndInv, NamesIssued, Issued, RowsHold, InMemory, WorksOnAnObject, Begun
    <3>8. UsersKnown'
      BY <3>1, KnownStays DEF SIndInv, UsersKnown
    <3>4. Calm' => Calm
      BY <3>1 DEF Calm
    <3>5. JarRemembers => JarRemembers'
      BY <3>1 DEF JarRemembers, Remembers, Saved, InMemory, verifyID
    <3>6. \A r \in SRequests : InHand(r) => InHand(r)'
      BY <3>1 DEF InHand, Begun, Data, Remembers, Saved, InMemory, verifyID, ReadBack, Decoded, User,
         HasSession, RetrieveByID
    <3>7. OneAtATime'
      BY <3>1, <3>4, <3>5, <3>6 DEF SIndInv, OneAtATime
    <3> QED
      BY <3>2, <3>3, <3>7, <3>8 DEF SIndInv
  <2>2. ASSUME NEW r \in SRequests,
               \/ \E op \in SOps[r] : Send(r, op)
               \/ Load(r) \/ LoadFails(r) \/ CsrfGet(r) \/ CsrfSeed(r) \/ CsrfCheck(r) \/ Gate(r) \/ Handle(r)
               \/ RegenerateCopy(r) \/ Destroy(r) \/ RegenerateSave(r) \/ Save(r) \/ Answer(r)
        PROVE SIndInv'
    BY <2>2, SendKeeps, LoadKeeps, LoadFailsKeeps, CsrfGetKeeps, CsrfSeedKeeps, CsrfCheckKeeps, GateKeeps, HandleKeeps,
       RegenerateCopyKeeps, DestroyKeeps, RegenerateSaveKeeps, SaveKeeps, AnswerKeeps
  <2>3. ASSUME NEW i \in SIds, Lapse(i) PROVE SIndInv'
    BY <2>3, LapseKeeps
  <2> QED
    BY <2>1, <2>2, <2>3 DEF SNext
<1> QED
  BY <1>1, <1>2, PTL DEF SSpec

\* The types of the sessions' variables.
THEOREM SessionsTypeCorrect == SSpec => []STypeOK
BY SessionsInvariance, PTL DEF SIndInv

\* Over the memory store the requests of an ID share one object, until an ID is regenerated.
THEOREM OneObjectForEveryId == SSpec => []OneObjectPerId
<1>1. SIndInv => OneObjectPerId
  <2> SUFFICES ASSUME SIndInv, InMemory, ~sSeen.regenerated, NEW r \in SRequests, sReq[r].sess # NoId
               PROVE  sTable[sHeap[sReq[r].sess].id].object = sReq[r].sess
    BY DEF OneObjectPerId
  <2>1. Begun(r)
    BY DEF SIndInv, WorksOnAnObject
  <2> QED
    BY <2>1 DEF SIndInv, RowsHold
<1> QED
  BY <1>1, SessionsInvariance, PTL

\* A browser that sends one request at a time finds what its last Save left, as JSON keeps it;
\* its POST is refused only while it has no token, or has lost it with a Save that failed; and the
\* guard knows the user that is logged in, if user IDs survive the store.
THEOREM BrowserIsRemembered == SSpec => []BrowserKeepsItsSession
<1>1. SIndInv => BrowserKeepsItsSession
  <2> SUFFICES ASSUME SIndInv, Calm, NEW r \in SRequests
               PROVE  /\ sReq[r].pc = "csrf" => sReq[r].loaded = ReadBack(sSeen.last)
                      /\ sReq[r].status = 403 /\ ~sSeen.lost => sReq[r].sent = None
                      /\ sReq[r].pc = "handle" /\ IdsSurvive => sReq[r].auth = (sSeen.last.user # "nobody")
    BY DEF BrowserKeepsItsSession
  <2>1. InHand(r)
    BY DEF SIndInv, OneAtATime
  <2>2. ASSUME sReq[r].pc = "handle", IdsSurvive PROVE sReq[r].auth = (sSeen.last.user # "nobody")
    <3>1. sReq[r].auth = User(r) /\ Data(r).user = ReadBack(sSeen.last).user /\ HasSession
      BY <2>1, <2>2 DEF InHand, Begun, IdsSurvive
    <3>2. sSeen.last \in Datas /\ KnownUser(sSeen.last) /\ sConf.ids \in {"int", "string"}
      BY SessionsAssumption DEF SIndInv, STypeOK, UsersKnown, SessionsAssumption
    <3>3. ReadBack(sSeen.last).user = IF ~InMemory /\ sSeen.last.user = "int" THEN "float64" ELSE sSeen.last.user
      BY <3>2 DEF ReadBack, Decoded, Datas
    <3>4. RetrieveByID(ReadBack(sSeen.last).user) = (sSeen.last.user # "nobody")
      BY <2>2, <3>2, <3>3 DEF RetrieveByID, KnownUser, IdsSurvive
    <3> QED
      BY <3>1, <3>4 DEF User
  <2> QED
    BY <2>1, <2>2 DEF InHand, Begun
<1> QED
  BY <1>1, SessionsInvariance, PTL

-----------------------------------------------------------------------------
(* The Redis queue *)

RStores == [pending : Seq(Payload), delayed : SUBSET Payload, due : SUBSET Payload, failed : Seq(Payload)]
RMoves == {RIdle} \cup [at : {"push"}, todo : SUBSET Payload]
                  \cup [at : {"rem"}, todo : SUBSET Payload, now : Payload]
RClients == {RIdle} \cup [at : {"rem", "push"}, op : {"retry", "delete"}, now : Payload]
RProcs == [worker : Payload \cup {RIdle}, move : RMoves, client : RClients]
RLogs == [accepted : SUBSET RJobs, settled : SUBSET RJobs, harmed : SUBSET RJobs, retried : SUBSET RJobs,
          faults : 0 .. RFaultBound, ops : 0 .. ROpBound]

RShape == /\ rStore \in RStores /\ rStore.due \subseteq rStore.delayed
          /\ rProc \in [RInstances -> RProcs] /\ rLog \in RLogs

\* The jobs that need not be anywhere any more.
Gone(j) == j \in rLog.settled \cup rLog.harmed \cup rLog.retried

\* A payload is in one of the lists or in a worker's hands.
Carried(q) == \/ Contains(rStore.pending, q) \/ Contains(rStore.failed, q)
             \/ \E i \in RInstances : rProc[i].worker = q

\* What became of a payload that was pushed: it is in hand, maybe with more attempts, or
\* it is delayed with more attempts, so that the removal of p itself does not hit it.
Descends(p) ==
  \E q \in Payload : /\ q.id = p.id
                     /\ \/ Carried(q) /\ q.attempts >= p.attempts
                        \/ q \in rStore.delayed /\ q.attempts > p.attempts

Accounted ==
  \A j \in rLog.accepted :
    Gone(j) \/ \E q \in Payload : q.id = j /\ (Carried(q) \/ q \in rStore.delayed)
PushedBeforeRemoved ==
  \A i \in RInstances : \A p \in Payload :
    rProc[i].move.at = "rem" /\ rProc[i].move.now = p => Gone(p.id) \/ Descends(p)

RIndInv == RShape /\ Accounted /\ PushedBeforeRemoved

\* The records that tell payloads and idle goroutines apart.
LEMMA PayloadIs ==
  ASSUME NEW p \in Payload
  PROVE p.id \in RJobs /\ p.attempts \in Nat /\ p # RIdle
<1>1. p.id \in RJobs /\ p.attempts \in Nat
  BY DEF Payload
<1>2. DOMAIN p = {"id", "attempts"} /\ DOMAIN RIdle = {"at", "todo"}
  BY DEF Payload, RIdle
<1>3. "at" \notin {"id", "attempts"}
  OBVIOUS
<1> QED
  BY <1>1, <1>2, <1>3

LEMMA FreshIs == ASSUME NEW j \in RJobs PROVE Fresh(j) \in Payload /\ Fresh(j).id = j
BY DEF Fresh, Payload

\* The fields of an instance.
LEMMA ProcIs ==
  ASSUME RShape, NEW i \in RInstances
  PROVE /\ rProc[i] \in RProcs /\ rProc[i].worker \in Payload \cup {RIdle}
        /\ rProc[i].move \in RMoves /\ rProc[i].client \in RClients
BY DEF RShape, RProcs

LEMMA MoveIs ==
  ASSUME NEW m \in RMoves
  PROVE /\ m.at = "push" => m.todo \in SUBSET Payload
        /\ m.at = "rem" => m.todo \in SUBSET Payload /\ m.now \in Payload
BY DEF RMoves, RIdle

LEMMA ClientIs ==
  ASSUME NEW c \in RClients, c.at \in {"rem", "push"}
  PROVE c \in [at : {"rem", "push"}, op : {"retry", "delete"}, now : Payload] /\ c.now \in Payload
BY DEF RClients, RIdle

LEMMA WorkerSet ==
  ASSUME RShape, NEW i \in RInstances, NEW w \in Payload \cup {RIdle},
         rProc' = [rProc EXCEPT ![i].worker = w]
  PROVE /\ rProc' \in [RInstances -> RProcs]
        /\ \A k \in RInstances : /\ rProc'[k].worker = IF k = i THEN w ELSE rProc[k].worker
                                 /\ rProc'[k].move = rProc[k].move
BY DEF RShape, RProcs

LEMMA MoveSet ==
  ASSUME RShape, NEW i \in RInstances, NEW m \in RMoves, rProc' = [rProc EXCEPT ![i].move = m]
  PROVE /\ rProc' \in [RInstances -> RProcs]
        /\ \A k \in RInstances : /\ rProc'[k].worker = rProc[k].worker
                                 /\ rProc'[k].move = IF k = i THEN m ELSE rProc[k].move
BY DEF RShape, RProcs

LEMMA ClientSet ==
  ASSUME RShape, NEW i \in RInstances, NEW c \in RClients, rProc' = [rProc EXCEPT ![i].client = c]
  PROVE /\ rProc' \in [RInstances -> RProcs]
        /\ \A k \in RInstances : rProc'[k].worker = rProc[k].worker /\ rProc'[k].move = rProc[k].move
BY DEF RShape, RProcs

\* The ends of a list.
LEMMA HeadPut ==
  ASSUME NEW s \in Seq(Payload), NEW p \in Payload
  PROVE /\ <<p>> \o s \in Seq(Payload) /\ Contains(<<p>> \o s, p)
        /\ \A q : Contains(s, q) => Contains(<<p>> \o s, q)
<1> DEFINE c == <<p>> \o s
<1>1. <<p>> \in Seq(Payload) /\ Len(<<p>>) = 1 /\ <<p>>[1] = p
  OBVIOUS
<1>2. /\ c \in Seq(Payload) /\ Len(c) = 1 + Len(s) /\ Len(s) \in Nat
      /\ \A i \in 1 .. 1 + Len(s) : c[i] = IF i <= 1 THEN p ELSE s[i - 1]
  BY <1>1, ConcatProperties
<1> HIDE DEF c
<1>3. 1 \in 1 .. Len(c) /\ c[1] = p
  BY <1>2
<1>4. \A i \in 1 .. Len(s) : i + 1 \in 1 .. Len(c) /\ c[i + 1] = s[i]
  BY <1>2
<1> QED
  BY <1>2, <1>3, <1>4 DEF Contains, c

LEMMA TailTaken ==
  ASSUME NEW s \in Seq(Payload), s # <<>>
  PROVE /\ Front(s) \in Seq(Payload) /\ Last(s) \in Payload
        /\ \A q : Contains(s, q) => q = Last(s) \/ Contains(Front(s), q)
<1>1. /\ Front(s) \in Seq(Payload) /\ Len(Front(s)) = Len(s) - 1 /\ Len(s) \in Nat
      /\ \A i \in 1 .. Len(s) - 1 : Front(s)[i] = s[i]
      /\ Last(s) = s[Len(s)] /\ Last(s) \in Payload
  BY FrontIs
<1>2. \A i \in 1 .. Len(s) : i = Len(s) \/ i \in 1 .. Len(s) - 1
  BY <1>1
<1> QED
  BY <1>1, <1>2 DEF Contains

LEMMA FailedRemoved ==
  ASSUME NEW s \in Seq(Payload), NEW p
  PROVE /\ RemoveFirst(s, p) \in Seq(Payload)
        /\ \A q : Contains(s, q) /\ q # p => Contains(RemoveFirst(s, p), q)
BY RemoveFirstIs DEF Contains

\* The invariant goes on when every payload has gone to another place with no fewer
\* attempts, or its job is accounted for otherwise.
LEMMA Flow ==
  ASSUME RIndInv, RShape',
         \A j : Gone(j) => Gone(j)',
         \A q \in Payload : Carried(q) => Carried(q)' \/ Gone(q.id)' \/ Descends(q)',
         \A q \in Payload : q \in rStore.delayed => q \in rStore'.delayed \/ Gone(q.id)' \/ Descends(q)',
         \A j \in rLog'.accepted : \/ j \in rLog.accepted \/ Gone(j)'
                                   \/ \E q \in Payload : q.id = j /\ (Carried(q)' \/ q \in rStore'.delayed),
         \A i \in RInstances : \A p \in Payload :
           rProc'[i].move.at = "rem" /\ rProc'[i].move.now = p =>
             rProc'[i].move = rProc[i].move \/ Gone(p.id)' \/ Descends(p)'
  PROVE RIndInv'
<1>n. \A q \in Payload : q.attempts \in Nat
  BY PayloadIs
<1>1. \A q \in Payload : Carried(q)' => Descends(q)'
  BY <1>n DEF Descends
<1>2. ASSUME NEW p \in Payload, Descends(p) PROVE Gone(p.id)' \/ Descends(p)'
  <2>1. PICK q \in Payload : /\ q.id = p.id
                             /\ \/ Carried(q) /\ q.attempts >= p.attempts
                                \/ q \in rStore.delayed /\ q.attempts > p.attempts
    BY <1>2 DEF Descends
  <2>2. \/ Descends(q)' /\ q.attempts >= p.attempts
        \/ q \in rStore'.delayed /\ q.attempts > p.attempts
        \/ Gone(p.id)'
    BY <1>n, <1>1, <2>1
  <2>3. ASSUME Descends(q)', q.attempts >= p.attempts PROVE Descends(p)'
    <3>1. PICK r \in Payload : /\ r.id = q.id
                               /\ \/ Carried(r)' /\ r.attempts >= q.attempts
                                  \/ r \in rStore'.delayed /\ r.attempts > q.attempts
      BY <2>3 DEF Descends
    <3>2. \/ Carried(r)' /\ r.attempts >= p.attempts
          \/ r \in rStore'.delayed /\ r.attempts > p.attempts
      BY <1>n, <2>3, <3>1
    <3> QED
      BY <2>1, <3>1, <3>2 DEF Descends
  <2>4. ASSUME q \in rStore'.delayed, q.attempts > p.attempts PROVE Descends(p)'
    BY <2>1, <2>4 DEF Descends
  <2> QED
    BY <2>2, <2>3, <2>4
<1>3. \A q \in Payload : Descends(q)' =>
        \E r \in Payload : r.id = q.id /\ (Carried(r)' \/ r \in rStore'.delayed)
  BY DEF Descends
<1>4. Accounted'
  <2> SUFFICES ASSUME NEW j \in rLog'.accepted, ~Gone(j)'
               PROVE \E q \in Payload : q.id = j /\ (Carried(q)' \/ q \in rStore'.delayed)
    BY DEF Accounted
  <2>1. CASE j \in rLog.accepted
    <3>1. PICK q \in Payload : q.id = j /\ (Carried(q) \/ q \in rStore.delayed)
      BY <2>1 DEF RIndInv, Accounted
    <3>2. q \in rStore'.delayed \/ Descends(q)'
      BY <1>1, <3>1
    <3> QED
      BY <1>3, <3>1, <3>2
  <2> QED
    BY <2>1
<1>5. PushedBeforeRemoved'
  <2> SUFFICES ASSUME NEW i \in RInstances, NEW p \in Payload,
                      rProc'[i].move.at = "rem", rProc'[i].move.now = p
               PROVE Gone(p.id)' \/ Descends(p)'
    BY DEF PushedBeforeRemoved
  <2>1. CASE rProc'[i].move = rProc[i].move
    <3>1. Gone(p.id) \/ Descends(p)
      BY <2>1 DEF RIndInv, PushedBeforeRemoved
    <3> QED
      BY <1>2, <3>1
  <2> QED
    BY <2>1
<1> QED
  BY <1>4, <1>5 DEF RIndInv

\* What the log has more of.
LEMMA LogIs ==
  ASSUME RShape
  PROVE /\ rLog \in RLogs /\ RFaultBound \in Nat /\ ROpBound \in Nat
        /\ rLog.faults \in Nat /\ rLog.ops \in Nat
BY RedisAssumption DEF RShape, RLogs

LEMMA Accepts ==
  ASSUME RShape, NEW j \in RJobs, rLog' = [rLog EXCEPT !.accepted = @ \cup {j}]
  PROVE rLog' \in RLogs /\ rLog'.accepted = rLog.accepted \cup {j} /\ \A k : Gone(k)' <=> Gone(k)
BY DEF RShape, RLogs, Gone

LEMMA Settles ==
  ASSUME RShape, NEW j \in RJobs, rLog' = [rLog EXCEPT !.settled = @ \cup {j}]
  PROVE rLog' \in RLogs /\ rLog'.accepted = rLog.accepted /\ Gone(j)' /\ \A k : Gone(k) => Gone(k)'
BY DEF RShape, RLogs, Gone

LEMMA Retries ==
  ASSUME RShape, NEW j \in RJobs, rLog' = [rLog EXCEPT !.retried = @ \cup {j}]
  PROVE rLog' \in RLogs /\ rLog'.accepted = rLog.accepted /\ Gone(j)' /\ \A k : Gone(k) => Gone(k)'
BY DEF RShape, RLogs, Gone

LEMMA Harms ==
  ASSUME RShape, NEW j \in RJobs, rLog' = [rLog EXCEPT !.harmed = @ \cup {j}]
  PROVE rLog' \in RLogs /\ rLog'.accepted = rLog.accepted /\ Gone(j)' /\ \A k : Gone(k) => Gone(k)'
BY DEF RShape, RLogs, Gone

LEMMA LogFails ==
  ASSUME RShape, NEW S \in SUBSET RJobs, rLog.faults < RFaultBound,
         rLog' = [rLog EXCEPT !.faults = @ + 1, !.harmed = @ \cup S]
  PROVE /\ rLog' \in RLogs /\ rLog'.accepted = rLog.accepted
        /\ \A k : (Gone(k) => Gone(k)') /\ (k \in S => Gone(k)')
<1>1. /\ RFaultBound \in Nat /\ rLog.faults \in Nat
  BY LogIs
<1>2. rLog.faults + 1 \in 0 .. RFaultBound
  BY <1>1
<1> QED
  BY <1>2 DEF RShape, RLogs, Gone

\* A command that takes effect, or fails and harms the job of its payload.
LEMMA CommandIs ==
  ASSUME RShape, NEW ok \in BOOLEAN, NEW p \in Payload, NEW effect, NEW log, Command(ok, p, effect, log)
  PROVE \/ ok /\ rStore' = effect /\ rLog' = log
        \/ /\ ~ok /\ rStore' = rStore /\ rLog' \in RLogs /\ rLog'.accepted = rLog.accepted
           /\ Gone(p.id)' /\ \A k : Gone(k) => Gone(k)'
<1>1. CASE ok
  BY <1>1 DEF Command
<1>2. CASE ~ok
  <2>1. /\ rStore' = rStore /\ rLog.faults < RFaultBound
        /\ rLog' = [rLog EXCEPT !.faults = @ + 1, !.harmed = @ \cup {p.id}]
    BY <1>2 DEF Command
  <2>2. {p.id} \in SUBSET RJobs
    BY PayloadIs
  <2>3. /\ rLog' \in RLogs /\ rLog'.accepted = rLog.accepted
        /\ \A k : (Gone(k) => Gone(k)') /\ (k \in {p.id} => Gone(k)')
    BY <2>1, <2>2, LogFails
  <2> QED
    BY <1>2, <2>1, <2>3
<1> QED
  BY <1>1, <1>2

\* The lists and the sorted set.
LEMMA StoreIs ==
  ASSUME RShape
  PROVE /\ rStore.pending \in Seq(Payload) /\ rStore.failed \in Seq(Payload)
        /\ rStore.delayed \in SUBSET Payload /\ rStore.due \in SUBSET Payload
        /\ rStore.due \subseteq rStore.delayed
BY DEF RShape, RStores

LEMMA PushIsDone ==
  ASSUME RShape, NEW p \in Payload, rStore' = pushPayload(p)
  PROVE /\ rStore' \in RStores /\ rStore'.due \subseteq rStore'.delayed
        /\ rStore'.delayed = rStore.delayed /\ rStore'.failed = rStore.failed
        /\ Contains(rStore'.pending, p)
        /\ \A q : Contains(rStore.pending, q) => Contains(rStore'.pending, q)
<1> DEFINE list == <<p>> \o rStore.pending
<1>1. /\ list \in Seq(Payload) /\ Contains(list, p)
      /\ \A q : Contains(rStore.pending, q) => Contains(list, q)
  BY StoreIs, HeadPut
<1>2. rStore' = [rStore EXCEPT !.pending = list]
  BY DEF pushPayload
<1> HIDE DEF list
<1>3. /\ rStore' \in RStores /\ rStore'.pending = list /\ rStore'.delayed = rStore.delayed
      /\ rStore'.failed = rStore.failed /\ rStore'.due = rStore.due
  BY <1>1, <1>2 DEF RShape, RStores
<1> QED
  BY <1>1, <1>3 DEF RShape

LEMMA DelayIsDone ==
  ASSUME RShape, NEW p \in Payload, rStore' = pushDelayedPayload(p)
  PROVE /\ rStore' \in RStores /\ rStore'.due \subseteq rStore'.delayed
        /\ rStore'.delayed = rStore.delayed \cup {p} /\ rStore'.failed = rStore.failed
        /\ rStore'.pending = rStore.pending
<1> DEFINE more == rStore.delayed \cup {p}
           less == rStore.due \ {p}
<1>1. rStore' = [rStore EXCEPT !.delayed = more, !.due = less]
  BY DEF pushDelayedPayload
<1>2. more \in SUBSET Payload /\ less \in SUBSET Payload /\ less \subseteq more
  BY StoreIs
<1> HIDE DEF more, less
<1>3. /\ rStore' \in RStores /\ rStore'.delayed = more /\ rStore'.due = less
      /\ rStore'.failed = rStore.failed /\ rStore'.pending = rStore.pending
  BY <1>1, <1>2 DEF RShape, RStores
<1> QED
  BY <1>2, <1>3 DEF more

LEMMA RemovalIsDone ==
  ASSUME RShape, NEW p \in Payload, rStore' = ZRem(p)
  PROVE /\ rStore' \in RStores /\ rStore'.due \subseteq rStore'.delayed
        /\ rStore'.delayed = rStore.delayed \ {p} /\ rStore'.failed = rStore.failed
        /\ rStore'.pending = rStore.pending
<1>1. rStore' = [rStore EXCEPT !.delayed = rStore.delayed \ {p}, !.due = rStore.due \ {p}]
  BY DEF ZRem
<1>2. /\ rStore' \in RStores /\ rStore'.delayed = rStore.delayed \ {p}
      /\ rStore'.due = rStore.due \ {p} /\ rStore'.failed = rStore.failed
      /\ rStore'.pending = rStore.pending
  BY <1>1 DEF RShape, RStores
<1> QED
  BY <1>2 DEF RShape

LEMMA FailedIsSet ==
  ASSUME RShape, NEW list \in Seq(Payload), rStore' = [rStore EXCEPT !.failed = list]
  PROVE /\ rStore' \in RStores /\ rStore'.due \subseteq rStore'.delayed
        /\ rStore'.delayed = rStore.delayed /\ rStore'.failed = list
        /\ rStore'.pending = rStore.pending
BY DEF RShape, RStores

\* The steps of the clients that push.
LEMMA PushKeeps ==
  ASSUME RIndInv, NEW j \in RJobs, Push(j) \/ PushDelayed(j)
  PROVE RIndInv'
<1>0. RShape /\ Fresh(j) \in Payload /\ Fresh(j).id = j
  BY FreshIs DEF RIndInv
<1>1. rProc' = rProc /\ rLog' = [rLog EXCEPT !.accepted = @ \cup {j}]
  BY DEF Push, PushDelayed
<1>2. rLog' \in RLogs /\ rLog'.accepted = rLog.accepted \cup {j} /\ \A k : Gone(k)' <=> Gone(k)
  BY <1>0, <1>1, Accepts
<1>3. /\ rStore' \in RStores /\ rStore'.due \subseteq rStore'.delayed
      /\ rStore.delayed \subseteq rStore'.delayed /\ rStore'.failed = rStore.failed
      /\ \A q : Contains(rStore.pending, q) => Contains(rStore'.pending, q)
      /\ Contains(rStore'.pending, Fresh(j)) \/ Fresh(j) \in rStore'.delayed
  <2>1. CASE rStore' = pushPayload(Fresh(j))
    BY <1>0, <2>1, PushIsDone
  <2>2. CASE rStore' = pushDelayedPayload(Fresh(j))
    BY <1>0, <2>2, DelayIsDone
  <2> QED
    BY <2>1, <2>2 DEF Push, PushDelayed
<1>4. RShape'
  BY <1>0, <1>1, <1>2, <1>3 DEF RShape
<1>5. \A q \in Payload : Carried(q) => Carried(q)'
  BY <1>1, <1>3 DEF Carried
<1>6. \E q \in Payload : q.id = j /\ (Carried(q)' \/ q \in rStore'.delayed)
  <2>1. PICK q \in Payload : q = Fresh(j)
    BY <1>0
  <2>2. Carried(q)' \/ q \in rStore'.delayed
    BY <1>3, <2>1 DEF Carried
  <2> QED
    BY <1>0, <2>1, <2>2
<1>7. \A k \in rLog'.accepted : \/ k \in rLog.accepted \/ Gone(k)'
                                \/ \E q \in Payload : q.id = k /\ (Carried(q)' \/ q \in rStore'.delayed)
  BY <1>2, <1>6
<1> QED
  BY <1>1, <1>2, <1>3, <1>4, <1>5, <1>7, Flow

\* A step in which payloads are only added and nothing is begun to be removed.
LEMMA NothingTaken ==
  ASSUME RIndInv, RShape', rLog'.accepted = rLog.accepted, \A k : Gone(k) => Gone(k)',
         \A q \in Payload : Carried(q) => Carried(q)' \/ Gone(q.id)' \/ Descends(q)',
         \A q \in Payload : q \in rStore.delayed => q \in rStore'.delayed,
         \A i \in RInstances : \/ rProc'[i].move = rProc[i].move \/ rProc'[i].move.at # "rem"
  PROVE RIndInv'
BY Flow

\* A due payload, the operator's reading of the dead-letter list, the fetch of a tick.
LEMMA ReadersKeep ==
  ASSUME RIndInv, \/ \E p \in rStore.delayed : BecomeDue(p)
                  \/ \E i \in RInstances : MoveFetch(i)
                  \/ \E i \in RInstances : \E n \in DOMAIN rStore.failed, op \in {"retry", "delete"} :
                       ClientFetch(i, op, n)
  PROVE RIndInv'
<1>0. RShape /\ rStore \in RStores /\ rLog \in RLogs /\ rProc \in [RInstances -> RProcs]
  BY DEF RIndInv, RShape
<1>1. CASE \E p \in rStore.delayed : BecomeDue(p)
  <2>1. PICK p \in rStore.delayed : BecomeDue(p)
    BY <1>1
  <2>2. /\ rStore' = [rStore EXCEPT !.due = rStore.due \cup {p}] /\ rProc' = rProc /\ rLog' = rLog
        /\ p \in Payload
    BY <1>0, <2>1, StoreIs DEF BecomeDue
  <2>3. /\ rStore' \in RStores /\ rStore'.due = rStore.due \cup {p} /\ rStore'.pending = rStore.pending
        /\ rStore'.failed = rStore.failed /\ rStore'.delayed = rStore.delayed
    BY <1>0, <2>2 DEF RStores
  <2>4. RShape'
    BY <1>0, <2>1, <2>2, <2>3 DEF RShape
  <2>5. \A q : Carried(q) => Carried(q)'
    BY <2>2, <2>3 DEF Carried
  <2>6. \A k : Gone(k) => Gone(k)'
    BY <2>2 DEF Gone
  <2> QED
    BY <2>2, <2>3, <2>4, <2>5, <2>6, NothingTaken
<1>2. CASE \E i \in RInstances : MoveFetch(i)
  <2>1. PICK i \in RInstances : MoveFetch(i)
    BY <1>2
  <2> DEFINE m == [at |-> "push", todo |-> rStore.due]
  <2>2. m \in RMoves /\ m.at # "rem"
    BY <1>0, StoreIs DEF RMoves
  <2>3. rProc' = [rProc EXCEPT ![i].move = m] /\ rStore' = rStore /\ rLog' = rLog
    BY <2>1 DEF MoveFetch
  <2> HIDE DEF m
  <2>4. /\ rProc' \in [RInstances -> RProcs]
        /\ \A k \in RInstances : /\ rProc'[k].worker = rProc[k].worker
                                 /\ rProc'[k].move = IF k = i THEN m ELSE rProc[k].move
    BY <1>0, <2>2, <2>3, MoveSet
  <2>5. RShape'
    BY <1>0, <2>3, <2>4 DEF RShape
  <2>6. \A q : Carried(q) => Carried(q)'
    BY <2>3, <2>4 DEF Carried
  <2>7. \A k : Gone(k) => Gone(k)'
    BY <2>3 DEF Gone
  <2> QED
    BY <2>2, <2>3, <2>4, <2>5, <2>6, <2>7, NothingTaken
<1>3. CASE \E i \in RInstances : \E n \in DOMAIN rStore.failed, op \in {"retry", "delete"} :
             ClientFetch(i, op, n)
  <2>1. PICK i \in RInstances, n \in DOMAIN rStore.failed, op \in {"retry", "delete"} :
               ClientFetch(i, op, n)
    BY <1>3
  <2> DEFINE c == [at |-> "rem", op |-> op, now |-> rStore.failed[n]]
  <2>2. c \in RClients
    <3>1. rStore.failed[n] \in Payload
      BY <1>0, StoreIs
    <3> QED
      BY <3>1 DEF RClients
  <2>3. /\ rProc' = [rProc EXCEPT ![i].client = c] /\ rStore' = rStore
        /\ rLog.ops < ROpBound /\ rLog' = [rLog EXCEPT !.ops = @ + 1]
    BY <2>1 DEF ClientFetch
  <2> HIDE DEF c
  <2>4. /\ rProc' \in [RInstances -> RProcs]
        /\ \A k \in RInstances : rProc'[k].worker = rProc[k].worker /\ rProc'[k].move = rProc[k].move
    BY <1>0, <2>2, <2>3, ClientSet
  <2>5. rLog' \in RLogs /\ rLog'.accepted = rLog.accepted /\ \A k : Gone(k) => Gone(k)'
    <3>1. rLog.ops + 1 \in 0 .. ROpBound
      BY <1>0, <2>3, LogIs
    <3> QED
      BY <1>0, <2>3, <3>1 DEF RLogs, Gone
  <2>6. RShape'
    BY <1>0, <2>3, <2>4, <2>5 DEF RShape
  <2>7. \A q : Carried(q) => Carried(q)'
    BY <2>3, <2>4 DEF Carried
  <2> QED
    BY <2>3, <2>4, <2>5, <2>6, <2>7, NothingTaken
<1> QED
  BY <1>1, <1>2, <1>3

\* runWorker takes a job from the list.
LEMMA PopKeeps ==
  ASSUME RIndInv, NEW i \in RInstances, Pop(i)
  PROVE RIndInv'
<1>0. RShape /\ rStore \in RStores /\ rLog \in RLogs /\ rProc \in [RInstances -> RProcs]
  BY DEF RIndInv, RShape
<1> DEFINE p == Last(rStore.pending)
           list == Front(rStore.pending)
<1>1. /\ list \in Seq(Payload) /\ p \in Payload
      /\ \A q : Contains(rStore.pending, q) => q = p \/ Contains(list, q)
  BY <1>0, StoreIs, TailTaken DEF Pop
<1>2. /\ rStore' = [rStore EXCEPT !.pending = list] /\ rProc[i].worker = RIdle
      /\ IF p.id \in RUnknown
         THEN rLog' = [rLog EXCEPT !.harmed = @ \cup {p.id}] /\ rProc' = rProc
         ELSE rProc' = [rProc EXCEPT ![i].worker = p] /\ rLog' = rLog
  BY DEF Pop
<1> HIDE DEF p, list
<1>3. /\ rStore' \in RStores /\ rStore'.pending = list /\ rStore'.failed = rStore.failed
      /\ rStore'.delayed = rStore.delayed /\ rStore'.due = rStore.due
  BY <1>0, <1>1, <1>2 DEF RStores
<1>4. p.id \in RJobs /\ \A q \in Payload : q # RIdle
  BY <1>1, PayloadIs
<1>5. CASE p.id \in RUnknown
  <2>1. rLog' = [rLog EXCEPT !.harmed = @ \cup {p.id}] /\ rProc' = rProc
    BY <1>2, <1>5
  <2>2. /\ rLog' \in RLogs /\ rLog'.accepted = rLog.accepted /\ \A k : Gone(k) => Gone(k)'
        /\ \A k : k = p.id => Gone(k)'
    <3>1. PICK j \in RJobs : j = p.id
      BY <1>4
    <3>2. rLog' = [rLog EXCEPT !.harmed = @ \cup {j}]
      BY <2>1, <3>1
    <3> QED
      BY <1>0, <3>1, <3>2, Harms
  <2>3. RShape'
    BY <1>0, <1>3, <2>1, <2>2 DEF RShape
  <2>4. \A q \in Payload : Carried(q) => Carried(q)' \/ Gone(q.id)'
    <3>1. \A q \in Payload : Carried(q) => Carried(q)' \/ q = p
      BY <1>1, <1>3, <2>1 DEF Carried
    <3> QED
      BY <2>2, <3>1
  <2> QED
    BY <1>3, <2>1, <2>2, <2>3, <2>4, NothingTaken
<1>6. CASE p.id \notin RUnknown
  <2>1. rProc' = [rProc EXCEPT ![i].worker = p] /\ rLog' = rLog
    BY <1>2, <1>6
  <2>2. /\ rProc' \in [RInstances -> RProcs]
        /\ \A k \in RInstances : /\ rProc'[k].worker = IF k = i THEN p ELSE rProc[k].worker
                                 /\ rProc'[k].move = rProc[k].move
    BY <1>0, <1>1, <2>1, WorkerSet
  <2>3. RShape'
    BY <1>0, <1>3, <2>1, <2>2 DEF RShape
  <2>4. \A q \in Payload : Carried(q) => Carried(q)'
    BY <1>1, <1>2, <1>3, <1>4, <2>2 DEF Carried
  <2>5. \A k : Gone(k) => Gone(k)'
    BY <2>1 DEF Gone
  <2> QED
    BY <1>3, <2>1, <2>2, <2>3, <2>4, <2>5, NothingTaken
<1> QED
  BY <1>5, <1>6

\* Handle returned nil.
LEMMA HandleOkKeeps ==
  ASSUME RIndInv, NEW i \in RInstances, HandleOk(i)
  PROVE RIndInv'
<1>0. RShape /\ rStore \in RStores /\ rProc \in [RInstances -> RProcs]
  BY DEF RIndInv, RShape
<1>1. PICK p \in Payload : p = rProc[i].worker
  BY <1>0, ProcIs DEF HandleOk
<1>2. PICK j \in RJobs : j = p.id
  BY <1>1, PayloadIs
<1>3. /\ rLog' = [rLog EXCEPT !.settled = @ \cup {j}] /\ rStore' = rStore
      /\ rProc' = [rProc EXCEPT ![i].worker = RIdle]
  BY <1>1, <1>2 DEF HandleOk
<1>4. rLog' \in RLogs /\ rLog'.accepted = rLog.accepted /\ Gone(j)' /\ \A k : Gone(k) => Gone(k)'
  BY <1>0, <1>3, Settles
<1>5. /\ rProc' \in [RInstances -> RProcs]
      /\ \A k \in RInstances : /\ rProc'[k].worker = IF k = i THEN RIdle ELSE rProc[k].worker
                               /\ rProc'[k].move = rProc[k].move
  BY <1>0, <1>3, WorkerSet
<1>6. RShape'
  BY <1>0, <1>3, <1>4, <1>5 DEF RShape
<1>7. \A q \in Payload : Carried(q) => Carried(q)' \/ Gone(q.id)'
  <2>1. \A q \in Payload : Carried(q) => Carried(q)' \/ q = p
    BY <1>1, <1>3, <1>5 DEF Carried
  <2>2. \A q : q = p => q.id = j
    BY <1>2
  <2>3. \A k : k = j => Gone(k)'
    BY <1>4
  <2> QED
    BY <2>1, <2>2, <2>3
<1> QED
  BY <1>3, <1>4, <1>5, <1>6, <1>7, NothingTaken

\* Handle returned an error: the payload goes on with one more attempt.
LEMMA HandleErrKeeps ==
  ASSUME RIndInv, NEW i \in RInstances, NEW ok \in BOOLEAN, HandleErr(i, ok)
  PROVE RIndInv'
<1>0. RShape /\ rStore \in RStores /\ rProc \in [RInstances -> RProcs] /\ rLog \in RLogs
  BY DEF RIndInv, RShape
<1>1. PICK w \in Payload : w = rProc[i].worker
  BY <1>0, ProcIs DEF HandleErr
<1>2. PICK p : p = [w EXCEPT !.attempts = @ + 1]
  OBVIOUS
<1>3. p \in Payload /\ p.id = w.id /\ p.attempts > w.attempts /\ p.attempts \in Nat /\ w.attempts \in Nat
  BY <1>2 DEF Payload
<1>4. /\ rProc' = [rProc EXCEPT ![i].worker = RIdle]
      /\ Command(ok, p, IF p.attempts < RMax[p.id] THEN pushDelayedPayload(p)
                        ELSE [rStore EXCEPT !.failed = <<p>> \o @], rLog)
  BY <1>1, <1>2 DEF HandleErr
<1>5. /\ rProc' \in [RInstances -> RProcs]
      /\ \A k \in RInstances : /\ rProc'[k].worker = IF k = i THEN RIdle ELSE rProc[k].worker
                               /\ rProc'[k].move = rProc[k].move
  BY <1>0, <1>4, WorkerSet
<1>6. \/ /\ rStore' = IF p.attempts < RMax[p.id] THEN pushDelayedPayload(p)
                      ELSE [rStore EXCEPT !.failed = <<p>> \o @]
         /\ rLog' = rLog
      \/ /\ rStore' = rStore /\ rLog' \in RLogs /\ rLog'.accepted = rLog.accepted
         /\ Gone(p.id)' /\ \A k : Gone(k) => Gone(k)'
  BY <1>0, <1>3, <1>4, CommandIs
<1>7. CASE /\ rStore' = rStore /\ rLog' \in RLogs /\ rLog'.accepted = rLog.accepted
           /\ Gone(p.id)' /\ \A k : Gone(k) => Gone(k)'
  <2>1. RShape'
    BY <1>0, <1>5, <1>7 DEF RShape
  <2>2. \A q \in Payload : Carried(q) => Carried(q)' \/ q = w
    BY <1>1, <1>5, <1>7 DEF Carried
  <2>3. PICK j : j = p.id
    OBVIOUS
  <2>4. Gone(j)'
    BY <1>7, <2>3
  <2>5. \A q \in Payload : q = w => Gone(q.id)'
    BY <1>3, <2>3, <2>4
  <2> QED
    BY <1>5, <1>7, <2>1, <2>2, <2>5, NothingTaken
<1>8. CASE /\ rStore' = IF p.attempts < RMax[p.id] THEN pushDelayedPayload(p)
                        ELSE [rStore EXCEPT !.failed = <<p>> \o @]
           /\ rLog' = rLog
  <2>1. /\ rStore' \in RStores /\ rStore'.due \subseteq rStore'.delayed
        /\ rStore.delayed \subseteq rStore'.delayed /\ rStore'.pending = rStore.pending
        /\ \A q : Contains(rStore.failed, q) => Contains(rStore'.failed, q)
        /\ Contains(rStore'.failed, p) \/ p \in rStore'.delayed
    <3>1. CASE p.attempts < RMax[p.id]
      <4>1. rStore' = pushDelayedPayload(p)
        BY <1>8, <3>1
      <4> QED
        BY <1>0, <1>3, <4>1, DelayIsDone
    <3>2. CASE ~(p.attempts < RMax[p.id])
      <4> DEFINE list == <<p>> \o rStore.failed
      <4>1. rStore' = [rStore EXCEPT !.failed = list]
        BY <1>8, <3>2
      <4>2. /\ list \in Seq(Payload) /\ Contains(list, p)
            /\ \A q : Contains(rStore.failed, q) => Contains(list, q)
        BY <1>0, <1>3, StoreIs, HeadPut
      <4> HIDE DEF list
      <4> QED
        BY <1>0, <4>1, <4>2, FailedIsSet
    <3> QED
      BY <3>1, <3>2
  <2>2. RShape'
    BY <1>0, <1>5, <1>8, <2>1 DEF RShape
  <2>3. \A q \in Payload : Carried(q) => Carried(q)' \/ q = w
    BY <1>1, <1>5, <2>1 DEF Carried
  <2>4. Descends(w)'
    <3>1. Carried(p)' \/ p \in rStore'.delayed
      BY <2>1 DEF Carried
    <3>2. p.attempts >= w.attempts
      BY <1>3
    <3> QED
      BY <1>3, <3>1, <3>2 DEF Descends
  <2>5. \A k : Gone(k) => Gone(k)'
    BY <1>8 DEF Gone
  <2> QED
    BY <1>5, <1>8, <2>1, <2>2, <2>3, <2>4, <2>5, NothingTaken
<1> QED
  BY <1>6, <1>7, <1>8

\* A tick pushes a due payload.
LEMMA MovePushKeeps ==
  ASSUME RIndInv, NEW i \in RInstances, NEW p \in rProc[i].move.todo, NEW ok \in BOOLEAN,
         MovePush(i, p, ok)
  PROVE RIndInv'
<1>0. RShape /\ rStore \in RStores /\ rProc \in [RInstances -> RProcs] /\ rLog \in RLogs
  BY DEF RIndInv, RShape
<1>1. p \in Payload /\ rProc[i].move.todo \in SUBSET Payload
  BY <1>0, ProcIs, MoveIs DEF MovePush
<1> DEFINE m == [at |-> "rem", todo |-> rProc[i].move.todo, now |-> p]
<1>2. m \in RMoves /\ m.now = p
  BY <1>1 DEF RMoves
<1>3. rProc' = [rProc EXCEPT ![i].move = m] /\ Command(ok, p, pushPayload(p), rLog)
  BY DEF MovePush
<1> HIDE DEF m
<1>4. /\ rProc' \in [RInstances -> RProcs]
      /\ \A k \in RInstances : /\ rProc'[k].worker = rProc[k].worker
                               /\ rProc'[k].move = IF k = i THEN m ELSE rProc[k].move
  BY <1>0, <1>2, <1>3, MoveSet
<1>5. \/ rStore' = pushPayload(p) /\ rLog' = rLog
      \/ /\ rStore' = rStore /\ rLog' \in RLogs /\ rLog'.accepted = rLog.accepted
         /\ Gone(p.id)' /\ \A k : Gone(k) => Gone(k)'
  BY <1>0, <1>1, <1>3, CommandIs
<1>6. /\ rStore' \in RStores /\ rStore'.due \subseteq rStore'.delayed
      /\ rStore'.delayed = rStore.delayed /\ rStore'.failed = rStore.failed
      /\ \A q : Contains(rStore.pending, q) => Contains(rStore'.pending, q)
      /\ rLog' \in RLogs /\ rLog'.accepted = rLog.accepted /\ \A k : Gone(k) => Gone(k)'
      /\ Contains(rStore'.pending, p) \/ Gone(p.id)'
  <2>1. CASE rStore' = pushPayload(p) /\ rLog' = rLog
    <3>1. \A k : Gone(k) => Gone(k)'
      BY <2>1 DEF Gone
    <3> QED
      BY <1>0, <1>1, <2>1, <3>1, PushIsDone
  <2>2. CASE /\ rStore' = rStore /\ rLog' \in RLogs /\ rLog'.accepted = rLog.accepted
             /\ Gone(p.id)' /\ \A k : Gone(k) => Gone(k)'
    BY <1>0, <2>2 DEF RShape
  <2> QED
    BY <1>5, <2>1, <2>2
<1>7. RShape'
  BY <1>0, <1>4, <1>6 DEF RShape
<1>8. \A q \in Payload : Carried(q) => Carried(q)'
  BY <1>4, <1>6 DEF Carried
<1>9. Gone(p.id)' \/ Descends(p)'
  <2>1. Contains(rStore'.pending, p) => Carried(p)'
    BY DEF Carried
  <2>2. p.attempts >= p.attempts
    BY <1>1, PayloadIs
  <2> QED
    BY <1>1, <1>6, <2>1, <2>2 DEF Descends
<1>10. \A k \in RInstances : \A q \in Payload :
         rProc'[k].move.at = "rem" /\ rProc'[k].move.now = q =>
           rProc'[k].move = rProc[k].move \/ Gone(q.id)' \/ Descends(q)'
  BY <1>2, <1>4, <1>9
<1> QED
  BY <1>6, <1>7, <1>8, <1>10, Flow

\* And removes it from the sorted set.
LEMMA MoveRemKeeps ==
  ASSUME RIndInv, NEW i \in RInstances, NEW ok \in BOOLEAN, MoveRem(i, ok)
  PROVE RIndInv'
<1>0. RShape /\ rStore \in RStores /\ rProc \in [RInstances -> RProcs] /\ rLog \in RLogs
  BY DEF RIndInv, RShape
<1>t. rProc[i].move.todo \in SUBSET Payload /\ rProc[i].move.now \in Payload
  BY <1>0, ProcIs, MoveIs DEF MoveRem
<1>1. PICK p \in Payload : p = rProc[i].move.now
  BY <1>t
<1> DEFINE m == IF rProc[i].move.todo = {p} THEN RIdle ELSE [at |-> "push", todo |-> rProc[i].move.todo \ {p}]
<1>2. m \in RMoves /\ m.at # "rem"
  BY <1>t DEF RMoves, RIdle
<1>3. rProc' = [rProc EXCEPT ![i].move = m] /\ Command(ok, p, ZRem(p), rLog)
  BY <1>1 DEF MoveRem
<1> HIDE DEF m
<1>4. /\ rProc' \in [RInstances -> RProcs]
      /\ \A k \in RInstances : /\ rProc'[k].worker = rProc[k].worker
                               /\ rProc'[k].move = IF k = i THEN m ELSE rProc[k].move
  BY <1>0, <1>2, <1>3, MoveSet
<1>5. \/ rStore' = ZRem(p) /\ rLog' = rLog
      \/ /\ rStore' = rStore /\ rLog' \in RLogs /\ rLog'.accepted = rLog.accepted
         /\ \A k : Gone(k) => Gone(k)'
  BY <1>0, <1>3, CommandIs
<1>6. /\ rStore' \in RStores /\ rStore'.due \subseteq rStore'.delayed
      /\ rStore'.delayed \in {rStore.delayed, rStore.delayed \ {p}}
      /\ rStore'.failed = rStore.failed /\ rStore'.pending = rStore.pending
      /\ rLog' \in RLogs /\ rLog'.accepted = rLog.accepted /\ \A k : Gone(k) => Gone(k)'
  <2>1. CASE rStore' = ZRem(p) /\ rLog' = rLog
    <3>1. \A k : Gone(k) => Gone(k)'
      BY <2>1 DEF Gone
    <3> QED
      BY <1>0, <2>1, <3>1, RemovalIsDone
  <2>2. CASE /\ rStore' = rStore /\ rLog' \in RLogs /\ rLog'.accepted = rLog.accepted
             /\ \A k : Gone(k) => Gone(k)'
    BY <1>0, <2>2 DEF RShape
  <2> QED
    BY <1>5, <2>1, <2>2
<1>7. RShape'
  BY <1>0, <1>4, <1>6 DEF RShape
<1>8. \A q \in Payload : Carried(q) => Carried(q)'
  BY <1>4, <1>6 DEF Carried
<1>9. Gone(p.id)' \/ Descends(p)'
  <2>1. Gone(p.id) \/ Descends(p)
    BY <1>1 DEF RIndInv, PushedBeforeRemoved, MoveRem
  <2>2. CASE Gone(p.id)
    BY <1>6, <2>2
  <2>3. CASE Descends(p)
    <3>1. PICK q \in Payload : /\ q.id = p.id
                               /\ \/ Carried(q) /\ q.attempts >= p.attempts
                                  \/ q \in rStore.delayed /\ q.attempts > p.attempts
      BY <2>3 DEF Descends
    <3>2. q.attempts > p.attempts => q # p
      BY PayloadIs
    <3>3. \/ Carried(q)' /\ q.attempts >= p.attempts
          \/ q \in rStore'.delayed /\ q.attempts > p.attempts
      BY <1>6, <1>8, <3>1, <3>2
    <3> QED
      BY <3>1, <3>3 DEF Descends
  <2> QED
    BY <2>1, <2>2, <2>3
<1>10. \A q \in Payload : q \in rStore.delayed => q \in rStore'.delayed \/ Gone(q.id)' \/ Descends(q)'
  BY <1>6, <1>9
<1>11. \A k \in RInstances : \A q \in Payload :
         rProc'[k].move.at = "rem" /\ rProc'[k].move.now = q => rProc'[k].move = rProc[k].move
  BY <1>2, <1>4
<1> QED
  BY <1>6, <1>7, <1>8, <1>10, <1>11, Flow

\* The operator's request removes a dead letter.
LEMMA ClientRemKeeps ==
  ASSUME RIndInv, NEW i \in RInstances, NEW ok \in BOOLEAN, ClientRem(i, ok)
  PROVE RIndInv'
<1>0. RShape /\ rStore \in RStores /\ rProc \in [RInstances -> RProcs] /\ rLog \in RLogs
  BY DEF RIndInv, RShape
<1>1. PICK c : c = rProc[i].client
  OBVIOUS
<1>2. /\ c \in [at : {"rem", "push"}, op : {"retry", "delete"}, now : Payload] /\ c.now \in Payload
  BY <1>0, <1>1, ProcIs, ClientIs DEF ClientRem
<1>3. PICK p \in Payload : p = c.now
  BY <1>2
<1>4. PICK j \in RJobs : j = p.id
  BY PayloadIs
<1> DEFINE d == IF ok /\ c.op = "retry" THEN [c EXCEPT !.at = "push"] ELSE RIdle
           log == IF c.op = "retry" THEN [rLog EXCEPT !.retried = @ \cup {j}]
                  ELSE [rLog EXCEPT !.settled = @ \cup {j}]
           list == RemoveFirst(rStore.failed, p)
<1>5. d \in RClients
  BY <1>2 DEF RClients
<1>6. rProc' = [rProc EXCEPT ![i].client = d] /\ Command(ok, p, [rStore EXCEPT !.failed = list], log)
  BY <1>1, <1>3, <1>4 DEF ClientRem, LRem
<1>7. list \in Seq(Payload) /\ \A q : Contains(rStore.failed, q) /\ q # p => Contains(list, q)
  BY <1>0, StoreIs, FailedRemoved
<1>8. log = [rLog EXCEPT !.retried = @ \cup {j}] \/ log = [rLog EXCEPT !.settled = @ \cup {j}]
  OBVIOUS
<1> HIDE DEF d, log, list
<1>9. /\ rProc' \in [RInstances -> RProcs]
      /\ \A k \in RInstances : rProc'[k].worker = rProc[k].worker /\ rProc'[k].move = rProc[k].move
  BY <1>0, <1>5, <1>6, ClientSet
<1>10. \/ rStore' = [rStore EXCEPT !.failed = list] /\ rLog' = log
       \/ /\ rStore' = rStore /\ rLog' \in RLogs /\ rLog'.accepted = rLog.accepted
          /\ Gone(p.id)' /\ \A k : Gone(k) => Gone(k)'
  BY <1>0, <1>6, CommandIs
<1>11. /\ rStore' \in RStores /\ rStore'.due \subseteq rStore'.delayed
       /\ rStore'.delayed = rStore.delayed /\ rStore'.pending = rStore.pending
       /\ \A q : Contains(rStore.failed, q) /\ q # p => Contains(rStore'.failed, q)
       /\ rLog' \in RLogs /\ rLog'.accepted = rLog.accepted /\ Gone(j)' /\ \A k : Gone(k) => Gone(k)'
  <2>1. CASE rStore' = [rStore EXCEPT !.failed = list] /\ rLog' = log
    <3>1. rLog' \in RLogs /\ rLog'.accepted = rLog.accepted /\ Gone(j)' /\ \A k : Gone(k) => Gone(k)'
      BY <1>0, <1>8, <2>1, Retries, Settles
    <3> QED
      BY <1>0, <1>7, <2>1, <3>1, FailedIsSet
  <2>2. CASE /\ rStore' = rStore /\ rLog' \in RLogs /\ rLog'.accepted = rLog.accepted
             /\ Gone(p.id)' /\ \A k : Gone(k) => Gone(k)'
    BY <1>0, <1>4, <2>2 DEF RShape
  <2> QED
    BY <1>10, <2>1, <2>2
<1>12. RShape'
  BY <1>0, <1>9, <1>11 DEF RShape
<1>13. \A q \in Payload : Carried(q) => Carried(q)' \/ Gone(q.id)'
  <2>1. \A q \in Payload : Carried(q) => Carried(q)' \/ q = p
    BY <1>9, <1>11 DEF Carried
  <2>2. \A q : q = p => q.id = j
    BY <1>4
  <2>3. \A k : k = j => Gone(k)'
    BY <1>11
  <2> QED
    BY <2>1, <2>2, <2>3
<1> QED
  BY <1>9, <1>11, <1>12, <1>13, NothingTaken

\* And pushes it again for a retry.
LEMMA ClientPushKeeps ==
  ASSUME RIndInv, NEW i \in RInstances, NEW ok \in BOOLEAN, ClientPush(i, ok)
  PROVE RIndInv'
<1>0. RShape /\ rStore \in RStores /\ rProc \in [RInstances -> RProcs] /\ rLog \in RLogs
  BY DEF RIndInv, RShape
<1>1. rProc[i].client.now \in Payload
  BY <1>0, ProcIs, ClientIs DEF ClientPush
<1>2. PICK p \in Payload : p = [rProc[i].client.now EXCEPT !.attempts = 0]
  BY <1>1 DEF Payload
<1>3. rProc' = [rProc EXCEPT ![i].client = RIdle] /\ Command(ok, p, pushPayload(p), rLog) /\ RIdle \in RClients
  BY <1>2 DEF ClientPush, RClients
<1>4. /\ rProc' \in [RInstances -> RProcs]
      /\ \A k \in RInstances : rProc'[k].worker = rProc[k].worker /\ rProc'[k].move = rProc[k].move
  BY <1>0, <1>3, ClientSet
<1>5. \/ rStore' = pushPayload(p) /\ rLog' = rLog
      \/ /\ rStore' = rStore /\ rLog' \in RLogs /\ rLog'.accepted = rLog.accepted
         /\ \A k : Gone(k) => Gone(k)'
  BY <1>0, <1>3, CommandIs
<1>6. /\ rStore' \in RStores /\ rStore'.due \subseteq rStore'.delayed
      /\ rStore'.delayed = rStore.delayed /\ rStore'.failed = rStore.failed
      /\ \A q : Contains(rStore.pending, q) => Contains(rStore'.pending, q)
      /\ rLog' \in RLogs /\ rLog'.accepted = rLog.accepted /\ \A k : Gone(k) => Gone(k)'
  <2>1. CASE rStore' = pushPayload(p) /\ rLog' = rLog
    <3>1. \A k : Gone(k) => Gone(k)'
      BY <2>1 DEF Gone
    <3> QED
      BY <1>0, <2>1, <3>1, PushIsDone
  <2>2. CASE /\ rStore' = rStore /\ rLog' \in RLogs /\ rLog'.accepted = rLog.accepted
             /\ \A k : Gone(k) => Gone(k)'
    BY <1>0, <2>2 DEF RShape
  <2> QED
    BY <1>5, <2>1, <2>2
<1>7. RShape'
  BY <1>0, <1>4, <1>6 DEF RShape
<1>8. \A q \in Payload : Carried(q) => Carried(q)'
  BY <1>4, <1>6 DEF Carried
<1> QED
  BY <1>4, <1>6, <1>7, <1>8, NothingTaken

\* An instance stops: the job its worker had is harmed, what it was moving stays delayed.
LEMMA RestartKeeps ==
  ASSUME RIndInv, NEW i \in RInstances, Restart(i)
  PROVE RIndInv'
<1>0. RShape /\ rStore \in RStores /\ rProc \in [RInstances -> RProcs] /\ rLog \in RLogs
  BY DEF RIndInv, RShape
<1> DEFINE S == {j \in RJobs : Holds(i, j)}
           idle == [worker |-> RIdle, move |-> RIdle, client |-> RIdle]
<1>1. /\ rLog.faults < RFaultBound /\ rLog' = [rLog EXCEPT !.faults = @ + 1, !.harmed = @ \cup S]
      /\ rProc' = [rProc EXCEPT ![i] = idle] /\ rStore' = rStore
  BY DEF Restart
<1>2. idle \in RProcs /\ idle.worker = RIdle /\ idle.move = RIdle
  BY DEF RProcs, RMoves, RClients
<1>3. S \in SUBSET RJobs /\ \A q \in Payload : q = rProc[i].worker => q.id \in S
  BY PayloadIs DEF Holds
<1> HIDE DEF S, idle
<1>4. /\ rLog' \in RLogs /\ rLog'.accepted = rLog.accepted
      /\ \A k : (Gone(k) => Gone(k)') /\ (k \in S => Gone(k)')
  BY <1>0, <1>1, <1>3, LogFails
<1>5. /\ rProc' \in [RInstances -> RProcs]
      /\ \A k \in RInstances : rProc'[k] = IF k = i THEN idle ELSE rProc[k]
  BY <1>0, <1>1, <1>2
<1>6. RShape'
  BY <1>0, <1>1, <1>4, <1>5 DEF RShape
<1>7. \A q \in Payload : Carried(q) => Carried(q)' \/ Gone(q.id)'
  <2>1. \A q \in Payload : Carried(q) => Carried(q)' \/ q = rProc[i].worker
    BY <1>1, <1>5 DEF Carried
  <2> QED
    BY <1>3, <1>4, <2>1
<1>8. RIdle.at # "rem"
  BY DEF RIdle
<1> QED
  BY <1>1, <1>2, <1>4, <1>5, <1>6, <1>7, <1>8, NothingTaken

-----------------------------------------------------------------------------
(* The theorems of the Redis queue *)

\* The invariant of the Redis queue, at the start and at every step: a payload whose
\* removal from the sorted set is under way was pushed before (runDelayedScheduler).
THEOREM RedisInvariance == RSpec => []RIndInv
<1>1. RInit => RIndInv
  <2> SUFFICES ASSUME RInit PROVE RIndInv
    OBVIOUS
  <2>1. rStore \in RStores /\ rStore.due = {} /\ rStore.delayed = {}
    BY DEF RInit, RStores
  <2>2. rProc \in [RInstances -> RProcs] /\ \A i \in RInstances : rProc[i].move = RIdle
    BY DEF RInit, RProcs, RMoves, RClients
  <2>3. rLog \in RLogs /\ rLog.accepted = {}
    <3>1. 0 \in 0 .. RFaultBound /\ 0 \in 0 .. ROpBound
      BY RedisAssumption
    <3> QED
      BY <3>1 DEF RInit, RLogs
  <2>4. RIdle.at # "rem"
    BY DEF RIdle
  <2> QED
    BY <2>1, <2>2, <2>3, <2>4 DEF RIndInv, RShape, Accounted, PushedBeforeRemoved
<1>2. RIndInv /\ [RNext]_rvars => RIndInv'
  <2> SUFFICES ASSUME RIndInv, [RNext]_rvars PROVE RIndInv'
    OBVIOUS
  <2>1. ASSUME NEW j \in RJobs, Push(j) \/ PushDelayed(j) PROVE RIndInv'
    BY <2>1, PushKeeps
  <2>2. ASSUME NEW p \in rStore.delayed, BecomeDue(p) PROVE RIndInv'
    BY <2>2, ReadersKeep
  <2>3. ASSUME NEW i \in RInstances, Pop(i) \/ HandleOk(i) \/ MoveFetch(i) \/ Restart(i) PROVE RIndInv'
    BY <2>3, PopKeeps, HandleOkKeeps, ReadersKeep, RestartKeeps
  <2>4. ASSUME NEW i \in RInstances, NEW n \in DOMAIN rStore.failed, NEW op \in {"retry", "delete"},
               ClientFetch(i, op, n)
        PROVE RIndInv'
    BY <2>4, ReadersKeep
  <2>5. ASSUME NEW i \in RInstances, NEW ok \in BOOLEAN,
               HandleErr(i, ok) \/ MoveRem(i, ok) \/ ClientRem(i, ok) \/ ClientPush(i, ok)
        PROVE RIndInv'
    BY <2>5, HandleErrKeeps, MoveRemKeeps, ClientRemKeeps, ClientPushKeeps
  <2>6. ASSUME NEW i \in RInstances, NEW ok \in BOOLEAN, NEW p \in rProc[i].move.todo, MovePush(i, p, ok)
        PROVE RIndInv'
    BY <2>6, MovePushKeeps
  <2>7. CASE UNCHANGED rvars
    BY <2>7 DEF rvars, RIndInv, RShape, Accounted, PushedBeforeRemoved, Gone, Descends, Carried
  <2> QED
    BY <2>1, <2>2, <2>3, <2>4, <2>5, <2>6, <2>7 DEF RNext
<1> QED
  BY <1>1, <1>2, PTL DEF RSpec

\* The lists, the sorted set, what the instances hold and the counters have their types.
THEOREM RedisTypeCorrect == RSpec => []RTypeOK
<1>1. RIndInv => RTypeOK
  BY DEF RIndInv, RShape, RStores, RProcs, RLogs, RTypeOK
<1> QED
  BY <1>1, RedisInvariance, PTL

\* No accepted job is lost by the migrations of any number of instances: it is in a list,
\* the sorted set or a worker's hands until it is settled, or a fault or an operator hit it.
THEOREM RedisLosesNothing == RSpec => []RedisJobsAccountedFor
<1>1. RIndInv => RedisJobsAccountedFor
  <2> SUFFICES ASSUME RIndInv, NEW j \in rLog.accepted,
                      j \notin rLog.settled \cup rLog.harmed \cup rLog.retried
               PROVE Somewhere(j)
    BY DEF RedisJobsAccountedFor
  <2>1. PICK q \in Payload : q.id = j /\ (Carried(q) \/ q \in rStore.delayed)
    BY DEF RIndInv, Accounted, Gone
  <2>2. rStore.pending \in Seq(Payload) /\ rStore.failed \in Seq(Payload)
    BY StoreIs DEF RIndInv
  <2>3. q # RIdle
    BY PayloadIs
  <2> QED
    BY <2>1, <2>2, <2>3 DEF Carried, Contains, Somewhere, Holds
<1> QED
  BY <1>1, RedisInvariance, PTL
=============================================================================
