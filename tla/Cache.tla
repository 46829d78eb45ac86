------------------------------- MODULE Cache -------------------------------
(* The cache over its two stores.  The memory store keeps an expired item until the  *)
(* cleanup goroutine or another write takes it away, and hides it from Get; Redis     *)
(* drops a key by itself, and stores what JSON makes of a value, so that a number     *)
(* comes back as a float64.  Callers of Remember look, compute and store with no      *)
(* lock in between, while others Put, Forget and Flush.                               *)
EXTENDS Naturals

CONSTANTS KKeys, KCallers,
          KValues,   \* values with their Go type
          KTTLs,     \* times to live; 0, or less in the code: the entry does not expire
          KMaxTime   \* bound: the clock stops there
ASSUME CacheAssumption == KTTLs \subseteq Nat /\ KMaxTime \in Nat

VARIABLES kStore,  \* "memory" or "redis"
          kItems,  \* what the store holds of each key
          kNow,
          kCaller  \* each caller of Remember

kvars == <<kStore, kItems, kNow, kCaller>>

Value(v, type) == [v |-> v, type |-> type]
KMoments == {0} \cup {t + ttl : t \in 0 .. KMaxTime, ttl \in KTTLs}
NoItem == [val |-> Value("nil", "nil"), until |-> 0]
KIdle == [at |-> "idle"]
Expired(item, t) == item.until > 0 /\ t > item.until

KInit == /\ kStore \in {"memory", "redis"}
         /\ kItems = [k \in KKeys |-> NoItem] /\ kNow = 0 /\ kCaller = [c \in KCallers |-> KIdle]

(* json.Marshal, then json.Unmarshal into an any.                                     *)
JSON(val) == IF val.type = "int" THEN [val EXCEPT !.type = "float64"] ELSE val
KStored == KValues \cup {JSON(val) : val \in KValues}
Stored(val) == IF kStore = "redis" THEN JSON(val) ELSE val

PutItem(k, val, ttl) ==
  [kItems EXCEPT ![k] = [val |-> Stored(val), until |-> IF ttl > 0 THEN kNow + ttl ELSE 0]]
\* Mutant of Found: Get leaves expired items to the cleanup goroutine.
FoundExpired(k) == kItems[k] # NoItem
Found(k) == kItems[k] # NoItem /\ ~Expired(kItems[k], kNow)
(* cache.Get[T]: a value of another type is a miss.                                   *)
Get(k, type) == Found(k) /\ kItems[k].val.type = type

Put(k, val, ttl) == kItems' = PutItem(k, val, ttl) /\ UNCHANGED <<kStore, kNow, kCaller>>
Forget(k) == kItems' = [kItems EXCEPT ![k] = NoItem] /\ UNCHANGED <<kStore, kNow, kCaller>>
Flush == kItems' = [k \in KKeys |-> NoItem] /\ UNCHANGED <<kStore, kNow, kCaller>>

(* MemoryStore.cleanup, at any tick of its five minutes.                               *)
cleanup == /\ kStore = "memory"
           /\ kItems' = [k \in KKeys |-> IF Expired(kItems[k], kNow) THEN NoItem ELSE kItems[k]]
           /\ UNCHANGED <<kStore, kNow, kCaller>>

(* Time passes; Redis drops what expires.                                             *)
ClockTick == /\ kNow < KMaxTime /\ kNow' = kNow + 1
             /\ kItems' = [k \in KKeys |-> IF kStore = "redis" /\ Expired(kItems[k], kNow + 1)
                                           THEN NoItem ELSE kItems[k]]
             /\ UNCHANGED <<kStore, kCaller>>

(* Remember: a hit returns; a miss computes with no lock held, and stores the result   *)
(* over whatever is there by then; an error of the closure stores nothing.             *)
RememberGet(c, k, val, ttl) ==
  /\ kCaller[c] = KIdle
  /\ kCaller' = [kCaller EXCEPT ![c] =
       IF Get(k, val.type) THEN @ ELSE [at |-> "compute", key |-> k, val |-> val, ttl |-> ttl]]
  /\ UNCHANGED <<kStore, kItems, kNow>>
RememberPut(c, ok) ==
  /\ kCaller[c] # KIdle
  /\ kItems' = IF ok THEN PutItem(kCaller[c].key, kCaller[c].val, kCaller[c].ttl) ELSE kItems
  /\ kCaller' = [kCaller EXCEPT ![c] = KIdle]
  /\ UNCHANGED <<kStore, kNow>>

KNext == \/ \E k \in KKeys : \/ Forget(k)
                             \/ \E val \in KValues, ttl \in KTTLs :
                                  \/ Put(k, val, ttl)
                                  \/ \E c \in KCallers : RememberGet(c, k, val, ttl)
         \/ Flush \/ cleanup \/ ClockTick
         \/ \E c \in KCallers, ok \in BOOLEAN : RememberPut(c, ok)

KSpec == KInit /\ [][KNext]_kvars

-----------------------------------------------------------------------------
Computes == [at : {"compute"}, key : KKeys, val : KValues, ttl : KTTLs]
KTypeOK == /\ kStore \in {"memory", "redis"} /\ kNow \in 0 .. KMaxTime
           /\ kItems \in [KKeys -> [val : KStored \cup {NoItem.val}, until : KMoments]]
           /\ kCaller \in [KCallers -> Computes \cup {KIdle}]

(* Both stores implement the expiring map: whatever the cleanup goroutine has or has   *)
(* not removed yet, the entries Get can return are those whose time has not passed,     *)
(* and only a Put, a Forget, a Flush or the clock changes one.                          *)
Contract == INSTANCE ExpiringMap WITH
  XKeys <- KKeys, XValues <- KStored, XMoments <- KMoments, XNil <- NoItem.val, now <- kNow,
  live <- [k \in KKeys |-> IF Found(k) THEN kItems[k] ELSE NoItem]
ImplementsExpiringMap == Contract!XSpec
=============================================================================
