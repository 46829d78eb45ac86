------------------------------- MODULE Throttle -------------------------------
(* The two rate limiters in front of a login route: http.Throttle, keyed by the     *)
(* client's address, and auth.AuthThrottle, keyed by the address and the credential  *)
(* of the form.  Each keeps the instants of the requests it let through and decides  *)
(* under its mutex, reading the clock inside.                                        *)
EXTENDS Naturals, Sequences, FiniteSets, Slices

CONSTANTS TAddresses, TCredentials,  \* "" is a form with no credential
          TLimit, TPeriod,           \* of each limiter
          TMaxTime, TMaxRequests     \* bounds on the clock and on the requests

Limiters == {"Throttle", "AuthThrottle"}
ASSUME ThrottleAssumption ==
  TLimit \in [Limiters -> Nat] /\ TPeriod \in [Limiters -> Nat] /\ TMaxTime \in Nat

VARIABLES tNow,
          tClients,  \* each limiter's map from key to instants
          tAnswered  \* history: every decision of each limiter

tvars == <<tNow, tClients, tAnswered>>

(* clientIP and resolveClientIP: the first address of X-Forwarded-For, then X-Real-IP, *)
(* then the peer's address; "" is a header that is not there.                           *)
ClientIP(forwarded, real, remote) ==
  CASE forwarded # <<>> -> Head(forwarded)
    [] forwarded = <<>> /\ real # "" -> real
    [] OTHER -> remote

Key(limiter, ip, credential) ==
  IF limiter = "Throttle" \/ credential = "" THEN <<ip>> ELSE <<ip, credential>>
Keys == {Key(l, ip, cr) : l \in Limiters, ip \in TAddresses, cr \in TCredentials}

TInit == /\ tNow = 0
         /\ tClients = [l \in Limiters |-> [k \in Keys |-> <<>>]]
         /\ tAnswered = [l \in Limiters |-> <<>>]

(* The instants after now - period; a limiter that refuses leaves its list as it was.   *)
\* Mutant of Active: an instant one period old still counts.
ActiveInclusive(l, key) == Keep(tClients[l][key], {ts \in 0 .. TMaxTime : ts + TPeriod[l] >= tNow})
Active(l, key) == Keep(tClients[l][key], {ts \in 0 .. TMaxTime : ts + TPeriod[l] > tNow})
\* Mutant of Allows: one request more than the limit.
AllowsOneMore(l, key) == Len(Active(l, key)) <= TLimit[l]
Allows(l, key) == Len(Active(l, key)) < TLimit[l]
Decide(l, key) ==
  [clients  |-> IF Allows(l, key) THEN [tClients[l] EXCEPT ![key] = Append(Active(l, key), tNow)]
                ELSE tClients[l],
   answered |-> Append(tAnswered[l], [key |-> key, at |-> tNow, ok |-> Allows(l, key)])]

(* A request to the login route: Throttle first, and AuthThrottle if it lets it pass.   *)
Request(ip, credential) ==
  LET key(l) == Key(l, ip, credential)
      asked == {l \in Limiters : l = "Throttle" \/ Allows("Throttle", key("Throttle"))}
  IN /\ tClients' = [l \in Limiters |->
                       IF l \in asked THEN Decide(l, key(l)).clients ELSE tClients[l]]
     /\ tAnswered' = [l \in Limiters |->
                       IF l \in asked THEN Decide(l, key(l)).answered ELSE tAnswered[l]]
     /\ tNow' = tNow

TTick == tNow < TMaxTime /\ tNow' = tNow + 1 /\ UNCHANGED <<tClients, tAnswered>>

TNext == \/ TTick
         \/ /\ Len(tAnswered["Throttle"]) < TMaxRequests
            /\ \E forwarded \in {<<>>} \cup {<<a, "proxy">> : a \in TAddresses},
                  remote \in TAddresses, credential \in TCredentials :
                 Request(ClientIP(forwarded, "", remote), credential)

TSpec == TInit /\ [][TNext]_tvars

-----------------------------------------------------------------------------
TTypeOK == /\ tNow \in 0 .. TMaxTime
           /\ \A l \in Limiters, k \in Keys : /\ tClients[l][k] \in Seq(0 .. TMaxTime)
                                              /\ Len(tClients[l][k]) <= TLimit[l]

(* In every window of one period a limiter lets at most its limit of requests of one    *)
(* key through, and it refuses one only when the window that ends then is full: neither  *)
(* the pruning of old instants nor refused requests change what the window holds.  The    *)
(* key of AuthThrottle is the pair of address and credential: it limits neither the        *)
(* requests of an address nor those for an account (see AccountsAreLimited).               *)
Passed(l, k, upTo, at) == {n \in 1 .. upTo : LET a == tAnswered[l][n] IN
                             a.key = k /\ a.ok /\ a.at <= at /\ a.at + TPeriod[l] > at}
WindowHoldsLimit ==
  \A l \in Limiters, k \in Keys :
    /\ \A at \in 0 .. tNow : Cardinality(Passed(l, k, Len(tAnswered[l]), at)) <= TLimit[l]
    /\ \A n \in DOMAIN tAnswered[l] : LET a == tAnswered[l][n] IN
         a.key = k /\ ~a.ok => Cardinality(Passed(l, k, n, a.at)) = TLimit[l]

(* auth/middleware.go:76-79 says that AuthThrottle blocks credential stuffing "where many  *)
(* IPs target the same account": of the requests with one credential, from whatever         *)
(* addresses, it lets at most its limit through in a window.                                 *)
AccountsAreLimited ==
  \A credential \in TCredentials \ {""}, at \in 0 .. tNow :
    Cardinality(UNION {Passed("AuthThrottle", <<ip, credential>>, Len(tAnswered["AuthThrottle"]), at) :
                         ip \in TAddresses}) <= TLimit["AuthThrottle"]
=============================================================================
