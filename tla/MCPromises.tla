------------------------------ MODULE MCPromises ------------------------------
(* What comments and messages of the code say of a service and the service does not do, each  *)
(* on an instance as small as shows it.  A behaviour is one of a single service.                 *)
EXTENDS Naturals, Sequences, TLC

VARIABLES cCache, cSingletons, cTransients, cOwner, cStack, cEpoch, cBuilt,
          lApp, lCalls, lLog, lEarly, lKernel, lRequest,
          tNow, tClients, tAnswered,
          sConf, sHeap, sTable, sReq, sJar, sSeen,
          qAsked

(* A provider that registers another from its Register; a service whose factory resolves another.    *)
Nests(p) == [phase |-> IF p = "p" THEN "Register" ELSE "none", providers |-> IF p = "p" THEN <<"n">> ELSE <<>>]
App == INSTANCE Application WITH
  CKeys <- {"config", "mailer"}, CThreads <- {"t1", "t2"}, CBindBound <- 1,
  CNeeds <- ("config" :> <<>> @@ "mailer" :> <<"config">>),
  LProviders <- {"p", "n"}, LNested <- [p \in {"p", "n"} |-> Nests(p)],
  LCallbacks <- 0, LRequests <- {"r"}

(* Two addresses that try the password of one account.                                            *)
Limits == INSTANCE Throttle WITH
  TAddresses <- {"a", "b"}, TCredentials <- {"", "mail"}, TMaxTime <- 1, TMaxRequests <- 4,
  TLimit <- ("Throttle" :> 3 @@ "AuthThrottle" :> 2), TPeriod <- ("Throttle" :> 1 @@ "AuthThrottle" :> 2)

(* The database store under its own middleware, with integer IDs: a visit and a login.             *)
Browser == INSTANCE Sessions WITH
  SRequests <- {1, 2}, SOps <- <<{"user"}, {"login"}>>, SInFlight <- 1, SLapses <- 0, SFaults <- 0,
  SConfigs <- {[store |-> "db", middleware |-> "DBSessionMiddleware", signed |-> FALSE,
                ids |-> "int", provider |-> "strict"]}

(* A route with a parameter, registered twice.                                                      *)
Front == INSTANCE Requests WITH
  QMethods <- {"GET"}, QSegs <- {"a"}, QNames <- {"x"}, QLongest <- 1,
  QPaths <- {[segs |-> <<"a">>, slash |-> FALSE]},
  QTables <- {LET show == [method |-> "GET", pattern |-> << <<"param", "x">> >>, slash |-> FALSE]
              IN <<show, show>>},
  QLayers <- {}, QStacks <- {}, QRules <- {}, QForms <- {}

containerVars == <<cCache, cSingletons, cTransients, cOwner, cStack, cEpoch, cBuilt>>
applicationVars == <<lApp, lCalls, lLog, lEarly, lKernel, lRequest>>
throttleVars == <<tNow, tClients, tAnswered>>
sessionVars == <<sConf, sHeap, sTable, sReq, sJar, sSeen>>
vars == <<containerVars, applicationVars, throttleVars, sessionVars, qAsked>>
Init == App!CInit /\ App!LInit /\ Limits!TInit /\ Browser!SInit /\ Front!QInit

FactoriesStep == App!CNext /\ UNCHANGED <<applicationVars, throttleVars, sessionVars, qAsked>>
BootStep == App!LNext /\ UNCHANGED <<containerVars, throttleVars, sessionVars, qAsked>>
LimitsStep == Limits!TNext /\ UNCHANGED <<containerVars, applicationVars, sessionVars, qAsked>>
BrowserStep == Browser!SNext /\ UNCHANGED <<containerVars, applicationVars, throttleVars, qAsked>>
RoutesStep == Front!QNext /\ UNCHANGED <<containerVars, applicationVars, throttleVars, sessionVars>>

FactoriesSpec == Init /\ [][FactoriesStep]_vars
BootSpec == Init /\ [][BootStep]_vars
LimitsSpec == Init /\ [][LimitsStep]_vars
BrowserSpec == Init /\ [][BrowserStep]_vars
RoutesSpec == Init /\ [][RoutesStep]_vars

-----------------------------------------------------------------------------
(* container.go:103-105: a factory can resolve other keys while it runs.                             *)
FactoriesMayResolve == App!FactoriesMayResolve
(* application.go:29-32: a provider that is booted has been registered.                               *)
BootFollowsRegister == App!BootFollowsRegister
(* auth/middleware.go:76-79: the requests for one account are limited, whatever their addresses.       *)
AccountsAreLimited == Limits!AccountsAreLimited
(* session_store_db.go:7-10,260: whoever logs in is logged in, and the next request knows it.           *)
LoginsLast == Browser!LoginsLast
(* router.go:82: the last registration of a route with parameters answers its requests.                  *)
RepeatsAreOverwritten == Front!RepeatsAreOverwritten
=============================================================================
