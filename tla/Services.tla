------------------------------- MODULE Services -------------------------------
(* The services that share no state with one another, side by side: each behaviour is    *)
(* one of a single service, `which'; the others stay as they began.                        *)
EXTENDS RedisQueue, Orchestration, Application, Events, Cache, Throttle, Sessions,
        Transactions, Migrator, Watchers

VARIABLE which

servicesVars == <<which, rvars, bvars, cvars, lvars, evars, kvars, tvars, svars, txvars, gvars, hvars, dvars>>
ServiceNames == {"redis", "batch", "container", "server", "events", "cache", "limits", "browser",
                 "tx", "migrator", "reload", "dev"}

(* A service that does not move has one initial state.                                 *)
AllBegin == /\ RInit /\ BInit /\ CInit /\ LInit /\ EInit
            /\ KInit /\ TInit /\ SInit /\ TxInit /\ GInit
            /\ HInit /\ DInit
            /\ which # "cache" => kStore = "memory"
            /\ which # "browser" => sConf = CHOOSE conf \in SConfigs : TRUE
            /\ which # "tx" => txAborts
            /\ which # "migrator" => gDDL
ServicesInit == which \in ServiceNames /\ AllBegin

RedisStep == /\ which = "redis" /\ RNext
             /\ UNCHANGED <<which, bvars, cvars, lvars, evars, kvars, tvars, svars, txvars, gvars, hvars, dvars>>
BatchStep == /\ which = "batch" /\ BNext
             /\ UNCHANGED <<which, rvars, cvars, lvars, evars, kvars, tvars, svars, txvars, gvars, hvars, dvars>>
ContainerStep == /\ which = "container" /\ CNext
                 /\ UNCHANGED <<which, rvars, bvars, lvars, evars, kvars, tvars, svars, txvars, gvars, hvars, dvars>>
ServerStep == /\ which = "server" /\ LNext
              /\ UNCHANGED <<which, rvars, bvars, cvars, evars, kvars, tvars, svars, txvars, gvars, hvars, dvars>>
EventsStep == /\ which = "events" /\ ENext
              /\ UNCHANGED <<which, rvars, bvars, cvars, lvars, kvars, tvars, svars, txvars, gvars, hvars, dvars>>
CacheStep == /\ which = "cache" /\ KNext
             /\ UNCHANGED <<which, rvars, bvars, cvars, lvars, evars, tvars, svars, txvars, gvars, hvars, dvars>>
LimitsStep == /\ which = "limits" /\ TNext
              /\ UNCHANGED <<which, rvars, bvars, cvars, lvars, evars, kvars, svars, txvars, gvars, hvars, dvars>>
BrowserStep == /\ which = "browser" /\ SNext
               /\ UNCHANGED <<which, rvars, bvars, cvars, lvars, evars, kvars, tvars, txvars, gvars, hvars, dvars>>
TxStep == /\ which = "tx" /\ TxNext
          /\ UNCHANGED <<which, rvars, bvars, cvars, lvars, evars, kvars, tvars, svars, gvars, hvars, dvars>>
MigratorStep == /\ which = "migrator" /\ GNext
                /\ UNCHANGED <<which, rvars, bvars, cvars, lvars, evars, kvars, tvars, svars, txvars, hvars, dvars>>
ReloadStep == /\ which = "reload" /\ HNext
              /\ UNCHANGED <<which, rvars, bvars, cvars, lvars, evars, kvars, tvars, svars, txvars, gvars, dvars>>
DevStep == /\ which = "dev" /\ DNext
           /\ UNCHANGED <<which, rvars, bvars, cvars, lvars, evars, kvars, tvars, svars, txvars, gvars, hvars>>

ServicesNext == \/ RedisStep \/ BatchStep \/ ContainerStep \/ ServerStep \/ EventsStep
                \/ CacheStep \/ LimitsStep \/ BrowserStep \/ TxStep \/ MigratorStep
                \/ ReloadStep \/ DevStep
ServicesSpec == ServicesInit /\ [][ServicesNext]_servicesVars

(* What a developer has on the screen: the server that `gost dev' keeps built, and the   *)
(* pages that the watcher inside the server tells to reload.  The two poll the files each  *)
(* for itself.                                                                              *)
ScreensSpec == HSpec /\ DSpec

-----------------------------------------------------------------------------
(* What was saved reaches the server and the pages, however the saves fall between          *)
(* the polls, the compilations and the builds of both.                                       *)
ScreensFollowSaves == ReloadsFollowSaves /\ ServesWhatWasSaved

(* Whatever service moves, and however far, the state of each is of the values its module  *)
(* names.                                                                                   *)
ServicesTypeOK ==
  /\ RTypeOK /\ BTypeOK /\ CTypeOK /\ LTypeOK /\ ETypeOK
  /\ KTypeOK /\ TTypeOK /\ STypeOK /\ TxTypeOK /\ GTypeOK
  /\ HTypeOK /\ DTypeOK
=============================================================================
