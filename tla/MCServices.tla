----------------------------- MODULE MCServices -----------------------------
(***************************************************************************)
(* Instances of the services of the backend that wait for something, for   *)
(* TLC.                                                                    *)
(*                                                                         *)
(* The services of one state are chosen with the initial state and are the *)
(* only ones that act: they share nothing with the others, so that the     *)
(* states of one scene are added to those of the others and not multiplied *)
(* with them.                                                              *)
(***************************************************************************)
EXTENDS FeatureScans, AbRuns, Guides, HealthWatchdog, RpcServers, OpenAiProxy,
        Scene

Scenes == {"build", "scan", "bench", "guide", "single", "router", "rpc", "rpcExternal", "proxy"}

serviceVars == <<buildVars, scanVars, benchVars, abVars, guideVars, watchdogVars, rpcVars, proxyVars>>

\* What a scene leaves out has one initial state.
ServicesInit ==
    /\ BuildInit /\ ScanInit /\ BenchInit /\ AbInit /\ GuideInit
    /\ WatchdogInit /\ RpcInit /\ ProxyInit
    /\ scene # "build" => ~otherBin /\ ~ninja /\ repo.is = "checkout"
    /\ scene # "single" => \A p \in Singles : ~server[p].running
    /\ scene # "router" => \A p \in Routers : ~server[p].running
    /\ scene \notin {"rpc", "rpcExternal"} => rpcSettings = CHOOSE line \in Lines : DOMAIN line = RpcNames
    /\ scene # "proxy" => \A c \in Calls : ~call[c].own /\ ~call[c].stream

Init == scene \in Scenes /\ ServicesInit

BuildScene ==
    /\ scene = "build"
    /\ \/ BuildNext /\ UNCHANGED scanVars
       \/ BuildsRestart /\ ScanTasksLost
    /\ UNCHANGED <<benchVars, abVars, guideVars, watchdogVars, rpcVars, proxyVars>>

\* Builds for one backend that are never mixed and do not fail.
ScanScene ==
    /\ scene = "scan"
    /\ ScanNext
    /\ mixed' = {} /\ ninja' = ninja
    /\ \A b \in Builds : build'[b].status # "failed" /\ build'[b].backend = UnusedBuild.backend
    /\ UNCHANGED <<benchVars, abVars, guideVars, watchdogVars, rpcVars, proxyVars>>

BenchScene ==
    /\ scene = "bench"
    /\ AbNext
    /\ UNCHANGED <<buildVars, scanVars, guideVars, watchdogVars, rpcVars, proxyVars>>

GuideScene ==
    /\ scene = "guide"
    /\ GuideNext
    /\ UNCHANGED <<buildVars, scanVars, benchVars, abVars, watchdogVars, rpcVars, proxyVars>>

\* Single presets beside routers that are off, and routers beside single presets.
WatchdogScene ==
    /\ scene \in {"single", "router"}
    /\ WatchdogNext
    /\ \A p \in IF scene = "single" THEN Routers ELSE Singles : ~server'[p].running
    /\ UNCHANGED <<buildVars, scanVars, benchVars, abVars, guideVars, rpcVars, proxyVars>>

\* Settings that change, or servers of somebody else.
RpcScene ==
    /\ scene \in {"rpc", "rpcExternal"}
    /\ RpcNext
    /\ IF scene = "rpc" THEN external' = {} ELSE rpcSettings' = rpcSettings
    /\ UNCHANGED <<buildVars, scanVars, benchVars, abVars, guideVars, watchdogVars, proxyVars>>

ProxyScene ==
    /\ scene = "proxy"
    /\ ProxyNext
    /\ UNCHANGED <<buildVars, scanVars, benchVars, abVars, guideVars, watchdogVars, rpcVars>>

Next ==
    /\ \/ BuildScene \/ ScanScene \/ BenchScene \/ GuideScene
       \/ WatchdogScene \/ RpcScene \/ ProxyScene
    /\ UNCHANGED scene

\* The loop of the watchdog goes on whatever a visit meets: it catches exceptions.
WatchdogFairness ==
    /\ WF_watchdogVars(scene \in {"single", "router"} /\ Tick)
    /\ \A p \in Watched : WF_watchdogVars(scene \in {"single", "router"} /\ Visited(p))

Spec ==
    /\ Init /\ [][Next]_<<serviceVars, scene>>
    /\ ScanFairness /\ AbFairness /\ GuideFairness
    /\ WatchdogFairness /\ ProxyFairness

-----------------------------------------------------------------------------
(* Properties *)

\* Every job that is recorded as running is recorded as over in the end, and
\* what it blocked is free again; only the end of the backend leaves rows behind.
\* A server that hangs is restarted, given up or comes back.
ServicesSettle ==
    /\ BuildRowsSettle /\ ScanLockFrees /\ BenchRowsSettle /\ AbRowsSettle /\ GuideRowsSettle
    /\ HangIsAnswered

=============================================================================
