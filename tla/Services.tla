------------------------------- MODULE Services -------------------------------
(***************************************************************************)
(* The services of the backend and the parts that keep or compute          *)
(* something, beside each other: all models but those of the broker, of    *)
(* the supervisor and of the downloads.                                    *)
(***************************************************************************)
EXTENDS FeatureScans, AbRuns, Guides, HealthWatchdog, RpcServers, OpenAiProxy,
        Counts, FitCheck, VramCalibration, ModelRegistry, Stores, Lifecycle

\* The tables and the flags of every service have their types.
ServicesTypeOK ==
    /\ scene = "build" => BuildTypeOK
    /\ scene = "scan" => BuildTypeOK /\ ScanTypeOK
    /\ scene = "bench" => BenchTypeOK /\ AbTypeOK
    /\ scene = "guide" => GuideTypeOK
    /\ scene \in {"single", "router"} => WatchdogTypeOK
    /\ scene \in {"rpc", "rpcExternal"} => RpcTypeOK
    /\ scene = "proxy" => ProxyTypeOK
    /\ scene = "metrics" => MetricsTypeOK
    /\ scene = "fit" => FitTypeOK
    /\ scene = "budget" => BudgetTypeOK
    /\ scene = "calibration" => CalibTypeOK
    /\ scene = "registry" => RegistryTypeOK
    /\ scene = "presets" => RouterTypeOK
    /\ scene = "command" => CommandTypeOK
    /\ scene = "lifecycle" => LifeTypeOK

===============================================================================
