------------------------------ MODULE MCBackend ------------------------------
(***************************************************************************)
(* The services of MCServices, and beside them the parts of the backend    *)
(* that keep or compute something, in scenes of their own, for TLC.        *)
(***************************************************************************)
EXTENDS MCServices, Services

storeVars ==
    <<metricsVars, fitVars, budgetVars, calibVars, registryVars, routerVars, commandVars, lifeVars>>

MoreScenes == {"metrics", "fit", "budget", "calibration", "registry", "presets", "command", "lifecycle"}

Some(S) == CHOOSE x \in S : TRUE

\* What a scene leaves out has one initial state.
BackendInit ==
    /\ scene \in Scenes \union MoreScenes
    /\ ServicesInit
    /\ MetricsInit
    /\ RegistryInit /\ (scene # "registry" => \A f \in Files : disk[f] = Absent)
    /\ RouterInit /\ (scene # "presets" => default = Unset)
    /\ CalibInit /\ (scene # "calibration" => schema = NoTable /\ formula = [r \in Runs |-> Some(Formulas)])
    /\ BudgetInit /\ (scene # "budget" => readable = Some(Readable) /\ unmapped = Some(Unmapped) /\ blind = Some(Blind))
    /\ LifeInit /\ (scene # "lifecycle" => ~binary)
    /\ IF scene = "command" THEN CommandInit
       ELSE typed = <<>> /\ preset = Defaults /\ applied = "nothing"
    /\ IF scene = "fit" THEN FitInit
       ELSE /\ fitModel = Some(FitModels) /\ fitPreset = Some(FitPresets)
            /\ machine = Some(Machines) /\ calibration = Some(Corrections)

ServiceScene == Next /\ UNCHANGED storeVars

MetricsScene ==
    /\ scene = "metrics" /\ MetricsNext
    /\ UNCHANGED <<fitVars, budgetVars, calibVars, registryVars, routerVars, commandVars, lifeVars>>

FitScene ==
    /\ scene = "fit" /\ FitNext
    /\ UNCHANGED <<metricsVars, budgetVars, calibVars, registryVars, routerVars, commandVars, lifeVars>>

BudgetScene ==
    /\ scene = "budget" /\ BudgetNext
    /\ UNCHANGED <<metricsVars, fitVars, calibVars, registryVars, routerVars, commandVars, lifeVars>>

CalibrationScene ==
    /\ scene = "calibration" /\ CalibNext
    /\ UNCHANGED <<metricsVars, fitVars, budgetVars, registryVars, routerVars, commandVars, lifeVars>>

RegistryScene ==
    /\ scene = "registry" /\ RegistryNext
    /\ UNCHANGED <<metricsVars, fitVars, budgetVars, calibVars, routerVars, commandVars, lifeVars>>

PresetsScene ==
    /\ scene = "presets" /\ RouterNext
    /\ UNCHANGED <<metricsVars, fitVars, budgetVars, calibVars, registryVars, commandVars, lifeVars>>

CommandScene ==
    /\ scene = "command" /\ CommandNext
    /\ UNCHANGED <<metricsVars, fitVars, budgetVars, calibVars, registryVars, routerVars, lifeVars>>

LifecycleScene ==
    /\ scene = "lifecycle" /\ LifeNext
    /\ UNCHANGED <<metricsVars, fitVars, budgetVars, calibVars, registryVars, routerVars, commandVars>>

StoreScene ==
    /\ \/ MetricsScene \/ FitScene \/ BudgetScene \/ CalibrationScene
       \/ RegistryScene \/ PresetsScene \/ CommandScene \/ LifecycleScene
    /\ UNCHANGED <<serviceVars, scene>>

BackendNext == ServiceScene \/ StoreScene

BackendSpec == BackendInit /\ [][BackendNext]_<<serviceVars, storeVars, scene>>

-----------------------------------------------------------------------------
(* Instances *)

\* A model with experts and one without, in units of 512 MB.
MCFitModels ==
    [core : {4}, embd : {2}, perLayer : {2}, expLayers : {4}, layers : {4}, kv : {1, 5}, compute : {2}]
    \union [core : {10}, embd : {0}, perLayer : {0}, expLayers : {0}, layers : {4}, kv : {1, 5}, compute : {2}]
MCFitPresets == [ngl : {0, 2, AllLayers}, cpuMoe : {0, 2}, ot : OverrideKinds]
MCMachines ==
    {h \in [gpuTotal : {0, 12, 24}, gpuFree : {0, 12, 20}, gpuBudget : {0, 8, 11, 22},
            ramTotal : {8, 24}, ramAvailable : {4, 24}, unified : BOOLEAN] :
        /\ h.gpuFree <= h.gpuBudget /\ h.gpuBudget <= h.gpuTotal
        /\ h.ramAvailable <= h.ramTotal}
MCCorrections == {c \in [measured : BOOLEAN, offset : {-1, 0, 2}] : c.offset # 0 => c.measured}

\* Two cards of a vendor and one of another; a preset on one card, on all, on
\* one of the other vendor, and a process that is nobody's preset.
MCVendorOf == [c \in {"gtx", "rtx", "rx"} |-> IF c = "rx" THEN "amd" ELSE "nvidia"]
MCPinOf == "x" :> {"gtx"} @@ "y" :> {} @@ "z" :> {"rx"}
MCFootprint ==
    LET On(gtx, rtx, rx) == "gtx" :> gtx @@ "rtx" :> rtx @@ "rx" :> rx
    IN  "x" :> On(4, 0, 0) @@ "y" :> On(2, 1, 3) @@ "z" :> On(1, 0, 4) @@ "o" :> On(2, 2, 2)
MCGuesses == [s \in {"x", "y", "z"} |-> IF s = "y" THEN 6 ELSE 3]
MCForeign == "gtx" :> 1 @@ "rtx" :> 0 @@ "rx" :> 2
MCCapacity == "gtx" :> 8 @@ "rtx" :> 6 @@ "rx" :> 10

MCRuns == {[on |-> "nvidia", pin |-> "nvidia"], [on |-> "amd", pin |-> NoVendor]}
MCExcess == "nvidia" :> 2 @@ "amd" :> -1

\* Two files of one directory, and one of another.
MCModelId == [f \in Models \union Loose |-> IF f = "e" THEN "e" ELSE "d"]

MCTokens == Words \union {"y", "rpc0"}

\* Commands of up to three phrases, one of them without its value.
Phrases ==
    {<<"--model", "x">>, <<"--temp", "x">>, <<"--temperature", "y">>, <<"--reasoning">>, <<"--reasoning", "off">>,
     <<"--verbose", "x">>, <<"--jinja">>, <<"--metrics">>, <<"--no-cont-batching">>, <<"--model-draft", "x">>,
     <<"--spec-type", "x">>, <<"--draft-max", "y">>, <<"-dev", "rpc0">>, <<"--rpc", "x">>, <<"--models-dir", "x">>,
     <<"--temp">>}
MCTyped ==
    {<<>>} \union Phrases \union {p \o q : p, q \in Phrases} \union {p \o q \o r : p, q, r \in Phrases}
MCEdits ==
    {Defaults,
     [Defaults EXCEPT !.temp = "y", !.draftModel = "y", !.draftMax = "y", !.reasoning = "off", !.devices = "rpc0",
                      !.contBatching = FALSE, !.jinja = TRUE, !.metrics = FALSE, !.extra = <<"--verbose">>],
     [Defaults EXCEPT !.mode = "router", !.modelsDir = "y"],
     [Defaults EXCEPT !.extra = <<"--temperature", "y">>]}

=============================================================================
