---------------------------- MODULE ServiceProofs ----------------------------
(***************************************************************************)
(* What holds of all services together.                                    *)
(***************************************************************************)
EXTENDS Services, JobProofs, ServerProofs, CountProofs, StoreProofs, TLAPS

\* The tables, flags, tasks and files of every service keep their types, for all
\* values of the constants of all of them.
THEOREM ServicesAreTyped ==
    /\ ScanSpec /\ AbSpec /\ GuideSpec
    /\ WatchdogSpec /\ RpcSpec /\ ProxySpec /\ LifeSpec
    /\ MetricsSpec /\ BudgetSpec /\ FitSpec
    /\ CalibSpec /\ RegistrySpec /\ RouterSpec /\ CommandSpec
    => []ServicesTypeOK
<1>1. /\ BuildTypeOK /\ ScanTypeOK /\ BenchTypeOK /\ AbTypeOK /\ GuideTypeOK
      /\ WatchdogTypeOK /\ RpcTypeOK /\ LifeTypeOK /\ ProxyTypeOK
      /\ MetricsTypeOK /\ BudgetTypeOK /\ FitTypeOK
      /\ CalibTypeOK /\ RegistryTypeOK /\ RouterTypeOK /\ CommandTypeOK
      => ServicesTypeOK
    BY DEF ServicesTypeOK
<1>. QED BY <1>1, JobsAreTyped, ServersAreTyped, TokensAreCountedOnce, MemoryIsPromisedOnce, VerdictsAreTrue,
         MeasurementsAreKept, RegistryStaysTrue, EveryPresetIsServed, PresetIsItsCommand, PTL

=============================================================================
