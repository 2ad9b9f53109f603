-------------------------------- MODULE Counts --------------------------------
(***************************************************************************)
(* What the backend counts: the tokens of MetricsService and the memory of *)
(* plan_budget(), which share no state.                                    *)
(***************************************************************************)
EXTENDS Metrics, PlanBudget, Scene

\* No byte is promised twice to a plan, and no token is in two rates.
NothingCountsTwice ==
    /\ scene = "metrics" => MetricsAreEarned
    /\ scene = "budget" => BudgetIsHonest

=============================================================================
