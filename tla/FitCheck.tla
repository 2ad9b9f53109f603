------------------------------ MODULE FitCheck ------------------------------
(***************************************************************************)
(* Will this preset run on this machine?  check_fit() of                   *)
(* src/backend/lld/fit_check.py with the suggestions the user may apply,   *)
(* and the split of the estimate it starts from, vram_estimate.py.         *)
(*                                                                         *)
(* Memory is counted in units of 512 MB.  How the sizes follow from the    *)
(* file of the model and from the context length is left out, and how      *)
(* models are measured is in VramCalibration.                              *)
(***************************************************************************)
EXTENDS Integers

CONSTANTS
    FitModels,   \* the models, see FitModel
    FitPresets,  \* the settings a preset may begin with
    Machines,    \* the hardware, see Machine
    Corrections  \* what was measured of the model, see Correction

VARIABLES
    fitModel,    \* the model of the preset
    fitPreset,   \* its settings
    machine,
    calibration  \* what vram_calib.py answers for the model

fitVars == <<fitModel, fitPreset, machine, calibration>>

(* core, embd   weights that are not experts; embd is what -ot can park
   perLayer     the experts of one layer, of expLayers
   layers       all layers                                                  *)
FitModel == [core : Nat, embd : Nat, perLayer : Nat, expLayers : Nat, layers : Nat,
             kv : Nat, compute : Nat]

(* ngl          -ngl
   cpuMoe       --n-cpu-moe, or all of them for --cpu-moe
   ot           what -ot sends to the CPU                                    *)
OverrideKinds == {"none", "embd", "experts"}
FitPreset == [ngl : Nat, cpuMoe : Nat, ot : OverrideKinds]

Machine == [gpuTotal : Nat, gpuFree : Nat, gpuBudget : Nat, ramTotal : Nat, ramAvailable : Nat,
            unified : BOOLEAN]

Correction == [measured : BOOLEAN, offset : Int]

AllLayers == 999
HEADROOM == 4
MEASURED_HEADROOM == 1

\* Files that are there have layers and weights, and every plan needs room to
\* compute.
ASSUME FitAssumption ==
    /\ FitModels \subseteq {m \in FitModel : /\ m.layers \in 1..AllLayers
                                            /\ m.core + m.embd > 0 /\ m.compute > 0}
    /\ FitPresets \subseteq FitPreset
    /\ Machines \subseteq Machine
    /\ Corrections \subseteq Correction

FitInit ==
    /\ fitModel \in FitModels
    /\ fitPreset \in FitPresets
    /\ machine \in Machines
    /\ calibration \in Corrections

Least(a, b) == IF a < b THEN a ELSE b
AtLeast0(n) == IF n < 0 THEN 0 ELSE n

\* RAM_SAFETY
InRam(need, ram) == need * 100 <= ram * 92

-----------------------------------------------------------------------------
(* The estimate *)

Experts(m) == m.perLayer * m.expLayers
Weights(m) == m.core + m.embd + Experts(m)
IsMoe(m) == Experts(m) > 0

Offset == calibration.offset
Headroom == IF calibration.measured THEN MEASURED_HEADROOM ELSE HEADROOM

\* parse_cpu_moe_offload(): not asked for a model without experts.
CpuMoeLayers(m, p) == IF IsMoe(m) THEN Least(p.cpuMoe, m.expLayers) ELSE 0

\* Mutant: the layers that --n-cpu-moe parks are counted again.
OverrideCpuTwice(m, p, from) ==
    CASE p.ot = "none"    -> 0
      [] p.ot = "embd"    -> m.embd
      [] p.ot = "experts" -> Experts(m)

\* override_cpu_mb(): what -ot parks beyond the first layers of experts.
OverrideCpu(m, p, from) ==
    CASE p.ot = "none"    -> 0
      [] p.ot = "embd"    -> m.embd
      [] p.ot = "experts" -> (m.expLayers - from) * m.perLayer

\* estimate_vram(): the memory in RAM, and the one on the card by the formula.
EstimatedRam(m, p) ==
    LET parked == CASE p.ngl = 0 -> Weights(m)
                    [] p.ngl > 0 /\ CpuMoeLayers(m, p) > 0 -> CpuMoeLayers(m, p) * m.perLayer
                    [] p.ngl > 0 /\ CpuMoeLayers(m, p) = 0 /\ p.ngl < m.layers ->
                           (Weights(m) * (m.layers - p.ngl)) \div m.layers
                    [] OTHER -> 0 IN
    Least(Weights(m), parked + OverrideCpu(m, p, CpuMoeLayers(m, p)))

EstimatedGpu(m, p) ==
    AtLeast0(Weights(m) + m.kv + m.compute - EstimatedRam(m, p) - Offset)

-----------------------------------------------------------------------------
(* The check *)

\* The split of the plan between the card and RAM, as check_fit() has it.
Needs(m, p, h) ==
    LET moved == CpuMoeLayers(m, p) * m.perLayer + OverrideCpu(m, p, CpuMoeLayers(m, p))
        onGpu == (Weights(m) * p.ngl) \div m.layers
        split == IF h.gpuTotal = 0 \/ p.ngl = 0
                 THEN [gpu |-> 0, ram |-> Weights(m) + m.kv + m.compute]
                 ELSE IF CpuMoeLayers(m, p) > 0 \/ moved > 0
                 THEN [gpu |-> Weights(m) - moved + m.kv + m.compute, ram |-> moved]
                 ELSE IF p.ngl < m.layers
                 THEN [gpu |-> onGpu + m.kv + m.compute, ram |-> Weights(m) - onGpu]
                 ELSE [gpu |-> Weights(m) + m.kv + m.compute, ram |-> 0] IN
    [split EXCEPT !.gpu = IF @ > 0 THEN AtLeast0(@ - Offset) ELSE 0]

GpuFree(h) == IF h.unified THEN Least(h.gpuFree, h.ramAvailable) ELSE h.gpuFree
GpuBudget(h) == IF h.unified THEN Least(h.gpuBudget, h.ramTotal) ELSE h.gpuBudget

FitsNow(n, h) == n.gpu = 0 \/ n.gpu + Headroom <= GpuFree(h)
FitsAlone(n, h) == n.gpu = 0 \/ n.gpu + Headroom <= GpuBudget(h)

\* On unified memory the card's share is taken out of the same RAM.
RamLeft(n, h, ram) == IF h.unified THEN AtLeast0(ram - n.gpu) ELSE ram
RamOk(n, h) == InRam(n.ram, RamLeft(n, h, h.ramAvailable))
RamOkTotal(n, h) == InRam(n.ram, RamLeft(n, h, h.ramTotal))

NoSuggestion == [is |-> "none", n |-> 0]
TooBig == [level |-> "too_big", suggestion |-> NoSuggestion]

\* Everything but the experts stays on the card; as many of these as fit do too.
MoeFixed(m, p) ==
    Weights(m) - Experts(m) - OverrideCpu(m, p, CpuMoeLayers(m, p)) + m.kv + m.compute

\* Mutant: the margin is forgotten when the layers are counted.
MoeCpuLayersBold(m, p, h) ==
    m.expLayers - Least(m.expLayers, AtLeast0((GpuBudget(h) - MoeFixed(m, p)) \div m.perLayer))
MoeCpuLayers(m, p, h) ==
    m.expLayers - Least(m.expLayers, AtLeast0((GpuBudget(h) - Headroom - MoeFixed(m, p)) \div m.perLayer))

MoeOffload(m, p, h) ==
    LET n == MoeCpuLayers(m, p, h) IN
    IF MoeFixed(m, p) + Headroom > GpuBudget(h) \/ ~InRam(n * m.perLayer, h.ramTotal) THEN TooBig
    ELSE [level |-> "needs_offload", suggestion |-> [is |-> "moe", n |-> n]]

DenseOffload(m, p, h) ==
    LET room == (GpuBudget(h) - Headroom - m.kv - m.compute) * m.layers
        ngl == AtLeast0(Least(m.layers, room \div Weights(m))) IN
    IF InRam((Weights(m) * (m.layers - ngl)) \div m.layers, h.ramTotal)
    THEN [level |-> "needs_offload", suggestion |-> [is |-> "dense", n |-> ngl]]
    ELSE TooBig

Level(level) == [level |-> level, suggestion |-> NoSuggestion]

CheckFit(m, p, h) ==
    LET n == Needs(m, p, h)
        hybrid == n.ram > 0 IN
    CASE FitsNow(n, h) /\ (~hybrid \/ RamOk(n, h) \/ (n.gpu = 0 /\ RamOkTotal(n, h))) -> Level("fits")
      [] FitsNow(n, h) /\ hybrid /\ ~RamOk(n, h) /\ ~(n.gpu = 0 /\ RamOkTotal(n, h)) ->
             Level(IF RamOkTotal(n, h) THEN "needs_offload" ELSE "too_big")
      [] ~FitsNow(n, h) /\ FitsAlone(n, h) /\ (~hybrid \/ RamOk(n, h)) -> Level("fits_if_alone")
      [] OTHER -> IF IsMoe(m) THEN MoeOffload(m, p, h) ELSE DenseOffload(m, p, h)

\* The patch of a suggestion: flags are replaced, fields are set.
Patched(p, s) ==
    IF s.is = "moe" THEN [p EXCEPT !.cpuMoe = s.n, !.ngl = AllLayers] ELSE [p EXCEPT !.ngl = s.n]

-----------------------------------------------------------------------------

SuggestionApplied ==
    LET s == CheckFit(fitModel, fitPreset, machine).suggestion IN
    /\ s # NoSuggestion
    /\ fitPreset' = Patched(fitPreset, s)
    /\ UNCHANGED <<fitModel, machine, calibration>>

FitNext == SuggestionApplied

FitSpec == FitInit /\ [][FitNext]_fitVars

-----------------------------------------------------------------------------
(* Properties *)

FitTypeOK ==
    /\ fitModel \in FitModel
    /\ fitPreset \in FitPreset
    /\ machine \in Machine
    /\ calibration \in Correction

\* A suggestion that is applied is enough, if RAM is free for it: not where the
\* memory is shared, nor for weights that -ot parks beside it, nor where more
\* was measured than estimated, which the suggestion does not know.
SuggestionsHelp ==
    LET s == CheckFit(fitModel, fitPreset, machine).suggestion
        p == Patched(fitPreset, s) IN
    s # NoSuggestion /\ ~machine.unified /\ Offset >= 0
    /\ fitPreset.ot \in (IF IsMoe(fitModel) THEN {"none", "embd"} ELSE {"none"})
    /\ RamOk(Needs(fitModel, p, machine), machine)
    => CheckFit(fitModel, p, machine).level \in {"fits", "fits_if_alone"}

\* Where the check rounds twice, the layers and the memory they take, it may be
\* wrong by one unit.
RoundedUp(need) == IF IsMoe(fitModel) \/ need.gpu = 0 THEN need ELSE [need EXCEPT !.gpu = @ + 1]

\* A preset that parks nothing is called too big only if no number of layers in
\* RAM makes it fit.
TooBigIsRight ==
    fitPreset = [ngl |-> AllLayers, cpuMoe |-> 0, ot |-> "none"] /\ Offset = 0
    /\ CheckFit(fitModel, fitPreset, machine).level = "too_big"
    => \A n \in 0..(fitModel.layers - 1) :
          LET p == [fitPreset EXCEPT !.ngl = IF IsMoe(fitModel) THEN AllLayers ELSE n,
                                     !.cpuMoe = IF IsMoe(fitModel) THEN Least(n, fitModel.expLayers) ELSE 0]
              need == RoundedUp(Needs(fitModel, p, machine)) IN
          ~(FitsAlone(need, machine) /\ RamOkTotal(need, machine))

\* The card's share that the panel shows and the one that the check decides by
\* are computed apart; they agree for every plan that leaves -ngl alone.
PlansAgree ==
    machine.gpuTotal > 0 /\ fitPreset.ngl >= fitModel.layers
    => Needs(fitModel, fitPreset, machine).gpu = EstimatedGpu(fitModel, fitPreset)

\* What a plan is told of memory is so.
VerdictsHold == SuggestionsHelp /\ TooBigIsRight /\ PlansAgree

=============================================================================
