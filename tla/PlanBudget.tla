------------------------------ MODULE PlanBudget ------------------------------
(***************************************************************************)
(* What a plan may count on: plan_budget() of src/backend/lld/fit_budget.py *)
(* over the presets that run, the processes the vendor tools can attribute *)
(* and the cards, for presets and other processes that start and stop.     *)
(***************************************************************************)
EXTENDS Integers, FiniteSetsExt

CONSTANTS
    Cards,
    VendorOf,    \* by card
    Servers,     \* presets that LlamaDeck may run
    Strangers,   \* processes with "llama" in their name that are nobody's preset
    PinOf,       \* the cards a preset is pinned to, none if it is not
    Footprint,   \* memory a process takes: [Servers \union Strangers -> [Cards -> Nat]]
    Guesses,     \* estimates the supervisor has: [Servers -> Nat]
    Foreign,     \* memory of other processes and the desktop: by card
    Capacity,    \* by card
    Readable,    \* sets of vendors whose processes are attributed
    Unmapped,    \* sets of vendors whose rows do not tell the card
    Blind        \* sets of cards whose own reading fails and that no OS row is known to be

\* A card holds no more than it has room for.
ASSUME BudgetAssumption ==
    /\ IsFiniteSet(Cards) /\ IsFiniteSet(Servers) /\ IsFiniteSet(Strangers) /\ Servers \intersect Strangers = {}
    /\ Footprint \in [Servers \union Strangers -> [Cards -> Nat]] /\ Guesses \in [Servers -> Nat]
    /\ Foreign \in [Cards -> Nat] /\ Capacity \in [Cards -> Nat]
    /\ \A c \in Cards : Foreign[c] <= Capacity[c]

VARIABLES
    up,          \* processes that run
    resident,    \* of those, the ones that hold their memory already
    readable,    \* vendors
    unmapped,    \* vendors
    blind

budgetVars == <<up, resident, readable, unmapped, blind>>

GpuProcesses == Servers \union Strangers

BudgetInit ==
    /\ up = {} /\ resident = {}
    /\ readable \in Readable
    /\ unmapped \in Unmapped
    /\ blind \in Blind

\* The footprints of what runs at once fit on the cards.
Used(c) == Foreign[c] + MapThenSumSet(LAMBDA s : Footprint[s][c], resident)
Free(c) == Capacity[c] - Used(c)
Roomy(S) == \A c \in Cards : Foreign[c] + MapThenSumSet(LAMBDA s : Footprint[s][c], S) <= Capacity[c]

ServerStarts ==
    \E s \in GpuProcesses \ up :
        /\ Roomy(up \union {s})
        /\ up' = up \union {s} /\ UNCHANGED <<resident, readable, unmapped, blind>>

ServerLoads ==
    \E s \in up \ resident : resident' = resident \union {s} /\ UNCHANGED <<up, readable, unmapped, blind>>

ServerStops ==
    \E s \in up :
        /\ up' = up \ {s} /\ resident' = resident \ {s}
        /\ UNCHANGED <<readable, unmapped, blind>>

BudgetNext == ServerStarts \/ ServerLoads \/ ServerStops

BudgetSpec == BudgetInit /\ [][BudgetNext]_budgetVars

-----------------------------------------------------------------------------
(* plan_budget() for a preset pinned to the cards of a set, all for none *)

Picked(pin) == IF pin = {} THEN Cards ELSE pin
Seen(pin) == IF pin = {} THEN Cards ELSE pin \ blind

TotalOn(S) == MapThenSumSet(LAMBDA c : Capacity[c], S)
FreeOn(S) == MapThenSumSet(LAMBDA c : Free(c), S)
UsedOn(S) == MapThenSumSet(LAMBDA c : Used(c), S)

\* _runs_on(): a preset without a pin is on every card.
PlacedOn(s, pin) == pin = {} \/ PinOf[s] = {} \/ PinOf[s] \intersect pin # {}
Running(pin) == {s \in up \intersect Servers : PlacedOn(s, pin)}

\* _in_scope(): a row that does not tell its card is taken to be on any card of
\* its vendor.
InScope(c, pin) == c \in Seen(pin) \/ (VendorOf[c] \in unmapped /\ \E d \in Seen(pin) : VendorOf[d] = VendorOf[c])
Rows(S, pin) ==
    {row \in S \X Cards :
        Footprint[row[1]][row[2]] > 0 /\ VendorOf[row[2]] \in readable /\ InScope(row[2], pin)}
Held(S, pin) == MapThenSumSet(LAMBDA row : Footprint[row[1]][row[2]], Rows(S \intersect resident, pin))
Guessed(S) == MapThenSumSet(LAMBDA s : Guesses[s], S)

Covered(pin) == Rows(Running(pin) \intersect resident, pin) # {} \/ Running(pin) = {}

Stopping(pin, freeing) == Running(pin) \intersect freeing

Freed(pin, freeing) ==
    IF Covered(pin) THEN Held(Stopping(pin, freeing), pin)
    ELSE Min({UsedOn(Seen(pin)), Guessed(Stopping(pin, freeing))})

\* Mutant: the presets that are stopped anyway are counted again.
ReclaimableTwice(pin, freeing) ==
    IF Covered(pin) THEN Held(up, pin) ELSE Min({UsedOn(Seen(pin)), Guessed(Running(pin))})

\* Rows of any llama process that is not being stopped, whoever started it, or
\* what LlamaDeck's own are guessed to hold.
Reclaimable(pin, freeing) ==
    IF Covered(pin) THEN Held(up \ Stopping(pin, freeing), pin)
    ELSE Min({UsedOn(Seen(pin)) - Freed(pin, freeing), Guessed(Running(pin) \ freeing)})

PlanTotal(pin) == TotalOn(Seen(pin))
Capped(pin, n, none) == IF PlanTotal(pin) = 0 THEN none ELSE Min({PlanTotal(pin), n})
PlanFree(pin, freeing) ==
    LET free == FreeOn(Seen(pin)) + Freed(pin, freeing) IN Capped(pin, free, free)
PlanRoom(pin, freeing) == Capped(pin, PlanFree(pin, freeing) + Reclaimable(pin, freeing), 0)

-----------------------------------------------------------------------------
(* Properties *)

BudgetTypeOK == resident \subseteq up /\ up \subseteq GpuProcesses

\* What is really free on the cards of a plan when some processes have stopped.
FreeWithout(pin, S) ==
    MapThenSumSet(LAMBDA c : Free(c) + MapThenSumSet(LAMBDA s : Footprint[s][c], resident \intersect S), Picked(pin))

\* As _in_scope() has it: what does not tell its card is on the only one there is.
CardsAreTold == \A c, d \in Cards : VendorOf[c] = VendorOf[d] /\ VendorOf[c] \in unmapped => c = d

\* Where processes are attributed a plan is promised no memory that the stops
\* do not give back, of the presets it names or, for the room it may make, of
\* every llama process, LlamaDeck's own or not: not what other programs hold,
\* not what is on another card, not the same bytes twice.
BudgetIsHonest ==
    \A pin \in SUBSET Cards, freeing \in SUBSET Servers :
        /\ PlanRoom(pin, freeing) <= TotalOn(Picked(pin))
        /\ Covered(pin) /\ CardsAreTold =>
              /\ PlanFree(pin, freeing) <= FreeWithout(pin, freeing)
              /\ PlanRoom(pin, freeing) <= FreeWithout(pin, GpuProcesses)

=============================================================================
