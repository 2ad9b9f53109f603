---------------------------- MODULE VramCalibration ----------------------------
(***************************************************************************)
(* The corrections that src/backend/lld/vram_calib.py learns for one model *)
(* from GET /vram (api/server_api.py), in memory and in the table          *)
(* vram_calibration, with the move of the table to one row per vendor.     *)
(***************************************************************************)
EXTENDS Integers, FiniteSets, Functions

CONSTANTS
    Vendors,
    OldVendor,      \* the vendor that the rows of the old schema are about
    Runs,           \* running presets of the model: [on : vendor, pin : vendor or NoVendor]
    NoVendor,
    Formulas,       \* what the formula may say the card holds
    Excess,         \* by vendor, how much of it is too much
    MaxOffset,      \* MAX_ABS_OFFSET_MB
    CalibEvents     \* what may happen: "restart", "fail"

ASSUME CalibAssumption ==
    /\ OldVendor \in Vendors /\ NoVendor \notin Vendors
    /\ Runs \subseteq [on : Vendors, pin : Vendors \union {NoVendor}]
    /\ Formulas \subseteq Int /\ Excess \in [Vendors -> Int] /\ MaxOffset \in Nat

VARIABLES
    cache,      \* _cache: offsets by vendor
    schema,     \* of vram_calibration: none, without vendors, or with them
    rows,       \* its rows
    aside,      \* the rows of vram_calibration_v1, if there is one
    ensuring,   \* the step of ensure_table(), and what follows it
    vramPoll,   \* GET /vram: the estimates it has read
    formula,    \* of the runs, as their settings have it
    ever,       \* history: the vendors that a row was ever written for
    loaded,     \* history: load() has read the rows since the backend began
    doubtful    \* offsets made of an estimate that an earlier offset is in

calibVars == <<cache, schema, rows, aside, ensuring, vramPoll, formula, ever, loaded, doubtful>>

AreOffsets(f) == DOMAIN f \subseteq Vendors /\ \A v \in DOMAIN f : f[v] \in Int
\* An offset is entered, and those that are missing are filled in.
Entered(f, v, n) == [x \in DOMAIN f \union {v} |-> IF x = v THEN n ELSE f[x]]
Filled(f, g) == [x \in DOMAIN f \union DOMAIN g |-> IF x \in DOMAIN f THEN f[x] ELSE g[x]]

NoTable == "none"
NoRows == [v \in {} |-> 0]
Idle == [at |-> "idle", for |-> NoVendor]
NoVramPoll == [r \in {} |-> 0]

\* A backend that starts on a new database, or on one of an earlier version.
CalibInit ==
    /\ cache = NoRows
    /\ schema \in {"none", "old"}
    /\ rows = IF schema = "old" THEN Entered(NoRows, OldVendor, Excess[OldVendor]) ELSE NoRows
    /\ aside = {}
    /\ ensuring = [at |-> "create", for |-> NoVendor]
    /\ vramPoll = NoVramPoll
    /\ formula \in [Runs -> Formulas]
    /\ ever = DOMAIN rows /\ loaded = FALSE
    /\ doubtful = {}

-----------------------------------------------------------------------------
(* ensure_table(), one statement at a time, then load() or the row of record() *)

\* Mutant: only a table that was just moved is folded in.
WithVendorsDone == "write"

\* A table that has vendors may still have rows aside.
WithVendors == "fold"

EnsureCreates ==
    /\ ensuring.at = "create"
    /\ schema' = IF schema = NoTable THEN "new" ELSE schema
    /\ ensuring' = [ensuring EXCEPT !.at = IF schema' = "new" THEN WithVendors ELSE "rename"]
    /\ UNCHANGED <<cache, rows, aside, vramPoll, formula, ever, loaded, doubtful>>

EnsureRenames ==
    /\ ensuring.at = "rename"
    /\ aside' = {rows} /\ rows' = NoRows /\ schema' = NoTable
    /\ ensuring' = [ensuring EXCEPT !.at = "recreate"]
    /\ UNCHANGED <<cache, vramPoll, formula, ever, loaded, doubtful>>

EnsureRecreates ==
    /\ ensuring.at = "recreate"
    /\ schema' = "new"
    /\ ensuring' = [ensuring EXCEPT !.at = "fold"]
    /\ UNCHANGED <<cache, rows, aside, vramPoll, formula, ever, loaded, doubtful>>

\* INSERT OR IGNORE.  The copy and the drop are one transaction.
EnsureFolds ==
    /\ ensuring.at = "fold"
    /\ rows' = IF aside = {} THEN rows ELSE Filled(rows, CHOOSE old \in aside : TRUE)
    /\ aside' = {}
    /\ ensuring' = [ensuring EXCEPT !.at = "write"]
    /\ UNCHANGED <<cache, schema, vramPoll, formula, ever, loaded, doubtful>>

\* load() fills the cache; record() writes its row.
EnsureEnds ==
    /\ ensuring.at = "write"
    /\ IF ensuring.for = NoVendor
       THEN /\ cache' = Filled(rows, cache) /\ loaded' = TRUE
            /\ UNCHANGED <<rows, ever>>
       ELSE /\ rows' = Entered(rows, ensuring.for, cache[ensuring.for])
            /\ ever' = ever \union {ensuring.for}
            /\ UNCHANGED <<cache, loaded>>
    /\ ensuring' = Idle
    /\ UNCHANGED <<schema, aside, vramPoll, formula, doubtful>>

\* An exception is logged, and what was done stays done.
EnsureFails ==
    /\ "fail" \in CalibEvents
    /\ ensuring # Idle
    /\ ensuring' = Idle
    /\ UNCHANGED <<cache, schema, rows, aside, vramPoll, formula, ever, loaded, doubtful>>

-----------------------------------------------------------------------------
(* The lookup and the recording *)

\* _entry(): the vendors whose offset applies; a preset without a pin takes the
\* only one there is.
OffsetEntry(pin) ==
    IF pin # NoVendor THEN DOMAIN cache \intersect {pin}
    ELSE IF Cardinality(DOMAIN cache) = 1 THEN DOMAIN cache ELSE {}

OffsetFor(pin) == IF OffsetEntry(pin) = {} THEN 0 ELSE cache[CHOOSE v \in OffsetEntry(pin) : TRUE]

NotNegative(n) == IF n < 0 THEN 0 ELSE n
Estimate(r) == NotNegative(formula[r] - OffsetFor(r.pin))
Reported(r) == formula[r] - Excess[r.on]

\* The statuses are read for the runs that are up long enough.
PollReads ==
    /\ vramPoll = NoVramPoll /\ ensuring = Idle
    /\ \E settled \in SUBSET Runs :
          vramPoll' = [r \in settled |-> [estimate |-> Estimate(r), with |-> OffsetFor(r.pin)]]
    /\ UNCHANGED <<cache, schema, rows, aside, ensuring, formula, ever, loaded, doubtful>>

\* Mutant: the estimate is taken for the formula.
EstimatedTwice(r, estimate) == estimate

\* What record() is told the formula said.
Estimated(r, estimate) == estimate + OffsetFor(r.pin)

\* One process after the other; each row waits for the database.
PollRecords ==
    \E r \in DOMAIN vramPoll :
        LET offset == Estimated(r, vramPoll[r].estimate) - Reported(r)
            known == r.on \in DOMAIN cache /\ cache[r.on] = offset
            ignored == vramPoll[r].estimate = 0 \/ Estimated(r, vramPoll[r].estimate) <= 0 \/ Reported(r) <= 0
                       \/ offset \notin -MaxOffset..MaxOffset \/ known IN
        /\ ensuring = Idle
        /\ vramPoll' = Restrict(vramPoll, DOMAIN vramPoll \ {r})
        /\ IF ignored THEN UNCHANGED <<cache, ensuring, doubtful>>
           ELSE /\ cache' = Entered(cache, r.on, offset)
                /\ ensuring' = [at |-> "create", for |-> r.on]
                /\ doubtful' = IF vramPoll[r].with = OffsetFor(r.pin) THEN doubtful
                               ELSE doubtful \union {<<r.on, offset>>}
        /\ UNCHANGED <<schema, rows, aside, formula, ever, loaded>>

\* A preset is started again with other settings.
RunChanges ==
    /\ vramPoll = NoVramPoll
    /\ \E r \in Runs, n \in Formulas : formula' = [formula EXCEPT ![r] = n]
    /\ UNCHANGED <<cache, schema, rows, aside, ensuring, vramPoll, ever, loaded, doubtful>>

CalibRestarts ==
    /\ "restart" \in CalibEvents
    /\ cache' = NoRows /\ vramPoll' = NoVramPoll /\ loaded' = FALSE
    /\ ensuring' = [at |-> "create", for |-> NoVendor]
    /\ UNCHANGED <<schema, rows, aside, formula, ever, doubtful>>

CalibNext ==
    \/ EnsureCreates \/ EnsureRenames \/ EnsureRecreates \/ EnsureFolds \/ EnsureEnds \/ EnsureFails
    \/ PollReads \/ PollRecords \/ RunChanges \/ CalibRestarts

CalibSpec == CalibInit /\ [][CalibNext]_calibVars

-----------------------------------------------------------------------------
(* Properties *)

CalibTypeOK ==
    /\ AreOffsets(cache) /\ AreOffsets(rows)
    /\ schema \in {NoTable, "old", "new"}
    /\ \A old \in aside : AreOffsets(old)
    /\ ensuring \in [at : {"idle", "create", "rename", "recreate", "fold", "write"}, for : Vendors \union {NoVendor}]
    /\ DOMAIN vramPoll \subseteq Runs
    /\ \A r \in DOMAIN vramPoll : vramPoll[r].estimate \in Int /\ vramPoll[r].with \in Int
    /\ ever \subseteq Vendors /\ loaded \in BOOLEAN
    /\ formula \in [Runs -> Int]
    /\ doubtful \subseteq Vendors \X Int

\* A measurement makes the estimate true for every later way to run the model
\* on that vendor's cards, whatever was measured before; the exception are
\* offsets made of an estimate that was read before the offset changed.
MeasuredIsTrue ==
    \A v \in DOMAIN cache : <<v, cache[v]>> \in doubtful \/ cache[v] = Excess[v]

\* What was measured once is on disk whenever the backend ends, also in the
\* middle of the move to the new schema, and is known to the next backend.
MeasurementsSurvive ==
    /\ ever \subseteq DOMAIN rows \union UNION {DOMAIN old : old \in aside}
    /\ loaded => ever \subseteq DOMAIN cache

\* Corrections are the measured ones, in memory and on disk.
CorrectionsAreKept == MeasuredIsTrue /\ MeasurementsSurvive

=============================================================================
