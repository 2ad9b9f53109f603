------------------------------- MODULE AbRuns -------------------------------
(***************************************************************************)
(* A/B runs of a feature: start_ab() and _run_ab() of                      *)
(* src/backend/lld/features.py, beside the benchmarks of the user.         *)
(*                                                                         *)
(* An A/B run calls the same BenchManager as the user: first without, then *)
(* with the feature's flags, and polls each job until it has an outcome.   *)
(***************************************************************************)
EXTENDS Benches

CONSTANTS
    Trials,       \* identities of A/B runs
    UserBenches   \* identities of benchmarks, kept for the user's own

ASSUME UserBenchesAssumption == UserBenches \subseteq Benches

VARIABLES
    trial,      \* the tasks of _run_ab()
    abRow,      \* feature_ab_runs: the status, and the two benchmarks
    abRunning   \* _ab_running

abVars == <<trial, abRow, abRunning>>

(* asked     start_ab() awaits the new row
   off, on   bm.run() is about to be called
   polling   the job is polled until it is over                              *)
TrialPlaces == {"unused", "asked", "off", "pollingOff", "on", "pollingOn", "over", "lost"}
AbRow == [status : {"none", "running", "success", "failed"},
          off : Benches \union {NoBench}, on : Benches \union {NoBench}]
NoAbRow == [status |-> "none", off |-> NoBench, on |-> NoBench]

\* job: the benchmark that is polled.
Trial == [at : TrialPlaces, job : Benches \union {NoBench}]

AbInit ==
    /\ trial = [t \in Trials |-> [at |-> "unused", job |-> NoBench]]
    /\ abRow = [t \in Trials |-> NoAbRow]
    /\ abRunning = FALSE

-----------------------------------------------------------------------------

TrialGoes(t, place) == trial' = [trial EXCEPT ![t] = [at |-> place, job |-> NoBench]]

\* start_ab(), for a card with flags; get_card() is awaited before the check.
StartAb(t) ==
    /\ trial[t].at = "unused"
    /\ ~abRunning /\ ~BenchRunning
    /\ TrialGoes(t, "asked")
    /\ UNCHANGED <<abRow, abRunning, benchVars>>

AbStarts(t) ==
    /\ trial[t].at = "asked"
    /\ TrialGoes(t, "off")
    /\ abRow' = [abRow EXCEPT ![t].status = "running"]
    /\ abRunning' = TRUE
    /\ UNCHANGED benchVars

\* The except and the finally of _run_ab().
AbFails(t) ==
    /\ TrialGoes(t, "over")
    /\ abRow' = [abRow EXCEPT ![t].status = "failed"]
    /\ abRunning' = FALSE
    /\ UNCHANGED benchVars

\* The user's benchmark was first: BenchError.
AbRefused(t) ==
    /\ trial[t].at \in {"off", "on"} /\ BenchRunning
    /\ AbFails(t)

\* one_run(): the benchmark without, and the one with the flags.
RunsBench(t, b, place, next, extra) ==
    /\ trial[t].at = place /\ b \notin UserBenches
    /\ RunBench(b, extra)
    /\ trial' = [trial EXCEPT ![t] = [at |-> next, job |-> b]]
    /\ UNCHANGED <<abRow, abRunning>>

RunsOff(t, b) == RunsBench(t, b, "off", "pollingOff", FALSE)
RunsOn(t, b) == RunsBench(t, b, "on", "pollingOn", TRUE)

\* one_run() returned: whether the job was a success.
Polled(t, place, ok) ==
    /\ trial[t].at = place
    /\ bench[trial[t].job].status # "running"
    /\ ok = (bench[trial[t].job].status = "success")

\* Mutant: the second benchmark runs whatever became of the first.
AnyOutcome(t) == \E ok \in BOOLEAN : Polled(t, "pollingOff", ok)
BaselineOk(t) == Polled(t, "pollingOff", TRUE)

OffDone(t) ==
    /\ BaselineOk(t)
    /\ abRow' = [abRow EXCEPT ![t].off = trial[t].job]
    /\ TrialGoes(t, "on")
    /\ UNCHANGED <<abRunning, benchVars>>

OffFails(t) ==
    /\ Polled(t, "pollingOff", FALSE)
    /\ TrialGoes(t, "over")
    /\ abRow' = [abRow EXCEPT ![t].off = trial[t].job, ![t].status = "failed"]
    /\ abRunning' = FALSE
    /\ UNCHANGED benchVars

OnDone(t, ok) ==
    /\ Polled(t, "pollingOn", ok)
    /\ TrialGoes(t, "over")
    /\ abRow' = [abRow EXCEPT ![t].on = trial[t].job, ![t].status = IF ok THEN "success" ELSE "failed"]
    /\ abRunning' = FALSE
    /\ UNCHANGED benchVars

AbProceeds(t) ==
    \/ AbStarts(t) \/ AbRefused(t) \/ OffDone(t) \/ OffFails(t)
    \/ \E b \in Benches : RunsOff(t, b) \/ RunsOn(t, b)
    \/ \E ok \in BOOLEAN : OnDone(t, ok)

AbRestart ==
    /\ BenchesLost
    /\ \E t \in Trials : trial[t].at \notin {"unused", "over", "lost"}
    /\ trial' = [t \in Trials |-> IF trial[t].at \in {"unused", "over"} THEN trial[t]
                                  ELSE [at |-> "lost", job |-> NoBench]]
    /\ abRunning' = FALSE
    /\ UNCHANGED abRow

AbNext ==
    \/ \E b \in UserBenches : RunBench(b, FALSE) /\ UNCHANGED abVars
    \/ \E b \in Benches : BenchProceeds(b) /\ UNCHANGED abVars
    \/ CancelBench /\ UNCHANGED abVars
    \/ \E t \in Trials : StartAb(t) \/ AbProceeds(t)
    \/ AbRestart

AbSpec == BenchInit /\ AbInit /\ [][AbNext]_<<benchVars, abVars>>

\* Benchmarks end, timers fire, and awaited calls return.
AbFairness ==
    /\ \A b \in Benches : WF_<<benchVars, abVars>>(BenchProceeds(b) /\ UNCHANGED abVars)
    /\ \A t \in Trials : WF_<<benchVars, abVars>>(AbProceeds(t))

-----------------------------------------------------------------------------
(* Properties *)

AbTypeOK ==
    /\ trial \in [Trials -> Trial]
    /\ abRow \in [Trials -> AbRow]
    /\ abRunning \in BOOLEAN

\* An A/B run that says "success" compares two benchmarks of its own that both
\* ended well, without and with the flags, whoever else used the manager, and
\* whoever cancelled what, in between.
AbCompares ==
    \A t \in Trials : abRow[t].status = "success" =>
        LET off == abRow[t].off
            on == abRow[t].on IN
        /\ off # on /\ {off, on} \subseteq Benches
        /\ bench[off].status = "success" /\ bench[on].status = "success"
        /\ ~bench[off].extra /\ bench[on].extra
        /\ \A u \in Trials \ {t} : {off, on} \intersect {abRow[u].off, abRow[u].on} = {}

\* The results of benchmarks are what their rows say: a cancelled one has none,
\* and an A/B run compares two of its own.
BenchesAreHonest == CancelHolds /\ AbCompares

AbRowsSettle ==
    \A t \in Trials : abRow[t].status = "running" ~>
                          (abRow[t].status # "running" \/ trial[t].at = "lost")

=============================================================================
