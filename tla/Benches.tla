------------------------------ MODULE Benches ------------------------------
(***************************************************************************)
(* Running llama-bench: BenchManager of src/backend/lld/bench.py.          *)
(*                                                                         *)
(* One coroutine per benchmark, one handle (_proc) and one cancel flag for *)
(* all of them.  The code between two awaits is one step.                  *)
(***************************************************************************)
EXTENDS Naturals, FiniteSets

CONSTANTS
    Benches,       \* identities of BenchJob objects
    NoBench,
    BenchEvents    \* "restart": the backend ends; "fail": a process fails

ASSUME BenchesAssumption ==
    /\ NoBench \notin Benches
    /\ BenchEvents \subseteq {"restart", "fail"}

VARIABLES
    bench,            \* the BenchJob objects, with the place of their coroutine
    benchActive,      \* _active
    benchRow,         \* the status in the table benchmarks
    benchProc,        \* _proc: the benchmark whose process the handle is
    cancelRequested,  \* _cancel_requested
    process,          \* the llama-bench processes
    told              \* what cancel() answered for each benchmark (history)

benchVars == <<bench, benchActive, benchRow, benchProc, cancelRequested, process, told>>

(* asked     run() awaits the version and the new row
   spawning  _run() awaits the new process
   running   it reads the output
   closing   the job has its outcome, the row does not                       *)
BenchPlaces == {"unused", "asked", "spawning", "running", "closing", "over", "lost"}
BenchStatus == {"running", "success", "failed", "cancelled"}

\* extra: whether the flags of a feature are tried.
BenchJob == [at : BenchPlaces, status : BenchStatus, extra : BOOLEAN]
UnusedBench == [at |-> "unused", status |-> "running", extra |-> FALSE]

\* signalled: it was terminated, and is killed after five seconds.
Processes == {"none", "alive", "signalled", "good", "bad"}

BenchInit ==
    /\ bench = [b \in Benches |-> UnusedBench]
    /\ benchActive = NoBench
    /\ benchRow = [b \in Benches |-> "none"]
    /\ benchProc = NoBench
    /\ cancelRequested = FALSE
    /\ process = [b \in Benches |-> "none"]
    /\ told = [b \in Benches |-> "nothing"]

-----------------------------------------------------------------------------

BenchRunning == benchActive # NoBench /\ bench[benchActive].status = "running"

\* Benchmarks that have a place in _run().
BenchesUnderway == {b \in Benches : bench[b].at \in {"spawning", "running"}}

\* run() up to its first await.
RunBench(b, extra) ==
    /\ bench[b].at = "unused"
    /\ ~BenchRunning
    /\ bench' = [bench EXCEPT ![b].at = "asked", ![b].extra = extra]
    /\ UNCHANGED <<benchActive, benchRow, benchProc, cancelRequested, process, told>>

\* Another one underway makes the promises of cancel() void for both.
BenchStarts(b) ==
    /\ bench[b].at = "asked"
    /\ bench' = [bench EXCEPT ![b].at = "spawning"]
    /\ benchActive' = b
    /\ benchRow' = [benchRow EXCEPT ![b] = "running"]
    /\ told' = [c \in Benches |->
                   IF BenchesUnderway # {} /\ c \in BenchesUnderway \union {b} THEN "mixed" ELSE told[c]]
    /\ UNCHANGED <<benchProc, cancelRequested, process>>

BenchSpawns(b) ==
    /\ bench[b].at = "spawning"
    /\ bench' = [bench EXCEPT ![b].at = "running"]
    /\ benchProc' = b
    /\ cancelRequested' = FALSE
    /\ process' = [process EXCEPT ![b] = "alive"]
    /\ UNCHANGED <<benchActive, benchRow, told>>

SpawnFails(b) ==
    /\ "fail" \in BenchEvents /\ bench[b].at = "spawning"
    /\ bench' = [bench EXCEPT ![b].at = "closing", ![b].status = "failed"]
    /\ benchProc' = NoBench
    /\ UNCHANGED <<benchActive, benchRow, cancelRequested, process, told>>

\* A process that was signalled may still have ended by itself.
ProcessExits(b, code) ==
    /\ process[b] \in {"alive", "signalled"}
    /\ code = "bad" => process[b] = "signalled" \/ "fail" \in BenchEvents
    /\ process' = [process EXCEPT ![b] = code]
    /\ UNCHANGED <<bench, benchActive, benchRow, benchProc, cancelRequested, told>>

\* Mutant: only a process that failed is looked at for a cancel.
OutcomeByCode(b) ==
    IF process[b] = "good" THEN "success" ELSE IF cancelRequested THEN "cancelled" ELSE "failed"

BenchOutcome(b) ==
    IF cancelRequested THEN "cancelled" ELSE IF process[b] = "good" THEN "success" ELSE "failed"

\* The process is over: to the end of the try, and the handle dropped.
BenchEnds(b) ==
    /\ bench[b].at = "running" /\ process[b] \in {"good", "bad"}
    /\ bench' = [bench EXCEPT ![b].at = "closing", ![b].status = BenchOutcome(b)]
    /\ benchProc' = NoBench
    /\ UNCHANGED <<benchActive, benchRow, cancelRequested, process, told>>

BenchCloses(b) ==
    /\ bench[b].at = "closing"
    /\ bench' = [bench EXCEPT ![b].at = "over"]
    /\ benchRow' = [benchRow EXCEPT ![b] = bench[b].status]
    /\ UNCHANGED <<benchActive, benchProc, cancelRequested, process, told>>

\* cancel(): early if the process is not there yet.
CancelBench ==
    /\ BenchRunning
    /\ cancelRequested' = TRUE
    /\ process' = IF benchProc # NoBench /\ process[benchProc] = "alive"
                  THEN [process EXCEPT ![benchProc] = "signalled"] ELSE process
    /\ told' = IF told[benchActive] = "mixed" THEN told
               ELSE [told EXCEPT ![benchActive] = IF benchProc = benchActive THEN "cancelled" ELSE "early"]
    /\ UNCHANGED <<bench, benchActive, benchRow, benchProc>>

\* llama-bench ends with the backend; nobody looks at the table afterwards.
BenchesLost ==
    /\ "restart" \in BenchEvents
    /\ bench' = [b \in Benches |->
                    IF bench[b].at \in {"unused", "over"} THEN bench[b]
                    ELSE [bench[b] EXCEPT !.at = "lost"]]
    /\ process' = [b \in Benches |-> IF process[b] \in {"alive", "signalled"} THEN "bad" ELSE process[b]]
    /\ benchActive' = NoBench /\ benchProc' = NoBench
    /\ cancelRequested' = FALSE
    /\ UNCHANGED <<benchRow, told>>

BenchProceeds(b) ==
    \/ BenchStarts(b) \/ BenchSpawns(b) \/ SpawnFails(b) \/ BenchEnds(b) \/ BenchCloses(b)
    \/ ProcessExits(b, "good") \/ ProcessExits(b, "bad")

-----------------------------------------------------------------------------
(* Properties *)

BenchTypeOK ==
    /\ bench \in [Benches -> BenchJob]
    /\ benchActive \in Benches \union {NoBench}
    /\ benchRow \in [Benches -> BenchStatus \union {"none"}]
    /\ benchProc \in Benches \union {NoBench}
    /\ cancelRequested \in BOOLEAN
    /\ process \in [Benches -> Processes]
    /\ told \in [Benches -> {"nothing", "early", "cancelled", "mixed"}]

\* A cancel that was answered while the benchmark's process ran is kept, even
\* if the process had ended well before it was signalled, or is signalled
\* after a second cancel: the flag is shared by all benchmarks.
CancelHolds ==
    \A b \in Benches : told[b] = "cancelled" => bench[b].status \in {"running", "cancelled"}

BenchRowsSettle ==
    \A b \in Benches : benchRow[b] = "running" ~> (benchRow[b] # "running" \/ bench[b].at = "lost")

=============================================================================
