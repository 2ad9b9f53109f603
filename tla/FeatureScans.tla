---------------------------- MODULE FeatureScans ----------------------------
(***************************************************************************)
(* What's New: the scans of FeatureTracker (src/backend/lld/features.py),  *)
(* beside the builds whose binaries they compare.                          *)
(*                                                                         *)
(* A scan is started by a build that succeeded, or by the user; a retry of *)
(* a summary by the user.  Each is a task; every query and every call of   *)
(* another service is an await.  What a summary says is left out.          *)
(***************************************************************************)
EXTENDS Builds, Sequences

CONSTANTS
    Scanners,      \* identities of the tasks that scan or summarize
    NoScanner,
    MaxScans,      \* bound: the rows of feature_scans
    ScanEvents     \* "user": scans and retries the user asks for; "fail"

ASSUME ScansAssumption ==
    /\ NoScanner \notin Scanners
    /\ MaxScans \in Nat
    /\ ScanEvents \subseteq {"user", "fail"}

VARIABLES
    snapshots,   \* help_snapshots in the order of captured_at
    scanner,     \* the tasks
    scanLock,    \* _scan_lock, and _scanning
    scans        \* feature_scans, with whether a scan has cards

scanVars == <<snapshots, scanner, scanLock, scans>>

(* versioning   run_scan() awaits --version
   capturing    it awaits --help, and the row of the snapshot
   comparing    it looks for a baseline, and for an earlier scan
   asking       it awaits GitHub, and the new row
   summarizing  summarize_scan() reads the row and the settings
   writing      it awaits the summary                                        *)
ScanPlaces == {"none", "versioning", "capturing", "comparing", "asking",
               "summarizing", "writing"}
ScanTask == [at : ScanPlaces, force : BOOLEAN, from : Commits \union {NoCommit},
             to : Commits \union {NoCommit}, row : 0..MaxScans]
NoTask == [at |-> "none", force |-> FALSE, from |-> NoCommit, to |-> NoCommit, row |-> 0]

\* help: the commit of the binary whose --help was stored.
Snapshot == [commit : Commits, help : Commits]
Scan == [from : Commits, to : Commits, forced : BOOLEAN, cards : BOOLEAN,
         status : {"pending", "empty", "summarized", "failed"}]

ScanInit ==
    /\ snapshots = <<>>
    /\ scanner = [t \in Scanners |-> NoTask]
    /\ scanLock = NoScanner
    /\ scans = <<>>

-----------------------------------------------------------------------------

ScanGoes(t, place) == scanner' = [scanner EXCEPT ![t].at = place]

\* The task ends, and leaves the lock if it holds it.
ScanEnds(t) ==
    /\ scanner' = [scanner EXCEPT ![t] = NoTask]
    /\ scanLock' = IF scanLock = t THEN NoScanner ELSE scanLock

\* Mutant: run_scan() does not look whether the lock is held.
MayScanAnyway == TRUE
MayScan == scanLock = NoScanner

BeginScan(t, force) ==
    /\ scanner[t].at = "none"
    /\ MayScan
    /\ scanner' = [scanner EXCEPT ![t] = [NoTask EXCEPT !.at = "versioning", !.force = force]]
    /\ scanLock' = t
    /\ UNCHANGED <<snapshots, scans>>

\* POST /scan
ScanNow(t) ==
    /\ "user" \in ScanEvents /\ Len(scans) < MaxScans
    /\ BeginScan(t, TRUE)
    /\ UNCHANGED buildVars

ScanBegun(b) ==
    /\ build[b].scan = "due"
    /\ build' = [build EXCEPT ![b].scan = "begun"]
    /\ UNCHANGED <<buildActive, buildRow, repo, dir, llamaBin, otherBin, ninja, mixed>>

\* _feature_scan(): where a scan is running, the one after the build is dropped.
PostBuildScan(b) ==
    /\ ScanBegun(b)
    /\ Len(scans) < MaxScans
    /\ IF MayScan THEN \E t \in Scanners : BeginScan(t, FALSE) ELSE UNCHANGED scanVars

\* Boot: ensure_baseline() has stored the snapshot of the configured binary.
Baseline ==
    /\ snapshots = <<>> /\ scanLock = NoScanner
    /\ BinaryCommit # NoCommit
    /\ snapshots' = <<[commit |-> BinaryCommit, help |-> BinaryCommit]>>
    /\ UNCHANGED <<scanner, scanLock, scans, buildVars>>

\* current_version(): the binary may be replaced before --help is asked.
Versioned(t) ==
    /\ scanner[t].at = "versioning"
    /\ IF BinaryCommit = NoCommit THEN ScanEnds(t)
       ELSE /\ scanner' = [scanner EXCEPT ![t].at = "capturing", ![t].to = BinaryCommit]
            /\ UNCHANGED scanLock
    /\ UNCHANGED <<snapshots, scans, buildVars>>

\* Mutant: a commit that is known is stored once more.
StoredAgain(c) == Append(snapshots, [commit |-> c, help |-> BinaryCommit])

\* INSERT OR IGNORE: the first snapshot of a commit stays.
Stored(c) ==
    IF \E i \in DOMAIN snapshots : snapshots[i].commit = c THEN snapshots
    ELSE Append(snapshots, [commit |-> c, help |-> BinaryCommit])

Captured(t) ==
    /\ scanner[t].at = "capturing"
    /\ IF BinaryCommit = NoCommit THEN ScanEnds(t) /\ UNCHANGED snapshots
       ELSE /\ snapshots' = Stored(scanner[t].to)
            /\ ScanGoes(t, "comparing")
            /\ UNCHANGED scanLock
    /\ UNCHANGED <<scans, buildVars>>

\* The newest snapshot of another commit is the baseline, if there is one.
Baselines(c) ==
    {snapshots[i].commit : i \in {j \in DOMAIN snapshots :
        /\ snapshots[j].commit # c
        /\ \A k \in DOMAIN snapshots : k > j => snapshots[k].commit = c}}

ScannedBefore(from, to) == \E i \in DOMAIN scans : scans[i].from = from /\ scans[i].to = to

Compared(t) ==
    LET c == scanner[t].to
        asked == {d \in Baselines(c) : scanner[t].force \/ ~ScannedBefore(d, c)} IN
    /\ scanner[t].at = "comparing"
    /\ \/ /\ asked = {}
          /\ ScanEnds(t)
       \/ \E d \in asked :
             /\ scanner' = [scanner EXCEPT ![t].at = "asking", ![t].from = d]
             /\ UNCHANGED scanLock
    /\ UNCHANGED <<snapshots, scans, buildVars>>

\* A scan that found nothing has no summary.
ScanInserted(t, status) ==
    /\ scanner[t].at = "asking" /\ Len(scans) < MaxScans
    /\ scans' = Append(scans, [from |-> scanner[t].from, to |-> scanner[t].to, status |-> status,
                               forced |-> scanner[t].force, cards |-> FALSE])
    /\ IF status = "empty" THEN ScanEnds(t)
       ELSE /\ scanner' = [scanner EXCEPT ![t].at = "summarizing", ![t].row = Len(scans) + 1]
            /\ UNCHANGED scanLock
    /\ UNCHANGED <<snapshots, buildVars>>

\* POST /scans/{id}/retry: summarize_scan() without the lock.
RetrySummary(t, i) ==
    /\ "user" \in ScanEvents
    /\ scanner[t].at = "none" /\ i \in DOMAIN scans
    /\ scanner' = [scanner EXCEPT ![t] = [NoTask EXCEPT !.at = "summarizing", !.row = i]]
    /\ UNCHANGED <<snapshots, scanLock, scans, buildVars>>

\* No provider is configured: the scan stays, or is again, pending.
SummaryUnconfigured(t) ==
    /\ scanner[t].at = "summarizing"
    /\ scans' = [scans EXCEPT ![scanner[t].row].status = "pending"]
    /\ ScanEnds(t)
    /\ UNCHANGED <<snapshots, buildVars>>

SummaryAsked(t) ==
    /\ scanner[t].at = "summarizing"
    /\ ScanGoes(t, "writing")
    /\ UNCHANGED <<snapshots, scanLock, scans, buildVars>>

\* Mutant: the status is committed before the cards.
SummarizedEarly(s) == [s EXCEPT !.status = "summarized"]

\* One transaction replaces the cards and sets the status.
Summarized(s) == [s EXCEPT !.status = "summarized", !.cards = TRUE]

SummaryStored(t) ==
    /\ scanner[t].at = "writing"
    /\ scans' = [scans EXCEPT ![scanner[t].row] = Summarized(@)]
    /\ ScanEnds(t)
    /\ UNCHANGED <<snapshots, buildVars>>

\* _mark_scan_failed(): the cards of an earlier summary stay.
SummaryFails(t) ==
    /\ "fail" \in ScanEvents /\ scanner[t].at = "writing"
    /\ scans' = [scans EXCEPT ![scanner[t].row].status = "failed"]
    /\ ScanEnds(t)
    /\ UNCHANGED <<snapshots, buildVars>>

ScanProceeds(t) ==
    \/ Versioned(t) \/ Captured(t) \/ Compared(t)
    \/ \E status \in {"empty", "pending"} : ScanInserted(t, status)
    \/ SummaryUnconfigured(t) \/ SummaryAsked(t) \/ SummaryStored(t) \/ SummaryFails(t)

ScanTasksLost ==
    /\ scanner' = [t \in Scanners |-> NoTask]
    /\ scanLock' = NoScanner
    /\ UNCHANGED <<snapshots, scans>>

ScanNext ==
    \/ BuildNext /\ UNCHANGED scanVars
    \/ BuildsRestart /\ ScanTasksLost
    \/ Baseline
    \/ \E b \in Builds : PostBuildScan(b)
    \/ \E t \in Scanners : ScanNow(t) \/ ScanProceeds(t)
    \/ \E t \in Scanners, i \in 1..MaxScans : RetrySummary(t, i)

ScanSpec == BuildInit /\ ScanInit /\ [][ScanNext]_<<buildVars, scanVars>>

\* The event loop runs what is ready; commands and services answer in the end.
ScanFairness ==
    /\ \A b \in Builds : WF_<<buildVars, scanVars>>(BuildProceeds(b) /\ UNCHANGED scanVars)
    /\ \A t \in Scanners : WF_<<buildVars, scanVars>>(ScanProceeds(t))

-----------------------------------------------------------------------------
(* Properties *)

ScanTypeOK ==
    /\ snapshots \in Seq(Snapshot) /\ Len(snapshots) <= LastCommit
    /\ scanner \in [Scanners -> ScanTask]
    /\ scanLock \in Scanners \union {NoScanner}
    /\ scans \in Seq(Scan) /\ Len(scans) <= MaxScans

\* A pair of commits is scanned again only on demand, however the scans that
\* builds start meet each other and the user's.
ScannedOnce ==
    \A i, j \in DOMAIN scans :
        i < j /\ scans[i].from = scans[j].from /\ scans[i].to = scans[j].to => scans[j].forced

\* A scan compares two different binaries, and says it is summarized only
\* while it has the cards, whatever the retries beside it do.
ScansAreTrue ==
    /\ ScannedOnce
    /\ \A i \in DOMAIN scans :
          /\ scans[i].from # scans[i].to
          /\ scans[i].status = "summarized" => scans[i].cards

\* Scanning is never blocked for good.
ScanLockFrees == scanLock # NoScanner ~> scanLock = NoScanner

=============================================================================
