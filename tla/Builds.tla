------------------------------- MODULE Builds -------------------------------
(***************************************************************************)
(* Building llama.cpp: BuildManager of src/backend/lld/build.py.           *)
(*                                                                         *)
(* A rebuild is a coroutine that runs git and cmake one after the other in *)
(* one checkout and one build directory.  The code between two awaits is   *)
(* one step; every subprocess, and every write of the database, is an      *)
(* await.  The log and its subscribers are left out.                       *)
(***************************************************************************)
EXTENDS Naturals, FiniteSets

CONSTANTS
    Builds,        \* identities of BuildJob objects
    NoBuild,
    Backends,      \* what accel.resolve() returns
    LastCommit,    \* upstream has the commits 1..LastCommit
    BuildEvents    \* what may happen, beyond the users' calls

(* fail      a command fails
   ninja     the user installs or removes Ninja
   clone     the setup wizard asks for a clone
   restart   the backend ends, and starts again                              *)
BuildEventKinds == {"fail", "ninja", "clone", "restart"}

ASSUME BuildsAssumption ==
    /\ NoBuild \notin Builds
    /\ Backends # {}
    /\ LastCommit \in Nat \ {0}
    /\ BuildEvents \subseteq BuildEventKinds

VARIABLES
    build,        \* the BuildJob objects, with the place of their coroutine
    buildActive,  \* _active
    buildRow,     \* the status in the table builds
    repo,         \* llama_repo: what is there, and the commit of HEAD
    dir,          \* llama_repo/build
    llamaBin,     \* the configured binary: the built one, or another
    otherBin,     \* whether a binary of the user's is at that other path
    ninja,        \* whether ninja is on the PATH
    mixed         \* builds that were in progress beside another one (history)

buildVars == <<build, buildActive, buildRow, repo, dir, llamaBin, otherBin, ninja, mixed>>

Commits == 1..LastCommit
NoCommit == 0
Generators == {"Ninja", "Unix Makefiles"}
NoCache == [backend |-> "none", generator |-> "none"]
Caches == {NoCache} \union [backend : Backends, generator : Generators]

(* asked        rebuild() awaits the commit of HEAD and the new row
   fetching     git pull, or git clone
   configuring  cmake reads the cache, and writes it
   compiling    cmake --build
   naming       _run() awaits the commit of HEAD
   closing      the job has its outcome, the row does not
   lost         the backend ended with the job                               *)
BuildPlaces == {"unused", "asked", "fetching", "configuring", "compiling",
                "naming", "closing", "over", "lost"}
BuildStatus == {"running", "success", "failed"}
InProgress == {"fetching", "configuring", "compiling", "naming"}

\* scan: the task of _feature_scan(), created when the build has succeeded.
BuildJob == [at : BuildPlaces, status : BuildStatus, backend : Backends, cloning : BOOLEAN,
             generator : Generators \union {"none"}, scan : {"none", "due", "begun"}]
UnusedBuild == [at |-> "unused", status |-> "running", backend |-> CHOOSE b \in Backends : TRUE,
                cloning |-> FALSE, generator |-> "none", scan |-> "none"]

\* binary: the commit of bin/llama-server.
EmptyDir == [cache |-> NoCache, binary |-> NoCommit]

BuildInit ==
    /\ build = [b \in Builds |-> UnusedBuild]
    /\ buildActive = NoBuild
    /\ buildRow = [b \in Builds |-> "none"]
    /\ repo \in [is : {"nothing"}, head : {NoCommit}] \union [is : {"checkout"}, head : {1}]
                \union (IF "clone" \in BuildEvents THEN [is : {"foreign"}, head : {NoCommit}] ELSE {})
    /\ dir = EmptyDir
    /\ llamaBin = "other"
    /\ otherBin \in BOOLEAN
    /\ ninja \in BOOLEAN
    /\ mixed = {}

-----------------------------------------------------------------------------

\* The commit current_version() reads from the configured binary, if it exists.
BinaryCommit ==
    IF llamaBin = "built" THEN dir.binary ELSE IF otherBin THEN 1 ELSE NoCommit

BuildRunning == buildActive # NoBuild /\ build[buildActive].status = "running"

\* rebuild() up to its first await; a clone is asked for by the setup wizard.
Rebuild(b, backend, clone) ==
    LET cloning == clone /\ repo.is # "checkout" IN
    /\ build[b].at = "unused"
    /\ ~BuildRunning
    /\ IF cloning THEN repo.is # "foreign" ELSE repo.is = "checkout"
    /\ build' = [build EXCEPT ![b].at = "asked", ![b].backend = backend, ![b].cloning = cloning]
    /\ UNCHANGED <<buildActive, buildRow, repo, dir, llamaBin, otherBin, ninja, mixed>>

\* The row is there: the job becomes the active one, its coroutine runs.
BuildStarts(b) ==
    LET others == {c \in Builds : build[c].at \in InProgress} IN
    /\ build[b].at = "asked"
    /\ build' = [build EXCEPT ![b].at = "fetching"]
    /\ buildActive' = b
    /\ buildRow' = [buildRow EXCEPT ![b] = "running"]
    /\ mixed' = IF others = {} THEN mixed ELSE mixed \union others \union {b}
    /\ UNCHANGED <<repo, dir, llamaBin, otherBin, ninja>>

BuildFails(b) == build' = [build EXCEPT ![b].status = "failed", ![b].at = "closing"]

PreferredGenerator == IF ninja THEN "Ninja" ELSE "none"

\* Mutant: the last case of _stale_cache_reason() is missing.
StaleCacheReasonForgets(backend, generator) ==
    IF dir.cache = NoCache THEN "none"
    ELSE IF dir.cache.backend # backend THEN "backend"
    ELSE IF generator # "none" /\ dir.cache.generator # generator THEN "generator"
    ELSE "none"

\* _stale_cache_reason(): why cmake cannot reuse its cache.
StaleCacheReason(backend, generator) ==
    IF dir.cache = NoCache THEN "none"
    ELSE IF dir.cache.backend # backend THEN "backend"
    ELSE IF generator # "none" /\ dir.cache.generator # generator THEN "generator"
    ELSE IF generator = "none" /\ dir.cache.generator = "Ninja" THEN "generator"
    ELSE "none"

\* What is left of the build directory when cmake is started.
Cleared(reason) ==
    CASE reason = "generator" -> EmptyDir
      [] reason = "backend"   -> [dir EXCEPT !.cache = NoCache]
      [] OTHER                -> dir

\* git is done: up to the start of cmake.
Fetched(b) ==
    /\ build[b].at = "fetching"
    /\ repo.is = IF build[b].cloning THEN "nothing" ELSE "checkout"
    /\ \E c \in Commits :
          /\ c >= repo.head
          /\ repo' = [is |-> "checkout", head |-> c]
    /\ dir' = Cleared(StaleCacheReason(build[b].backend, PreferredGenerator))
    /\ build' = [build EXCEPT ![b].at = "configuring", ![b].generator = PreferredGenerator]
    /\ UNCHANGED <<buildActive, buildRow, llamaBin, otherBin, ninja, mixed>>

\* A clone also fails where another one has been.
FetchFails(b) ==
    /\ build[b].at = "fetching"
    /\ "fail" \in BuildEvents \/ (build[b].cloning /\ repo.is # "nothing")
    /\ BuildFails(b)
    /\ UNCHANGED <<buildActive, buildRow, repo, dir, llamaBin, otherBin, ninja, mixed>>

\* The generator cmake uses: the one it is given, the cache's, its default.
UsedGenerator(b) ==
    IF build[b].generator # "none" THEN build[b].generator
    ELSE IF dir.cache # NoCache THEN dir.cache.generator ELSE "Unix Makefiles"

\* cmake writes its cache whether it then succeeds or not.
Configured(b, ok) ==
    LET g == UsedGenerator(b) IN
    /\ build[b].at = "configuring"
    /\ dir' = [dir EXCEPT !.cache = [backend |-> build[b].backend, generator |-> g]]
    /\ IF ok THEN build' = [build EXCEPT ![b].at = "compiling"]
             ELSE "fail" \in BuildEvents /\ BuildFails(b)
    /\ UNCHANGED <<buildActive, buildRow, repo, llamaBin, otherBin, ninja, mixed>>

Compiled(b) ==
    /\ build[b].at = "compiling"
    /\ dir' = [dir EXCEPT !.binary = repo.head]
    /\ build' = [build EXCEPT ![b].at = "naming"]
    /\ UNCHANGED <<buildActive, buildRow, repo, llamaBin, otherBin, ninja, mixed>>

CompileFails(b) ==
    /\ "fail" \in BuildEvents /\ build[b].at = "compiling"
    /\ BuildFails(b)
    /\ UNCHANGED <<buildActive, buildRow, repo, dir, llamaBin, otherBin, ninja, mixed>>

\* Mutant: a configured binary is only replaced if it is the built one.
AdoptsNever == llamaBin

\* _adopt_binary(): a configured binary that exists stays.
Adopts ==
    IF dir.binary = NoCommit \/ llamaBin = "built" \/ otherBin THEN llamaBin ELSE "built"

BuildSucceeds(b) ==
    /\ build[b].at = "naming"
    /\ build' = [build EXCEPT ![b].at = "closing", ![b].status = "success", ![b].scan = "due"]
    /\ llamaBin' = Adopts
    /\ UNCHANGED <<buildActive, buildRow, repo, dir, otherBin, ninja, mixed>>

\* Mutant: the row is written only for a build that succeeded.
BuildOutcomeIfGood(b) == IF build[b].status = "success" THEN "success" ELSE buildRow[b]
BuildOutcome(b) == build[b].status

\* The finally of _run().
BuildCloses(b) ==
    /\ build[b].at = "closing"
    /\ buildRow' = [buildRow EXCEPT ![b] = BuildOutcome(b)]
    /\ build' = [build EXCEPT ![b].at = "over"]
    /\ UNCHANGED <<buildActive, repo, dir, llamaBin, otherBin, ninja, mixed>>

NinjaChanges ==
    /\ "ninja" \in BuildEvents
    /\ ninja' = ~ninja
    /\ UNCHANGED <<build, buildActive, buildRow, repo, dir, llamaBin, otherBin, mixed>>

\* The backend starts again, and looks at no row of the table.
BuildsRestart ==
    /\ "restart" \in BuildEvents
    /\ \E b \in Builds : build[b].at \notin {"unused", "over", "lost"}
    /\ build' = [b \in Builds |->
                    IF build[b].at \in {"unused", "over"} THEN [build[b] EXCEPT !.scan = "none"]
                    ELSE [build[b] EXCEPT !.at = "lost", !.scan = "none"]]
    /\ buildActive' = NoBuild
    /\ UNCHANGED <<buildRow, repo, dir, llamaBin, otherBin, ninja, mixed>>

BuildProceeds(b) ==
    \/ BuildStarts(b) \/ Fetched(b) \/ FetchFails(b)
    \/ \E ok \in BOOLEAN : Configured(b, ok)
    \/ Compiled(b) \/ CompileFails(b) \/ BuildSucceeds(b) \/ BuildCloses(b)

BuildNext ==
    \/ \E b \in Builds, k \in Backends, clone \in {FALSE} \union {e = "clone" : e \in BuildEvents} :
          Rebuild(b, k, clone)
    \/ \E b \in Builds : BuildProceeds(b)
    \/ NinjaChanges

-----------------------------------------------------------------------------
(* Properties *)

BuildTypeOK ==
    /\ build \in [Builds -> BuildJob]
    /\ buildActive \in Builds \union {NoBuild}
    /\ buildRow \in [Builds -> BuildStatus \union {"none"}]
    /\ repo \in [is : {"nothing", "foreign", "checkout"}, head : Commits \union {NoCommit}]
    /\ dir \in [cache : Caches, binary : Commits \union {NoCommit}]
    /\ llamaBin \in {"built", "other"}
    /\ otherBin \in BOOLEAN /\ ninja \in BOOLEAN
    /\ mixed \subseteq Builds

\* cmake never meets a cache that it cannot reuse.
CacheFits ==
    \A b \in Builds : build[b].at = "configuring" /\ b \notin mixed =>
        LET g == UsedGenerator(b) IN
        /\ dir.cache \in {NoCache, [backend |-> build[b].backend, generator |-> g]}
        /\ build[b].generator = "none" => g # "Ninja"

\* After the success of the latest build, the configured binary exists.
AdoptedExists ==
    /\ buildActive # NoBuild /\ buildActive \notin mixed
    /\ build[buildActive].status = "success"
    => BinaryCommit # NoCommit

\* A build that ran alone was configured for what it was asked to build, and a
\* success of it can be started: what _stale_cache_reason() and _adopt_binary()
\* are for, over sequences of builds, failures and changes of the tools.
BuildsAreSound == CacheFits /\ AdoptedExists

\* A row that says "running" is written again, unless the backend ends first.
BuildRowsSettle ==
    \A b \in Builds : buildRow[b] = "running" ~> (buildRow[b] # "running" \/ build[b].at = "lost")

=============================================================================
