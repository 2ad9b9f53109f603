------------------------------ MODULE JobProofs ------------------------------
(***************************************************************************)
(* The jobs of the backend, for all sets of them and all events.  Builds   *)
(* end in something that can be started and a scan says what it compared;  *)
(* a cancel of a benchmark holds and an A/B run compares what it says.     *)
(*                                                                         *)
(* The builds share one checkout and one build directory: the inductive    *)
(* invariant says who may be using them.  The scans of builds and of the   *)
(* user share the table of scans: it says what a scan may rely on between  *)
(* its look for an earlier one and its own row.  All benchmarks share the  *)
(* flag, the process handle and the active job: AInv says whose they are.  *)
(***************************************************************************)
EXTENDS FeatureScans, AbRuns, Guides, SequenceTheorems, FiniteSetTheorems, TLAPS

-----------------------------------------------------------------------------
(* Builds and scans: the inductive invariant *)

\* The builds that use the checkout and the build directory.
BusyBuilds == {b \in Builds : build[b].at \in InProgress}

\* Builds that are busy beside each other are mixed, and so is the latest one
\* when it is not the one that is busy.
BuildsApart ==
    /\ \A b, c \in BusyBuilds : b # c => b \in mixed
    /\ \A b \in BusyBuilds : b # buildActive => buildActive # NoBuild /\ {b, buildActive} \subseteq mixed

\* What the place of a build says of the checkout and of the binary.
BuildSound(b) ==
    /\ build[b].at \in {"unused", "asked"} \union InProgress => build[b].status = "running"
    /\ build[b].at \in {"configuring", "compiling", "naming"} => repo.is = "checkout"
    /\ build[b].at = "naming" /\ b \notin mixed => dir.binary # NoCommit

HeadIsThere == repo.is = "checkout" => repo.head \in Commits

BuildInv ==
    /\ BuildTypeOK /\ BuildsApart
    /\ \A b \in Builds : BuildSound(b)
    /\ HeadIsThere /\ CacheFits /\ AdoptedExists

\* The types, without the length of the snapshots.
ScanTypes ==
    /\ snapshots \in Seq(Snapshot)
    /\ scanner \in [Scanners -> ScanTask]
    /\ scanLock \in Scanners \union {NoScanner}
    /\ scans \in Seq(Scan) /\ Len(scans) <= MaxScans

\* A scan holds the lock until its row is there: the pair of commits it found
\* nobody else scans meanwhile.
ScanSound(t) ==
    LET s == scanner[t] IN
    /\ s.at \in {"versioning", "capturing", "comparing", "asking"} => scanLock = t
    /\ s.at \in {"capturing", "comparing", "asking"} => s.to \in Commits
    /\ s.at = "asking" => /\ s.from \in Commits /\ s.from # s.to
                          /\ s.force \/ ~ScannedBefore(s.from, s.to)
    /\ s.at \in {"summarizing", "writing"} => s.row \in 1..Len(scans)

ScanInv == ScanTypes /\ (\A t \in Scanners : ScanSound(t)) /\ ScansAreTrue

-----------------------------------------------------------------------------
(* The builds *)

\* The fields of a build, and what is typed beside it.
LEMMA BuildFields ==
    ASSUME BuildTypeOK, NEW b \in Builds
    PROVE  /\ build[b].at \in BuildPlaces /\ build[b].status \in BuildStatus
           /\ build[b].backend \in Backends /\ build[b].cloning \in BOOLEAN
           /\ build[b].generator \in Generators \union {"none"}
           /\ build[b].scan \in {"none", "due", "begun"}
BY DEF BuildTypeOK, BuildJob

\* A build that goes on is one, and the others stay as they are.
LEMMA BuildGoes ==
    ASSUME BuildTypeOK, NEW b \in Builds, NEW o \in BuildJob, build' = [build EXCEPT ![b] = o]
    PROVE  /\ build' \in [Builds -> BuildJob] /\ build'[b] = o
           /\ \A c \in Builds \ {b} : build'[c] = build[c]
BY DEF BuildTypeOK

\* It goes to another place.
LEMMA GoesTo ==
    ASSUME BuildTypeOK, NEW b \in Builds, NEW at \in BuildPlaces, build' = [build EXCEPT ![b].at = at]
    PROVE  /\ build' \in [Builds -> BuildJob] /\ build'[b].at = at
           /\ build'[b].status = build[b].status /\ build'[b].generator = build[b].generator
           /\ build'[b].backend = build[b].backend
           /\ \A c \in Builds \ {b} : build'[c] = build[c]
<1> DEFINE o == [build[b] EXCEPT !.at = at]
<1>1. /\ o \in BuildJob /\ o.at = at /\ o.status = build[b].status
      /\ o.generator = build[b].generator /\ o.backend = build[b].backend
      /\ build' = [build EXCEPT ![b] = o]
  BY DEF BuildTypeOK, BuildJob
<1> HIDE DEF o
<1> QED BY <1>1, BuildGoes

\* A build that fails is about to be closed.
LEMMA FailsTo ==
    ASSUME BuildTypeOK, NEW b \in Builds, BuildFails(b)
    PROVE  /\ build' \in [Builds -> BuildJob] /\ build'[b].at = "closing"
           /\ build'[b].status = "failed"
           /\ \A c \in Builds \ {b} : build'[c] = build[c]
<1> DEFINE o == [build[b] EXCEPT !.status = "failed", !.at = "closing"]
<1>1. /\ o \in BuildJob /\ o.at = "closing" /\ o.status = "failed"
      /\ build' = [build EXCEPT ![b] = o]
  BY DEF BuildTypeOK, BuildJob, BuildFails, BuildPlaces, BuildStatus
<1> HIDE DEF o
<1> QED BY <1>1, BuildGoes

\* A build that is busy changes what the builds share: the others that are
\* busy are mixed, so that nothing was said of what they find.
LEMMA BusySound ==
    ASSUME BuildInv, BuildTypeOK', NEW b \in BusyBuilds,
           \A c \in Builds \ {b} : build'[c] = build[c],
           UNCHANGED <<buildActive, mixed>>,
           HeadIsThere', repo.is = "checkout" => repo'.is = "checkout",
           build'[b].at \notin {"unused", "asked", "fetching"},
           BuildSound(b)',
           build'[b].at = "configuring" /\ b \notin mixed =>
               LET g == UsedGenerator(b)' IN
               /\ dir'.cache \in {NoCache, [backend |-> build'[b].backend, generator |-> g]}
               /\ build'[b].generator = "none" => g # "Ninja",
           b \notin mixed /\ build'[b].status = "success" => BinaryCommit' # NoCommit
    PROVE  BuildInv'
<1>1. b \in Builds /\ BusyBuilds' \subseteq BusyBuilds
  BY DEF BusyBuilds
<1>2. BuildsApart'
  BY <1>1 DEF BuildInv, BuildsApart
<1>3. \A c \in BusyBuilds \ {b} : c \in mixed
  BY DEF BuildInv, BuildsApart
<1>4. ASSUME NEW c \in Builds \ {b} PROVE BuildSound(c)'
  <2>1. build'[c] = build[c] /\ BuildSound(c)
    BY DEF BuildInv
  <2>2. build[c].at = "naming" => c \in mixed
    BY <1>3 DEF BusyBuilds, InProgress
  <2> QED BY <2>1, <2>2 DEF BuildSound
<1>5. CacheFits'
  <2>1. ASSUME NEW c \in Builds \ {b}, build'[c].at = "configuring" PROVE c \in mixed'
    BY <1>3, <2>1 DEF BusyBuilds, InProgress
  <2> QED BY <2>1 DEF CacheFits
<1>6. buildActive \in Builds /\ buildActive \notin mixed => buildActive = b
  BY DEF BuildInv, BuildsApart
<1>7. AdoptedExists'
  BY <1>6 DEF AdoptedExists, BuildInv, BuildTypeOK
<1> QED BY <1>1, <1>2, <1>4, <1>5, <1>7 DEF BuildInv

\* A step that leaves alone what the builds share.
LEMMA IdleSound ==
    ASSUME BuildInv, BuildTypeOK',
           UNCHANGED <<buildActive, repo, dir, llamaBin, otherBin, mixed>>,
           \A c \in Builds :
               /\ build'[c].status = build[c].status /\ build'[c].generator = build[c].generator
               /\ build'[c].at \in InProgress =>
                      build'[c].at = build[c].at /\ build'[c].backend = build[c].backend
               /\ build'[c].at \in {"unused", "asked"} => build[c].status = "running"
    PROVE  BuildInv'
<1>1. BusyBuilds' \subseteq BusyBuilds
  BY DEF BusyBuilds
<1>2. BuildsApart' /\ HeadIsThere'
  BY <1>1 DEF BuildInv, BuildsApart, HeadIsThere
<1>3. \A c \in Builds : BuildSound(c)'
  BY DEF BuildInv, BuildSound, InProgress
<1>4. CacheFits'
  BY DEF BuildInv, CacheFits, UsedGenerator, InProgress
<1>5. AdoptedExists'
  BY DEF BuildInv, AdoptedExists, BinaryCommit, BuildTypeOK
<1> QED BY <1>2, <1>3, <1>4, <1>5 DEF BuildInv

\* rebuild(): nothing is shared yet.
LEMMA RebuildSound ==
    ASSUME BuildInv, NEW b \in Builds, NEW backend \in Backends, NEW clone \in BOOLEAN,
           Rebuild(b, backend, clone)
    PROVE  BuildInv'
<1> DEFINE cloning == clone /\ repo.is # "checkout"
<1> DEFINE o == [build[b] EXCEPT !.at = "asked", !.backend = backend, !.cloning = cloning]
<1>1. /\ build[b].at = "unused"
      /\ build' = [build EXCEPT ![b].at = "asked", ![b].backend = backend, ![b].cloning = cloning]
      /\ UNCHANGED <<buildActive, buildRow, repo, dir, llamaBin, otherBin, ninja, mixed>>
  BY DEF Rebuild
<1>2. cloning \in BOOLEAN
  OBVIOUS
<1> HIDE DEF cloning
<1>3. /\ o \in BuildJob /\ o.at = "asked" /\ o.status = build[b].status /\ o.generator = build[b].generator
      /\ build' = [build EXCEPT ![b] = o]
  BY <1>1, <1>2 DEF BuildInv, BuildTypeOK, BuildJob, BuildPlaces
<1> HIDE DEF o
<1>4. /\ build' \in [Builds -> BuildJob] /\ build'[b] = o
      /\ \A c \in Builds \ {b} : build'[c] = build[c]
  BY <1>3, BuildGoes DEF BuildInv
<1>5. BuildTypeOK'
  BY <1>1, <1>4 DEF BuildInv, BuildTypeOK
<1>6. \A c \in Builds : build[c].at = "unused" \/ build[c].at = "asked" => build[c].status = "running"
  BY DEF BuildInv, BuildSound
<1> QED BY <1>1, <1>3, <1>4, <1>5, <1>6, IdleSound DEF InProgress

\* The row is there: the build is the active one, and busy.
LEMMA StartSound ==
    ASSUME BuildInv, NEW b \in Builds, BuildStarts(b) PROVE BuildInv'
<1>1. /\ build' \in [Builds -> BuildJob] /\ build'[b].at = "fetching"
      /\ build'[b].status = build[b].status
      /\ \A c \in Builds \ {b} : build'[c] = build[c]
  BY GoesTo DEF BuildStarts, BuildInv, BuildPlaces
<1>2. /\ build[b].at = "asked" /\ buildActive' = b /\ buildRow' = [buildRow EXCEPT ![b] = "running"]
      /\ mixed' = IF BusyBuilds = {} THEN mixed ELSE mixed \union BusyBuilds \union {b}
      /\ UNCHANGED <<repo, dir, llamaBin, otherBin, ninja>>
  BY DEF BuildStarts, BusyBuilds
<1>3. BuildTypeOK'
  <2>1. BusyBuilds \subseteq Builds
    BY DEF BusyBuilds
  <2> QED BY <1>1, <1>2, <2>1 DEF BuildInv, BuildTypeOK, BuildStatus
<1>4. BusyBuilds' = BusyBuilds \union {b}
  BY <1>1 DEF BusyBuilds, InProgress
<1>5. b # NoBuild
  BY BuildsAssumption
<1>6. BuildsApart'
  BY <1>2, <1>4, <1>5 DEF BuildInv, BuildsApart
<1>7. \A c \in Builds : BuildSound(c)'
  BY <1>1, <1>2 DEF BuildInv, BuildSound, InProgress
<1>8. CacheFits'
  BY <1>1, <1>2 DEF BuildInv, CacheFits, UsedGenerator
<1>9. AdoptedExists' /\ HeadIsThere'
  BY <1>1, <1>2 DEF BuildInv, BuildSound, AdoptedExists, HeadIsThere
<1> QED BY <1>3, <1>6, <1>7, <1>8, <1>9 DEF BuildInv

\* What is left of the build directory is a directory, and fits: this is what
\* _stale_cache_reason() is for.
LEMMA ClearedFits ==
    ASSUME BuildTypeOK, NEW backend \in Backends
    PROVE  LET d == Cleared(StaleCacheReason(backend, PreferredGenerator)) IN
           /\ d \in [cache : Caches, binary : Commits \union {NoCommit}]
           /\ \/ d.cache = NoCache
              \/ /\ d.cache = dir.cache /\ dir.cache # NoCache /\ dir.cache.backend = backend
                 /\ PreferredGenerator # "none" => dir.cache.generator = PreferredGenerator
                 /\ PreferredGenerator = "none" => dir.cache.generator # "Ninja"
<1> DEFINE reason == StaleCacheReason(backend, PreferredGenerator)
<1>1. dir \in [cache : Caches, binary : Commits \union {NoCommit}]
  BY DEF BuildTypeOK
<1>2. NoCache \in Caches /\ EmptyDir \in [cache : Caches, binary : Commits \union {NoCommit}]
      /\ EmptyDir.cache = NoCache
  BY DEF Caches, EmptyDir
<1>3. CASE reason = "generator"
  <2>1. Cleared(reason) = EmptyDir
    BY <1>3 DEF Cleared
  <2> QED BY <1>2, <2>1
<1>4. CASE reason = "backend"
  <2> DEFINE e == [dir EXCEPT !.cache = NoCache]
  <2>1. Cleared(reason) = e
    BY <1>4 DEF Cleared
  <2>2. e \in [cache : Caches, binary : Commits \union {NoCommit}] /\ e.cache = NoCache
    BY <1>1, <1>2
  <2> QED BY <2>1, <2>2
<1>5. CASE reason = "none"
  <2>1. Cleared(reason) = dir
    BY <1>5 DEF Cleared
  <2>2. \/ dir.cache = NoCache
        \/ /\ dir.cache # NoCache /\ dir.cache.backend = backend
           /\ PreferredGenerator # "none" => dir.cache.generator = PreferredGenerator
           /\ PreferredGenerator = "none" => dir.cache.generator # "Ninja"
    BY <1>5 DEF StaleCacheReason
  <2> QED BY <1>1, <2>1, <2>2
<1>6. reason \in {"none", "backend", "generator"}
  BY DEF StaleCacheReason
<1> QED BY <1>3, <1>4, <1>5, <1>6

\* git is done: cmake meets a directory that fits.
LEMMA FetchedSound ==
    ASSUME BuildInv, NEW b \in Builds, Fetched(b) PROVE BuildInv'
<1> DEFINE g == PreferredGenerator
           d == Cleared(StaleCacheReason(build[b].backend, g))
           o == [build[b] EXCEPT !.at = "configuring", !.generator = g]
<1>1. /\ build[b].at = "fetching"
      /\ \E c \in Commits : repo' = [is |-> "checkout", head |-> c]
      /\ dir' = d
      /\ build' = [build EXCEPT ![b].at = "configuring", ![b].generator = g]
      /\ UNCHANGED <<buildActive, buildRow, llamaBin, otherBin, ninja, mixed>>
  BY DEF Fetched
<1>2. build[b].backend \in Backends /\ build[b].status = "running"
  BY <1>1, BuildFields DEF BuildInv, BuildSound, InProgress
<1>3. /\ d \in [cache : Caches, binary : Commits \union {NoCommit}]
      /\ \/ d.cache = NoCache
         \/ /\ d.cache = dir.cache /\ dir.cache # NoCache /\ dir.cache.backend = build[b].backend
            /\ g # "none" => dir.cache.generator = g
            /\ g = "none" => dir.cache.generator # "Ninja"
  BY <1>2, ClearedFits DEF BuildInv
<1>4. g \in {"Ninja", "none"}
  BY DEF PreferredGenerator
<1> HIDE DEF g, d
<1>5. /\ o \in BuildJob /\ o.at = "configuring" /\ o.generator = g /\ o.status = "running"
      /\ o.backend = build[b].backend /\ build' = [build EXCEPT ![b] = o]
  BY <1>1, <1>2, <1>4 DEF BuildInv, BuildTypeOK, BuildJob, BuildPlaces, Generators
<1> HIDE DEF o
<1>6. /\ build' \in [Builds -> BuildJob] /\ build'[b] = o
      /\ \A c \in Builds \ {b} : build'[c] = build[c]
  BY <1>5, BuildGoes DEF BuildInv
<1>7. /\ repo' \in [is : {"nothing", "foreign", "checkout"}, head : Commits \union {NoCommit}]
      /\ repo'.is = "checkout" /\ repo'.head \in Commits
  BY <1>1
<1>8. BuildTypeOK'
  BY <1>1, <1>3, <1>6, <1>7 DEF BuildInv, BuildTypeOK
<1>9. b \in BusyBuilds
  BY <1>1 DEF BusyBuilds, InProgress
<1>10. BuildSound(b)'
  BY <1>5, <1>6, <1>7 DEF BuildSound
<1>11. LET h == UsedGenerator(b)' IN
       /\ dir'.cache \in {NoCache, [backend |-> build'[b].backend, generator |-> h]}
       /\ build'[b].generator = "none" => h # "Ninja"
  <2>1. UsedGenerator(b)' = IF g # "none" THEN g
                            ELSE IF d.cache # NoCache THEN d.cache.generator ELSE "Unix Makefiles"
    BY <1>1, <1>5, <1>6 DEF UsedGenerator
  <2>2. d.cache = NoCache \/ d.cache = [backend |-> build[b].backend, generator |-> UsedGenerator(b)']
    <3>1. ASSUME d.cache # NoCache
          PROVE  d.cache \in [backend : Backends, generator : Generators]
      BY <1>3, <3>1 DEF Caches
    <3>2. ASSUME d.cache # NoCache
          PROVE  d.cache.backend = build[b].backend /\ d.cache.generator = UsedGenerator(b)'
      BY <1>3, <2>1, <3>2
    <3> QED BY <3>1, <3>2
  <2>3. g = "none" => UsedGenerator(b)' # "Ninja"
    BY <1>3, <2>1
  <2> QED BY <1>1, <1>5, <1>6, <2>2, <2>3
<1> QED BY <1>1, <1>5, <1>6, <1>7, <1>8, <1>9, <1>10, <1>11, BusySound DEF HeadIsThere

\* A command fails.
LEMMA FailSound ==
    ASSUME BuildInv, NEW b \in Builds, FetchFails(b) \/ CompileFails(b) PROVE BuildInv'
<1>1. /\ build' \in [Builds -> BuildJob] /\ build'[b].at = "closing"
      /\ build'[b].status = "failed"
      /\ \A c \in Builds \ {b} : build'[c] = build[c]
  BY FailsTo DEF BuildInv, FetchFails, CompileFails
<1>2. /\ b \in BusyBuilds
      /\ UNCHANGED <<buildActive, buildRow, repo, dir, llamaBin, otherBin, ninja, mixed>>
  BY DEF FetchFails, CompileFails, BusyBuilds, InProgress
<1>3. BuildTypeOK'
  BY <1>1, <1>2 DEF BuildInv, BuildTypeOK
<1>4. BuildSound(b)' /\ HeadIsThere'
  BY <1>1, <1>2 DEF BuildInv, BuildSound, HeadIsThere, InProgress
<1> QED BY <1>1, <1>2, <1>3, <1>4, BusySound

\* cmake has written its cache.
LEMMA ConfiguredSound ==
    ASSUME BuildInv, NEW b \in Builds, NEW ok \in BOOLEAN, Configured(b, ok) PROVE BuildInv'
<1> DEFINE c == [backend |-> build[b].backend, generator |-> UsedGenerator(b)]
           d == [dir EXCEPT !.cache = c]
<1>1. /\ build[b].at = "configuring" /\ dir' = d
      /\ build' = [build EXCEPT ![b].at = "compiling"] \/ BuildFails(b)
      /\ UNCHANGED <<buildActive, buildRow, repo, llamaBin, otherBin, ninja, mixed>>
  BY DEF Configured
<1>2. UsedGenerator(b) \in Generators
  <2>1. dir.cache # NoCache => dir.cache \in [backend : Backends, generator : Generators]
    BY DEF BuildInv, BuildTypeOK, Caches
  <2>2. build[b].generator \in Generators \union {"none"}
    BY BuildFields DEF BuildInv
  <2> QED BY <2>1, <2>2 DEF UsedGenerator, Generators
<1>3. c \in Caches
  BY <1>2, BuildFields DEF BuildInv, Caches
<1> HIDE DEF c
<1>4. d \in [cache : Caches, binary : Commits \union {NoCommit}]
  BY <1>3 DEF BuildInv, BuildTypeOK
<1> HIDE DEF d
<1>5. /\ build' \in [Builds -> BuildJob] /\ build'[b].at \in {"compiling", "closing"}
      /\ build'[b].at = "compiling" => build'[b].status = build[b].status
      /\ build'[b].status # "success"
      /\ \A e \in Builds \ {b} : build'[e] = build[e]
  <2>1. BuildTypeOK /\ "compiling" \in BuildPlaces /\ build[b].status = "running"
    BY <1>1 DEF BuildInv, BuildPlaces, BuildSound, InProgress
  <2> QED BY <1>1, <2>1, GoesTo, FailsTo
<1>6. b \in BusyBuilds /\ repo.is = "checkout" /\ build[b].status = "running"
  BY <1>1 DEF BusyBuilds, InProgress, BuildInv, BuildSound
<1>7. BuildTypeOK'
  BY <1>1, <1>4, <1>5 DEF BuildInv, BuildTypeOK
<1>8. BuildSound(b)' /\ HeadIsThere'
  BY <1>1, <1>5, <1>6 DEF BuildInv, BuildSound, HeadIsThere, InProgress
<1> QED BY <1>1, <1>5, <1>6, <1>7, <1>8, BusySound

\* The binary is that of the commit of HEAD.
LEMMA CompiledSound ==
    ASSUME BuildInv, NEW b \in Builds, Compiled(b) PROVE BuildInv'
<1> DEFINE d == [dir EXCEPT !.binary = repo.head]
<1>1. /\ build[b].at = "compiling" /\ dir' = d
      /\ build' = [build EXCEPT ![b].at = "naming"]
      /\ UNCHANGED <<buildActive, buildRow, repo, llamaBin, otherBin, ninja, mixed>>
  BY DEF Compiled
<1>2. b \in BusyBuilds /\ repo.is = "checkout" /\ build[b].status = "running" /\ repo.head \in Commits
  BY <1>1 DEF BusyBuilds, InProgress, BuildInv, BuildSound, HeadIsThere
<1>3. d \in [cache : Caches, binary : Commits \union {NoCommit}] /\ d.binary = repo.head
  BY <1>2 DEF BuildInv, BuildTypeOK
<1> HIDE DEF d
<1>4. /\ build' \in [Builds -> BuildJob] /\ build'[b].at = "naming"
      /\ build'[b].status = build[b].status
      /\ \A e \in Builds \ {b} : build'[e] = build[e]
  <2>1. BuildTypeOK /\ "naming" \in BuildPlaces
    BY DEF BuildInv, BuildPlaces
  <2> QED BY <1>1, <2>1, GoesTo
<1>5. BuildTypeOK'
  BY <1>1, <1>3, <1>4 DEF BuildInv, BuildTypeOK
<1>6. d.binary # NoCommit
  BY <1>2, <1>3 DEF Commits, NoCommit
<1>7. BuildSound(b)' /\ HeadIsThere'
  BY <1>1, <1>2, <1>4, <1>6 DEF BuildInv, BuildSound, HeadIsThere
<1> QED BY <1>1, <1>2, <1>4, <1>5, <1>7, BusySound

\* A build that ran alone succeeds: there is a binary, and it is the configured
\* one unless that is another that exists.
LEMMA SucceedsSound ==
    ASSUME BuildInv, NEW b \in Builds, BuildSucceeds(b) PROVE BuildInv'
<1> DEFINE o == [build[b] EXCEPT !.at = "closing", !.status = "success", !.scan = "due"]
<1>1. /\ build[b].at = "naming" /\ llamaBin' = Adopts
      /\ build' = [build EXCEPT ![b].at = "closing", ![b].status = "success", ![b].scan = "due"]
      /\ UNCHANGED <<buildActive, buildRow, repo, dir, otherBin, ninja, mixed>>
  BY DEF BuildSucceeds
<1>2. /\ o \in BuildJob /\ o.at = "closing" /\ o.status = "success" /\ build' = [build EXCEPT ![b] = o]
  BY <1>1 DEF BuildInv, BuildTypeOK, BuildJob, BuildPlaces, BuildStatus
<1> HIDE DEF o
<1>3. /\ build' \in [Builds -> BuildJob] /\ build'[b] = o
      /\ \A c \in Builds \ {b} : build'[c] = build[c]
  BY <1>2, BuildGoes DEF BuildInv
<1>4. b \in BusyBuilds /\ repo.is = "checkout" /\ (b \notin mixed => dir.binary # NoCommit)
  BY <1>1 DEF BusyBuilds, InProgress, BuildInv, BuildSound
<1>5. BuildTypeOK'
  <2>1. llamaBin' \in {"built", "other"}
    BY <1>1 DEF BuildInv, BuildTypeOK, Adopts
  <2> QED BY <1>1, <1>3, <2>1 DEF BuildInv, BuildTypeOK
<1>6. b \notin mixed => BinaryCommit' # NoCommit
  BY <1>1, <1>4 DEF BinaryCommit, Adopts, NoCommit, BuildInv, BuildTypeOK
<1>7. BuildSound(b)' /\ HeadIsThere'
  BY <1>1, <1>2, <1>3, <1>4 DEF BuildInv, BuildSound, HeadIsThere, InProgress
<1> QED BY <1>1, <1>2, <1>3, <1>4, <1>5, <1>6, <1>7, BusySound

\* The row is written; the tools change; a scan takes the build over.
LEMMA ClosesSound ==
    ASSUME BuildInv, NEW b \in Builds, BuildCloses(b) PROVE BuildInv'
<1>1. /\ build' \in [Builds -> BuildJob] /\ build'[b].at = "over"
      /\ build'[b].status = build[b].status /\ build'[b].generator = build[b].generator
      /\ \A c \in Builds \ {b} : build'[c] = build[c]
  <2>1. BuildTypeOK /\ "over" \in BuildPlaces /\ build' = [build EXCEPT ![b].at = "over"]
    BY DEF BuildInv, BuildPlaces, BuildCloses
  <2> QED BY <2>1, GoesTo
<1>2. /\ buildRow' = [buildRow EXCEPT ![b] = build[b].status]
      /\ UNCHANGED <<buildActive, repo, dir, llamaBin, otherBin, ninja, mixed>>
  BY DEF BuildCloses, BuildOutcome
<1>3. BuildTypeOK'
  BY <1>1, <1>2, BuildFields DEF BuildInv, BuildTypeOK
<1>4. \A c \in Builds : build[c].at = "unused" \/ build[c].at = "asked" => build[c].status = "running"
  BY DEF BuildInv, BuildSound
<1> QED BY <1>1, <1>2, <1>3, <1>4, IdleSound DEF InProgress

LEMMA NinjaSound == ASSUME BuildInv, NinjaChanges PROVE BuildInv'
<1>1. ninja' \in BOOLEAN /\ UNCHANGED <<build, buildActive, buildRow, repo, dir, llamaBin, otherBin, mixed>>
  BY DEF NinjaChanges
<1>2. BuildTypeOK'
  BY <1>1 DEF BuildInv, BuildTypeOK
<1>3. \A c \in Builds : build[c].at = "unused" \/ build[c].at = "asked" => build[c].status = "running"
  BY DEF BuildInv, BuildSound
<1> QED BY <1>1, <1>2, <1>3, IdleSound

LEMMA ScanBegunSound == ASSUME BuildInv, NEW b \in Builds, ScanBegun(b) PROVE BuildInv'
<1> DEFINE o == [build[b] EXCEPT !.scan = "begun"]
<1>1. /\ build' = [build EXCEPT ![b].scan = "begun"]
      /\ UNCHANGED <<buildActive, buildRow, repo, dir, llamaBin, otherBin, ninja, mixed>>
  BY DEF ScanBegun
<1>2. /\ o \in BuildJob /\ o.at = build[b].at /\ o.status = build[b].status
      /\ o.generator = build[b].generator /\ o.backend = build[b].backend
      /\ build' = [build EXCEPT ![b] = o]
  BY <1>1 DEF BuildInv, BuildTypeOK, BuildJob
<1> HIDE DEF o
<1>3. /\ build' \in [Builds -> BuildJob] /\ build'[b] = o
      /\ \A c \in Builds \ {b} : build'[c] = build[c]
  BY <1>2, BuildGoes DEF BuildInv
<1>4. BuildTypeOK'
  BY <1>1, <1>3 DEF BuildInv, BuildTypeOK
<1>5. \A c \in Builds : build[c].at = "unused" \/ build[c].at = "asked" => build[c].status = "running"
  BY DEF BuildInv, BuildSound
<1> QED BY <1>1, <1>2, <1>3, <1>4, <1>5, IdleSound

\* The backend starts again: no build is busy, and none is the latest.
LEMMA RestartSound == ASSUME BuildInv, BuildsRestart PROVE BuildInv'
<1>1. ASSUME NEW b \in Builds
      PROVE  /\ build'[b] \in BuildJob /\ build'[b].status = build[b].status
             /\ build'[b].at = IF build[b].at \in {"unused", "over"} THEN build[b].at ELSE "lost"
  <2>1. build'[b] = IF build[b].at \in {"unused", "over"} THEN [build[b] EXCEPT !.scan = "none"]
                    ELSE [build[b] EXCEPT !.at = "lost", !.scan = "none"]
    BY DEF BuildsRestart
  <2> QED BY <2>1 DEF BuildInv, BuildTypeOK, BuildJob, BuildPlaces
<1>2. /\ build' \in [Builds -> BuildJob]
      /\ buildActive' = NoBuild /\ UNCHANGED <<buildRow, repo, dir, llamaBin, otherBin, ninja, mixed>>
  BY <1>1 DEF BuildsRestart
<1>3. BuildTypeOK'
  BY <1>2 DEF BuildInv, BuildTypeOK
<1>4. BusyBuilds' = {}
  BY <1>1 DEF BusyBuilds, InProgress
<1>5. BuildsApart' /\ HeadIsThere' /\ AdoptedExists'
  BY <1>2, <1>4 DEF BuildInv, BuildsApart, HeadIsThere, AdoptedExists
<1>6. (\A b \in Builds : BuildSound(b)') /\ CacheFits'
  BY <1>1, <1>2 DEF BuildInv, BuildSound, InProgress, CacheFits
<1> QED BY <1>3, <1>5, <1>6 DEF BuildInv

LEMMA BuildInvInit == BuildInit => BuildInv
<1> SUFFICES ASSUME BuildInit PROVE BuildInv
  OBVIOUS
<1>1. /\ UnusedBuild \in BuildJob /\ UnusedBuild.at = "unused" /\ UnusedBuild.status = "running"
  <2>1. (CHOOSE k \in Backends : TRUE) \in Backends
    BY BuildsAssumption
  <2> QED BY <2>1 DEF UnusedBuild, BuildJob, BuildPlaces, BuildStatus
<1>2. /\ repo \in [is : {"nothing", "foreign", "checkout"}, head : Commits \union {NoCommit}]
      /\ repo.is = "checkout" => repo.head \in Commits
  <2>1. 1 \in Commits
    BY BuildsAssumption DEF Commits
  <2>2. \/ repo \in [is : {"nothing"}, head : {NoCommit}]
        \/ repo \in [is : {"checkout"}, head : {1}]
        \/ repo \in [is : {"foreign"}, head : {NoCommit}]
    BY DEF BuildInit
  <2> QED BY <2>1, <2>2
<1>3. dir \in [cache : Caches, binary : Commits \union {NoCommit}]
  BY DEF BuildInit, EmptyDir, Caches
<1>4. \A b \in Builds : build[b] = UnusedBuild
  BY DEF BuildInit
<1>5. BuildTypeOK
  BY <1>1, <1>2, <1>3 DEF BuildInit, BuildTypeOK, BuildStatus
<1>6. BusyBuilds = {}
  BY <1>1, <1>4 DEF BusyBuilds, InProgress
<1>7. BuildsApart /\ HeadIsThere /\ CacheFits /\ AdoptedExists
  BY <1>1, <1>2, <1>4, <1>6 DEF BuildInit, BuildsApart, HeadIsThere, CacheFits, AdoptedExists
<1>8. \A b \in Builds : BuildSound(b)
  BY <1>1, <1>4 DEF BuildSound
<1> QED BY <1>5, <1>7, <1>8 DEF BuildInv

\* Every step of the builds.
LEMMA BuildNextSound == ASSUME BuildInv, BuildNext PROVE BuildInv'
<1>1. CASE \E b \in Builds, k \in Backends, clone \in {FALSE} \union {e = "clone" : e \in BuildEvents} :
              Rebuild(b, k, clone)
  <2>1. PICK b \in Builds, k \in Backends, clone \in {FALSE} \union {e = "clone" : e \in BuildEvents} :
           Rebuild(b, k, clone)
    BY <1>1
  <2>2. clone \in BOOLEAN
    OBVIOUS
  <2> QED BY <2>1, <2>2, RebuildSound
<1>2. CASE \E b \in Builds : BuildProceeds(b)
  <2>1. PICK b \in Builds : BuildProceeds(b)
    BY <1>2
  <2> QED BY <2>1, StartSound, FetchedSound, FailSound, ConfiguredSound, CompiledSound,
             SucceedsSound, ClosesSound DEF BuildProceeds
<1>3. CASE NinjaChanges
  BY <1>3, NinjaSound
<1> QED BY <1>1, <1>2, <1>3 DEF BuildNext

\* The commit of the configured binary.
LEMMA BinaryIsCommit == ASSUME BuildTypeOK PROVE BinaryCommit \in Commits \union {NoCommit}
BY BuildsAssumption DEF BuildTypeOK, BinaryCommit, Commits

-----------------------------------------------------------------------------
(* The scans *)

LEMMA TaskFields ==
    ASSUME ScanTypes, NEW t \in Scanners
    PROVE  /\ scanner[t].at \in ScanPlaces /\ scanner[t].force \in BOOLEAN
           /\ scanner[t].from \in Commits \union {NoCommit} /\ scanner[t].to \in Commits \union {NoCommit}
           /\ scanner[t].row \in 0..MaxScans
BY DEF ScanTypes, ScanTask

LEMMA NoTaskFields == NoTask \in ScanTask /\ NoTask.at = "none"
BY ScansAssumption DEF NoTask, ScanTask, ScanPlaces

\* No new pair of commits is scanned.
PairsStay == \A c, d \in Commits : ScannedBefore(c, d)' => ScannedBefore(c, d)

\* What a step of one task leaves to the others: the lock, where it is theirs,
\* their rows, and, while they hold the lock, the pairs that were scanned.
LEMMA TaskSound ==
    ASSUME ScanInv, NEW t \in Scanners, ScanTypes', ScanSound(t)', ScansAreTrue',
           \A u \in Scanners \ {t} : scanner'[u] = scanner[u] /\ (scanLock = u => scanLock' = u),
           Len(scans') >= Len(scans),
           scanLock = t \/ PairsStay
    PROVE  ScanInv'
<1>1. Len(scans) \in Nat /\ Len(scans') \in Nat
  BY LenProperties DEF ScanInv, ScanTypes
<1>2. ASSUME NEW u \in Scanners \ {t} PROVE ScanSound(u)'
  <2>1. scanner'[u] = scanner[u] /\ (scanLock = u => scanLock' = u) /\ ScanSound(u)
    BY DEF ScanInv
  <2>2. scanner[u].at = "asking" => scanLock # t
    BY <2>1 DEF ScanSound
  <2>3. ASSUME scanner[u].at = "asking"
        PROVE  scanner[u].force \/ ~ScannedBefore(scanner[u].from, scanner[u].to)'
    BY <2>1, <2>2, <2>3 DEF ScanSound, PairsStay
  <2>4. scanner[u].row \in 1..Len(scans) => scanner[u].row \in 1..Len(scans')
    BY <1>1
  <2> QED BY <2>1, <2>3, <2>4 DEF ScanSound, ScannedBefore
<1> QED BY <1>2 DEF ScanInv

\* A task ends.
LEMMA EndsSound ==
    ASSUME ScanInv, NEW t \in Scanners, ScanEnds(t), snapshots' \in Seq(Snapshot),
           scans' \in Seq(Scan), Len(scans') <= MaxScans, Len(scans') >= Len(scans), ScansAreTrue',
           scanLock = t \/ PairsStay
    PROVE  ScanInv'
<1>1. /\ scanner' \in [Scanners -> ScanTask] /\ scanner'[t] = NoTask
      /\ \A u \in Scanners \ {t} : scanner'[u] = scanner[u]
  BY NoTaskFields DEF ScanInv, ScanTypes, ScanEnds
<1>2. /\ scanLock' \in Scanners \union {NoScanner}
      /\ \A u \in Scanners \ {t} : scanLock = u => scanLock' = u
  BY DEF ScanInv, ScanTypes, ScanEnds
<1>3. ScanTypes' /\ ScanSound(t)'
  BY <1>1, <1>2, NoTaskFields DEF ScanTypes, ScanSound
<1> QED BY <1>1, <1>2, <1>3, TaskSound

\* A task goes on, with or without the lock.
LEMMA GoesSound ==
    ASSUME ScanInv, NEW t \in Scanners, NEW o \in ScanTask, scanner' = [scanner EXCEPT ![t] = o],
           snapshots' \in Seq(Snapshot), UNCHANGED scans,
           scanLock' = t \/ scanLock' = scanLock, scanLock' = t => scanLock \in {t, NoScanner},
           o.at \in {"versioning", "capturing", "comparing", "asking"} => scanLock' = t,
           o.at \in {"capturing", "comparing", "asking"} => o.to \in Commits,
           o.at = "asking" => /\ o.from \in Commits /\ o.from # o.to
                              /\ o.force \/ ~ScannedBefore(o.from, o.to),
           o.at \in {"summarizing", "writing"} => o.row \in 1..Len(scans)
    PROVE  ScanInv'
<1>1. /\ scanner' \in [Scanners -> ScanTask] /\ scanner'[t] = o
      /\ \A u \in Scanners \ {t} : scanner'[u] = scanner[u]
  BY DEF ScanInv, ScanTypes
<1>2. ScanTypes' /\ \A u \in Scanners \ {t} : scanLock = u => scanLock' = u
  BY <1>1, ScansAssumption DEF ScanInv, ScanTypes
<1>3. ScanSound(t)' /\ ScansAreTrue' /\ PairsStay
  BY <1>1 DEF ScanInv, ScanSound, ScannedBefore, ScansAreTrue, ScannedOnce, PairsStay
<1>4. Len(scans') >= Len(scans)
  BY LenProperties DEF ScanInv, ScanTypes
<1> QED BY <1>1, <1>2, <1>3, <1>4, TaskSound

\* What a summary makes of a row: the pair of commits stays.
LEMMA RowSound ==
    ASSUME ScanInv, NEW i \in 1..Len(scans), NEW r \in Scan, scans' = [scans EXCEPT ![i] = r],
           r.from = scans[i].from, r.to = scans[i].to, r.forced = scans[i].forced,
           r.status = "summarized" => r.cards
    PROVE  /\ scans' \in Seq(Scan) /\ Len(scans') <= MaxScans /\ Len(scans') >= Len(scans)
           /\ ScansAreTrue' /\ PairsStay
<1>1. /\ scans \in Seq(Scan) /\ Len(scans) \in Nat /\ DOMAIN scans = 1..Len(scans) /\ Len(scans) <= MaxScans
  BY LenProperties DEF ScanInv, ScanTypes
<1>2. /\ scans' \in Seq(Scan) /\ Len(scans') = Len(scans)
      /\ \A j \in 1..Len(scans) : scans'[j] = IF j = i THEN r ELSE scans[j]
  BY <1>1, ExceptSeq
<1>3. DOMAIN scans' = 1..Len(scans)
  BY <1>2, LenProperties
<1>4. \A j \in 1..Len(scans) :
         /\ scans'[j].from = scans[j].from /\ scans'[j].to = scans[j].to /\ scans'[j].forced = scans[j].forced
         /\ scans'[j].status = "summarized" => scans'[j].cards
  BY <1>1, <1>2 DEF ScanInv, ScansAreTrue
<1>5. ScansAreTrue'
  BY <1>1, <1>3, <1>4 DEF ScanInv, ScansAreTrue, ScannedOnce
<1>6. PairsStay
  BY <1>1, <1>3, <1>4 DEF PairsStay, ScannedBefore
<1> QED BY <1>1, <1>2, <1>5, <1>6

\* run_scan() takes the lock, which is free.
LEMMA BeginSound ==
    ASSUME ScanInv, NEW t \in Scanners, NEW force \in BOOLEAN, BeginScan(t, force) PROVE ScanInv'
<1> DEFINE o == [NoTask EXCEPT !.at = "versioning", !.force = force]
<1>1. /\ scanLock = NoScanner /\ scanLock' = t /\ UNCHANGED <<snapshots, scans>>
      /\ scanner' = [scanner EXCEPT ![t] = o]
  BY DEF BeginScan, MayScan
<1>2. o \in ScanTask /\ o.at = "versioning"
  BY NoTaskFields DEF NoTask, ScanTask, ScanPlaces
<1> HIDE DEF o
<1>3. snapshots' \in Seq(Snapshot)
  BY <1>1 DEF ScanInv, ScanTypes
<1> QED BY <1>1, <1>2, <1>3, GoesSound

\* retry: without the lock, for a row that is there.
LEMMA RetrySound ==
    ASSUME ScanInv, NEW t \in Scanners, NEW i \in 1..MaxScans, RetrySummary(t, i) PROVE ScanInv'
<1> DEFINE o == [NoTask EXCEPT !.at = "summarizing", !.row = i]
<1>1. /\ i \in DOMAIN scans /\ UNCHANGED <<snapshots, scanLock, scans>>
      /\ scanner' = [scanner EXCEPT ![t] = o]
  BY DEF RetrySummary
<1>2. o \in ScanTask /\ o.at = "summarizing" /\ o.row = i
  <2>1. i \in 0..MaxScans
    BY ScansAssumption
  <2> QED BY <2>1, NoTaskFields DEF ScanTask, ScanPlaces
<1> HIDE DEF o
<1>3. snapshots' \in Seq(Snapshot) /\ i \in 1..Len(scans)
  BY <1>1, LenProperties DEF ScanInv, ScanTypes
<1>4. scanLock' = t => scanLock \in {t, NoScanner}
  BY <1>1
<1> QED BY <1>1, <1>2, <1>3, <1>4, GoesSound

\* The steps of run_scan() up to the row.
LEMMA VersionedSound ==
    ASSUME ScanInv, BuildTypeOK, NEW t \in Scanners, Versioned(t) PROVE ScanInv'
<1> DEFINE o == [scanner[t] EXCEPT !.at = "capturing", !.to = BinaryCommit]
<1>1. scanner[t].at = "versioning" /\ scanLock = t /\ UNCHANGED <<snapshots, scans>>
  BY DEF Versioned, ScanInv, ScanSound
<1>2. /\ snapshots' \in Seq(Snapshot) /\ scans' \in Seq(Scan) /\ Len(scans') <= MaxScans
      /\ Len(scans') >= Len(scans) /\ ScansAreTrue'
  BY <1>1, LenProperties DEF ScanInv, ScanTypes, ScansAreTrue, ScannedOnce
<1>3. CASE BinaryCommit = NoCommit
  BY <1>1, <1>2, <1>3, EndsSound DEF Versioned
<1>4. CASE BinaryCommit # NoCommit
  <2>1. scanner' = [scanner EXCEPT ![t] = o] /\ scanLock' = scanLock
    BY <1>4 DEF Versioned, ScanInv, ScanTypes
  <2>2. o \in ScanTask /\ o.at = "capturing" /\ o.to \in Commits
    BY <1>4, BinaryIsCommit DEF ScanInv, ScanTypes, ScanTask, ScanPlaces
  <2> HIDE DEF o
  <2> QED BY <1>1, <1>2, <2>1, <2>2, GoesSound
<1> QED BY <1>3, <1>4

LEMMA CapturedSound ==
    ASSUME ScanInv, BuildTypeOK, NEW t \in Scanners, Captured(t) PROVE ScanInv'
<1> DEFINE o == [scanner[t] EXCEPT !.at = "comparing"]
<1>1. scanner[t].at = "capturing" /\ scanLock = t /\ scanner[t].to \in Commits /\ UNCHANGED scans
  BY DEF Captured, ScanInv, ScanSound
<1>2. /\ scans' \in Seq(Scan) /\ Len(scans') <= MaxScans /\ Len(scans') >= Len(scans) /\ ScansAreTrue'
  BY <1>1, LenProperties DEF ScanInv, ScanTypes, ScansAreTrue, ScannedOnce
<1>3. CASE BinaryCommit = NoCommit
  <2>1. ScanEnds(t) /\ snapshots' \in Seq(Snapshot)
    BY <1>3 DEF Captured, ScanInv, ScanTypes
  <2> QED BY <1>1, <1>2, <2>1, EndsSound
<1>4. CASE BinaryCommit # NoCommit
  <2>1. /\ scanner' = [scanner EXCEPT ![t] = o] /\ scanLock' = scanLock
        /\ snapshots' = Stored(scanner[t].to)
    BY <1>4 DEF Captured, ScanGoes, ScanInv, ScanTypes
  <2>2. o \in ScanTask /\ o.at = "comparing" /\ o.to \in Commits
    BY <1>1 DEF ScanInv, ScanTypes, ScanTask, ScanPlaces
  <2> HIDE DEF o
  <2>3. snapshots' \in Seq(Snapshot)
    <3>1. [commit |-> scanner[t].to, help |-> BinaryCommit] \in Snapshot
      BY <1>1, <1>4, BinaryIsCommit DEF Snapshot
    <3>2. snapshots \in Seq(Snapshot)
      BY DEF ScanInv, ScanTypes
    <3> QED BY <2>1, <3>1, <3>2, AppendProperties DEF Stored
  <2> QED BY <1>1, <2>1, <2>2, <2>3, GoesSound
<1> QED BY <1>3, <1>4

LEMMA ComparedSound ==
    ASSUME ScanInv, NEW t \in Scanners, Compared(t) PROVE ScanInv'
<1> DEFINE c == scanner[t].to
           asked == {d \in Baselines(c) : scanner[t].force \/ ~ScannedBefore(d, c)}
<1>1. /\ scanner[t].at = "comparing" /\ scanLock = t /\ c \in Commits /\ UNCHANGED <<snapshots, scans>>
  BY DEF Compared, ScanInv, ScanSound
<1>2. /\ snapshots' \in Seq(Snapshot) /\ scans' \in Seq(Scan) /\ Len(scans') <= MaxScans
      /\ Len(scans') >= Len(scans) /\ ScansAreTrue'
  BY <1>1, LenProperties DEF ScanInv, ScanTypes, ScansAreTrue, ScannedOnce
<1>3. CASE ScanEnds(t)
  BY <1>1, <1>2, <1>3, EndsSound
<1>4. CASE \E d \in asked : /\ scanner' = [scanner EXCEPT ![t].at = "asking", ![t].from = d]
                            /\ UNCHANGED scanLock
  <2>1. PICK d \in asked : /\ scanner' = [scanner EXCEPT ![t].at = "asking", ![t].from = d]
                           /\ UNCHANGED scanLock
    BY <1>4
  <2>2. d \in Commits /\ d # c /\ (scanner[t].force \/ ~ScannedBefore(d, c))
    <3>1. snapshots \in Seq(Snapshot)
      BY DEF ScanInv, ScanTypes
    <3>2. ASSUME NEW i \in DOMAIN snapshots PROVE snapshots[i].commit \in Commits
      <4>1. i \in 1..Len(snapshots)
        BY <3>1, LenProperties
      <4>2. snapshots[i] \in Snapshot
        BY <3>1, <4>1, ElementOfSeq
      <4> QED BY <4>2 DEF Snapshot
    <3> QED BY <3>2 DEF Baselines
  <2> DEFINE o == [scanner[t] EXCEPT !.at = "asking", !.from = d]
  <2>3. scanner' = [scanner EXCEPT ![t] = o]
    BY <2>1 DEF ScanInv, ScanTypes
  <2>4. /\ o \in ScanTask /\ o.at = "asking" /\ o.from = d /\ o.to = c /\ o.force = scanner[t].force
    BY <2>2 DEF ScanInv, ScanTypes, ScanTask, ScanPlaces
  <2> HIDE DEF o
  <2> QED BY <1>1, <1>2, <2>1, <2>2, <2>3, <2>4, GoesSound
<1> QED BY <1>3, <1>4 DEF Compared

\* The row: nobody scanned its pair of commits since it was looked for.
LEMMA InsertedSound ==
    ASSUME ScanInv, NEW t \in Scanners, NEW status \in {"empty", "pending"}, ScanInserted(t, status)
    PROVE  ScanInv'
<1> DEFINE r == [from |-> scanner[t].from, to |-> scanner[t].to, status |-> status,
                 forced |-> scanner[t].force, cards |-> FALSE]
           n == Len(scans)
<1>1. /\ scanner[t].at = "asking" /\ n < MaxScans /\ scans' = Append(scans, r) /\ UNCHANGED snapshots
  BY DEF ScanInserted
<1>2. /\ scanLock = t /\ scanner[t].from \in Commits /\ scanner[t].to \in Commits
      /\ scanner[t].from # scanner[t].to
      /\ scanner[t].force \/ ~ScannedBefore(scanner[t].from, scanner[t].to)
  BY <1>1 DEF ScanInv, ScanSound
<1>3. /\ r \in Scan /\ r.from = scanner[t].from /\ r.to = scanner[t].to /\ r.forced = scanner[t].force
      /\ r.status # "summarized"
  BY <1>2, TaskFields DEF ScanInv, Scan
<1>4. /\ scans \in Seq(Scan) /\ n \in Nat /\ DOMAIN scans = 1..n
  BY LenProperties DEF ScanInv, ScanTypes
<1> HIDE DEF r, n
<1>5. /\ scans' \in Seq(Scan) /\ Len(scans') = n + 1 /\ DOMAIN scans' = 1..n + 1
      /\ \A i \in 1..n : scans'[i] = scans[i]
      /\ scans'[n + 1] = r
  <2>1. /\ scans' \in Seq(Scan) /\ Len(scans') = n + 1
        /\ \A i \in 1..n : scans'[i] = scans[i]
        /\ scans'[n + 1] = r
    BY <1>1, <1>3, <1>4, AppendProperties DEF n
  <2> QED BY <2>1, LenProperties
<1>6. ScansAreTrue'
  <2>1. \A i \in 1..n : scans[i].from = r.from /\ scans[i].to = r.to => r.forced
    BY <1>2, <1>3, <1>4 DEF ScannedBefore
  <2>2. ScannedOnce'
    <3> SUFFICES ASSUME NEW i \in 1..n + 1, NEW j \in 1..n + 1, i < j,
                        scans'[i].from = scans'[j].from, scans'[i].to = scans'[j].to
                 PROVE  scans'[j].forced
      BY <1>5 DEF ScannedOnce
    <3>1. i \in 1..n
      BY <1>4
    <3>2. CASE j = n + 1
      BY <1>5, <2>1, <3>1, <3>2
    <3>3. CASE j \in 1..n
      BY <1>4, <1>5, <3>1, <3>3 DEF ScanInv, ScansAreTrue, ScannedOnce
    <3> QED BY <1>4, <3>2, <3>3
  <2>3. ASSUME NEW i \in 1..n + 1
        PROVE  scans'[i].from # scans'[i].to /\ (scans'[i].status = "summarized" => scans'[i].cards)
    <3>1. CASE i = n + 1
      BY <1>2, <1>3, <1>5, <3>1
    <3>2. CASE i \in 1..n
      BY <1>4, <1>5, <3>2 DEF ScanInv, ScansAreTrue
    <3> QED BY <1>4, <3>1, <3>2
  <2> QED BY <1>5, <2>2, <2>3 DEF ScansAreTrue
<1>7. snapshots' \in Seq(Snapshot) /\ Len(scans') <= MaxScans /\ Len(scans') >= Len(scans)
  <2>1. snapshots' \in Seq(Snapshot)
    BY <1>1 DEF ScanInv, ScanTypes
  <2> QED BY <1>1, <1>4, <1>5, <2>1, ScansAssumption DEF n
<1>8. CASE status = "empty"
  <2>1. ScanEnds(t)
    BY <1>8 DEF ScanInserted
  <2> QED BY <1>2, <1>5, <1>6, <1>7, <2>1, EndsSound
<1>9. CASE status # "empty"
  <2> DEFINE o == [scanner[t] EXCEPT !.at = "summarizing", !.row = n + 1]
  <2>1. scanner' = [scanner EXCEPT ![t] = o] /\ scanLock' = scanLock
    BY <1>9 DEF ScanInserted, ScanInv, ScanTypes, n
  <2>2. o \in ScanTask /\ o.at = "summarizing" /\ o.row = n + 1
    <3>1. n + 1 \in 0..MaxScans /\ scanner[t] \in ScanTask
      BY <1>1, <1>4, ScansAssumption DEF ScanInv, ScanTypes
    <3> QED BY <3>1 DEF ScanTask, ScanPlaces
  <2> HIDE DEF o
  <2>3. /\ scanner' \in [Scanners -> ScanTask] /\ scanner'[t] = o
        /\ \A u \in Scanners \ {t} : scanner'[u] = scanner[u]
    BY <2>1, <2>2 DEF ScanInv, ScanTypes
  <2>4. ScanTypes'
    BY <1>5, <1>7, <2>1, <2>3 DEF ScanInv, ScanTypes
  <2>5. ScanSound(t)'
    BY <1>4, <1>5, <2>2, <2>3 DEF ScanSound
  <2> QED BY <1>2, <1>6, <1>7, <2>1, <2>3, <2>4, <2>5, TaskSound
<1> QED BY <1>8, <1>9

\* The summary, and its outcomes.
LEMMA SummarySound ==
    ASSUME ScanInv, NEW t \in Scanners,
           SummaryUnconfigured(t) \/ SummaryAsked(t) \/ SummaryStored(t) \/ SummaryFails(t)
    PROVE  ScanInv'
<1> DEFINE i == scanner[t].row
<1>1. /\ scanner[t].at \in {"summarizing", "writing"} /\ i \in 1..Len(scans) /\ UNCHANGED snapshots
      /\ snapshots' \in Seq(Snapshot)
  BY DEF SummaryUnconfigured, SummaryAsked, SummaryStored, SummaryFails, ScanInv, ScanSound, ScanTypes
<1>2. scans \in Seq(Scan) /\ scans[i] \in Scan /\ (scans[i].status = "summarized" => scans[i].cards)
  BY <1>1, LenProperties, ElementOfSeq DEF ScanInv, ScanTypes, ScansAreTrue
<1>3. CASE SummaryAsked(t)
  <2> DEFINE o == [scanner[t] EXCEPT !.at = "writing"]
  <2>1. scanner' = [scanner EXCEPT ![t] = o] /\ UNCHANGED <<scanLock, scans>>
    BY <1>3 DEF SummaryAsked, ScanGoes, ScanInv, ScanTypes
  <2>2. o \in ScanTask /\ o.at = "writing" /\ o.row = i
    BY DEF ScanInv, ScanTypes, ScanTask, ScanPlaces
  <2> HIDE DEF o
  <2>3. scanLock' = t => scanLock \in {t, NoScanner}
    BY <2>1
  <2> QED BY <1>1, <2>1, <2>2, <2>3, GoesSound
<1>4. CASE SummaryUnconfigured(t) \/ SummaryStored(t) \/ SummaryFails(t)
  <2>1. \E r \in Scan : /\ scans' = [scans EXCEPT ![i] = r]
                        /\ r.from = scans[i].from /\ r.to = scans[i].to /\ r.forced = scans[i].forced
                        /\ r.status = "summarized" => r.cards
    <3>1. CASE SummaryUnconfigured(t)
      <4> DEFINE r == [scans[i] EXCEPT !.status = "pending"]
      <4>1. scans' = [scans EXCEPT ![i] = r]
        BY <3>1 DEF SummaryUnconfigured
      <4>2. /\ r \in Scan /\ r.from = scans[i].from /\ r.to = scans[i].to /\ r.forced = scans[i].forced
            /\ r.status = "summarized" => r.cards
        BY <1>2 DEF Scan
      <4> HIDE DEF r
      <4> QED BY <4>1, <4>2
    <3>2. CASE SummaryStored(t)
      <4> DEFINE r == [scans[i] EXCEPT !.status = "summarized", !.cards = TRUE]
      <4>1. scans' = [scans EXCEPT ![i] = r]
        BY <3>2 DEF SummaryStored, Summarized
      <4>2. /\ r \in Scan /\ r.from = scans[i].from /\ r.to = scans[i].to /\ r.forced = scans[i].forced
            /\ r.cards
        BY <1>2 DEF Scan
      <4> HIDE DEF r
      <4> QED BY <4>1, <4>2
    <3>3. CASE SummaryFails(t)
      <4> DEFINE r == [scans[i] EXCEPT !.status = "failed"]
      <4>1. scans' = [scans EXCEPT ![i] = r]
        BY <3>3 DEF SummaryFails
      <4>2. /\ r \in Scan /\ r.from = scans[i].from /\ r.to = scans[i].to /\ r.forced = scans[i].forced
            /\ r.status = "summarized" => r.cards
        BY <1>2 DEF Scan
      <4> HIDE DEF r
      <4> QED BY <4>1, <4>2
    <3> QED BY <1>4, <3>1, <3>2, <3>3
  <2>2. /\ scans' \in Seq(Scan) /\ Len(scans') <= MaxScans /\ Len(scans') >= Len(scans)
        /\ ScansAreTrue' /\ PairsStay
    BY <1>1, <2>1, RowSound
  <2>3. ScanEnds(t)
    BY <1>4 DEF SummaryUnconfigured, SummaryStored, SummaryFails
  <2> QED BY <1>1, <2>2, <2>3, EndsSound
<1> QED BY <1>3, <1>4

\* The steps that are no task's: the tables stay as they are, or get their
\* first snapshot.
LEMMA RestSound ==
    ASSUME ScanInv, BuildTypeOK,
           UNCHANGED scanVars \/ ScanTasksLost \/ Baseline
    PROVE  ScanInv'
<1>1. CASE UNCHANGED scanVars
  BY <1>1 DEF scanVars, ScanInv, ScanTypes, ScanSound, ScannedBefore, ScansAreTrue, ScannedOnce
<1>2. CASE ScanTasksLost
  <2>1. /\ scanner' \in [Scanners -> ScanTask] /\ \A t \in Scanners : scanner'[t].at = "none"
        /\ scanLock' = NoScanner /\ UNCHANGED <<snapshots, scans>>
    BY <1>2, NoTaskFields DEF ScanTasksLost
  <2> QED BY <2>1 DEF ScanInv, ScanTypes, ScanSound, ScansAreTrue, ScannedOnce
<1>3. CASE Baseline
  <2>1. [commit |-> BinaryCommit, help |-> BinaryCommit] \in Snapshot
    BY <1>3, BinaryIsCommit DEF Baseline, Snapshot
  <2>2. snapshots' \in Seq(Snapshot) /\ UNCHANGED <<scanner, scanLock, scans>>
    BY <1>3, <2>1 DEF Baseline
  <2> QED BY <2>2 DEF ScanInv, ScanTypes, ScanSound, ScannedBefore, ScansAreTrue, ScannedOnce
<1> QED BY <1>1, <1>2, <1>3

-----------------------------------------------------------------------------
(* The theorems *)

LEMMA ScanInvInit == ScanInit => ScanInv
<1> SUFFICES ASSUME ScanInit PROVE ScanInv
  OBVIOUS
<1>1. ScanTypes
  BY NoTaskFields, ScansAssumption, EmptySeq DEF ScanInit, ScanTypes
<1>2. \A t \in Scanners : ScanSound(t)
  BY NoTaskFields DEF ScanInit, ScanSound
<1>3. ScansAreTrue
  BY DEF ScanInit, ScansAreTrue, ScannedOnce
<1> QED BY <1>1, <1>2, <1>3 DEF ScanInv

LEMMA InvStep == BuildInv /\ ScanInv /\ [ScanNext]_<<buildVars, scanVars>> => BuildInv' /\ ScanInv'
<1> SUFFICES ASSUME BuildInv, ScanInv, [ScanNext]_<<buildVars, scanVars>> PROVE BuildInv' /\ ScanInv'
  OBVIOUS
<1>0. BuildTypeOK /\ (UNCHANGED buildVars => BuildInv')
  BY DEF BuildInv, buildVars, BuildTypeOK, BuildsApart, BusyBuilds, BuildSound, HeadIsThere, CacheFits, UsedGenerator,
         AdoptedExists, BinaryCommit
<1>1. CASE BuildNext /\ UNCHANGED scanVars
  BY <1>0, <1>1, BuildNextSound, RestSound
<1>2. CASE BuildsRestart /\ ScanTasksLost
  BY <1>0, <1>2, RestartSound, RestSound
<1>3. CASE Baseline
  <2>1. UNCHANGED buildVars
    BY <1>3 DEF Baseline
  <2> QED BY <1>0, <1>3, <2>1, RestSound
<1>4. CASE \E b \in Builds : PostBuildScan(b)
  <2>1. PICK b \in Builds : ScanBegun(b) /\ ((\E t \in Scanners : BeginScan(t, FALSE)) \/ UNCHANGED scanVars)
    BY <1>4 DEF PostBuildScan
  <2> QED BY <1>0, <2>1, ScanBegunSound, BeginSound, RestSound
<1>5. CASE \E t \in Scanners : ScanNow(t) \/ ScanProceeds(t)
  <2>1. PICK t \in Scanners : ScanNow(t) \/ ScanProceeds(t)
    BY <1>5
  <2>2. UNCHANGED buildVars
    BY <2>1 DEF ScanNow, ScanProceeds, Versioned, Captured, Compared, ScanInserted,
                SummaryUnconfigured, SummaryAsked, SummaryStored, SummaryFails
  <2>3. CASE ScanNow(t)
    BY <1>0, <2>2, <2>3, BeginSound DEF ScanNow
  <2>4. CASE ScanProceeds(t)
    BY <1>0, <2>2, <2>4, VersionedSound, CapturedSound, ComparedSound, InsertedSound, SummarySound
       DEF ScanProceeds
  <2> QED BY <2>1, <2>3, <2>4
<1>6. CASE \E t \in Scanners, i \in 1..MaxScans : RetrySummary(t, i)
  <2>1. PICK t \in Scanners, i \in 1..MaxScans : RetrySummary(t, i)
    BY <1>6
  <2> QED BY <1>0, <2>1, RetrySound DEF RetrySummary
<1>7. CASE UNCHANGED <<buildVars, scanVars>>
  BY <1>0, <1>7, RestSound
<1> QED BY <1>1, <1>2, <1>3, <1>4, <1>5, <1>6, <1>7 DEF ScanNext

\* A build that ran alone was configured for what it was asked to build, and
\* after its success the configured binary exists (build.py): over any number
\* of builds, failures, restarts and changes of the tools.
THEOREM BuildsStaySound == ScanSpec => []BuildsAreSound
<1>1. BuildInit /\ ScanInit => BuildInv /\ ScanInv
  BY BuildInvInit, ScanInvInit
<1>2. BuildInv => BuildsAreSound
  BY DEF BuildInv, BuildsAreSound
<1> QED BY <1>1, <1>2, InvStep, PTL DEF ScanSpec

\* A pair of commits is scanned again only on demand, a scan compares two
\* commits, and is summarized only while it has cards (features.py): however
\* the scans of builds, of the user, and the retries of summaries meet.
THEOREM ScansStayTrue == ScanSpec => []ScansAreTrue
<1>1. BuildInit /\ ScanInit => BuildInv /\ ScanInv
  BY BuildInvInit, ScanInvInit
<1>2. ScanInv => ScansAreTrue
  BY DEF ScanInv
<1> QED BY <1>1, <1>2, InvStep, PTL DEF ScanSpec


-----------------------------------------------------------------------------
(* Benchmarks and A/B runs: the inductive invariant *)

\* The outcome of a benchmark is set once, when its process is over; a cancel
\* that was told so is still requested when that happens.
BenchSound(b) ==
    /\ bench[b].at \in {"unused", "asked", "spawning", "running"} => bench[b].status = "running"
    /\ told[b] = "cancelled" =>
          /\ bench[b].at \in {"running", "closing", "over", "lost"}
          /\ bench[b].at = "running" => cancelRequested
          /\ bench[b].status \in {"running", "cancelled"}

\* Benchmarks that run beside each other are known to.
ApartOrMixed ==
    \A b, c \in BenchesUnderway : b # c => told[b] = "mixed"

\* The handle is that of a benchmark that reads its output.
HandleIsRead == benchProc # NoBench => bench[benchProc].at = "running"

\* The benchmarks of an A/B run, so far.
OwnBenches(t) == {trial[t].job, abRow[t].off, abRow[t].on} \ {NoBench}

\* They have begun, and no other run has them.
OwnsSound ==
    /\ \A t \in Trials : \A b \in OwnBenches(t) : bench[b].at # "unused"
    /\ \A t, u \in Trials : t # u => OwnBenches(t) \intersect OwnBenches(u) = {}

\* A benchmark ended well, with or without the flags.
Good(b, extra) == b # NoBench /\ bench[b].status = "success" /\ bench[b].extra = extra

\* What the place of an A/B run says of its benchmarks.
TrialSound(t) ==
    LET job == trial[t].job
        off == abRow[t].off
        on == abRow[t].on IN
    /\ trial[t].at \in {"pollingOff", "pollingOn"} <=> job # NoBench
    /\ trial[t].at = "pollingOff" => bench[job].extra = FALSE
    /\ trial[t].at = "on" => Good(off, FALSE)
    /\ trial[t].at = "pollingOn" => Good(off, FALSE) /\ bench[job].extra = TRUE /\ off # job
    /\ abRow[t].status = "success" =>
          trial[t].at = "over" /\ Good(off, FALSE) /\ Good(on, TRUE) /\ on # off

AInv ==
    /\ BenchTypeOK /\ AbTypeOK
    /\ \A b \in Benches : BenchSound(b)
    /\ ApartOrMixed /\ HandleIsRead
    /\ OwnsSound
    /\ \A t \in Trials : TrialSound(t)

-----------------------------------------------------------------------------
(* The manager *)

\* What a step of the manager leaves of a benchmark that has begun.
Stable ==
    \A b \in Benches :
        bench[b].at # "unused" =>
            /\ bench'[b].at # "unused" /\ bench'[b].extra = bench[b].extra
            /\ bench[b].status = "success" => bench'[b].status = "success"

\* The part of the invariant about the manager.
ManagerSound ==
    BenchTypeOK /\ (\A b \in Benches : BenchSound(b)) /\ ApartOrMixed /\ HandleIsRead

\* The fields of a benchmark.
LEMMA BenchFields ==
    ASSUME BenchTypeOK, NEW b \in Benches
    PROVE  /\ bench[b].at \in BenchPlaces /\ bench[b].status \in BenchStatus
           /\ bench[b].extra \in BOOLEAN
BY DEF BenchTypeOK, BenchJob

\* A benchmark that goes on is one, and the others stay as they are.
LEMMA BenchGoes ==
    ASSUME BenchTypeOK, NEW b \in Benches, NEW o \in BenchJob, bench' = [bench EXCEPT ![b] = o]
    PROVE  /\ bench' \in [Benches -> BenchJob] /\ bench'[b] = o
           /\ \A c \in Benches \ {b} : bench'[c] = bench[c]
BY DEF BenchTypeOK

\* It goes to another place; perhaps with an outcome; or it is claimed.
LEMMA BenchGoesTo ==
    ASSUME BenchTypeOK, NEW b \in Benches, NEW at \in BenchPlaces, bench' = [bench EXCEPT ![b].at = at]
    PROVE  /\ bench' \in [Benches -> BenchJob]
           /\ bench'[b].at = at /\ bench'[b].status = bench[b].status /\ bench'[b].extra = bench[b].extra
           /\ \A c \in Benches \ {b} : bench'[c] = bench[c]
<1> DEFINE o == [bench[b] EXCEPT !.at = at]
<1>1. /\ o \in BenchJob /\ o.at = at /\ o.status = bench[b].status /\ o.extra = bench[b].extra
      /\ bench' = [bench EXCEPT ![b] = o]
  BY DEF BenchTypeOK, BenchJob
<1> HIDE DEF o
<1> QED BY <1>1, BenchGoes

LEMMA GoesWith ==
    ASSUME BenchTypeOK, NEW b \in Benches, NEW at \in BenchPlaces, NEW status \in BenchStatus,
           bench' = [bench EXCEPT ![b].at = at, ![b].status = status]
    PROVE  /\ bench' \in [Benches -> BenchJob]
           /\ bench'[b].at = at /\ bench'[b].status = status /\ bench'[b].extra = bench[b].extra
           /\ \A c \in Benches \ {b} : bench'[c] = bench[c]
<1> DEFINE o == [bench[b] EXCEPT !.at = at, !.status = status]
<1>1. /\ o \in BenchJob /\ o.at = at /\ o.status = status /\ o.extra = bench[b].extra
      /\ bench' = [bench EXCEPT ![b] = o]
  BY DEF BenchTypeOK, BenchJob
<1> HIDE DEF o
<1> QED BY <1>1, BenchGoes

LEMMA GoesClaimed ==
    ASSUME BenchTypeOK, NEW b \in Benches, NEW at \in BenchPlaces, NEW extra \in BOOLEAN,
           bench' = [bench EXCEPT ![b].at = at, ![b].extra = extra]
    PROVE  /\ bench' \in [Benches -> BenchJob]
           /\ bench'[b].at = at /\ bench'[b].status = bench[b].status /\ bench'[b].extra = extra
           /\ \A c \in Benches \ {b} : bench'[c] = bench[c]
<1> DEFINE o == [bench[b] EXCEPT !.at = at, !.extra = extra]
<1>1. /\ o \in BenchJob /\ o.at = at /\ o.status = bench[b].status /\ o.extra = extra
      /\ bench' = [bench EXCEPT ![b] = o]
  BY DEF BenchTypeOK, BenchJob
<1> HIDE DEF o
<1> QED BY <1>1, BenchGoes

\* run(), up to its first await.
LEMMA RunSound ==
    ASSUME ManagerSound, NEW b \in Benches, NEW extra \in BOOLEAN, RunBench(b, extra)
    PROVE  /\ ManagerSound' /\ Stable
           /\ bench[b].at = "unused" /\ bench'[b].at = "asked" /\ bench'[b].extra = extra
<1>2. /\ bench' \in [Benches -> BenchJob]
      /\ bench'[b].at = "asked" /\ bench'[b].status = bench[b].status /\ bench'[b].extra = extra
      /\ \A c \in Benches \ {b} : bench'[c] = bench[c]
  BY GoesClaimed DEF RunBench, ManagerSound, BenchPlaces
<1>3. bench[b].at = "unused" /\ UNCHANGED <<benchActive, benchRow, benchProc, cancelRequested, process, told>>
  BY DEF RunBench
<1>4. BenchTypeOK'
  BY <1>2, <1>3 DEF ManagerSound, BenchTypeOK
<1>5. \A c \in Benches : BenchSound(c)'
  BY <1>2, <1>3 DEF ManagerSound, BenchSound
<1>6. ApartOrMixed' /\ HandleIsRead'
  BY <1>2, <1>3 DEF ManagerSound, ApartOrMixed, HandleIsRead, BenchesUnderway, BenchTypeOK
<1> QED BY <1>2, <1>3, <1>4, <1>5, <1>6 DEF ManagerSound, Stable

\* Every step of _run() and of a process.
LEMMA ProceedsSound ==
    ASSUME ManagerSound, NEW b \in Benches, BenchProceeds(b) PROVE ManagerSound' /\ Stable
<1>0. BenchTypeOK /\ bench[b] \in BenchJob
  BY DEF ManagerSound, BenchTypeOK
<1>1. CASE BenchStarts(b)
  <2>2. /\ bench' \in [Benches -> BenchJob]
        /\ bench'[b].at = "spawning" /\ bench'[b].status = bench[b].status /\ bench'[b].extra = bench[b].extra
        /\ \A c \in Benches \ {b} : bench'[c] = bench[c]
    BY <1>0, <1>1, BenchGoesTo DEF BenchStarts, BenchPlaces
  <2>3. /\ bench[b].at = "asked" /\ benchActive' = b /\ benchRow' = [benchRow EXCEPT ![b] = "running"]
        /\ told' = [c \in Benches |->
                      IF BenchesUnderway # {} /\ c \in BenchesUnderway \union {b} THEN "mixed" ELSE told[c]]
        /\ UNCHANGED <<benchProc, cancelRequested, process>>
    BY <1>1 DEF BenchStarts
  <2>4. told' \in [Benches -> {"nothing", "early", "cancelled", "mixed"}]
        /\ \A c \in Benches : told'[c] = "mixed" \/ told'[c] = told[c]
    BY <1>0, <2>3 DEF BenchTypeOK
  <2>5. BenchTypeOK'
    BY <1>0, <2>2, <2>3, <2>4 DEF BenchTypeOK, BenchStatus
  <2>6. \A c \in Benches : BenchSound(c)'
    BY <2>2, <2>3, <2>4 DEF ManagerSound, BenchSound
  <2>7. BenchesUnderway' = BenchesUnderway \union {b}
    BY <2>2, <2>3 DEF BenchesUnderway
  <2>8. ApartOrMixed'
    BY <2>3, <2>4, <2>7 DEF ManagerSound, ApartOrMixed, BenchesUnderway
  <2>9. HandleIsRead'
    BY <2>2, <2>3, <1>0 DEF ManagerSound, HandleIsRead, BenchTypeOK
  <2> QED BY <2>2, <2>5, <2>6, <2>8, <2>9 DEF ManagerSound, Stable
<1>2. CASE BenchSpawns(b)
  <2>2. /\ bench' \in [Benches -> BenchJob]
        /\ bench'[b].at = "running" /\ bench'[b].status = bench[b].status /\ bench'[b].extra = bench[b].extra
        /\ \A c \in Benches \ {b} : bench'[c] = bench[c]
    BY <1>0, <1>2, BenchGoesTo DEF BenchSpawns, BenchPlaces
  <2>3. /\ bench[b].at = "spawning" /\ benchProc' = b /\ cancelRequested' = FALSE
        /\ process' = [process EXCEPT ![b] = "alive"] /\ UNCHANGED <<benchActive, benchRow, told>>
    BY <1>2 DEF BenchSpawns
  <2>4. BenchTypeOK'
    BY <1>0, <2>2, <2>3 DEF BenchTypeOK, Processes
  <2>5. BenchesUnderway' = BenchesUnderway
    BY <2>2, <2>3 DEF BenchesUnderway
  <2>6. \A c \in Benches : BenchSound(c)'
    <3>1. \A c \in Benches \ {b} : bench[c].at = "running" => told[c] = "mixed"
      BY <2>3 DEF ManagerSound, ApartOrMixed, BenchesUnderway
    <3> QED BY <2>2, <2>3, <3>1 DEF ManagerSound, BenchSound
  <2>7. ApartOrMixed' /\ HandleIsRead'
    BY <2>2, <2>3, <2>5 DEF ManagerSound, ApartOrMixed, HandleIsRead
  <2> QED BY <2>2, <2>4, <2>6, <2>7 DEF ManagerSound, Stable
<1>3. CASE SpawnFails(b) \/ BenchEnds(b)
  <2>1. PICK v \in {"success", "failed", "cancelled"} :
           /\ bench' = [bench EXCEPT ![b].at = "closing", ![b].status = v]
           /\ bench[b].at \in {"spawning", "running"}
           /\ bench[b].at = "running" /\ cancelRequested => v = "cancelled"
    BY <1>3 DEF SpawnFails, BenchEnds, BenchOutcome
  <2>3. /\ bench' \in [Benches -> BenchJob]
        /\ bench'[b].at = "closing" /\ bench'[b].status = v /\ bench'[b].extra = bench[b].extra
        /\ \A c \in Benches \ {b} : bench'[c] = bench[c]
    BY <1>0, <2>1, GoesWith DEF BenchPlaces, BenchStatus
  <2>4. benchProc' = NoBench /\ UNCHANGED <<benchActive, benchRow, cancelRequested, process, told>>
    BY <1>3 DEF SpawnFails, BenchEnds
  <2>5. BenchTypeOK'
    BY <1>0, <2>3, <2>4 DEF BenchTypeOK
  <2>6. BenchesUnderway' \subseteq BenchesUnderway
    BY <2>1, <2>3 DEF BenchesUnderway
  <2>7. \A c \in Benches : BenchSound(c)'
    BY <2>1, <2>3, <2>4 DEF ManagerSound, BenchSound
  <2>8. ApartOrMixed' /\ HandleIsRead'
    BY <2>4, <2>6 DEF ManagerSound, ApartOrMixed, HandleIsRead
  <2>9. bench[b].status # "success"
    BY <2>1 DEF ManagerSound, BenchSound
  <2> QED BY <2>3, <2>5, <2>7, <2>8, <2>9 DEF ManagerSound, Stable
<1>4. CASE BenchCloses(b)
  <2>2. /\ bench' \in [Benches -> BenchJob]
        /\ bench'[b].at = "over" /\ bench'[b].status = bench[b].status /\ bench'[b].extra = bench[b].extra
        /\ \A c \in Benches \ {b} : bench'[c] = bench[c]
    BY <1>0, <1>4, BenchGoesTo DEF BenchCloses, BenchPlaces
  <2>3. /\ bench[b].at = "closing" /\ benchRow' = [benchRow EXCEPT ![b] = bench[b].status]
        /\ UNCHANGED <<benchActive, benchProc, cancelRequested, process, told>>
    BY <1>4 DEF BenchCloses
  <2>4. BenchTypeOK'
    BY <1>0, <2>2, <2>3, BenchFields DEF BenchTypeOK
  <2>5. \A c \in Benches : BenchSound(c)'
    BY <2>2, <2>3 DEF ManagerSound, BenchSound
  <2>6. ApartOrMixed' /\ HandleIsRead'
    BY <1>0, <2>2, <2>3 DEF ManagerSound, ApartOrMixed, HandleIsRead, BenchesUnderway, BenchTypeOK
  <2> QED BY <2>2, <2>4, <2>5, <2>6 DEF ManagerSound, Stable
<1>5. CASE \E code \in {"good", "bad"} : ProcessExits(b, code)
  <2>1. /\ process' \in [Benches -> Processes]
        /\ UNCHANGED <<bench, benchActive, benchRow, benchProc, cancelRequested, told>>
    BY <1>0, <1>5 DEF ProcessExits, BenchTypeOK, Processes
  <2> QED BY <2>1 DEF ManagerSound, BenchTypeOK, BenchSound, ApartOrMixed, HandleIsRead, BenchesUnderway, Stable
<1> QED BY <1>1, <1>2, <1>3, <1>4, <1>5 DEF BenchProceeds

\* cancel(): the answer "cancelled" is for a benchmark whose process is there.
LEMMA CancelSound == ASSUME ManagerSound, CancelBench PROVE ManagerSound' /\ Stable
<1>1. /\ benchActive \in Benches /\ bench[benchActive].status = "running" /\ cancelRequested' = TRUE
      /\ UNCHANGED <<bench, benchActive, benchRow, benchProc>>
  BY DEF CancelBench, BenchRunning, ManagerSound, BenchTypeOK
<1>2. process' \in [Benches -> Processes]
  BY DEF CancelBench, ManagerSound, BenchTypeOK, Processes
<1>3. /\ told' \in [Benches -> {"nothing", "early", "cancelled", "mixed"}]
      /\ \A b \in Benches : told[b] = "mixed" => told'[b] = "mixed"
      /\ \A b \in Benches : told'[b] = "cancelled" => told[b] = "cancelled" \/ (b = benchActive /\ benchProc = b)
  BY <1>1 DEF CancelBench, ManagerSound, BenchTypeOK
<1>4. BenchTypeOK'
  BY <1>1, <1>2, <1>3 DEF ManagerSound, BenchTypeOK
<1>5. benchProc = benchActive => bench[benchActive].at = "running"
  BY <1>1, BenchesAssumption DEF ManagerSound, HandleIsRead
<1>6. \A b \in Benches : BenchSound(b)'
  BY <1>1, <1>3, <1>5 DEF ManagerSound, BenchSound
<1>7. ApartOrMixed' /\ HandleIsRead'
  BY <1>1, <1>3 DEF ManagerSound, ApartOrMixed, HandleIsRead, BenchesUnderway
<1> QED BY <1>1, <1>4, <1>6, <1>7 DEF ManagerSound, Stable

\* The backend ends.
LEMMA LostSound == ASSUME ManagerSound, BenchesLost PROVE ManagerSound' /\ Stable
<1>1. ASSUME NEW b \in Benches
      PROVE  /\ bench'[b] \in BenchJob
             /\ bench'[b].status = bench[b].status /\ bench'[b].extra = bench[b].extra
             /\ bench'[b].at = IF bench[b].at \in {"unused", "over"} THEN bench[b].at ELSE "lost"
  BY DEF BenchesLost, ManagerSound, BenchTypeOK, BenchJob, BenchPlaces
<1>2. bench' \in [Benches -> BenchJob]
  BY <1>1 DEF BenchesLost
<1>3. process' \in [Benches -> Processes]
  BY DEF BenchesLost, ManagerSound, BenchTypeOK, Processes
<1>4. benchActive' = NoBench /\ benchProc' = NoBench /\ cancelRequested' = FALSE /\ UNCHANGED <<benchRow, told>>
  BY DEF BenchesLost
<1>5. BenchTypeOK'
  BY <1>2, <1>3, <1>4 DEF ManagerSound, BenchTypeOK
<1>6. \A b \in Benches : BenchSound(b)'
  BY <1>1, <1>4 DEF ManagerSound, BenchSound
<1>7. ApartOrMixed' /\ HandleIsRead'
  BY <1>1, <1>4 DEF ApartOrMixed, HandleIsRead, BenchesUnderway
<1> QED BY <1>1, <1>5, <1>6, <1>7 DEF ManagerSound, Stable

-----------------------------------------------------------------------------
(* The A/B runs *)

\* The part of the invariant about the A/B runs.
TrialsSound == AbTypeOK /\ OwnsSound /\ \A t \in Trials : TrialSound(t)

LEMMA AInvParts == AInv <=> ManagerSound /\ TrialsSound
BY DEF AInv, ManagerSound, TrialsSound

\* The fields of a run and of its row.
LEMMA TrialFields ==
    ASSUME AbTypeOK, NEW t \in Trials
    PROVE  /\ trial[t].at \in TrialPlaces /\ trial[t].job \in Benches \union {NoBench}
           /\ abRow[t] \in AbRow
           /\ abRow[t].off \in Benches \union {NoBench} /\ abRow[t].on \in Benches \union {NoBench}
           /\ OwnBenches(t) \subseteq Benches
BY DEF AbTypeOK, Trial, AbRow, OwnBenches

\* A benchmark that ended well stays so.
LEMMA GoodStays ==
    ASSUME ManagerSound, Stable, NEW b \in Benches \union {NoBench}, NEW extra, Good(b, extra)
    PROVE  Good(b, extra)'
<1>1. b \in Benches /\ bench[b].at # "unused"
  BY DEF Good, ManagerSound, BenchSound
<1> QED BY <1>1 DEF Good, Stable

\* The frame of a step of one run: the others keep what they have.
LEMMA TrialFrame ==
    ASSUME ManagerSound, TrialsSound, Stable, AbTypeOK', NEW s \in Trials,
           \A t \in Trials \ {s} : trial'[t] = trial[t] /\ abRow'[t] = abRow[t],
           \A b \in OwnBenches(s)' : b \in OwnBenches(s) \/ bench[b].at = "unused",
           \A b \in OwnBenches(s)' : bench'[b].at # "unused",
           TrialSound(s)'
    PROVE  TrialsSound'
<1>1. ASSUME NEW t \in Trials \ {s} PROVE TrialSound(t)' /\ OwnBenches(t)' = OwnBenches(t)
  <2>1. /\ trial'[t] = trial[t] /\ abRow'[t] = abRow[t] /\ TrialSound(t)
        /\ \A b \in OwnBenches(t) : bench[b].at # "unused"
    BY DEF TrialsSound, OwnsSound
  <2>2. /\ trial[t].job \in Benches \union {NoBench} /\ abRow[t].off \in Benches \union {NoBench}
        /\ abRow[t].on \in Benches \union {NoBench}
    BY TrialFields DEF TrialsSound
  <2>3. trial[t].job # NoBench => bench'[trial[t].job].extra = bench[trial[t].job].extra
    BY <2>1, <2>2 DEF Stable, OwnBenches
  <2>4. Good(abRow[t].off, FALSE) => Good(abRow[t].off, FALSE)'
    BY <2>1, <2>2, GoodStays DEF Good
  <2>5. Good(abRow[t].on, TRUE) => Good(abRow[t].on, TRUE)'
    BY <2>1, <2>2, GoodStays DEF Good
  <2> QED BY <2>1, <2>3, <2>4, <2>5 DEF TrialSound, OwnBenches
<1>2. \A t \in Trials \ {s} : \A b \in OwnBenches(t) : bench[b].at # "unused" /\ bench'[b].at # "unused"
  <2> SUFFICES ASSUME NEW t \in Trials \ {s}, NEW b \in OwnBenches(t) PROVE bench[b].at # "unused" /\ bench'[b].at # "unused"
    OBVIOUS
  <2> QED BY TrialFields DEF TrialsSound, OwnsSound, Stable
<1>3. \A t \in Trials \ {s} : OwnBenches(t) \intersect OwnBenches(s)' = {}
  BY <1>2 DEF TrialsSound, OwnsSound
<1>4. OwnsSound'
  BY <1>1, <1>2, <1>3 DEF TrialsSound, OwnsSound
<1> QED BY <1>1, <1>4 DEF TrialsSound

\* A step of the manager that is not an A/B run's.
LEMMA ManagerFrame ==
    ASSUME ManagerSound, TrialsSound, Stable, UNCHANGED abVars PROVE TrialsSound'
<1>1. AbTypeOK' /\ \A t \in Trials : trial'[t] = trial[t] /\ abRow'[t] = abRow[t] /\ OwnBenches(t)' = OwnBenches(t)
  BY DEF abVars, TrialsSound, AbTypeOK, OwnBenches
<1>2. \A t \in Trials : \A b \in OwnBenches(t) : bench'[b].at # "unused"
  <2> SUFFICES ASSUME NEW t \in Trials, NEW b \in OwnBenches(t) PROVE bench'[b].at # "unused"
    OBVIOUS
  <2> QED BY TrialFields DEF TrialsSound, OwnsSound, Stable
<1>3. ASSUME NEW t \in Trials PROVE TrialSound(t)'
  <2>1. /\ trial[t].job \in Benches \union {NoBench} /\ abRow[t].off \in Benches \union {NoBench}
        /\ abRow[t].on \in Benches \union {NoBench} /\ TrialSound(t)
        /\ \A b \in OwnBenches(t) : bench[b].at # "unused"
    BY TrialFields DEF TrialsSound, OwnsSound
  <2>2. trial[t].job # NoBench => bench'[trial[t].job].extra = bench[trial[t].job].extra
    BY <2>1 DEF Stable, OwnBenches
  <2>3. Good(abRow[t].off, FALSE) => Good(abRow[t].off, FALSE)'
    BY <1>1, <2>1, GoodStays DEF Good
  <2>4. Good(abRow[t].on, TRUE) => Good(abRow[t].on, TRUE)'
    BY <1>1, <2>1, GoodStays DEF Good
  <2> QED BY <1>1, <2>1, <2>2, <2>3, <2>4 DEF TrialSound
<1>4. OwnsSound'
  BY <1>1, <1>2 DEF TrialsSound, OwnsSound
<1> QED BY <1>1, <1>3, <1>4 DEF TrialsSound

\* The place and the row of a run after a step of its own.
LEMMA TrialMoves ==
    ASSUME AbTypeOK, NEW t \in Trials, NEW at \in TrialPlaces, NEW job \in Benches \union {NoBench},
           trial' = [trial EXCEPT ![t] = [at |-> at, job |-> job]],
           NEW row \in AbRow, abRow' = [abRow EXCEPT ![t] = row], abRunning' \in BOOLEAN
    PROVE  /\ AbTypeOK'
           /\ trial'[t].at = at /\ trial'[t].job = job /\ abRow'[t] = row
           /\ \A u \in Trials \ {t} : trial'[u] = trial[u] /\ abRow'[u] = abRow[u]
<1> DEFINE o == [at |-> at, job |-> job]
<1>1. o \in Trial /\ o.at = at /\ o.job = job
  BY DEF Trial
<1>2. trial' = [trial EXCEPT ![t] = o]
  OBVIOUS
<1> HIDE DEF o
<1> QED BY <1>1, <1>2 DEF AbTypeOK

\* What becomes of a row.
LEMMA RowOff ==
    ASSUME AbTypeOK, NEW t \in Trials, NEW b \in Benches,
           abRow' = [abRow EXCEPT ![t].off = b]
    PROVE  \E row \in AbRow : /\ abRow' = [abRow EXCEPT ![t] = row]
                              /\ row.status = abRow[t].status /\ row.off = b /\ row.on = abRow[t].on
<1> DEFINE q == [abRow[t] EXCEPT !.off = b]
<1>1. q \in AbRow /\ q.status = abRow[t].status /\ q.off = b /\ q.on = abRow[t].on
  BY DEF AbTypeOK, AbRow
<1>2. abRow' = [abRow EXCEPT ![t] = q]
  OBVIOUS
<1> HIDE DEF q
<1> QED BY <1>1, <1>2

LEMMA RowOffFailed ==
    ASSUME AbTypeOK, NEW t \in Trials, NEW b \in Benches,
           abRow' = [abRow EXCEPT ![t].off = b, ![t].status = "failed"]
    PROVE  \E row \in AbRow : /\ abRow' = [abRow EXCEPT ![t] = row]
                              /\ row.status = "failed" /\ row.off = b /\ row.on = abRow[t].on
<1> DEFINE q == [abRow[t] EXCEPT !.off = b, !.status = "failed"]
<1>1. q \in AbRow /\ q.status = "failed" /\ q.off = b /\ q.on = abRow[t].on
  BY DEF AbTypeOK, AbRow
<1>2. abRow' = [abRow EXCEPT ![t] = q]
  OBVIOUS
<1> HIDE DEF q
<1> QED BY <1>1, <1>2

\* A step of a run beside an idle manager.
LEMMA ManagerIdle == ASSUME ManagerSound, UNCHANGED benchVars PROVE ManagerSound' /\ Stable
BY DEF benchVars, ManagerSound, BenchTypeOK, BenchSound, ApartOrMixed, HandleIsRead, BenchesUnderway, Stable

\* start_ab(): nothing is said of a run that has no benchmark and no outcome.
LEMMA AbStartSound ==
    ASSUME ManagerSound, TrialsSound, NEW t \in Trials, StartAb(t) PROVE TrialsSound'
<1>1. /\ AbTypeOK'
      /\ trial'[t].at = "asked" /\ trial'[t].job = NoBench /\ abRow'[t] = abRow[t]
      /\ \A u \in Trials \ {t} : trial'[u] = trial[u] /\ abRow'[u] = abRow[u]
  <2>1. abRow[t] \in AbRow /\ abRow' = [abRow EXCEPT ![t] = abRow[t]] /\ abRunning' \in BOOLEAN
    BY DEF StartAb, TrialsSound, AbTypeOK
  <2>2. trial' = [trial EXCEPT ![t] = [at |-> "asked", job |-> NoBench]]
    BY DEF StartAb, TrialGoes
  <2> QED BY <2>1, <2>2, TrialMoves DEF TrialsSound, TrialPlaces
<1>2. trial[t].at = "unused" /\ UNCHANGED benchVars
  BY DEF StartAb
<1>3. Stable /\ bench' = bench
  BY <1>2, ManagerIdle DEF benchVars
<1>4. OwnBenches(t)' \subseteq OwnBenches(t)
  BY <1>1 DEF OwnBenches
<1>5. TrialSound(t)'
  BY <1>1, <1>2 DEF TrialsSound, TrialSound
<1>6. \A b \in OwnBenches(t)' : b \in OwnBenches(t) /\ bench'[b].at # "unused"
  BY <1>3, <1>4 DEF TrialsSound, OwnsSound
<1> QED BY <1>1, <1>3, <1>5, <1>6, TrialFrame

\* _run_ab() begins, or a run is over before its benchmark began.
LEMMA StartsSound ==
    ASSUME ManagerSound, TrialsSound, NEW t \in Trials, AbStarts(t) \/ AbRefused(t) PROVE TrialsSound'
<1>1. PICK at \in {"off", "over"}, v \in {"running", "failed"} :
         /\ trial[t].at \in {"asked", "off", "on"} /\ (at = "off" => trial[t].at = "asked")
         /\ trial' = [trial EXCEPT ![t] = [at |-> at, job |-> NoBench]]
         /\ abRow' = [abRow EXCEPT ![t].status = v]
         /\ abRunning' \in BOOLEAN /\ UNCHANGED benchVars
  BY DEF AbStarts, AbRefused, AbFails, TrialGoes
<1> DEFINE row == [abRow[t] EXCEPT !.status = v]
<1>2. /\ row \in AbRow /\ abRow' = [abRow EXCEPT ![t] = row]
      /\ row.status = v /\ row.off = abRow[t].off /\ row.on = abRow[t].on
  <2>1. row \in AbRow /\ row.status = v /\ row.off = abRow[t].off /\ row.on = abRow[t].on
    BY DEF TrialsSound, AbTypeOK, AbRow
  <2>2. abRow' = [abRow EXCEPT ![t] = row]
    BY <1>1
  <2> QED BY <2>1, <2>2
<1> HIDE DEF row
<1>3. /\ AbTypeOK'
      /\ trial'[t].at = at /\ trial'[t].job = NoBench /\ abRow'[t] = row
      /\ \A u \in Trials \ {t} : trial'[u] = trial[u] /\ abRow'[u] = abRow[u]
  <2>1. AbTypeOK /\ at \in TrialPlaces /\ NoBench \in Benches \union {NoBench} /\ abRunning' \in BOOLEAN
    BY <1>1 DEF TrialsSound, TrialPlaces
  <2>2. trial' = [trial EXCEPT ![t] = [at |-> at, job |-> NoBench]] BY <1>1
  <2>3. row \in AbRow /\ abRow' = [abRow EXCEPT ![t] = row] BY <1>2
  <2> QED BY <2>1, <2>2, <2>3, TrialMoves
<1>4. Stable /\ bench' = bench
  BY <1>1, ManagerIdle DEF benchVars
<1>5. OwnBenches(t)' \subseteq OwnBenches(t)
  BY <1>2, <1>3 DEF OwnBenches
<1>6. TrialSound(t)'
  BY <1>1, <1>2, <1>3 DEF TrialSound
<1>7. \A b \in OwnBenches(t)' : b \in OwnBenches(t) /\ bench'[b].at # "unused"
  BY <1>4, <1>5 DEF TrialsSound, OwnsSound
<1> QED BY <1>3, <1>4, <1>6, <1>7, TrialFrame

\* one_run() begins: the benchmark is a new one.
LEMMA RunsSound ==
    ASSUME ManagerSound, TrialsSound, NEW t \in Trials, NEW b \in Benches, RunsOff(t, b) \/ RunsOn(t, b)
    PROVE  ManagerSound' /\ TrialsSound'
<1>1. PICK next \in {"pollingOff", "pollingOn"}, extra \in BOOLEAN :
         /\ next = "pollingOff" => extra = FALSE /\ trial[t].at = "off"
         /\ next = "pollingOn" => extra = TRUE /\ trial[t].at = "on"
         /\ RunBench(b, extra)
         /\ trial' = [trial EXCEPT ![t] = [at |-> next, job |-> b]]
         /\ UNCHANGED <<abRow, abRunning>>
  BY DEF RunsOff, RunsOn, RunsBench
<1>2. /\ ManagerSound' /\ Stable
      /\ bench[b].at = "unused" /\ bench'[b].at = "asked" /\ bench'[b].extra = extra
  BY <1>1, RunSound
<1>3. abRow[t] \in AbRow /\ abRow' = [abRow EXCEPT ![t] = abRow[t]] /\ abRunning' \in BOOLEAN
  BY <1>1 DEF TrialsSound, AbTypeOK
<1>4. /\ AbTypeOK'
      /\ trial'[t].at = next /\ trial'[t].job = b /\ abRow'[t] = abRow[t]
      /\ \A u \in Trials \ {t} : trial'[u] = trial[u] /\ abRow'[u] = abRow[u]
  <2>1. AbTypeOK /\ next \in TrialPlaces /\ b \in Benches \union {NoBench}
    BY DEF TrialsSound, TrialPlaces
  <2> QED BY <1>1, <1>3, <2>1, TrialMoves
<1>5. OwnBenches(t)' \subseteq OwnBenches(t) \union {b}
  BY <1>4 DEF OwnBenches
<1>6. \A c \in OwnBenches(t) : c \in Benches /\ bench[c].at # "unused"
  BY TrialFields DEF TrialsSound, OwnsSound
<1>7. \A c \in OwnBenches(t)' : (c \in OwnBenches(t) \/ bench[c].at = "unused") /\ bench'[c].at # "unused"
  BY <1>2, <1>5, <1>6 DEF Stable
<1>8. TrialSound(t)'
  <2>1. TrialSound(t)
    BY DEF TrialsSound
  <2>2. abRow[t].off \in Benches \union {NoBench}
    BY TrialFields DEF TrialsSound
  <2>3. CASE next = "pollingOff"
    BY <1>1, <1>2, <1>4, <2>1, <2>3, BenchesAssumption DEF TrialSound
  <2>4. CASE next = "pollingOn"
    <3>1. Good(abRow[t].off, FALSE)
      BY <1>1, <2>1, <2>4 DEF TrialSound
    <3>2. Good(abRow[t].off, FALSE)'
      BY <1>2, <1>4, <2>2, <3>1, GoodStays DEF Good
    <3>3. abRow[t].off # b
      BY <1>2, <1>6, <3>1 DEF OwnBenches, Good
    <3> QED BY <1>1, <1>2, <1>4, <2>1, <2>4, <3>2, <3>3, BenchesAssumption DEF TrialSound
  <2> QED BY <2>3, <2>4
<1> QED BY <1>2, <1>4, <1>7, <1>8, TrialFrame

\* The first benchmark has an outcome.
LEMMA OffSound ==
    ASSUME ManagerSound, TrialsSound, NEW t \in Trials, OffDone(t) \/ OffFails(t) PROVE TrialsSound'
<1> DEFINE job == trial[t].job
<1>1. /\ trial[t].at = "pollingOff" /\ job \in Benches /\ bench[job].extra = FALSE
  BY TrialFields DEF OffDone, OffFails, BaselineOk, Polled, TrialsSound, TrialSound
<1>2. UNCHANGED benchVars /\ abRunning' \in BOOLEAN
  BY DEF OffDone, OffFails, TrialsSound, AbTypeOK
<1>3. PICK row \in AbRow, at \in {"on", "over"} :
         /\ trial' = [trial EXCEPT ![t] = [at |-> at, job |-> NoBench]]
         /\ abRow' = [abRow EXCEPT ![t] = row]
         /\ row.off = job /\ row.on = abRow[t].on
         /\ at = "on" => bench[job].status = "success" /\ row.status = abRow[t].status
         /\ at = "over" => row.status = "failed"
  <2>1. CASE OffDone(t)
    <3>1. /\ abRow' = [abRow EXCEPT ![t].off = job] /\ bench[job].status = "success"
          /\ trial' = [trial EXCEPT ![t] = [at |-> "on", job |-> NoBench]]
      BY <2>1 DEF OffDone, TrialGoes, BaselineOk, Polled
    <3>2. AbTypeOK
      BY DEF TrialsSound
    <3>3. PICK row \in AbRow : /\ abRow' = [abRow EXCEPT ![t] = row]
                               /\ row.status = abRow[t].status /\ row.off = job /\ row.on = abRow[t].on
      BY <1>1, <3>1, <3>2, RowOff
    <3> QED BY <3>1, <3>3
  <2>2. CASE OffFails(t)
    <3>1. /\ abRow' = [abRow EXCEPT ![t].off = job, ![t].status = "failed"]
          /\ trial' = [trial EXCEPT ![t] = [at |-> "over", job |-> NoBench]]
      BY <2>2 DEF OffFails, TrialGoes
    <3>2. AbTypeOK
      BY DEF TrialsSound
    <3>3. PICK row \in AbRow : /\ abRow' = [abRow EXCEPT ![t] = row]
                               /\ row.status = "failed" /\ row.off = job /\ row.on = abRow[t].on
      BY <1>1, <3>1, <3>2, RowOffFailed
    <3> QED BY <3>1, <3>3
  <2> QED BY <2>1, <2>2
<1> HIDE DEF job
<1>4. /\ AbTypeOK'
      /\ trial'[t].at = at /\ trial'[t].job = NoBench /\ abRow'[t] = row
      /\ \A u \in Trials \ {t} : trial'[u] = trial[u] /\ abRow'[u] = abRow[u]
  <2>1. AbTypeOK /\ at \in TrialPlaces /\ NoBench \in Benches \union {NoBench}
    BY DEF TrialsSound, TrialPlaces
  <2> QED BY <1>2, <1>3, <2>1, TrialMoves
<1>5. Stable /\ bench' = bench
  BY <1>2, ManagerIdle DEF benchVars
<1>6. OwnBenches(t)' \subseteq OwnBenches(t)
  BY <1>3, <1>4 DEF OwnBenches, job
<1>7. \A b \in OwnBenches(t)' : b \in OwnBenches(t) /\ bench'[b].at # "unused"
  BY <1>5, <1>6 DEF TrialsSound, OwnsSound
<1>8. TrialSound(t)'
  <2>1. abRow[t].status # "success"
    BY <1>1 DEF TrialsSound, TrialSound
  <2> QED BY <1>1, <1>3, <1>4, <1>5, <2>1, BenchesAssumption DEF TrialSound, Good
<1> QED BY <1>4, <1>5, <1>7, <1>8, TrialFrame

\* The second one has: it is not the first.
LEMMA OnSound ==
    ASSUME ManagerSound, TrialsSound, NEW t \in Trials, NEW ok \in BOOLEAN, OnDone(t, ok) PROVE TrialsSound'
<1> DEFINE job == trial[t].job
<1>1. /\ trial[t].at = "pollingOn" /\ job \in Benches /\ bench[job].extra = TRUE
      /\ Good(abRow[t].off, FALSE) /\ abRow[t].off # job
  BY TrialFields DEF OnDone, Polled, TrialsSound, TrialSound
<1>2. UNCHANGED benchVars /\ abRunning' \in BOOLEAN
  BY DEF OnDone
<1>3. PICK row \in AbRow :
         /\ abRow' = [abRow EXCEPT ![t] = row]
         /\ row.off = abRow[t].off /\ row.on = job
         /\ row.status = "success" => bench[job].status = "success"
  <2>1. PICK v \in {"success", "failed"} :
           /\ abRow' = [abRow EXCEPT ![t].on = job, ![t].status = v]
           /\ v = "success" => bench[job].status = "success"
    <3>1. CASE ok
      <4>1. /\ abRow' = [abRow EXCEPT ![t].on = job, ![t].status = "success"]
            /\ bench[job].status = "success"
        BY <3>1 DEF OnDone, Polled
      <4> QED BY <4>1
    <3>2. CASE ~ok
      <4>1. abRow' = [abRow EXCEPT ![t].on = job, ![t].status = "failed"]
        BY <3>2 DEF OnDone
      <4> QED BY <4>1
    <3> QED BY <3>1, <3>2
  <2> DEFINE row == [abRow[t] EXCEPT !.on = job, !.status = v]
  <2>2. row \in AbRow /\ row.status = v /\ row.off = abRow[t].off /\ row.on = job
    BY <1>1 DEF TrialsSound, AbTypeOK, AbRow
  <2>3. abRow' = [abRow EXCEPT ![t] = row]
    BY <2>1
  <2> HIDE DEF row
  <2> QED BY <2>1, <2>2, <2>3
<1>4. trial' = [trial EXCEPT ![t] = [at |-> "over", job |-> NoBench]]
  BY DEF OnDone, TrialGoes
<1> HIDE DEF job
<1>5. /\ AbTypeOK'
      /\ trial'[t].at = "over" /\ trial'[t].job = NoBench /\ abRow'[t] = row
      /\ \A u \in Trials \ {t} : trial'[u] = trial[u] /\ abRow'[u] = abRow[u]
  BY <1>2, <1>3, <1>4, TrialMoves DEF TrialsSound, TrialPlaces
<1>6. Stable /\ bench' = bench
  BY <1>2, ManagerIdle DEF benchVars
<1>7. OwnBenches(t)' \subseteq OwnBenches(t)
  BY <1>3, <1>5 DEF OwnBenches, job
<1>8. \A b \in OwnBenches(t)' : b \in OwnBenches(t) /\ bench'[b].at # "unused"
  BY <1>6, <1>7 DEF TrialsSound, OwnsSound
<1>9. TrialSound(t)'
  BY <1>1, <1>3, <1>5, <1>6, BenchesAssumption DEF TrialSound, Good
<1> QED BY <1>5, <1>6, <1>8, <1>9, TrialFrame

\* The backend ends: what a run says of benchmarks that ended stays.
LEMMA AbRestartSound ==
    ASSUME ManagerSound, TrialsSound, AbRestart PROVE ManagerSound' /\ TrialsSound'
<1>1. ManagerSound' /\ Stable
  BY LostSound DEF AbRestart
<1>2. abRow' = abRow /\ abRunning' \in BOOLEAN
  BY DEF AbRestart
<1>3. ASSUME NEW t \in Trials
      PROVE  /\ trial'[t] \in Trial
             /\ \/ trial'[t] = trial[t] /\ trial[t].at \in {"unused", "over"}
                \/ trial'[t].at = "lost" /\ trial'[t].job = NoBench /\ trial[t].at \notin {"unused", "over"}
  BY DEF AbRestart, TrialsSound, AbTypeOK, Trial, TrialPlaces
<1>4. AbTypeOK'
  <2>1. trial' \in [Trials -> Trial]
    BY <1>3 DEF AbRestart
  <2> QED BY <1>2, <2>1 DEF TrialsSound, AbTypeOK
<1>5. \A t \in Trials : OwnBenches(t)' \subseteq OwnBenches(t)
  BY <1>2, <1>3 DEF OwnBenches
<1>6. OwnsSound'
  <2>1. ASSUME NEW t \in Trials, NEW b \in OwnBenches(t)' PROVE b \in Benches /\ bench'[b].at # "unused"
    BY <1>1, <1>5, <2>1, TrialFields DEF TrialsSound, OwnsSound, Stable
  <2> QED BY <1>5, <2>1 DEF TrialsSound, OwnsSound
<1>7. ASSUME NEW t \in Trials PROVE TrialSound(t)'
  <2>1. /\ TrialSound(t) /\ abRow[t].off \in Benches \union {NoBench} /\ abRow[t].on \in Benches \union {NoBench}
    BY TrialFields DEF TrialsSound
  <2>2. Good(abRow[t].off, FALSE) => Good(abRow[t].off, FALSE)'
    BY <1>1, <1>2, <2>1, GoodStays DEF Good
  <2>3. Good(abRow[t].on, TRUE) => Good(abRow[t].on, TRUE)'
    BY <1>1, <1>2, <2>1, GoodStays DEF Good
  <2> QED BY <1>2, <1>3, <2>1, <2>2, <2>3 DEF TrialSound
<1> QED BY <1>1, <1>4, <1>6, <1>7 DEF TrialsSound

-----------------------------------------------------------------------------
(* The theorem *)

LEMMA AInvInit == BenchInit /\ AbInit => AInv
<1> SUFFICES ASSUME BenchInit, AbInit PROVE ManagerSound /\ TrialsSound
  BY AInvParts
<1>1. UnusedBench \in BenchJob /\ UnusedBench.at = "unused" /\ UnusedBench.status = "running"
  BY DEF UnusedBench, BenchJob, BenchPlaces, BenchStatus
<1>2. BenchTypeOK
  BY <1>1 DEF BenchInit, BenchTypeOK, Processes
<1>3. ManagerSound
  BY <1>1, <1>2 DEF BenchInit, ManagerSound, BenchSound, ApartOrMixed, HandleIsRead, BenchesUnderway
<1>4. NoAbRow \in AbRow /\ NoAbRow.status = "none" /\ NoAbRow.off = NoBench /\ NoAbRow.on = NoBench
  BY DEF NoAbRow, AbRow
<1>5. AbTypeOK
  BY <1>4 DEF AbInit, AbTypeOK, Trial, TrialPlaces
<1>6. \A t \in Trials : trial[t].at = "unused" /\ trial[t].job = NoBench /\ abRow[t] = NoAbRow
  BY DEF AbInit
<1>7. \A t \in Trials : OwnBenches(t) = {} /\ TrialSound(t)
  BY <1>4, <1>6 DEF OwnBenches, TrialSound
<1> QED BY <1>3, <1>5, <1>7 DEF TrialsSound, OwnsSound

LEMMA AInvStep == AInv /\ [AbNext]_<<benchVars, abVars>> => AInv'
<1> SUFFICES ASSUME ManagerSound, TrialsSound, [AbNext]_<<benchVars, abVars>>
             PROVE  ManagerSound' /\ TrialsSound'
  BY AInvParts DEF AInv, ManagerSound, TrialsSound
<1>1. CASE \E b \in UserBenches : RunBench(b, FALSE) /\ UNCHANGED abVars
  <2>1. PICK b \in UserBenches : RunBench(b, FALSE) /\ UNCHANGED abVars
    BY <1>1
  <2>2. b \in Benches
    BY UserBenchesAssumption
  <2> QED BY <2>1, <2>2, RunSound, ManagerFrame
<1>2. CASE \E b \in Benches : BenchProceeds(b) /\ UNCHANGED abVars
  BY <1>2, ProceedsSound, ManagerFrame
<1>3. CASE CancelBench /\ UNCHANGED abVars
  BY <1>3, CancelSound, ManagerFrame
<1>4. CASE \E t \in Trials : StartAb(t) \/ AbProceeds(t)
  <2>1. PICK t \in Trials : StartAb(t) \/ AbProceeds(t)
    BY <1>4
  <2>2. CASE StartAb(t) \/ AbStarts(t) \/ AbRefused(t) \/ OffDone(t) \/ OffFails(t)
             \/ \E ok \in BOOLEAN : OnDone(t, ok)
    <3>1. UNCHANGED benchVars
      BY <2>2 DEF StartAb, AbStarts, AbRefused, AbFails, OffDone, OffFails, OnDone
    <3>2. TrialsSound'
      BY <2>2, AbStartSound, StartsSound, OffSound, OnSound
    <3> QED BY <3>1, <3>2, ManagerIdle
  <2>3. CASE \E b \in Benches : RunsOff(t, b) \/ RunsOn(t, b)
    BY <2>3, RunsSound
  <2> QED BY <2>1, <2>2, <2>3 DEF AbProceeds
<1>5. CASE AbRestart
  BY <1>5, AbRestartSound
<1>6. CASE UNCHANGED <<benchVars, abVars>>
  BY <1>6, ManagerIdle, ManagerFrame
<1> QED BY <1>1, <1>2, <1>3, <1>4, <1>5, <1>6 DEF AbNext

\* The results of benchmarks are what their rows say (features.py, bench.py):
\* a cancel that was answered "cancelled" holds, however the process ended,
\* and an A/B run that says "success" compares two benchmarks of its own that
\* ended well, without and with the flags, whoever else used the manager.
THEOREM ResultsAreHonest == AbSpec => []BenchesAreHonest
<1>1. AInv => BenchesAreHonest
  <2> SUFFICES ASSUME ManagerSound, TrialsSound PROVE CancelHolds /\ AbCompares
    BY AInvParts DEF BenchesAreHonest
  <2>1. CancelHolds
    BY DEF ManagerSound, BenchSound, CancelHolds
  <2>2. ASSUME NEW t \in Trials, abRow[t].status = "success"
        PROVE  /\ Good(abRow[t].off, FALSE) /\ Good(abRow[t].on, TRUE) /\ abRow[t].on # abRow[t].off
               /\ abRow[t].off \in Benches /\ abRow[t].on \in Benches
    BY <2>2, TrialFields DEF TrialsSound, TrialSound, Good
  <2>3. ASSUME NEW t \in Trials, NEW u \in Trials \ {t}, abRow[t].status = "success"
        PROVE  {abRow[t].off, abRow[t].on} \intersect {abRow[u].off, abRow[u].on} = {}
    BY <2>2, <2>3, BenchesAssumption DEF TrialsSound, OwnsSound, OwnBenches
  <2>4. AbCompares
    BY <2>2, <2>3 DEF AbCompares, Good
  <2> QED BY <2>1, <2>4
<1> QED BY <1>1, AInvInit, AInvStep, PTL DEF AbSpec

-----------------------------------------------------------------------------
(* The types of the jobs *)

\* A commit has one snapshot: INSERT OR IGNORE.
SnapshotsApart == \A i, j \in DOMAIN snapshots : snapshots[i].commit = snapshots[j].commit => i = j

LEMMA SnapshotsStayApart == ScanInv /\ SnapshotsApart /\ [ScanNext]_<<buildVars, scanVars>> => SnapshotsApart'
<1> SUFFICES ASSUME ScanInv, SnapshotsApart, [ScanNext]_<<buildVars, scanVars>> PROVE SnapshotsApart'
  OBVIOUS
<1>1. CASE UNCHANGED snapshots
  BY <1>1 DEF SnapshotsApart
<1>2. CASE Baseline
  <2>1. PICK e : snapshots' = <<e>>
    BY <1>2 DEF Baseline
  <2> QED BY <2>1 DEF SnapshotsApart
<1>3. ASSUME NEW t \in Scanners, snapshots' = Stored(scanner[t].to) PROVE SnapshotsApart'
  <2>1. CASE snapshots' # snapshots
    <3>1. PICK e : snapshots' = Append(snapshots, e) /\ \A i \in DOMAIN snapshots : snapshots[i].commit # e.commit
      BY <1>3, <2>1 DEF Stored
    <3>2. snapshots \in Seq(Snapshot) /\ Len(snapshots) \in Nat /\ DOMAIN snapshots = 1..Len(snapshots)
      BY LenProperties DEF ScanInv, ScanTypes
    <3>3. PICK q : q = snapshots
      OBVIOUS
    <3>4. /\ DOMAIN Append(q, e) = 1..(Len(q) + 1) /\ Append(q, e)[Len(q) + 1] = e
          /\ \A i \in 1..Len(q) : Append(q, e)[i] = q[i]
      BY <3>2, <3>3
    <3> QED BY <3>1, <3>2, <3>3, <3>4 DEF SnapshotsApart
  <2> QED BY <1>1, <2>1
<1>4. ASSUME NEW t \in Scanners, ScanNow(t) \/ ScanProceeds(t) PROVE SnapshotsApart'
  BY <1>1, <1>3, <1>4 DEF ScanNow, BeginScan, ScanProceeds, Versioned, Captured, Compared, ScanInserted,
       SummaryUnconfigured, SummaryAsked, SummaryStored, SummaryFails
<1>6. CASE \E t \in Scanners, i \in 1..MaxScans : RetrySummary(t, i)
  BY <1>1, <1>6 DEF RetrySummary
<1>7. CASE \/ BuildNext /\ UNCHANGED scanVars
           \/ BuildsRestart /\ ScanTasksLost
           \/ \E b \in Builds : PostBuildScan(b)
           \/ UNCHANGED <<buildVars, scanVars>>
  BY <1>1, <1>7 DEF ScanTasksLost, PostBuildScan, BeginScan, scanVars
<1> QED BY <1>2, <1>4, <1>6, <1>7 DEF ScanNext

\* There are no more snapshots than commits.
LEMMA FewSnapshots == ScanTypes /\ SnapshotsApart => Len(snapshots) <= LastCommit
<1> SUFFICES ASSUME ScanTypes, SnapshotsApart PROVE Len(snapshots) <= LastCommit
  OBVIOUS
<1>1. snapshots \in Seq(Snapshot) /\ Len(snapshots) \in Nat /\ DOMAIN snapshots = 1..Len(snapshots)
  BY LenProperties DEF ScanTypes
<1>2. LastCommit \in Nat
  BY BuildsAssumption
<1> DEFINE f == [i \in 1..Len(snapshots) |-> snapshots[i].commit]
<1>3. \A i \in 1..Len(snapshots) : snapshots[i].commit \in 1..LastCommit
  <2>1. PICK q \in Seq(Snapshot) : q = snapshots
    BY <1>1
  <2>2. \A i \in 1..Len(q) : q[i] \in Snapshot
    BY <2>1
  <2> QED BY <2>1, <2>2 DEF Snapshot, Commits
<1>4. f \in Injection(1..Len(snapshots), 1..LastCommit)
  BY <1>1, <1>3 DEF Injection, IsInjective, SnapshotsApart
<1> HIDE DEF f
<1>5. IsFiniteSet(1..LastCommit) /\ Cardinality(1..LastCommit) = LastCommit
      /\ Cardinality(1..Len(snapshots)) = Len(snapshots)
  <2>1. \A n \in Nat : IsFiniteSet(1..n) /\ Cardinality(1..n) = n
    BY FS_Interval
  <2> QED BY <1>1, <1>2, <2>1
<1> QED BY <1>4, <1>5, FS_Injection

LEMMA GuidesAreTyped ==
    /\ GuideInit => GuideTypeOK
    /\ GuideTypeOK /\ [GuideNext]_guideVars => GuideTypeOK'
<1>1. GuideInit => GuideTypeOK
  BY DEF GuideInit, GuideTypeOK, GuidePlaces
<1> SUFFICES ASSUME GuideTypeOK, [GuideNext]_guideVars PROVE GuideTypeOK'
  BY <1>1
<1>2. CASE UNCHANGED guideVars \/ GuidesLost
  BY <1>2 DEF GuidesLost, GuideTypeOK, guideVars, GuidePlaces
<1>3. CASE \E g \in Guides : StartGuide(g) \/ GuideProceeds(g)
  BY <1>3 DEF StartGuide, GuideProceeds, GuideStarts, GuideEnds, Reset, GuideTypeOK, GuidePlaces
<1> QED BY <1>2, <1>3 DEF GuideNext

\* Builds, scans, benchmarks, A/B runs and guides keep their types, and of a
\* commit there is one snapshot, whoever captures it (features.py).
THEOREM JobsAreTyped ==
    ScanSpec /\ AbSpec /\ GuideSpec
    => [](BuildTypeOK /\ ScanTypeOK /\ BenchTypeOK /\ AbTypeOK /\ GuideTypeOK)
<1>1. BuildInit /\ ScanInit => BuildInv /\ ScanInv /\ SnapshotsApart
  BY BuildInvInit, ScanInvInit DEF ScanInit, SnapshotsApart
<1>2. BuildInv /\ ScanInv /\ SnapshotsApart => BuildTypeOK /\ ScanTypeOK
  BY FewSnapshots DEF BuildInv, ScanInv, ScanTypes, ScanTypeOK
<1>3. AInv => BenchTypeOK /\ AbTypeOK
  BY DEF AInv
<1> QED BY <1>1, <1>2, <1>3, InvStep, SnapshotsStayApart, AInvInit, AInvStep, GuidesAreTyped, PTL
        DEF ScanSpec, AbSpec, GuideSpec

=============================================================================
