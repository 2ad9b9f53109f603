--------------------------- MODULE HealthWatchdog ---------------------------
(***************************************************************************)
(* watchdog_loop() of src/backend/lld/health_watchdog.py: it probes every  *)
(* running preset once per tick, and restarts one that has not answered    *)
(* for a number of probes, but not too often.                              *)
(*                                                                         *)
(* A visit to a preset, with its probes and the restart it may await, is   *)
(* one step.  Time passes in ticks; ages are counted in them.              *)
(***************************************************************************)
EXTENDS Naturals, Sequences, SequencesExt, FiniteSets

CONSTANTS
    Singles,          \* presets of a single model
    Routers,          \* router presets
    RouterModels,     \* models a router may have loaded
    Process,          \* the process itself; "__process__" of a single preset
    FailThreshold,    \* FAIL_THRESHOLD
    MaxRestarts,      \* MAX_RESTARTS_PER_WINDOW
    RestartWindow     \* RESTART_WINDOW_S, in ticks

Watched == Singles \union Routers
Targets(p) == IF p \in Singles THEN {Process} ELSE RouterModels \union {Process}
AllTargets == RouterModels \union {Process}

ASSUME WatchdogAssumption ==
    /\ Singles \intersect Routers = {}
    /\ Process \notin RouterModels
    /\ {FailThreshold, MaxRestarts, RestartWindow} \subseteq Nat \ {0}

VARIABLES
    server,      \* the presets: whether they run, what they have loaded, what hangs
    failCounts,  \* fail_counts
    restartHist, \* restart_history, as ages, the oldest first
    due,         \* presets not yet visited in this tick
    restarts     \* the ages of all restarts of the last window (history)

watchdogVars == <<server, failCounts, restartHist, due, restarts>>

\* An age beyond the window is as good as any other.
Ages == 0..(RestartWindow + 1)
Older(ages) == [i \in DOMAIN ages |-> IF ages[i] <= RestartWindow THEN ages[i] + 1 ELSE ages[i]]

Server == [running : BOOLEAN, loaded : SUBSET AllTargets, hung : SUBSET AllTargets]

WatchdogInit ==
    /\ server \in {[p \in Watched |-> [running |-> p \in on, loaded |-> Targets(p), hung |-> {}]] :
                      on \in SUBSET Watched}
    /\ failCounts = [p \in Watched |-> [m \in AllTargets |-> 0]]
    /\ restartHist = [p \in Watched |-> <<>>]
    /\ due = {}
    /\ restarts = [p \in Watched |-> <<>>]

-----------------------------------------------------------------------------
(* The presets *)

Hangs(p, m) ==
    /\ server[p].running /\ m \in server[p].loaded \ server[p].hung
    /\ server' = [server EXCEPT ![p].hung = @ \union {m}]
    /\ UNCHANGED <<failCounts, restartHist, due, restarts>>

Recovers(p, m) ==
    /\ m \in server[p].hung
    /\ server' = [server EXCEPT ![p].hung = @ \ {m}]
    /\ UNCHANGED <<failCounts, restartHist, due, restarts>>

\* The router loads and unloads models; a model that is unloaded hangs no more.
LoadsOther(p, m) ==
    /\ p \in Routers /\ server[p].running
    /\ server' = [server EXCEPT ![p].loaded = SymDiff(@, {m}), ![p].hung = @ \ {m}]
    /\ UNCHANGED <<failCounts, restartHist, due, restarts>>

\* The user stops the preset, or starts it; the watchdog is not told.
Toggles(p) ==
    /\ server' = [server EXCEPT ![p].running = ~@, ![p].hung = {}]
    /\ UNCHANGED <<failCounts, restartHist, due, restarts>>

-----------------------------------------------------------------------------
(* The watchdog *)

Forgiven(p) == [failCounts EXCEPT ![p] = [m \in AllTargets |-> 0]]

\* What is probed: the process of a single preset, the models of a router.
Probes(p) == IF p \in Singles THEN {Process} ELSE server[p].loaded \ {Process}

\* The counts after a round of probes of p: of what answers, none is left.
Probed(p) ==
    [failCounts EXCEPT ![p] = [m \in AllTargets |->
        IF m \notin Probes(p) THEN @[m]
        ELSE IF m \notin server[p].hung THEN 0
        ELSE IF @[m] < FailThreshold THEN @[m] + 1 ELSE @[m]]]

Broken(p, counts) ==
    {m \in Probes(p) \intersect server[p].hung : counts[p][m] >= FailThreshold}

\* The ages from the first on that is not too old.
Fresh(ages) ==
    LET first == CHOOSE n \in 1..(Len(ages) + 1) :
                    /\ \A i \in 1..(n - 1) : ages[i] > RestartWindow
                    /\ n <= Len(ages) => ages[n] <= RestartWindow
    IN SubSeq(ages, first, Len(ages))

\* Mutant: nothing is too old.
PurgedNever(ages) == ages

\* Only from the head, as long as it is too old.
Purged(ages) == Fresh(ages)

\* Mutant: a restart that fails is not remembered.
RememberedIfDone(p, ok) == IF ok THEN Append(Purged(restartHist[p]), 0) ELSE Purged(restartHist[p])

\* A restart is remembered before it is tried.
Remembered(p, ok) == Append(Purged(restartHist[p]), 0)

Restarts(p, counts, ok) ==
    /\ restartHist' = [restartHist EXCEPT ![p] = Remembered(p, ok)]
    /\ restarts' = [restarts EXCEPT ![p] = Append(Fresh(@), 0)]
    /\ server' = [server EXCEPT ![p].hung = IF ok THEN {} ELSE @]
    /\ failCounts' = IF ok THEN [counts EXCEPT ![p] = [m \in AllTargets |-> 0]] ELSE counts

\* A router that does not answer at all lists no model either.
Listed(p) ==
    IF p \in Routers /\ Process \in server[p].hung THEN {} ELSE server[p].loaded \ {Process}

\* One preset: skipped if it does not run, forgiven if it lists no model.
Visit(p, ok) ==
    LET counts == IF p \in Routers /\ Listed(p) = {} THEN Forgiven(p) ELSE Probed(p)
        broken == Broken(p, counts) IN
    /\ p \in due /\ server[p].running
    /\ due' = due \ {p}
    /\ \/ broken # {} /\ Len(Purged(restartHist[p])) < MaxRestarts
          /\ Restarts(p, counts, ok)
       \/ broken # {} /\ Len(Purged(restartHist[p])) >= MaxRestarts
          /\ failCounts' = counts
          /\ restartHist' = [restartHist EXCEPT ![p] = Purged(@)]
          /\ UNCHANGED <<server, restarts>>
       \/ broken = {}
          /\ failCounts' = counts
          /\ UNCHANGED <<server, restartHist, restarts>>

Skip(p) ==
    /\ p \in due /\ ~server[p].running
    /\ due' = due \ {p}
    /\ UNCHANGED <<server, failCounts, restartHist, restarts>>

Visited(p) == Skip(p) \/ \E ok \in BOOLEAN : Visit(p, ok)

\* PROBE_INTERVAL_S later.
Tick ==
    /\ due = {}
    /\ due' = Watched
    /\ restartHist' = [p \in Watched |-> Older(restartHist[p])]
    /\ restarts' = [p \in Watched |-> Older(restarts[p])]
    /\ UNCHANGED <<server, failCounts>>

WatchdogNext ==
    \/ Tick
    \/ \E p \in Watched : Visited(p) \/ Toggles(p)
    \/ \E p \in Watched, m \in AllTargets : Hangs(p, m) \/ Recovers(p, m)
    \/ \E p \in Routers, m \in RouterModels : LoadsOther(p, m)

WatchdogSpec == WatchdogInit /\ [][WatchdogNext]_watchdogVars

-----------------------------------------------------------------------------
(* Properties *)

WatchdogTypeOK ==
    /\ server \in [Watched -> Server]
    /\ failCounts \in [Watched -> [AllTargets -> 0..FailThreshold]]
    /\ \A p \in Watched :
          /\ restartHist[p] \in Seq(Ages) /\ restarts[p] \in Seq(Ages)
          /\ Len(restartHist[p]) <= MaxRestarts
    /\ due \subseteq Watched

\* However a preset hangs, recovers, is stopped and started, and whether its
\* restarts work or not, it is restarted at most MaxRestarts times in a window.
WatchdogSpares ==
    \A p \in Watched :
        Cardinality({i \in DOMAIN restarts[p] : restarts[p][i] <= RestartWindow}) <= MaxRestarts

Detectable(p, m) ==
    /\ server[p].running /\ m \in server[p].hung
    /\ p \in Routers => Process \notin server[p].hung

\* A process or a model that hangs for good is restarted, again and again where
\* that does not help, unless it is a router that no longer lists its models.
HangIsAnswered ==
    \A p \in Watched : \A m \in AllTargets :
        <>[]Detectable(p, m) => []<>(restarts[p] # <<>> /\ Last(restarts[p]) = 0)

=============================================================================
