----------------------------- MODULE RpcServers -----------------------------
(***************************************************************************)
(* The ggml rpc-server processes: RpcProcess and RpcServerManager of       *)
(* src/backend/lld/rpc_server.py, and the calls of api/server_api.py.      *)
(*                                                                         *)
(* Every server has a name and a port of its own.  Each call of start() is *)
(* a coroutine; the code between two awaits is one step.                   *)
(***************************************************************************)
EXTENDS Naturals, FiniteSets

CONSTANTS
    RpcNames,     \* names that a server may have
    RpcStarts,    \* identities of calls of start(), and of what they spawn
    NoStart,
    RpcEvents     \* "edit": the settings change; "external"; "die"

ASSUME RpcAssumption ==
    /\ RpcNames # {} /\ NoStart \notin RpcStarts
    /\ RpcEvents \subseteq {"edit", "external", "die"}

VARIABLES
    rpcSettings,  \* the configured names, in their order
    rpcTable,     \* the keys of _procs, in the order of their insertion
    rpcHandle,    \* the proc of each RpcProcess in the table
    rpcStart,     \* the coroutines of start()
    rpcProc,      \* the processes they spawned
    rpcStopping,  \* processes whose end a stop() awaits
    external,     \* names whose port a server of somebody else answers
    crowded,      \* starts that met another start, a stop, or an edit (history)
    moved         \* a name was put before one that the table has (history)

rpcVars == <<rpcSettings, rpcTable, rpcHandle, rpcStart, rpcProc, rpcStopping, external, crowded, moved>>

\* Names in an order: for each of them, the names before it.
InLine(line) ==
    \A n, m \in DOMAIN line :
        /\ n \notin line[n]
        /\ n # m => n \in line[m] \/ m \in line[n]
        /\ m \in line[n] => line[m] \subseteq line[n]
Lines == {line \in UNION {[names -> SUBSET names] : names \in SUBSET RpcNames} : InLine(line)}
NoLine == [n \in {} |-> {}]

\* A start whose entry leaves the table is adrift; a process is loading until
\* its port is open.
RpcStart == [at : {"none", "spawning", "adrift", "polling", "over"}, name : RpcNames]

RpcInit ==
    /\ rpcSettings \in {line \in Lines : DOMAIN line = RpcNames}
    /\ rpcTable = NoLine
    /\ rpcHandle = [n \in RpcNames |-> NoStart]
    /\ rpcStart = [s \in RpcStarts |-> [at |-> "none", name |-> CHOOSE n \in RpcNames : TRUE]]
    /\ rpcProc = [s \in RpcStarts |-> "none"]
    /\ rpcStopping = {}
    /\ external = {}
    /\ crowded = {}
    /\ moved = FALSE

-----------------------------------------------------------------------------

RpcAlive(s) == rpcProc[s] \in {"loading", "open"}
Owned(n) == rpcHandle[n] # NoStart /\ RpcAlive(rpcHandle[n])
PortOpen(n) == n \in external \/ \E s \in RpcStarts : rpcProc[s] = "open" /\ rpcStart[s].name = n
IsRunning(n) == Owned(n) \/ PortOpen(n)
Spawning(n) == {s \in RpcStarts : rpcStart[s].at = "spawning" /\ rpcStart[s].name = n}

-----------------------------------------------------------------------------
(* _sync_with_settings(), at the beginning of every call *)

\* Mutant: what is not configured is dropped, running or not.
KeptConfigured == DOMAIN rpcTable \intersect DOMAIN rpcSettings
KeptNames == {n \in DOMAIN rpcTable : n \in DOMAIN rpcSettings \/ Owned(n)}
Added == DOMAIN rpcSettings \ DOMAIN rpcTable
Dropped == DOMAIN rpcTable \ KeptNames

\* New names go to the end, in the order of the settings.
Synced ==
    [n \in KeptNames \union Added |->
        IF n \in Added THEN KeptNames \union (rpcSettings[n] \intersect Added) ELSE rpcTable[n] \intersect KeptNames]

Cast == UNION {Spawning(n) : n \in Dropped}

\* The entries that are dropped take their handles with them, and whoever
\* starts or stops one of them goes on with an object that nobody else has.
SyncsTable ==
    /\ rpcTable' = Synced
    /\ rpcStopping' = {s \in rpcStopping : rpcStart[s].name \notin Dropped}

HandlesSynced == [n \in RpcNames |-> IF n \in Dropped THEN NoStart ELSE rpcHandle[n]]
StartsSynced == [s \in RpcStarts |-> IF s \in Cast THEN [rpcStart[s] EXCEPT !.at = "adrift"] ELSE rpcStart[s]]

-----------------------------------------------------------------------------

\* start() up to its first await; another start may be there.
StartRpc(s, n) ==
    /\ rpcStart[s].at = "none"
    /\ n \in DOMAIN Synced /\ ~IsRunning(n)
    /\ SyncsTable
    /\ rpcHandle' = HandlesSynced
    /\ rpcStart' = [StartsSynced EXCEPT ![s] = [at |-> "spawning", name |-> n]]
    /\ crowded' = crowded \union Cast \union IF Spawning(n) = {} THEN {} ELSE Spawning(n) \union {s}
    /\ UNCHANGED <<rpcSettings, rpcProc, external, moved>>

\* A stop() that still waits will forget this process for the one before.
Spawned(s) ==
    LET n == rpcStart[s].name IN
    /\ rpcStart[s].at \in {"spawning", "adrift"}
    /\ rpcStart' = [rpcStart EXCEPT ![s].at = "polling"]
    /\ rpcProc' = [rpcProc EXCEPT ![s] = "loading"]
    /\ IF rpcStart[s].at = "spawning"
       THEN /\ rpcHandle' = [rpcHandle EXCEPT ![n] = s]
            /\ crowded' = crowded \union {t \in {s} : \E p \in rpcStopping : rpcStart[p].name = n}
       ELSE UNCHANGED <<rpcHandle, crowded>>
    /\ UNCHANGED <<rpcSettings, rpcTable, rpcStopping, external, moved>>

RpcSpawnFails(s) ==
    /\ "die" \in RpcEvents /\ rpcStart[s].at \in {"spawning", "adrift"}
    /\ rpcStart' = [rpcStart EXCEPT ![s].at = "over"]
    /\ rpcHandle' = IF rpcStart[s].at = "spawning" THEN [rpcHandle EXCEPT ![rpcStart[s].name] = NoStart] ELSE rpcHandle
    /\ UNCHANGED <<rpcSettings, rpcTable, rpcProc, rpcStopping, external, crowded, moved>>

\* The process opens its port, or ends because somebody has it.
Opens(s) ==
    /\ rpcProc[s] = "loading"
    /\ rpcProc' = [rpcProc EXCEPT ![s] = IF PortOpen(rpcStart[s].name) THEN "dead" ELSE "open"]
    /\ UNCHANGED <<rpcSettings, rpcTable, rpcHandle, rpcStart, rpcStopping, external, crowded, moved>>

RpcDies(s) ==
    /\ "die" \in RpcEvents /\ RpcAlive(s)
    /\ rpcProc' = [rpcProc EXCEPT ![s] = "dead"]
    /\ UNCHANGED <<rpcSettings, rpcTable, rpcHandle, rpcStart, rpcStopping, external, crowded, moved>>

\* start() returns: its port is open, its process is gone, or ten seconds are
\* over, and then the process is left as it is.
StartRpcEnds(s) ==
    /\ rpcStart[s].at = "polling"
    /\ rpcStart' = [rpcStart EXCEPT ![s].at = "over"]
    /\ UNCHANGED <<rpcSettings, rpcTable, rpcHandle, rpcProc, rpcStopping, external, crowded, moved>>

\* stop(): what is not ours is only forgotten.
StopRpc(n) ==
    /\ n \in DOMAIN Synced
    /\ rpcTable' = Synced
    /\ rpcHandle' = IF Owned(n) THEN HandlesSynced ELSE [HandlesSynced EXCEPT ![n] = NoStart]
    /\ rpcStart' = StartsSynced
    /\ rpcStopping' = {s \in rpcStopping : rpcStart[s].name \notin Dropped}
                          \union IF Owned(n) THEN {rpcHandle[n]} ELSE {}
    /\ crowded' = crowded \union Cast
    /\ UNCHANGED <<rpcSettings, rpcProc, external, moved>>

\* The awaited process ended by itself or terminated.  After ten seconds it is
\* whatever the handle is now that is killed; then the handle is reset.
StopRpcEnds(s) ==
    LET n == rpcStart[s].name IN
    /\ s \in rpcStopping
    /\ \E ended \in {s} \union IF RpcAlive(s) THEN {rpcHandle[n]} \ {NoStart} ELSE {} :
          rpcProc' = [rpcProc EXCEPT ![ended] = "dead"]
    /\ rpcHandle' = [rpcHandle EXCEPT ![n] = NoStart]
    /\ rpcStopping' = rpcStopping \ {s}
    /\ UNCHANGED <<rpcSettings, rpcTable, rpcStart, external, crowded, moved>>

\* In the order of the settings, as far as they and the table have the same
\* names; nothing that is new is before what the table has.
InOrder(settings, table) ==
    \A n \in DOMAIN settings \intersect DOMAIN table : settings[n] \subseteq table[n]

\* The user removes a server, adds one, or changes their order.
EditsSettings(settings) ==
    /\ "edit" \in RpcEvents
    /\ settings # rpcSettings
    /\ rpcSettings' = settings
    /\ moved' = (moved \/ ~InOrder(settings, rpcTable))
    /\ UNCHANGED <<rpcTable, rpcHandle, rpcStart, rpcProc, rpcStopping, external, crowded>>

\* all(), when somebody lists the servers, or a preset is started.
ListsRpc ==
    /\ Synced # rpcTable
    /\ SyncsTable
    /\ rpcHandle' = HandlesSynced
    /\ rpcStart' = StartsSynced
    /\ crowded' = crowded \union Cast
    /\ UNCHANGED <<rpcSettings, rpcProc, external, moved>>

\* A server somebody started by hand, where the port is free, starts or ends.
ExternalChanges(n) ==
    /\ "external" \in RpcEvents
    /\ n \in external \/ ~PortOpen(n)
    /\ external' = IF n \in external THEN external \ {n} ELSE external \union {n}
    /\ UNCHANGED <<rpcSettings, rpcTable, rpcHandle, rpcStart, rpcProc, rpcStopping, crowded, moved>>

RpcNext ==
    \/ \E s \in RpcStarts, n \in RpcNames : StartRpc(s, n)
    \/ \E s \in RpcStarts :
          Spawned(s) \/ RpcSpawnFails(s) \/ Opens(s) \/ RpcDies(s) \/ StartRpcEnds(s) \/ StopRpcEnds(s)
    \/ \E n \in RpcNames : StopRpc(n) \/ ExternalChanges(n)
    \/ \E settings \in Lines : EditsSettings(settings)
    \/ ListsRpc

RpcSpec == RpcInit /\ [][RpcNext]_rpcVars

-----------------------------------------------------------------------------
(* Properties *)

RpcTypeOK ==
    /\ rpcSettings \in Lines /\ rpcTable \in Lines
    /\ rpcHandle \in [RpcNames -> RpcStarts \union {NoStart}]
    /\ rpcStart \in [RpcStarts -> RpcStart]
    /\ rpcProc \in [RpcStarts -> {"none", "loading", "open", "dead"}]
    /\ rpcStopping \subseteq RpcStarts /\ external \subseteq RpcNames
    /\ crowded \subseteq RpcStarts /\ moved \in BOOLEAN

\* A process that was started alone stays within reach of stop() as long as it
\* lives, whatever the settings, the user and other servers do meanwhile.
RpcWithinReach ==
    \A s \in RpcStarts : RpcAlive(s) /\ s \notin crowded =>
        /\ rpcHandle[rpcStart[s].name] = s
        /\ rpcStart[s].name \in DOMAIN rpcTable

\* llama-server numbers RPC devices by their place in the table, and that is
\* the place they are configured in, as long as nobody puts a server before
\* one that the table has: it keeps the order in which it came to know them.
RpcOrderIsConfigured == ~moved => InOrder(rpcSettings, rpcTable)

\* Both, and the table is in one line.
RpcIsKept == RpcWithinReach /\ rpcTable \in Lines /\ RpcOrderIsConfigured

=============================================================================
