----------------------------- MODULE Supervisor -----------------------------
(***************************************************************************)
(* The supervisor of src/backend/lld/supervisor.py: one llama-server per   *)
(* preset, started and stopped by the user, brought back after a crash.    *)
(*                                                                         *)
(* MultiSupervisor's commands run one at a time under its lock; `cmd' is   *)
(* the one that is suspended in an await.  A ProcessHandle's own tasks,    *)
(* the exit watcher and the auto-restart, take no lock and run in between. *)
(* Code between two awaits is one step.  The 30 s cooldown and the 5 min   *)
(* window of the restart count may pass at any moment.                     *)
(***************************************************************************)
EXTENDS Naturals, FiniteSets

CONSTANTS
    Presets,      \* names of presets; each has a port of its own
    Handles,      \* identities of ProcessHandle objects
    Pids,         \* identities of processes; they are used again
    NoPreset, NoHandle, NoPid,
    MaxAttempts,  \* auto-restarts per window
    Events        \* what may happen, beyond the user's commands

(* crash     a llama-server exits with a non-zero code
   exit      a llama-server exits with code 0
   external  somebody starts a llama-server outside LlamaDeck
   denied    terminate_pid() may not signal an adopted process
   overlap   an unlocked path, auto-restart or rebind(), meets a start of the
             same preset
   rebind    the llama-server binary changes (settings, a finished build)
   reexec    /api/system/restart replaces the backend by os.execv           *)
EventKinds == {"crash", "exit", "external", "denied", "overlap", "rebind", "reexec"}

ASSUME SupervisorAssumption ==
    /\ NoPreset \notin Presets /\ NoHandle \notin Handles /\ NoPid \notin Pids
    /\ MaxAttempts \in Nat \ {0}
    /\ Events \subseteq EventKinds

VARIABLES
    tracked,   \* MultiSupervisor._handles
    handle,    \* the ProcessHandle objects
    proc,      \* the llama-server processes of the host
    cmd,       \* the command that holds MultiSupervisor._lock
    wish,      \* the user's last word on each preset
    letGo,     \* processes the user released, or a restart did not adopt
    answer     \* how the supervisor reacted to the end of each process

vars == <<tracked, handle, proc, cmd, wish, letGo, answer>>

-----------------------------------------------------------------------------
(* Processes and handles *)

\* A llama-server loads before it listens on its port; it may fail or end.
Process == [life : {"gone", "loading", "serving", "failed", "ended"},
            preset : Presets \union {NoPreset}, ours : BOOLEAN]

(* pid       _pid; spawned by this handle (_proc is set) unless adopted
   adopted   _adopted
   stop      _stop_requested
   auto      _autorestart_task, and where it is
   spawned   the process auto's create_subprocess_exec() is waiting for
   attempts  the size of _autorestart_attempts_window
   watch     the processes that _watch_exit tasks wait for                   *)
Handle == [preset : Presets \union {NoPreset}, pid : Pids \union {NoPid},
           adopted : BOOLEAN, stop : BOOLEAN,
           auto : {"none", "cooldown", "preparing", "spawning"},
           spawned : Pids \union {NoPid}, attempts : 0 .. MaxAttempts,
           watch : SUBSET Pids]

\* A locked command in an await: stopping h and waiting for its process pid, if
\* that runs, then perhaps starting `next'; or starting h, before or after the
\* process pid was spawned.
Command == [phase : {"none", "stopping", "preparing", "spawning"},
            h : Handles \union {NoHandle}, pid : Pids \union {NoPid},
            next : Presets \union {NoPreset}]

\* Not seen; a restart was scheduled; none was (asked for, window exhausted,
\* already pending); a second restart was scheduled.
Answers == {"none", "restart", "no", "twice"}

Fresh(p) == [preset |-> p, pid |-> NoPid, adopted |-> FALSE, stop |-> FALSE,
             auto |-> "none", spawned |-> NoPid, attempts |-> 0, watch |-> {}]

Unlocked == [phase |-> "none", h |-> NoHandle, pid |-> NoPid, next |-> NoPreset]

Init ==
    /\ tracked = [p \in Presets |-> NoHandle]
    /\ handle = [h \in Handles |-> Fresh(NoPreset)]
    /\ proc = [q \in Pids |-> [life |-> "gone", preset |-> NoPreset, ours |-> FALSE]]
    /\ cmd = Unlocked
    /\ wish = [p \in Presets |-> "any"]
    /\ letGo = {}
    /\ answer = [q \in Pids |-> "none"]

\* _pid_alive()
Live(q) == proc[q].life \in {"loading", "serving"}

\* is_running()
IsRunning(o) == o.pid # NoPid /\ Live(o.pid)

\* _port_in_use()
PortInUse(p) == \E q \in Pids : proc[q].life = "serving" /\ proc[q].preset = p

\* No task of the handle is at work.
Quiet(h) == handle[h].auto = "none" /\ handle[h].watch = {} /\ cmd.h # h

\* Objects nobody holds any more; a new handle is one of them.
Dropped(h) == Quiet(h) /\ \A p \in Presets : tracked[p] # h

\* _handle(): the preset's handle object, a new one if it has none.
Lookup(p, h) == IF tracked[p] = NoHandle THEN Dropped(h) ELSE tracked[p] = h
Object(p, h) == IF tracked[p] = NoHandle THEN Fresh(p) ELSE handle[h]

\* The process ids that nobody refers to, which a new process may get.
Reusable(q) ==
    /\ ~Live(q)
    /\ cmd.pid # q
    /\ \A h \in Handles : ~Dropped(h) =>
          handle[h].pid # q /\ handle[h].spawned # q /\ q \notin handle[h].watch

\* The auto-restart task is inside start().
InAutoStart(o) == o.auto \in {"preparing", "spawning"}
InStart(h) == cmd.h = h /\ cmd.phase \in {"preparing", "spawning"}
Overlap == "overlap" \in Events

Reset(o) == [o EXCEPT !.pid = NoPid, !.adopted = FALSE]

\* Mutant: restarts are not limited.
ScheduleAutorestartEver(o) ==
    IF o.stop \/ o.auto # "none" THEN o
    ELSE [o EXCEPT !.attempts = @ + 1, !.auto = "cooldown"]

\* _schedule_autorestart()
ScheduleAutorestart(o) ==
    IF o.stop \/ o.attempts >= MaxAttempts \/ o.auto # "none" THEN o
    ELSE [o EXCEPT !.attempts = @ + 1, !.auto = "cooldown"]

\* What _schedule_autorestart() makes of the end of process q.
Answered(o, q) ==
    [answer EXCEPT ![q] =
        IF ScheduleAutorestart(o) # o THEN IF @ = "restart" THEN "twice" ELSE "restart"
        ELSE IF @ = "none" THEN "no" ELSE @]

\* The process of a handle's start() appears.
Spawned(q, p) ==
    /\ Reusable(q)
    /\ proc' = [proc EXCEPT ![q] = [life |-> "loading", preset |-> p, ours |-> TRUE]]
    /\ letGo' = letGo \ {q}
    /\ answer' = [answer EXCEPT ![q] = "none"]

\* create_subprocess_exec() returned: the handle takes q, tasks watch it.
Attach(o, q) == [o EXCEPT !.pid = q, !.adopted = FALSE, !.watch = @ \union {q}]

-----------------------------------------------------------------------------
(* The user's commands *)

(* start() of handle h, whose objects are in H, up to its first await.  It is
   refused if the process runs; a port in use or a missing file refuse it
   after the stop request was lifted. *)
BeginStart(p, h, H) ==
    /\ Overlap \/ ~InAutoStart(H[h])
    /\ handle' = [H EXCEPT ![h].stop = @ /\ IsRunning(H[h])]
    /\ \/ cmd' = Unlocked
       \/ /\ ~IsRunning(H[h]) /\ ~PortInUse(p)
          /\ cmd' = [Unlocked EXCEPT !.phase = "preparing", !.h = h]

\* Mutant: a pending auto-restart is left alone.
BeginStopKeepsAuto(h, next) ==
    /\ handle' = [handle EXCEPT ![h].stop = TRUE]
    /\ proc' = proc
    /\ cmd' = [phase |-> "stopping", h |-> h, next |-> next,
               pid |-> IF IsRunning(handle[h]) THEN handle[h].pid ELSE NoPid]

\* stop() up to its await: the auto-restart is cancelled, and with it the
\* process it may just have spawned.
BeginStop(h, next) ==
    /\ handle' = [handle EXCEPT ![h].stop = TRUE, ![h].auto = "none",
                                ![h].spawned = NoPid]
    /\ proc' = [q \in Pids |-> IF q = handle[h].spawned
                               THEN [proc[q] EXCEPT !.life = "ended"] ELSE proc[q]]
    /\ cmd' = [phase |-> "stopping", h |-> h, next |-> next,
               pid |-> IF IsRunning(handle[h]) THEN handle[h].pid ELSE NoPid]

\* start(p); also restart(p) and switch(f, p) when there is nothing to stop.
StartCalled(p) ==
    /\ cmd = Unlocked
    /\ \E h \in Handles :
          /\ Lookup(p, h)
          /\ BeginStart(p, h, [handle EXCEPT ![h] = Object(p, h)])
          /\ tracked' = [tracked EXCEPT ![p] = h]
    /\ wish' = [wish EXCEPT ![p] = "any"]
    /\ UNCHANGED <<proc, letGo, answer>>

StopCalled(p) ==
    /\ cmd = Unlocked /\ tracked[p] # NoHandle
    /\ BeginStop(tracked[p], NoPreset)
    /\ UNCHANGED <<tracked, wish, letGo, answer>>

\* restart(p), for f = p, and switch(f, p) when there is something to stop.
RestartCalled(f, p) ==
    /\ cmd = Unlocked
    /\ tracked[f] # NoHandle /\ IsRunning(handle[tracked[f]])
    /\ BeginStop(tracked[f], p)
    /\ UNCHANGED <<tracked, wish, letGo, answer>>

\* Mutant: stop() does not wait for the process.
StopIsOverAtOnce(o) == TRUE

\* The await of stop() is over: nothing runs, or it may not be signalled.
StopIsOver(o) == \/ ~IsRunning(o)
                 \/ "denied" \in Events /\ IsRunning(o) /\ o.adopted /\ ~proc[o.pid].ours

\* The handle after stop(): the exit watcher of the process that it ended is
\* cancelled.  stop() leaves the watcher of a process that was dead already.
Stopped(o) == [Reset(o) EXCEPT !.watch = IF o.adopted THEN @ ELSE @ \ {cmd.pid}]

StopEnds ==
    /\ cmd.phase = "stopping" /\ cmd.next = NoPreset
    /\ StopIsOver(handle[cmd.h])
    /\ handle' = [handle EXCEPT ![cmd.h] = Stopped(@)]
    /\ cmd' = Unlocked
    /\ wish' = [wish EXCEPT ![handle[cmd.h].preset] = "down"]
    /\ UNCHANGED <<tracked, proc, letGo, answer>>

\* restart() starts the same object, switch() the other preset's.
StopEndsStart(p, h) ==
    LET from == handle[cmd.h].preset
        H == [handle EXCEPT ![cmd.h] = Stopped(@)] IN
    /\ cmd.phase = "stopping" /\ cmd.next = p
    /\ StopIsOver(handle[cmd.h])
    /\ IF p = from
       THEN h = cmd.h /\ BeginStart(p, h, H) /\ tracked' = tracked
       ELSE /\ Lookup(p, h) /\ h # cmd.h
            /\ BeginStart(p, h, [H EXCEPT ![h] = Object(p, h)])
            /\ tracked' = [tracked EXCEPT ![p] = h]
    /\ wish' = [wish EXCEPT ![from] = "down", ![p] = "any"]
    /\ UNCHANGED <<proc, letGo, answer>>

\* _ensure_rpc(), _check_devices(), _check_flag_values() or the exec fails.
StartFails ==
    /\ cmd.phase = "preparing"
    /\ cmd' = Unlocked
    /\ UNCHANGED <<tracked, handle, proc, wish, letGo, answer>>

StartSpawns(q) ==
    /\ cmd.phase = "preparing"
    /\ Spawned(q, handle[cmd.h].preset)
    /\ cmd' = [cmd EXCEPT !.phase = "spawning", !.pid = q]
    /\ UNCHANGED <<tracked, handle, wish>>

StartEnds ==
    /\ cmd.phase = "spawning"
    /\ handle' = [handle EXCEPT ![cmd.h] = Attach(@, cmd.pid)]
    /\ cmd' = Unlocked
    /\ wish' = [wish EXCEPT ![handle[cmd.h].preset] = "up"]
    /\ UNCHANGED <<tracked, proc, letGo, answer>>

\* adopt(q, p): a llama-server on the preset's port, the preset not running.
Adopt(p, q) ==
    /\ cmd = Unlocked
    /\ Live(q) /\ proc[q].preset = p
    /\ \E h \in Handles :
          LET o == Object(p, h) IN
          /\ Lookup(p, h)
          /\ ~IsRunning(o) /\ (Overlap \/ ~InAutoStart(o))
          /\ tracked' = [tracked EXCEPT ![p] = h]
          /\ handle' = [handle EXCEPT ![h] = [o EXCEPT !.pid = q, !.adopted = TRUE]]
    /\ wish' = [wish EXCEPT ![p] = "up"]
    /\ letGo' = letGo \ {q}
    /\ UNCHANGED <<proc, cmd, answer>>

\* stream_logs() makes the preset's handle, without the lock.
StreamLogs(p) ==
    /\ tracked[p] = NoHandle
    /\ \E h \in Handles :
          /\ Dropped(h)
          /\ tracked' = [tracked EXCEPT ![p] = h]
          /\ handle' = [handle EXCEPT ![h] = Fresh(p)]
    /\ UNCHANGED <<proc, cmd, wish, letGo, answer>>

Release(p) ==
    /\ cmd = Unlocked /\ tracked[p] # NoHandle
    /\ handle[tracked[p]].adopted
    /\ handle' = [handle EXCEPT ![tracked[p]] = Reset(@)]
    /\ letGo' = letGo \union ({handle[tracked[p]].pid} \ {NoPid})
    /\ wish' = [wish EXCEPT ![p] = "any"]
    /\ UNCHANGED <<tracked, proc, cmd, answer>>

-----------------------------------------------------------------------------
(* The tasks of a handle *)

\* _watch_exit(): a crash of a process that is not adopted is restarted.
WatchExit(h, q) ==
    /\ q \in handle[h].watch /\ ~Live(q)
    /\ LET o == handle[h]
           crashed == proc[q].life = "failed" /\ ~o.adopted
           then == IF crashed THEN ScheduleAutorestart(o) ELSE o IN
       /\ handle' = [handle EXCEPT ![h] = [then EXCEPT !.watch = @ \ {q}]]
       /\ answer' = IF crashed THEN Answered(o, q)
                    ELSE [answer EXCEPT ![q] = IF @ = "none" THEN "no" ELSE @]
    /\ UNCHANGED <<tracked, proc, cmd, wish, letGo>>

\* Mutant: the poll acts on processes that have an exit watcher, too.
PolledAll(o) == o.pid # NoPid /\ ~Live(o.pid)

\* Mutant: the poll overlooks our own children.
PolledForeign(o) == o.pid # NoPid /\ ~Live(o.pid) /\ o.adopted /\ ~proc[o.pid].ours

\* The liveness poll looks after what no exit watcher looks after.
Polled(o) == o.pid # NoPid /\ ~Live(o.pid) /\ o.adopted

\* note_death_if_gone(), called by poll_liveness() for every tracked handle.
NoteDeath(p) ==
    /\ tracked[p] # NoHandle /\ Polled(handle[tracked[p]])
    /\ LET o == handle[tracked[p]]
           gone == [o EXCEPT !.pid = NoPid] IN
       /\ handle' = [handle EXCEPT ![tracked[p]] =
                        IF proc[o.pid].ours THEN ScheduleAutorestart(gone) ELSE gone]
       /\ answer' = IF proc[o.pid].ours THEN Answered(o, o.pid) ELSE answer
    /\ UNCHANGED <<tracked, proc, cmd, wish, letGo>>

(* _autorestart_after_cooldown(): nothing to do if the process runs or was
   stopped; else start(), up to its first await. *)
CooldownEnds(h) ==
    LET o == handle[h] IN
    /\ o.auto = "cooldown"
    /\ Overlap \/ ~InStart(h)
    /\ handle' = [handle EXCEPT ![h] =
          IF IsRunning(o) \/ o.stop THEN [o EXCEPT !.auto = "none"]
          ELSE [o EXCEPT !.pid = NoPid,
                         !.auto = IF PortInUse(o.preset) THEN "none" ELSE "preparing"]]
    /\ UNCHANGED <<tracked, proc, cmd, wish, letGo, answer>>

\* "auto-restart failed": a check of start() refuses it.
AutoFails(h) ==
    /\ handle[h].auto = "preparing"
    /\ handle' = [handle EXCEPT ![h].auto = "none"]
    /\ UNCHANGED <<tracked, proc, cmd, wish, letGo, answer>>

AutoSpawns(h, q) ==
    /\ handle[h].auto = "preparing"
    /\ Spawned(q, handle[h].preset)
    /\ handle' = [handle EXCEPT ![h].auto = "spawning", ![h].spawned = q]
    /\ UNCHANGED <<tracked, cmd, wish>>

AutoEnds(h) ==
    LET o == handle[h] IN
    /\ o.auto = "spawning"
    /\ handle' = [handle EXCEPT ![h] =
                     [Attach(o, o.spawned) EXCEPT !.auto = "none", !.spawned = NoPid]]
    /\ UNCHANGED <<tracked, proc, cmd, wish, letGo, answer>>

\* Attempts leave the 5 min window.
AttemptsAge(h) ==
    /\ \E n \in 0 .. MaxAttempts :
          /\ n < handle[h].attempts
          /\ handle' = [handle EXCEPT ![h].attempts = n]
    /\ UNCHANGED <<tracked, proc, cmd, wish, letGo, answer>>

-----------------------------------------------------------------------------
(* The processes, and what happens to the backend *)

\* The model is loaded; a port that is taken by then ends the process.
Listens(q) ==
    /\ proc[q].life = "loading"
    /\ proc' = [proc EXCEPT ![q].life = IF PortInUse(proc[q].preset) THEN "failed"
                                        ELSE "serving"]
    /\ UNCHANGED <<tracked, handle, cmd, wish, letGo, answer>>

Crash(q) ==
    /\ Live(q)
    /\ proc' = [proc EXCEPT ![q].life = "failed"]
    /\ UNCHANGED <<tracked, handle, cmd, wish, letGo, answer>>

Exit(q) ==
    /\ Live(q)
    /\ proc' = [proc EXCEPT ![q].life = "ended"]
    /\ UNCHANGED <<tracked, handle, cmd, wish, letGo, answer>>

\* The process that stop() signals goes, with either exit code.
Signalled(q) ==
    /\ cmd.phase = "stopping" /\ cmd.pid = q
    /\ Crash(q) \/ Exit(q)

External(p, q) ==
    /\ "external" \in Events
    /\ Reusable(q) /\ ~PortInUse(p)
    /\ proc' = [proc EXCEPT ![q] = [life |-> "serving", preset |-> p, ours |-> FALSE]]
    /\ answer' = [answer EXCEPT ![q] = "none"]
    /\ letGo' = letGo \ {q}
    /\ UNCHANGED <<tracked, handle, cmd, wish>>

\* rebind(): handles of processes that do not run are dropped.
Rebind ==
    /\ "rebind" \in Events
    /\ Overlap \/ \A p \in Presets : tracked[p] # NoHandle =>
                       IsRunning(handle[tracked[p]]) \/ Quiet(tracked[p])
    /\ tracked' = [p \in Presets |->
                      IF tracked[p] # NoHandle /\ ~IsRunning(handle[tracked[p]])
                      THEN NoHandle ELSE tracked[p]]
    /\ UNCHANGED <<handle, proc, cmd, wish, letGo, answer>>

(* os.execv() and the boot after it: objects and tasks are gone, the dead
   children are reaped, and of the processes on each preset's port one is
   adopted (a second one would be refused, "already running"). *)
Reexec ==
    /\ "reexec" \in Events
    /\ \E on \in [Presets -> Handles], of \in [Presets -> Pids \union {NoPid}] :
          LET found(p) == {q \in Pids : Live(q) /\ proc[q].preset = p}
              adopts(p, h) == on[p] = h /\ of[p] # NoPid IN
          /\ \A p, r \in Presets : p # r => on[p] # on[r]
          /\ \A p \in Presets : IF found(p) = {} THEN of[p] = NoPid ELSE of[p] \in found(p)
          /\ tracked' = [p \in Presets |-> IF of[p] = NoPid THEN NoHandle ELSE on[p]]
          /\ handle' = [h \in Handles |->
                           IF \E p \in Presets : adopts(p, h)
                           THEN LET p == CHOOSE p \in Presets : adopts(p, h) IN
                                [Fresh(p) EXCEPT !.pid = of[p], !.adopted = TRUE]
                           ELSE Fresh(NoPreset)]
          /\ wish' = [p \in Presets |-> IF of[p] # NoPid THEN "up"
                                        ELSE IF wish[p] = "up" THEN "any" ELSE wish[p]]
          /\ letGo' = {q \in Pids : Live(q) /\ \A p \in Presets : of[p] # q}
    /\ cmd' = Unlocked
    /\ UNCHANGED <<proc, answer>>

-----------------------------------------------------------------------------

UserCommand ==
    \/ \E p \in Presets : StartCalled(p) \/ StopCalled(p) \/ Release(p) \/ StreamLogs(p)
    \/ \E f, p \in Presets : RestartCalled(f, p)
    \/ \E p \in Presets, q \in Pids : Adopt(p, q)

CommandStep ==
    \/ StopEnds \/ StartFails \/ StartEnds
    \/ \E p \in Presets, h \in Handles : StopEndsStart(p, h)
    \/ \E q \in Pids : StartSpawns(q) \/ Signalled(q)

AutoRestart(h) ==
    \/ CooldownEnds(h) \/ AutoFails(h) \/ AutoEnds(h)
    \/ \E q \in Pids : AutoSpawns(h, q)

Environment ==
    \/ \E q \in Pids : \/ Listens(q)
                       \/ "crash" \in Events /\ Crash(q)
                       \/ "exit" \in Events /\ Exit(q)
    \/ \E p \in Presets, q \in Pids : External(p, q)
    \/ Rebind \/ Reexec

Next ==
    \/ UserCommand \/ CommandStep \/ Environment
    \/ \E h \in Handles : AutoRestart(h) \/ AttemptsAge(h)
    \/ \E h \in Handles, q \in Pids : WatchExit(h, q)
    \/ \E p \in Presets : NoteDeath(p)

Spec == Init /\ [][Next]_vars

-----------------------------------------------------------------------------
(* Safety *)

\* Every variable stays in its range; in particular no handle restarts its
\* process more than MaxAttempts times in one window.
TypeOK ==
    /\ tracked \in [Presets -> Handles \union {NoHandle}]
    /\ handle \in [Handles -> Handle]
    /\ proc \in [Pids -> Process]
    /\ cmd \in Command
    /\ wish \in [Presets -> {"any", "up", "down"}]
    /\ letGo \subseteq Pids
    /\ answer \in [Pids -> Answers]

Tracks(p, q) ==
    tracked[p] # NoHandle /\ (handle[tracked[p]].pid = q \/ handle[tracked[p]].spawned = q)

(* A llama-server that this backend started never runs behind its back: the
   handle of its preset tracks it or its start() is still running, unless the
   user released it ("already running" and the port check are all that keeps
   a start from losing the process of another start). *)
NoStray ==
    \A q \in Pids \ letGo :
        Live(q) /\ proc[q].ours =>
            \/ Tracks(proc[q].preset, q)
            \/ cmd.phase = "spawning" /\ cmd.pid = q

\* After a stop() that the user asked for, and until the user asks for the
\* preset again, no process is started for it (ProcessHandle.__init__: "this
\* exit was asked for, so nothing may bring the process back").
StopSticks ==
    [][\A q \in Pids :
          ~Live(q) /\ Live(q)' /\ proc'[q].ours => wish[proc'[q].preset] # "down"]_vars

\* One end of a process takes at most one of the restarts that the window
\* allows (note_death_if_gone(): "Acting here too spent two of the three").
AnsweredOnce == \A q \in Pids : answer[q] # "twice"

-----------------------------------------------------------------------------
(* The promise to the user, refined *)

\* A process that this backend started and did not let go.
Kept(q) == proc[q].ours /\ q \notin letGo

\* The servers it keeps.
Servers == {<<proc[q].preset, q>> : q \in {r \in Pids : Live(r) /\ Kept(r)}}

\* A user's start() of p that has not spawned yet; a scheduled auto-restart of p.
AskedFor(p) == cmd.phase = "preparing" /\ handle[cmd.h].preset = p
Answering(p) == \E h \in Handles :
                   handle[h].preset = p /\ handle[h].auto \in {"cooldown", "preparing"}

Due == {<<p, "asked">> : p \in {r \in Presets : AskedFor(r)}}
       \union {<<p, "fall">> : p \in {r \in Presets : Answering(r)}}

\* A process of its own ended, a handle or a command refers to it, and nobody
\* has reacted to its end.
Unanswered(q) == ~Live(q) /\ Kept(q) /\ answer[q] = "none" /\ ~Reusable(q)

Fallen == {<<proc[q].preset, q>> : q \in {r \in Pids : Unanswered(r)}}

UserStopped == {p \in Presets : wish[p] = "down"}

Promise == INSTANCE Upkeep WITH servers <- Servers, due <- Due,
                                fallen <- Fallen, stopped <- UserStopped

(* Whatever the tasks of the handles, the commands, the processes and restarts
   of the backend do in between, the user sees at most one server per preset,
   started because it was asked for or to answer the fall of one, each fall
   answered at most once, and none after a stop (ProcessHandle.__init__: "this
   exit was asked for, so nothing may bring the process back";
   note_death_if_gone(): "Acting here too spent two of the three"). *)
ImplementsUpkeep == Promise!Spec

-----------------------------------------------------------------------------
(* Liveness *)

(* Tasks that can run do run, processes load or fail, signals are delivered.
   Nothing is assumed of the user or of crashes. *)
Fairness ==
    /\ WF_vars(CommandStep)
    /\ \A h \in Handles : WF_vars(AutoRestart(h))
    /\ \A h \in Handles, q \in Pids : WF_vars(WatchExit(h, q))
    /\ \A p \in Presets : WF_vars(NoteDeath(p))
    /\ \A q \in Pids : WF_vars(Listens(q))

FairSpec == Spec /\ Fairness

\* A tracked process that crashed.
Crashed(p, q) ==
    /\ tracked[p] # NoHandle /\ handle[tracked[p]].pid = q
    /\ proc[q].life = "failed" /\ proc[q].ours

\* The crash of every tracked llama-server of ours is noticed, whether or not
\* this backend instance spawned it: a restart is scheduled, or refused because
\* the exit was asked for or the window is exhausted.
CrashIsAnswered ==
    \A p \in Presets, q \in Pids :
        Crashed(p, q) /\ answer[q] = "none" ~> answer[q] # "none" \/ ~Crashed(p, q)

=============================================================================
