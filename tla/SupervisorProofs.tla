-------------------------- MODULE SupervisorProofs --------------------------
(***************************************************************************)
(* What holds of Supervisor for all sets of presets, handles and           *)
(* processes: every variable stays in its range, whatever happens; and as  *)
(* long as no unlocked path overlaps a start of the same preset            *)
(* ("overlap", without which the code promises less: see the run           *)
(* supervisor_stray) no process is lost, no end is answered twice and a    *)
(* stop is final.  The latter follow from one inductive invariant, IInv:   *)
(* who refers to a process (_handles, _pid, a watcher, an auto-restart,    *)
(* the command under the lock), what is known of its end, and what the     *)
(* user's last word allows.                                                *)
(* On that invariant, and two facts more, rests that the supervisor        *)
(* implements Upkeep: what its user sees of servers, falls and stops.      *)
(***************************************************************************)
EXTENDS Supervisor, TLAPS

-----------------------------------------------------------------------------
(* Every variable stays in its range.  The range alone is not inductive: a
   command or an auto-restart that is half way refers to a handle and to a
   process, which must be there. *)

\* What a command or an auto-restart is in the middle of is there.
NothingMissing ==
    /\ cmd.phase # "none" => cmd.h \in Handles
    /\ cmd.phase = "spawning" => cmd.pid \in Pids
    /\ \A h \in Handles : handle[h].auto = "spawning" => handle[h].spawned \in Pids

TInv == TypeOK /\ NothingMissing

\* A new ProcessHandle is in its range.
LEMMA FreshType == ASSUME NEW p \in Presets \union {NoPreset} PROVE Fresh(p) \in Handle
BY SupervisorAssumption DEF Fresh, Handle

\* So is the object that _handle() returns.
LEMMA ObjectType ==
    ASSUME TypeOK, NEW p \in Presets, NEW h \in Handles PROVE Object(p, h) \in Handle
BY FreshType DEF Object, TypeOK

\* _schedule_autorestart() counts no more attempts than the window allows.
LEMMA ScheduleType ==
    ASSUME NEW o \in Handle
    PROVE  /\ ScheduleAutorestart(o) \in Handle
           /\ ScheduleAutorestart(o).auto \in {o.auto, "cooldown"}
           /\ ScheduleAutorestart(o).spawned = o.spawned
<1>1. CASE o.stop \/ o.attempts >= MaxAttempts \/ o.auto # "none"
  BY <1>1 DEF ScheduleAutorestart
<1>2. CASE ~(o.stop \/ o.attempts >= MaxAttempts \/ o.auto # "none")
  <2>1. o.attempts \in 0..MaxAttempts
    BY DEF Handle
  <2>2. o.attempts + 1 \in 0..MaxAttempts
    BY <1>2, <2>1, SupervisorAssumption
  <2>3. ScheduleAutorestart(o) = [o EXCEPT !.attempts = o.attempts + 1, !.auto = "cooldown"]
    BY <1>2 DEF ScheduleAutorestart
  <2> QED BY <2>2, <2>3 DEF Handle
<1> QED BY <1>1, <1>2

\* What start() leaves behind at its first await is in its range.
LEMMA BeginStartType ==
    ASSUME NEW p \in Presets, NEW h \in Handles, NEW H \in [Handles -> Handle],
           BeginStart(p, h, H),
           \A g \in Handles : H[g].auto = "spawning" => H[g].spawned \in Pids
    PROVE  /\ handle' \in [Handles -> Handle] /\ cmd' \in Command
           /\ NothingMissing'
<1>1. H[h].stop \in BOOLEAN /\ IsRunning(H[h]) \in BOOLEAN
  BY DEF Handle, IsRunning, Live
<1> DEFINE lifted == H[h].stop /\ IsRunning(H[h])
<1>2. lifted \in BOOLEAN /\ handle' = [H EXCEPT ![h].stop = lifted]
  BY <1>1 DEF BeginStart
<1>3. cmd' \in {Unlocked, [Unlocked EXCEPT !.phase = "preparing", !.h = h]}
  BY DEF BeginStart
<1> HIDE DEF lifted
<1>4. handle' \in [Handles -> Handle] /\ \A g \in Handles : handle'[g].auto = H[g].auto /\ handle'[g].spawned = H[g].spawned
  BY <1>2 DEF Handle
<1>5. cmd' \in Command /\ (cmd'.phase # "none" => cmd'.h \in Handles) /\ cmd'.phase # "spawning"
  <2>1. CASE cmd' = Unlocked
    BY <2>1 DEF Command, Unlocked
  <2>2. CASE cmd' = [Unlocked EXCEPT !.phase = "preparing", !.h = h]
    <3>1. cmd' = [phase |-> "preparing", h |-> h, pid |-> NoPid, next |-> NoPreset]
      BY <2>2 DEF Unlocked
    <3> QED BY <3>1 DEF Command
  <2> QED BY <1>3, <2>1, <2>2
<1> QED BY <1>4, <1>5 DEF NothingMissing

\* What stop() leaves behind at its await is in its range.
LEMMA BeginStopType ==
    ASSUME TInv, NEW h \in Handles, NEW next \in Presets \union {NoPreset}, BeginStop(h, next)
    PROVE  /\ handle' \in [Handles -> Handle] /\ cmd' \in Command /\ proc' \in [Pids -> Process]
           /\ NothingMissing'
<1>1. handle' \in [Handles -> Handle] /\ \A g \in Handles : handle'[g].auto = "spawning" => handle'[g].spawned \in Pids
  <2> DEFINE o == [handle[h] EXCEPT !.stop = TRUE, !.auto = "none", !.spawned = NoPid]
  <2>1. o \in Handle /\ o.auto = "none"
    BY DEF TInv, TypeOK, Handle
  <2>2. handle' = [handle EXCEPT ![h] = o]
    BY DEF BeginStop
  <2> HIDE DEF o
  <2> QED BY <2>1, <2>2 DEF TInv, TypeOK, NothingMissing
<1>2. cmd' \in Command /\ cmd'.phase = "stopping" /\ cmd'.h = h
  BY DEF BeginStop, Command, TInv, TypeOK, Handle
<1>3. proc' \in [Pids -> Process]
  BY DEF BeginStop, TInv, TypeOK, Process
<1> QED BY <1>1, <1>2, <1>3 DEF NothingMissing

\* A step that changes one handle in place keeps the handles in their range.
LEMMA HandleStepType ==
    ASSUME TInv, NEW h, NEW o \in Handle, handle' = [handle EXCEPT ![h] = o],
           o.auto = "spawning" => o.spawned \in Pids
    PROVE  /\ handle' \in [Handles -> Handle]
           /\ \A g \in Handles : handle'[g].auto = "spawning" => handle'[g].spawned \in Pids
BY DEF TInv, TypeOK, NothingMissing

\* The process of a start() is in its range.
LEMMA SpawnedType ==
    ASSUME TypeOK, NEW q \in Pids, NEW p \in Presets \union {NoPreset}, Spawned(q, p)
    PROVE  proc' \in [Pids -> Process] /\ letGo' \subseteq Pids /\ answer' \in [Pids -> Answers]
BY DEF Spawned, TypeOK, Process, Answers

\* The user's commands keep every variable in its range.
LEMMA UserCommandType == ASSUME TInv, UserCommand PROVE TInv'
<1> USE DEF TInv
<1>1. ASSUME NEW p \in Presets, StartCalled(p) PROVE TInv'
  <2>1. PICK h \in Handles : /\ BeginStart(p, h, [handle EXCEPT ![h] = Object(p, h)])
                             /\ tracked' = [tracked EXCEPT ![p] = h]
    BY <1>1 DEF StartCalled
  <2> DEFINE H == [handle EXCEPT ![h] = Object(p, h)]
  <2>2. H \in [Handles -> Handle] /\ \A g \in Handles : H[g].auto = "spawning" => H[g].spawned \in Pids
    BY ObjectType DEF TypeOK, NothingMissing, Object, Fresh
  <2>3. BeginStart(p, h, H)
    BY <2>1
  <2> HIDE DEF H
  <2>4. handle' \in [Handles -> Handle] /\ cmd' \in Command /\ NothingMissing'
    BY <2>2, <2>3, BeginStartType
  <2> QED BY <1>1, <2>1, <2>4 DEF StartCalled, TypeOK
<1>2. ASSUME NEW p \in Presets, StopCalled(p) PROVE TInv'
  <2>1. tracked[p] \in Handles /\ BeginStop(tracked[p], NoPreset)
    BY <1>2 DEF StopCalled, TypeOK
  <2> QED BY <1>2, <2>1, BeginStopType DEF StopCalled, TypeOK
<1>3. ASSUME NEW f \in Presets, NEW p \in Presets, RestartCalled(f, p) PROVE TInv'
  <2>1. tracked[f] \in Handles /\ BeginStop(tracked[f], p)
    BY <1>3 DEF RestartCalled, TypeOK
  <2> QED BY <1>3, <2>1, BeginStopType DEF RestartCalled, TypeOK
<1>4. ASSUME NEW p \in Presets, NEW q \in Pids, Adopt(p, q) PROVE TInv'
  <2>1. PICK h \in Handles :
          /\ tracked' = [tracked EXCEPT ![p] = h]
          /\ handle' = [handle EXCEPT ![h] = [Object(p, h) EXCEPT !.pid = q, !.adopted = TRUE]]
    BY <1>4 DEF Adopt
  <2> DEFINE o == [Object(p, h) EXCEPT !.pid = q, !.adopted = TRUE]
  <2>2. o \in Handle /\ (o.auto = "spawning" => o.spawned \in Pids)
    <3>1. Object(p, h) \in Handle /\ (Object(p, h).auto = "spawning" => Object(p, h).spawned \in Pids)
      BY ObjectType DEF Object, Fresh, NothingMissing
    <3> QED BY <3>1 DEF Handle
  <2>3. handle' = [handle EXCEPT ![h] = o]
    BY <2>1
  <2> HIDE DEF o
  <2>4. /\ handle' \in [Handles -> Handle]
        /\ \A g \in Handles : handle'[g].auto = "spawning" => handle'[g].spawned \in Pids
    BY <2>2, <2>3, HandleStepType
  <2> QED BY <1>4, <2>1, <2>4 DEF Adopt, TypeOK, NothingMissing
<1>5. ASSUME NEW p \in Presets, StreamLogs(p) PROVE TInv'
  <2>1. PICK h \in Handles : /\ tracked' = [tracked EXCEPT ![p] = h]
                             /\ handle' = [handle EXCEPT ![h] = Fresh(p)]
    BY <1>5 DEF StreamLogs
  <2>2. Fresh(p) \in Handle /\ Fresh(p).auto = "none"
    BY FreshType DEF Fresh
  <2>3. /\ handle' \in [Handles -> Handle]
        /\ \A g \in Handles : handle'[g].auto = "spawning" => handle'[g].spawned \in Pids
    BY <2>1, <2>2, HandleStepType
  <2> QED BY <1>5, <2>1, <2>3 DEF StreamLogs, TypeOK, NothingMissing
<1>6. ASSUME NEW p \in Presets, Release(p) PROVE TInv'
  <2> DEFINE o == Reset(handle[tracked[p]])
  <2>1. o \in Handle /\ (o.auto = "spawning" => o.spawned \in Pids)
    <3>1. handle[tracked[p]] \in Handle /\ (handle[tracked[p]].auto = "spawning" => handle[tracked[p]].spawned \in Pids)
      BY <1>6 DEF Release, TypeOK, NothingMissing
    <3> QED BY <3>1 DEF Reset, Handle
  <2>2. handle' = [handle EXCEPT ![tracked[p]] = o]
    BY <1>6 DEF Release
  <2> HIDE DEF o
  <2>3. /\ handle' \in [Handles -> Handle]
        /\ \A g \in Handles : handle'[g].auto = "spawning" => handle'[g].spawned \in Pids
    BY <2>1, <2>2, HandleStepType
  <2>4. letGo' \subseteq Pids
    BY <1>6 DEF Release, TypeOK, Handle
  <2> QED BY <1>6, <2>3, <2>4 DEF Release, TypeOK, NothingMissing
<1> QED BY <1>1, <1>2, <1>3, <1>4, <1>5, <1>6 DEF UserCommand

\* A handle after stop() is one, and its auto-restart is as it was.
LEMMA StoppedType ==
    ASSUME NEW o \in Handle
    PROVE  /\ Stopped(o) \in Handle
           /\ Stopped(o).auto = o.auto /\ Stopped(o).spawned = o.spawned
BY DEF Stopped, Reset, Handle

\* A handle with its new process is one, and its auto-restart is as it was.
LEMMA AttachType ==
    ASSUME NEW o \in Handle, NEW q \in Pids
    PROVE  Attach(o, q) \in Handle /\ Attach(o, q).auto = o.auto /\ Attach(o, q).spawned = o.spawned
BY DEF Attach, Handle

\* A process that changes its life stays a process.
LEMMA LifeType ==
    ASSUME TypeOK, NEW q \in Pids, NEW v \in {"failed", "ended", "serving"},
           proc' = [proc EXCEPT ![q].life = v]
    PROVE  proc' \in [Pids -> Process]
BY DEF TypeOK, Process

\* The steps of a locked command keep every variable in its range.
LEMMA CommandStepType == ASSUME TInv, CommandStep PROVE TInv'
<1> USE DEF TInv
<1>1. CASE StopEnds
  <2>1. cmd.h \in Handles /\ Stopped(handle[cmd.h]) \in Handle
    BY <1>1, StoppedType DEF StopEnds, NothingMissing, TypeOK
  <2>2. /\ handle' \in [Handles -> Handle]
        /\ \A g \in Handles : handle'[g].auto = "spawning" => handle'[g].spawned \in Pids
    BY <1>1, <2>1, StoppedType, HandleStepType DEF StopEnds, NothingMissing, TypeOK
  <2>3. cmd' \in Command /\ cmd'.phase = "none"
    BY <1>1 DEF StopEnds, Unlocked, Command
  <2>4. wish' \in [Presets -> {"any", "up", "down"}]
    BY <1>1 DEF StopEnds, TypeOK
  <2> QED BY <1>1, <2>2, <2>3, <2>4 DEF StopEnds, TypeOK, NothingMissing
<1>2. CASE StartFails
  <2>1. cmd' \in Command /\ cmd'.phase = "none"
    BY <1>2 DEF StartFails, Unlocked, Command
  <2> QED BY <1>2, <2>1 DEF StartFails, TypeOK, NothingMissing
<1>3. CASE StartEnds
  <2>1. cmd.h \in Handles /\ cmd.pid \in Pids /\ handle[cmd.h] \in Handle
    BY <1>3 DEF StartEnds, NothingMissing, TypeOK
  <2>2. /\ handle' \in [Handles -> Handle]
        /\ \A g \in Handles : handle'[g].auto = "spawning" => handle'[g].spawned \in Pids
    BY <1>3, <2>1, AttachType, HandleStepType DEF StartEnds, NothingMissing
  <2>3. cmd' \in Command /\ cmd'.phase = "none"
    BY <1>3 DEF StartEnds, Unlocked, Command
  <2>4. wish' \in [Presets -> {"any", "up", "down"}]
    BY <1>3 DEF StartEnds, TypeOK
  <2> QED BY <1>3, <2>2, <2>3, <2>4 DEF StartEnds, TypeOK, NothingMissing
<1>4. ASSUME NEW p \in Presets, NEW h \in Handles, StopEndsStart(p, h) PROVE TInv'
  <2> DEFINE from == handle[cmd.h].preset
             G == [handle EXCEPT ![cmd.h] = Stopped(@)]
             H == IF p = from THEN G ELSE [G EXCEPT ![h] = Object(p, h)]
  <2>1. cmd.h \in Handles /\ Stopped(handle[cmd.h]) \in Handle
    BY <1>4, StoppedType DEF StopEndsStart, NothingMissing, TypeOK
  <2>2. G \in [Handles -> Handle] /\ \A g \in Handles : G[g].auto = "spawning" => G[g].spawned \in Pids
    BY <2>1, StoppedType DEF NothingMissing, TypeOK
  <2>3. BeginStart(p, h, H) /\ tracked' \in {tracked, [tracked EXCEPT ![p] = h]}
    BY <1>4 DEF StopEndsStart
  <2>4. Object(p, h) \in Handle /\ (Object(p, h).auto = "spawning" => Object(p, h).spawned \in Pids)
    BY ObjectType DEF Object, Fresh, NothingMissing
  <2> HIDE DEF G
  <2>5. H \in [Handles -> Handle] /\ \A g \in Handles : H[g].auto = "spawning" => H[g].spawned \in Pids
    BY <2>2, <2>4
  <2> HIDE DEF H
  <2>6. handle' \in [Handles -> Handle] /\ cmd' \in Command /\ NothingMissing'
    BY <2>3, <2>5, BeginStartType
  <2>7. wish' \in [Presets -> {"any", "up", "down"}]
    BY <1>4 DEF StopEndsStart, TypeOK
  <2> QED BY <1>4, <2>3, <2>6, <2>7 DEF StopEndsStart, TypeOK
<1>5. ASSUME NEW q \in Pids, StartSpawns(q) PROVE TInv'
  <2>1. cmd.h \in Handles /\ handle[cmd.h].preset \in Presets \union {NoPreset}
    BY <1>5 DEF StartSpawns, NothingMissing, TypeOK, Handle
  <2>2. proc' \in [Pids -> Process] /\ letGo' \subseteq Pids /\ answer' \in [Pids -> Answers]
    BY <1>5, <2>1, SpawnedType DEF StartSpawns
  <2>3. cmd' \in Command /\ cmd'.h = cmd.h /\ cmd'.pid = q
    BY <1>5 DEF StartSpawns, TypeOK, Command
  <2> QED BY <1>5, <2>1, <2>2, <2>3 DEF StartSpawns, TypeOK, NothingMissing
<1>6. ASSUME NEW q \in Pids, Signalled(q) PROVE TInv'
  <2>1. proc' \in [Pids -> Process]
    BY <1>6, LifeType DEF Signalled, Crash, Exit
  <2> QED BY <1>6, <2>1 DEF Signalled, Crash, Exit, TypeOK, NothingMissing
<1> QED BY <1>1, <1>2, <1>3, <1>4, <1>5, <1>6 DEF CommandStep

\* What _schedule_autorestart() answers is an answer.
LEMMA AnsweredType ==
    ASSUME TypeOK, NEW o, NEW q \in Pids PROVE Answered(o, q) \in [Pids -> Answers]
BY DEF Answered, TypeOK, Answers

\* The tasks of a handle keep every variable in its range.
LEMMA TaskType ==
    ASSUME TInv, NEW h \in Handles,
           AutoRestart(h) \/ AttemptsAge(h) \/ \E q \in Pids : WatchExit(h, q)
    PROVE  TInv'
<1> USE DEF TInv
<1>o. handle[h] \in Handle /\ (handle[h].auto = "spawning" => handle[h].spawned \in Pids)
  BY DEF TypeOK, NothingMissing
<1>1. CASE CooldownEnds(h)
  <2>1. PICK o \in Handle : o.auto # "spawning" /\ handle' = [handle EXCEPT ![h] = o]
    <3> DEFINE o1 == [handle[h] EXCEPT !.auto = "none"]
               o2 == [handle[h] EXCEPT !.pid = NoPid, !.auto = "none"]
               o3 == [handle[h] EXCEPT !.pid = NoPid, !.auto = "preparing"]
    <3>1. \A o \in {o1, o2, o3} : o \in Handle /\ o.auto # "spawning"
      BY <1>o DEF Handle
    <3>2. \E o \in {o1, o2, o3} : handle' = [handle EXCEPT ![h] = o]
      BY <1>1 DEF CooldownEnds
    <3> QED BY <3>1, <3>2
  <2> QED BY <1>1, <2>1, HandleStepType DEF CooldownEnds, TypeOK, NothingMissing
<1>2. CASE AutoFails(h)
  <2> DEFINE o == [handle[h] EXCEPT !.auto = "none"]
  <2>1. o \in Handle /\ o.auto # "spawning" /\ handle' = [handle EXCEPT ![h] = o]
    BY <1>2, <1>o DEF AutoFails, Handle
  <2> HIDE DEF o
  <2> QED BY <1>2, <2>1, HandleStepType DEF AutoFails, TypeOK, NothingMissing
<1>3. CASE AutoEnds(h)
  <2> DEFINE o == [Attach(handle[h], handle[h].spawned) EXCEPT !.auto = "none", !.spawned = NoPid]
  <2>1. o \in Handle /\ o.auto # "spawning" /\ handle' = [handle EXCEPT ![h] = o]
    BY <1>3, <1>o DEF AutoEnds, Attach, Handle
  <2> HIDE DEF o
  <2> QED BY <1>3, <2>1, HandleStepType DEF AutoEnds, TypeOK, NothingMissing
<1>4. ASSUME NEW q \in Pids, AutoSpawns(h, q) PROVE TInv'
  <2> DEFINE o == [handle[h] EXCEPT !.auto = "spawning", !.spawned = q]
  <2>1. o \in Handle /\ o.spawned = q /\ handle' = [handle EXCEPT ![h] = o]
    BY <1>4, <1>o DEF AutoSpawns, Handle
  <2>2. proc' \in [Pids -> Process] /\ letGo' \subseteq Pids /\ answer' \in [Pids -> Answers]
    BY <1>4, <1>o, SpawnedType DEF AutoSpawns, Handle
  <2> HIDE DEF o
  <2> QED BY <1>4, <2>1, <2>2, HandleStepType DEF AutoSpawns, TypeOK, NothingMissing
<1>5. CASE AttemptsAge(h)
  <2>1. PICK n \in 0..MaxAttempts : handle' = [handle EXCEPT ![h].attempts = n]
    BY <1>5 DEF AttemptsAge
  <2> DEFINE o == [handle[h] EXCEPT !.attempts = n]
  <2>2. o \in Handle /\ o.auto = handle[h].auto /\ o.spawned = handle[h].spawned /\ handle' = [handle EXCEPT ![h] = o]
    BY <2>1, <1>o DEF Handle
  <2> HIDE DEF o
  <2> QED BY <1>5, <1>o, <2>2, HandleStepType DEF AttemptsAge, TypeOK, NothingMissing
<1>6. ASSUME NEW q \in Pids, WatchExit(h, q) PROVE TInv'
  <2>1. PICK then \in {handle[h], ScheduleAutorestart(handle[h])} :
           handle' = [handle EXCEPT ![h] = [then EXCEPT !.watch = @ \ {q}]]
    BY <1>6 DEF WatchExit
  <2> DEFINE o == [then EXCEPT !.watch = @ \ {q}]
  <2>2. then \in Handle /\ (then.auto = "spawning" => then.spawned \in Pids)
    BY <1>o, ScheduleType
  <2>3. o \in Handle /\ (o.auto = "spawning" => o.spawned \in Pids) /\ handle' = [handle EXCEPT ![h] = o]
    BY <2>1, <2>2 DEF Handle
  <2>4. answer' \in [Pids -> Answers]
    BY <1>6, AnsweredType DEF WatchExit, TypeOK, Answers
  <2>5. UNCHANGED <<tracked, proc, cmd, wish, letGo>>
    BY <1>6 DEF WatchExit
  <2> HIDE DEF o
  <2>6. /\ handle' \in [Handles -> Handle]
        /\ \A g \in Handles : handle'[g].auto = "spawning" => handle'[g].spawned \in Pids
    BY <2>3, HandleStepType
  <2> QED BY <2>4, <2>5, <2>6 DEF TypeOK, NothingMissing
<1> QED BY <1>1, <1>2, <1>3, <1>4, <1>5, <1>6 DEF AutoRestart

\* So does note_death_if_gone().
LEMMA NoteDeathType == ASSUME TInv, NEW p \in Presets, NoteDeath(p) PROVE TInv'
<1> USE DEF TInv
<1> DEFINE h == tracked[p]
           gone == [handle[h] EXCEPT !.pid = NoPid]
<1>1. h \in Handles /\ handle[h].pid \in Pids
  BY DEF NoteDeath, Polled, TypeOK, Handle
<1>2. gone \in Handle /\ (gone.auto = "spawning" => gone.spawned \in Pids)
  BY <1>1 DEF TypeOK, NothingMissing, Handle
<1>3. \E o \in {gone, ScheduleAutorestart(gone)} : handle' = [handle EXCEPT ![h] = o]
  BY DEF NoteDeath
<1>4. answer' \in [Pids -> Answers]
  BY <1>1, AnsweredType DEF NoteDeath, TypeOK
<1> HIDE DEF gone
<1>5. PICK o \in Handle : (o.auto = "spawning" => o.spawned \in Pids) /\ handle' = [handle EXCEPT ![h] = o]
  BY <1>2, <1>3, ScheduleType
<1> QED BY <1>4, <1>5, HandleStepType DEF NoteDeath, TypeOK, NothingMissing

\* So does what happens to the processes and to the backend.
LEMMA EnvironmentType == ASSUME TInv, Environment PROVE TInv'
<1> USE DEF TInv
<1>1. ASSUME NEW q \in Pids, Listens(q) \/ Crash(q) \/ Exit(q) PROVE TInv'
  <2>1. proc' \in [Pids -> Process]
    BY <1>1, LifeType DEF Listens, Crash, Exit
  <2> QED BY <1>1, <2>1 DEF Listens, Crash, Exit, TypeOK, NothingMissing
<1>2. ASSUME NEW p \in Presets, NEW q \in Pids, External(p, q) PROVE TInv'
  BY <1>2 DEF External, TypeOK, NothingMissing, Process, Answers
<1>3. CASE Rebind
  BY <1>3 DEF Rebind, TypeOK, NothingMissing
<1>4. CASE Reexec
  <2>1. PICK on \in [Presets -> Handles], of \in [Presets -> Pids \union {NoPid}] :
          /\ tracked' = [p \in Presets |-> IF of[p] = NoPid THEN NoHandle ELSE on[p]]
          /\ handle' = [h \in Handles |->
                           IF \E p \in Presets : on[p] = h /\ of[p] # NoPid
                           THEN LET p == CHOOSE p \in Presets : on[p] = h /\ of[p] # NoPid IN
                                [Fresh(p) EXCEPT !.pid = of[p], !.adopted = TRUE]
                           ELSE Fresh(NoPreset)]
          /\ wish' = [p \in Presets |-> IF of[p] # NoPid THEN "up"
                                        ELSE IF wish[p] = "up" THEN "any" ELSE wish[p]]
          /\ letGo' = {q \in Pids : Live(q) /\ \A p \in Presets : of[p] # q}
    BY <1>4 DEF Reexec
  <2>2. ASSUME NEW h \in Handles PROVE handle'[h] \in Handle /\ handle'[h].auto = "none"
    <3>1. CASE \E p \in Presets : on[p] = h /\ of[p] # NoPid
      <4>1. PICK p \in Presets : handle'[h] = [Fresh(p) EXCEPT !.pid = of[p], !.adopted = TRUE]
        BY <2>1, <3>1
      <4>2. of[p] \in Pids \union {NoPid}
        BY <2>1
      <4> DEFINE o == Fresh(p)
      <4>3. o \in Handle /\ o.auto = "none"
        BY FreshType DEF Fresh
      <4> HIDE DEF o
      <4>4. [o EXCEPT !.pid = of[p], !.adopted = TRUE] \in Handle
        BY <4>2, <4>3 DEF Handle
      <4>5. [o EXCEPT !.pid = of[p], !.adopted = TRUE].auto = "none"
        BY <4>3 DEF Handle
      <4> QED BY <4>1, <4>4, <4>5 DEF o
    <3>2. CASE ~ \E p \in Presets : on[p] = h /\ of[p] # NoPid
      BY <2>1, <3>2, FreshType DEF Fresh
    <3> QED BY <3>1, <3>2
  <2>3. handle' \in [Handles -> Handle]
    BY <2>1, <2>2
  <2>4. cmd' \in Command /\ cmd'.phase = "none"
    BY <1>4 DEF Reexec, Unlocked, Command
  <2> QED BY <1>4, <2>1, <2>2, <2>3, <2>4 DEF Reexec, TypeOK, NothingMissing
<1> QED BY <1>1, <1>2, <1>3, <1>4 DEF Environment

\* A new supervisor is in range.
LEMMA TypeInit == ASSUME Init PROVE TInv
<1>1. handle \in [Handles -> Handle]
  BY FreshType DEF Init
<1>2. proc \in [Pids -> Process] /\ cmd \in Command
  BY DEF Init, Process, Command, Unlocked
<1> QED BY <1>1, <1>2 DEF Init, TInv, TypeOK, NothingMissing, Unlocked, Fresh, Answers

\* Every step keeps it there.
LEMMA TypeStep == ASSUME TInv, [Next]_vars PROVE TInv'
<1>1. CASE UNCHANGED vars
  BY <1>1 DEF vars, TInv, TypeOK, NothingMissing
<1> QED
  BY <1>1, UserCommandType, CommandStepType, EnvironmentType, TaskType, NoteDeathType DEF Next

\* So it stays there.
LEMMA TypesHold == Spec => []TInv
<1>1. Init => TInv
  BY TypeInit
<1>2. TInv /\ [Next]_vars => TInv'
  BY TypeStep
<1> QED BY <1>1, <1>2, PTL DEF Spec

\* Every variable stays in its range; in particular no handle restarts its
\* process more often than the window allows.
THEOREM TypeCorrect == Spec => []TypeOK
<1>1. TInv => TypeOK
  BY DEF TInv
<1> QED BY <1>1, TypesHold, PTL

-----------------------------------------------------------------------------
(* The inductive invariant *)

\* The table still has this handle: get() and _handle() return it.
Mine(h) == handle[h].preset \in Presets /\ tracked[handle[h].preset] = h

\* The table and the handles agree on the preset, and a handle that still has
\* a process or a task is in the table.
TablesAgree ==
    /\ \A p \in Presets : tracked[p] # NoHandle => handle[tracked[p]].preset = p
    /\ \A h \in Handles : ~Quiet(h) => Mine(h)

\* A stop cancels the auto-restart, start() inside one has cleared _pid, and
\* only a spawn that is under way has a process.
AutoSound(h) ==
    /\ handle[h].stop => handle[h].auto = "none"
    /\ InAutoStart(handle[h]) => handle[h].pid = NoPid
    /\ handle[h].auto = "spawning" <=> handle[h].spawned # NoPid

\* An exit watcher waits for the handle's own process or for one that ended.
WatchSound(h) ==
    \A q \in handle[h].watch :
        /\ Live(q) => handle[h].pid = q
        /\ handle[h].pid = q => ~handle[h].adopted
        /\ handle[h].spawned # q

\* The handle, or the command that works on it, refers to the process.
Holds(h, q) ==
    \/ handle[h].pid = q \/ handle[h].spawned = q \/ q \in handle[h].watch
    \/ cmd.h = h /\ cmd.pid = q

\* Every process a handle refers to serves the preset of the handle.
PresetSound(h) ==
    Mine(h) => \A q \in Pids : Holds(h, q) => proc[q].preset = handle[h].preset

\* The handle has yet to answer the end of the process.
Awaits(h, q) ==
    \/ q \in handle[h].watch \/ handle[h].spawned = q
    \/ handle[h].adopted /\ handle[h].pid = q
    \/ cmd.phase = "spawning" /\ cmd.h = h /\ cmd.pid = q

\* An end that is still awaited has not been answered: two tasks never wait
\* for the same one.
AnswerSound(h) ==
    Mine(h) => \A q \in Pids : Awaits(h, q) => answer[q] = "none"

\* After the user's stop nothing is scheduled, and what may still be scheduled
\* for a process that runs or is watched meets _stop_requested.
WishSound(h) ==
    Mine(h) /\ wish[handle[h].preset] = "down" =>
        /\ handle[h].auto = "none"
        /\ handle[h].stop \/ (handle[h].pid = NoPid /\ handle[h].watch = {})

HandleSound(h) ==
    AutoSound(h) /\ WatchSound(h) /\ PresetSound(h) /\ AnswerSound(h) /\ WishSound(h)

\* A stop() under way has set _stop_requested; a start() under way works on a
\* handle with no process and no auto-restart, for a preset that is wanted.
CommandSound ==
    /\ cmd.phase = "none" => cmd = Unlocked
    /\ cmd.phase = "stopping" => handle[cmd.h].stop
    /\ InStart(cmd.h) => /\ ~IsRunning(handle[cmd.h]) /\ ~InAutoStart(handle[cmd.h])
                         /\ wish[handle[cmd.h].preset] # "down"
    /\ cmd.phase = "spawning" => /\ handle[cmd.h].pid # cmd.pid
                                 /\ cmd.pid \notin handle[cmd.h].watch

\* Nobody has answered the end of a process that runs.
LiveSound == \A q \in Pids : Live(q) => answer[q] = "none" /\ proc[q].preset \in Presets

Sound ==
    /\ TablesAgree /\ CommandSound /\ LiveSound /\ NoStray /\ AnsweredOnce
    /\ \A h \in Handles : HandleSound(h)

IInv == TInv /\ Sound

\* No handle that counts refers to the process, which does not run.
Free(q) == ~Live(q) /\ \A h \in Handles : Mine(h) => ~Holds(h, q)

-----------------------------------------------------------------------------
(* Lemmas about handles and steps *)

\* A handle is dropped exactly when its preset does not track it.
LEMMA DroppedIsNotMine ==
    ASSUME TInv, TablesAgree, NEW h \in Handles PROVE Dropped(h) <=> ~Mine(h)
BY SupervisorAssumption DEF TInv, TypeOK, TablesAgree, Dropped, Mine

\* No two tracked handles hold the same process: it has one preset.
LEMMA SoleHolder ==
    ASSUME IInv, NEW g \in Handles, NEW h \in Handles, NEW q \in Pids,
           Mine(g), Mine(h), Holds(g, q), Holds(h, q)
    PROVE  g = h
BY DEF IInv, Sound, HandleSound, PresetSound, Mine

\* An id that may be used again is free.
LEMMA ReusableIsFree ==
    ASSUME IInv, NEW q \in Pids, Reusable(q)
    PROVE  Free(q) /\ cmd.pid # q
BY DroppedIsNotMine DEF Reusable, Holds, IInv, Sound, Free

\* The fields of a handle, for the leaves that need no more of its type.
LEMMA HandleFields == ASSUME TInv, NEW h \in Handles
  PROVE /\ handle[h].preset \in Presets \union {NoPreset} /\ handle[h].pid \in Pids \union {NoPid}
        /\ handle[h].adopted \in BOOLEAN /\ handle[h].stop \in BOOLEAN /\ handle[h].watch \subseteq Pids
        /\ handle[h].auto \in {"none", "cooldown", "preparing", "spawning"}
        /\ handle[h].spawned \in Pids \union {NoPid}
        /\ handle[h] \in Handle
BY DEF TInv, TypeOK, Handle

\* The frame of every step but rebind() and a restart: the handles outside S
\* are as they were, and those in S are sound after the step.
LEMMA Frame ==
    ASSUME IInv, TInv', NEW S \in SUBSET Handles,
           \A g \in Handles \ S :
              handle'[g] = handle[g] /\ (Mine(g)' <=> Mine(g)) /\ (cmd' = cmd \/ (cmd.h # g /\ cmd'.h # g)),
           \A q \in Pids : Free(q) \/ (proc'[q].preset = proc[q].preset /\ (Live(q)' => Live(q))),
           \A q \in Pids : answer'[q] = answer[q] \/ answer'[q] = "none"
                             \/ \E h \in S : Mine(h) /\ Holds(h, q),
           \A p \in Presets : wish'[p] = wish[p] \/ wish'[p] # "down" \/ tracked'[p] \in S,
           \A p \in Presets : tracked'[p] # NoHandle => handle'[tracked'[p]].preset = p,
           \A h \in S : Mine(h)' /\ HandleSound(h)'
    PROVE  TablesAgree' /\ \A h \in Handles : HandleSound(h)'
<1> SUFFICES ASSUME NEW g \in Handles \ S
             PROVE  (~Quiet(g)' => Mine(g)') /\ HandleSound(g)'
  BY DEF TablesAgree
<1>1. ~Quiet(g)' => Mine(g)'
  BY DEF IInv, Sound, TablesAgree, Quiet
<1>2. HandleSound(g)
  BY DEF IInv, Sound
<1>3. AutoSound(g)'
  BY <1>2 DEF HandleSound, AutoSound, InAutoStart
<1>4. \A q : Holds(g, q)' <=> Holds(g, q)
  BY DEF Holds
<1>5. \A q : Awaits(g, q)' <=> Awaits(g, q)
  BY DEF Awaits
<1>6. \A q \in Pids : Mine(g) /\ Holds(g, q) => (Live(q)' => Live(q)) /\ proc'[q].preset = proc[q].preset
  BY DEF Free
<1>7. WatchSound(g)'
  <2>1. ASSUME handle[g].watch # {} PROVE Mine(g)
    BY <2>1 DEF IInv, Sound, TablesAgree, Quiet
  <2>2. \A q \in handle[g].watch : q \in Pids /\ Holds(g, q)
    BY HandleFields DEF Holds, IInv
  <2> QED BY <1>2, <1>6, <2>1, <2>2 DEF HandleSound, WatchSound
<1>8. PresetSound(g)'
  BY <1>2, <1>4, <1>6 DEF HandleSound, PresetSound
<1>9. AnswerSound(g)'
  <2>1. \A q \in Pids : Awaits(g, q) => Holds(g, q)
    BY DEF Awaits, Holds
  <2>2. ASSUME Mine(g), NEW q \in Pids, Awaits(g, q) PROVE answer'[q] = "none"
    <3>1. ~ \E h \in S : Mine(h) /\ Holds(h, q)
      BY <2>1, <2>2, SoleHolder
    <3>2. answer[q] = "none"
      BY <1>2, <2>2 DEF HandleSound, AnswerSound
    <3> QED BY <3>1, <3>2
  <2> QED BY <1>5, <2>2 DEF AnswerSound
<1>10. WishSound(g)'
  BY <1>2 DEF HandleSound, WishSound, Mine
<1> QED BY <1>1, <1>3, <1>7, <1>8, <1>9, <1>10 DEF HandleSound

\* A process that loads, crashes or exits: no handle notices yet.
LEMMA Dies ==
    ASSUME IInv, TInv', NEW q \in Pids, NEW v \in {"failed", "ended", "serving"}, v = "serving" => Live(q),
           proc' = [proc EXCEPT ![q].life = v], UNCHANGED <<tracked, handle, cmd, wish, letGo, answer>>
    PROVE Sound'
<1>1. \A r \in Pids : /\ Live(r)' => Live(r)
                      /\ proc'[r].preset = proc[r].preset /\ proc'[r].ours = proc[r].ours
  BY DEF IInv, TInv, TypeOK, Process, Live
<1>2. TablesAgree' /\ \A h \in Handles : HandleSound(h)'
  <2>1. \A g \in Handles : handle'[g] = handle[g] /\ (Mine(g)' <=> Mine(g))
    BY DEF Mine
  <2>2. \A p \in Presets : tracked'[p] # NoHandle => handle'[tracked'[p]].preset = p
    BY DEF IInv, Sound, TablesAgree
  <2>3. {} \in SUBSET Handles /\ \A h \in {} : Mine(h)' /\ HandleSound(h)'
    OBVIOUS
  <2>4. /\ \A r \in Pids : Free(r) \/ (proc'[r].preset = proc[r].preset /\ (Live(r)' => Live(r)))
        /\ \A p \in Presets : wish'[p] = wish[p] \/ wish'[p] # "down" \/ tracked'[p] \in {}
        /\ \A r \in Pids : answer'[r] = answer[r] \/ answer'[r] = "none"
                             \/ \E h \in {} : Mine(h) /\ Holds(h, r)
        /\ \A g \in Handles \ {} :
              handle'[g] = handle[g] /\ (Mine(g)' <=> Mine(g)) /\ (cmd' = cmd \/ (cmd.h # g /\ cmd'.h # g))
    BY <1>1, <2>1
  <2> QED BY <2>2, <2>3, <2>4, Frame
<1>4. CommandSound'
  <2>1. ASSUME InStart(cmd.h) PROVE ~IsRunning(handle[cmd.h])'
    BY <2>1, <1>1, HandleFields DEF IInv, Sound, CommandSound, IsRunning, TInv, NothingMissing, InStart
  <2> QED BY <2>1 DEF IInv, Sound, CommandSound, InStart, InAutoStart, Unlocked
<1>6. LiveSound' /\ AnsweredOnce'
  BY <1>1 DEF IInv, Sound, LiveSound, AnsweredOnce
<1>7. NoStray'
  BY <1>1 DEF IInv, Sound, NoStray, Tracks
<1> QED BY <1>2, <1>4, <1>6, <1>7 DEF Sound

\* The frame of a step that changes one tracked handle, in place.
LEMMA FrameOne ==
    ASSUME IInv, TInv', NEW h \in Handles, Mine(h), NEW o, handle' = [handle EXCEPT ![h] = o],
           o.preset = handle[h].preset, tracked' = tracked, proc' = proc,
           cmd' = cmd \/ (cmd.h \in {h, NoHandle} /\ cmd'.h \in {h, NoHandle}),
           \A q \in Pids : answer'[q] = answer[q] \/ Holds(h, q),
           \A p \in Presets : wish'[p] = wish[p] \/ p = handle[h].preset,
           HandleSound(h)'
    PROVE  /\ Mine(h)' /\ TablesAgree' /\ \A g \in Handles : HandleSound(g)'
           /\ handle'[h] = o /\ \A g \in Handles \ {h} : handle'[g] = handle[g]
<1>1. handle'[h] = o /\ \A g \in Handles \ {h} : handle'[g] = handle[g]
  BY DEF IInv, TInv, TypeOK
<1>2. Mine(h)' /\ \A g \in Handles \ {h} : Mine(g)' <=> Mine(g)
  BY <1>1 DEF Mine
<1>3. \A p \in Presets : tracked'[p] # NoHandle => handle'[tracked'[p]].preset = p
  BY <1>1 DEF IInv, Sound, TablesAgree, TInv, TypeOK
<1>4. /\ \A q \in Pids : Free(q) \/ (proc'[q].preset = proc[q].preset /\ (Live(q)' => Live(q)))
      /\ \A q \in Pids : answer'[q] = answer[q] \/ answer'[q] = "none"
                             \/ \E g \in {h} : Mine(g) /\ Holds(g, q)
      /\ \A p \in Presets : wish'[p] = wish[p] \/ wish'[p] # "down" \/ tracked'[p] \in {h}
  BY DEF Live, Mine
<1>5. \A g \in Handles \ {h} : handle'[g] = handle[g] /\ (Mine(g)' <=> Mine(g))
                                 /\ (cmd' = cmd \/ (cmd.h # g /\ cmd'.h # g))
  BY <1>1, <1>2, SupervisorAssumption
<1>6. {h} \in SUBSET Handles /\ \A g \in {h} : Mine(g)' /\ HandleSound(g)'
  BY <1>2
<1>7. TablesAgree' /\ \A g \in Handles : HandleSound(g)'
  BY <1>3, <1>4, <1>5, <1>6, Frame
<1> QED BY <1>1, <1>2, <1>7


\* A task's step that drops references, and perhaps answers the end of a
\* process that the handle held.
LEMMA LessHeld ==
    ASSUME IInv, TInv', NEW h \in Handles, Mine(h), NEW o \in Handle, handle' = [handle EXCEPT ![h] = o],
           UNCHANGED <<tracked, proc, cmd, wish, letGo>>,
           o.preset = handle[h].preset, o.stop = handle[h].stop, o.adopted = handle[h].adopted,
           o.spawned = handle[h].spawned, o.watch \subseteq handle[h].watch,
           o.pid = handle[h].pid \/ (o.pid = NoPid /\ ~IsRunning(handle[h])),
           o.stop => o.auto = "none",
           o.auto = "spawning" <=> handle[h].auto = "spawning",
           InAutoStart(o) => o.pid = NoPid /\ ~InStart(h),
           \/ o.auto = "none" \/ handle[h].auto # "none"
           \/ ~o.stop /\ (handle[h].pid # NoPid \/ handle[h].watch # {}),
           \A q \in Pids : \/ answer'[q] = answer[q]
                           \/ /\ ~Live(q) /\ Holds(h, q) /\ answer'[q] # "twice"
                              /\ q \notin o.watch /\ o.spawned # q /\ ~(o.adopted /\ o.pid = q)
                              /\ ~(cmd.phase = "spawning" /\ cmd.pid = q)
    PROVE  Sound'
<1>1. HandleSound(h)
  BY DEF IInv, Sound
<1>2. handle'[h] = o /\ \A g \in Handles \ {h} : handle'[g] = handle[g]
  BY DEF IInv, TInv, TypeOK
<1>3. HandleSound(h)'
  <2>1. AutoSound(h)'
    BY <1>1, <1>2 DEF HandleSound, AutoSound, InAutoStart
  <2>2. WatchSound(h)'
    BY <1>1, <1>2, HandleFields, SupervisorAssumption DEF HandleSound, WatchSound, IsRunning, Live, IInv
  <2>3. \A q \in Pids : (Holds(h, q)' => Holds(h, q)) /\ (Awaits(h, q)' => Awaits(h, q))
    BY <1>2, SupervisorAssumption DEF Holds, Awaits
  <2>4. \A q \in Pids : Awaits(h, q)' => answer'[q] = answer[q]
    BY <1>2 DEF Awaits
  <2>5. PresetSound(h)' /\ AnswerSound(h)'
    BY <1>1, <1>2, <2>3, <2>4 DEF HandleSound, PresetSound, AnswerSound, Mine
  <2>6. WishSound(h)'
    BY <1>1, <1>2 DEF HandleSound, WishSound, Mine
  <2> QED BY <2>1, <2>2, <2>5, <2>6 DEF HandleSound
<1>4. TablesAgree' /\ \A g \in Handles : HandleSound(g)'
  BY <1>3, FrameOne
<1>5. CommandSound'
  <2>1. InStart(h) => ~IsRunning(handle[h]) /\ ~InAutoStart(handle[h]) /\ wish[handle[h].preset] # "down"
    BY DEF IInv, Sound, CommandSound, InStart
  <2>2. InStart(cmd.h)' => /\ ~IsRunning(handle[cmd.h])' /\ ~InAutoStart(handle[cmd.h])'
                           /\ wish'[handle'[cmd'.h].preset] # "down"
    <3>1. CASE cmd.h = h
      BY <2>1, <3>1, <1>2, SupervisorAssumption DEF IsRunning, Live, InStart, InAutoStart
    <3>2. CASE cmd.h # h
      BY <3>2, <1>2 DEF IInv, Sound, CommandSound, IsRunning, Live, InStart, InAutoStart, TInv, NothingMissing
    <3> QED BY <3>1, <3>2
  <2>3. cmd.phase # "none" => cmd.h \in Handles
    BY DEF IInv, TInv, NothingMissing
  <2>4. cmd'.phase = "spawning" => handle'[cmd'.h].pid # cmd'.pid /\ cmd'.pid \notin handle'[cmd'.h].watch
    BY <1>2, <2>3, SupervisorAssumption DEF IInv, Sound, CommandSound, TInv, NothingMissing
  <2> QED BY <1>2, <2>2, <2>3, <2>4 DEF IInv, Sound, CommandSound, Unlocked
<1>6. LiveSound' /\ AnsweredOnce'
  BY DEF IInv, Sound, LiveSound, AnsweredOnce, Live
<1>7. NoStray'
  <2>1. ASSUME NEW q \in Pids, Live(q), handle[h].pid = q \/ handle[h].spawned = q PROVE o.pid = q \/ o.spawned = q
    BY <2>1 DEF IsRunning
  <2> QED BY <1>2, <2>1 DEF NoStray, IInv, Sound, Tracks, Live, TInv, TypeOK
<1> QED BY <1>4, <1>5, <1>6, <1>7 DEF Sound

\* The cooldown ends: start(), or nothing to do.
LEMMA CooldownEndsSound ==
    ASSUME IInv, TInv', "overlap" \notin Events, NEW h \in Handles, CooldownEnds(h) PROVE Sound'
<1>1. Mine(h) /\ handle[h].auto = "cooldown" /\ ~InStart(h)
  BY DEF CooldownEnds, IInv, Sound, TablesAgree, Quiet, Overlap
<1>2. UNCHANGED <<tracked, proc, cmd, wish, letGo, answer>>
  BY DEF CooldownEnds
<1> DEFINE o1 == [handle[h] EXCEPT !.auto = "none"]
           o2 == [handle[h] EXCEPT !.pid = NoPid, !.auto = "none"]
           o3 == [handle[h] EXCEPT !.pid = NoPid, !.auto = "preparing"]
<1>3. \A o \in {o1, o2, o3} :
          /\ o \in Handle
          /\ o.preset = handle[h].preset /\ o.stop = handle[h].stop /\ o.spawned = handle[h].spawned
          /\ o.watch = handle[h].watch /\ o.adopted = handle[h].adopted
  BY HandleFields DEF IInv, Handle
<1>4. /\ o1.auto = "none" /\ o1.pid = handle[h].pid
      /\ \A o \in {o2, o3} : o.auto \in {"none", "preparing"} /\ o.pid = NoPid
  BY HandleFields DEF IInv, Handle
<1>5. \/ handle' = [handle EXCEPT ![h] = o1]
      \/ ~IsRunning(handle[h]) /\ ~handle[h].stop
             /\ (handle' = [handle EXCEPT ![h] = o2] \/ handle' = [handle EXCEPT ![h] = o3])
  BY DEF CooldownEnds
<1> HIDE DEF o1, o2, o3
<1>6. PICK o : /\ o \in {o1, o2, o3} /\ handle' = [handle EXCEPT ![h] = o]
               /\ o = o1 \/ (~IsRunning(handle[h]) /\ ~handle[h].stop)
  <2>1. CASE handle' = [handle EXCEPT ![h] = o1]
    BY <2>1
  <2>2. CASE handle' # [handle EXCEPT ![h] = o1]
    BY <1>5, <2>2
  <2> QED BY <2>1, <2>2
<1>7. /\ o \in Handle
      /\ o.preset = handle[h].preset /\ o.stop = handle[h].stop /\ o.spawned = handle[h].spawned
      /\ o.watch \subseteq handle[h].watch /\ o.adopted = handle[h].adopted
      /\ o.pid = handle[h].pid \/ (o.pid = NoPid /\ ~IsRunning(handle[h]))
  BY <1>3, <1>4, <1>6
<1>8. /\ o.auto # "spawning" /\ handle[h].auto # "spawning"
      /\ InAutoStart(o) => o.pid = NoPid /\ ~InStart(h)
  BY <1>1, <1>4, <1>6 DEF InAutoStart
<1>9. o.stop => o.auto = "none"
  BY <1>3, <1>4, <1>6
<1> QED BY <1>1, <1>2, <1>6, <1>7, <1>8, <1>9, LessHeld

\* An auto-restart that is refused.
LEMMA AutoFailsSound ==
    ASSUME IInv, TInv', NEW h \in Handles, AutoFails(h) PROVE Sound'
<1> DEFINE o == [handle[h] EXCEPT !.auto = "none"]
<1>1. Mine(h) /\ handle[h].auto = "preparing" /\ handle' = [handle EXCEPT ![h] = o]
  BY DEF AutoFails, IInv, Sound, TablesAgree, Quiet
<1>2. o \in Handle /\ o = [handle[h] EXCEPT !.auto = "none"] /\ o.auto = "none"
      /\ o.preset = handle[h].preset /\ o.stop = handle[h].stop /\ o.spawned = handle[h].spawned
      /\ o.watch = handle[h].watch /\ o.adopted = handle[h].adopted /\ o.pid = handle[h].pid
  BY HandleFields DEF IInv, Handle
<1>3. UNCHANGED <<tracked, proc, cmd, wish, letGo, answer>>
  BY DEF AutoFails
<1> HIDE DEF o
<1>4. (handle[h].stop => handle[h].auto = "none") /\ o.spawned = NoPid
  BY <1>1, <1>2 DEF IInv, Sound, HandleSound, AutoSound
<1> QED BY <1>1, <1>2, <1>3, LessHeld DEF InAutoStart

\* Attempts leave the window: nothing else reads their number.
LEMMA AttemptsAgeSound ==
    ASSUME IInv, TInv', NEW h \in Handles, AttemptsAge(h) PROVE Sound'
<1>1. PICK n \in 0..MaxAttempts : handle' = [handle EXCEPT ![h].attempts = n]
  BY DEF AttemptsAge
<1>2. UNCHANGED <<tracked, proc, cmd, wish, letGo, answer>>
  BY DEF AttemptsAge
<1>3. \A g \in Handles :
        /\ handle'[g].preset = handle[g].preset /\ handle'[g].stop = handle[g].stop
        /\ handle'[g].spawned = handle[g].spawned /\ handle'[g].auto = handle[g].auto
        /\ handle'[g].watch = handle[g].watch /\ handle'[g].adopted = handle[g].adopted
        /\ handle'[g].pid = handle[g].pid
  BY <1>1 DEF IInv, TInv, TypeOK, Handle
<1>4. TablesAgree' /\ NoStray'
  <2>1. TablesAgree'
    BY <1>2, <1>3 DEF IInv, Sound, TablesAgree, Mine, Quiet, TInv, TypeOK
  <2>2. \A p \in Presets, q \in Pids : Tracks(p, q) => Tracks(p, q)'
    BY <1>2, <1>3 DEF Tracks, IInv, TInv, TypeOK
  <2>3. \A q \in Pids : Live(q)' => Live(q)
    BY <1>2 DEF Live
  <2>5. NoStray'
    BY <1>2, <2>2, <2>3 DEF IInv, Sound, NoStray, LiveSound
  <2> QED BY <2>1, <2>5
<1>5. LiveSound' /\ AnsweredOnce'
  BY <1>2 DEF IInv, Sound, LiveSound, AnsweredOnce, Live
<1>6. ASSUME NEW g \in Handles PROVE HandleSound(g)'
  <2>1. HandleSound(g)
    BY DEF IInv, Sound
  <2>2. AutoSound(g)' /\ WatchSound(g)' /\ WishSound(g)'
    BY <1>2, <1>3, <2>1 DEF HandleSound, AutoSound, WatchSound, WishSound, InAutoStart, Live, Mine
  <2>3. PresetSound(g)' /\ AnswerSound(g)'
    BY <1>2, <1>3, <2>1 DEF HandleSound, PresetSound, AnswerSound, Holds, Awaits, Mine
  <2> QED BY <2>2, <2>3 DEF HandleSound
<1>7. CommandSound'
  BY <1>2, <1>3 DEF IInv, Sound, CommandSound, IsRunning, Live, InStart, InAutoStart, Unlocked, TInv, NothingMissing
<1> QED BY <1>4, <1>5, <1>6, <1>7 DEF Sound

\* _schedule_autorestart() changes the attempts and the task, and schedules
\* nothing after a stop() or while a restart is pending.
LEMMA ScheduleFields ==
    ASSUME NEW o \in Handle
    PROVE  LET s == ScheduleAutorestart(o) IN
           /\ s \in Handle
           /\ s.preset = o.preset /\ s.stop = o.stop /\ s.adopted = o.adopted
           /\ s.spawned = o.spawned /\ s.watch = o.watch /\ s.pid = o.pid
           /\ s.auto = o.auto \/ (o.auto = "none" /\ s.auto = "cooldown" /\ ~o.stop)
<1>1. CASE o.stop \/ o.attempts >= MaxAttempts \/ o.auto # "none"
  BY <1>1 DEF ScheduleAutorestart
<1>2. CASE ~(o.stop \/ o.attempts >= MaxAttempts \/ o.auto # "none")
  <2> DEFINE n == o.attempts + 1
  <2>1. ScheduleAutorestart(o) = [o EXCEPT !.attempts = n, !.auto = "cooldown"]
    BY <1>2 DEF ScheduleAutorestart
  <2>2. ScheduleAutorestart(o) \in Handle
    BY ScheduleType
  <2> HIDE DEF n
  <2> QED BY <1>2, <2>1, <2>2 DEF Handle
<1> QED BY <1>1, <1>2

\* The end of a process that nobody answered yet is answered once.
LEMMA AnsweredFirst ==
    ASSUME TypeOK, NEW o, NEW q \in Pids, answer[q] = "none"
    PROVE  /\ Answered(o, q)[q] # "twice"
           /\ \A r \in Pids \ {q} : Answered(o, q)[r] = answer[r]
BY DEF Answered, TypeOK

\* The exit watcher: it was the only one to answer the process.
LEMMA WatchExitSound ==
    ASSUME IInv, TInv', NEW h \in Handles, NEW q \in Pids, WatchExit(h, q) PROVE Sound'
<1>1. q \in handle[h].watch /\ ~Live(q) /\ UNCHANGED <<tracked, proc, cmd, wish, letGo>>
  BY DEF WatchExit
<1>2. Mine(h) /\ HandleSound(h)
  BY <1>1 DEF IInv, Sound, TablesAgree, Quiet
<1>3. PICK then \in {handle[h], ScheduleAutorestart(handle[h])} :
         handle' = [handle EXCEPT ![h] = [then EXCEPT !.watch = @ \ {q}]]
  BY DEF WatchExit
<1>4. /\ then \in Handle
      /\ then.preset = handle[h].preset /\ then.stop = handle[h].stop /\ then.adopted = handle[h].adopted
      /\ then.spawned = handle[h].spawned /\ then.watch = handle[h].watch /\ then.pid = handle[h].pid
      /\ \/ then.auto = handle[h].auto
         \/ handle[h].auto = "none" /\ then.auto = "cooldown" /\ ~handle[h].stop
  BY HandleFields, ScheduleFields DEF IInv
<1> DEFINE o == [then EXCEPT !.watch = @ \ {q}]
<1>5. /\ o \in Handle /\ handle' = [handle EXCEPT ![h] = o]
      /\ o.preset = handle[h].preset /\ o.stop = handle[h].stop /\ o.adopted = handle[h].adopted
      /\ o.spawned = handle[h].spawned /\ o.watch = handle[h].watch \ {q} /\ o.pid = handle[h].pid
      /\ o.auto = then.auto
  BY <1>3, <1>4 DEF Handle
<1> HIDE DEF o
<1>6. answer[q] = "none"
  BY <1>1, <1>2 DEF HandleSound, AnswerSound, Awaits
<1>7. answer'[q] # "twice" /\ \A r \in Pids \ {q} : answer'[r] = answer[r]
  BY <1>6, AnsweredFirst DEF WatchExit, IInv, TInv, TypeOK
<1>8. o.spawned # q /\ ~(o.adopted /\ o.pid = q) /\ ~(cmd.phase = "spawning" /\ cmd.pid = q)
  <2>1. o.spawned # q /\ ~(o.adopted /\ o.pid = q)
    BY <1>1, <1>2, <1>5 DEF HandleSound, WatchSound
  <2>2. ASSUME cmd.phase = "spawning", cmd.pid = q PROVE FALSE
    <3>1. cmd.h \in Handles /\ Mine(cmd.h)
      BY <2>2 DEF IInv, TInv, NothingMissing, Sound, TablesAgree, Quiet
    <3>2. cmd.h = h
      BY <1>1, <1>2, <2>2, <3>1, SoleHolder DEF Holds
    <3> QED BY <1>1, <2>2, <3>2 DEF IInv, Sound, CommandSound
  <2> QED BY <2>1, <2>2
<1>9. /\ o.stop => o.auto = "none"
      /\ o.auto = "spawning" <=> handle[h].auto = "spawning"
      /\ InAutoStart(o) => o.pid = NoPid /\ ~InStart(h)
      /\ o.auto = "none" \/ handle[h].auto # "none"
           \/ (~o.stop /\ (handle[h].pid # NoPid \/ handle[h].watch # {}))
  <2>1. InStart(h) => ~InAutoStart(handle[h])
    BY DEF IInv, Sound, CommandSound, InStart
  <2>2. InAutoStart(o) => InAutoStart(handle[h])
    BY <1>4, <1>5 DEF InAutoStart
  <2>3. (handle[h].stop => handle[h].auto = "none") /\ (InAutoStart(handle[h]) => handle[h].pid = NoPid)
    BY <1>2 DEF HandleSound, AutoSound
  <2>4. o.stop => o.auto = "none"
    BY <1>4, <1>5, <2>3
  <2> QED BY <1>1, <1>4, <1>5, <2>1, <2>2, <2>3, <2>4
<1>10. \A r \in Pids : \/ answer'[r] = answer[r]
                      \/ /\ ~Live(r) /\ Holds(h, r) /\ answer'[r] # "twice"
                         /\ r \notin o.watch /\ o.spawned # r /\ ~(o.adopted /\ o.pid = r)
                         /\ ~(cmd.phase = "spawning" /\ cmd.pid = r)
  BY <1>1, <1>5, <1>7, <1>8 DEF Holds
<1> QED BY <1>1, <1>2, <1>5, <1>9, <1>10, LessHeld

\* The liveness poll: an adopted process has no exit watcher.
LEMMA NoteDeathSound ==
    ASSUME IInv, TInv', NEW p \in Presets, NoteDeath(p) PROVE Sound'
<1> DEFINE h == tracked[p]
           q == handle[h].pid
           gone == [handle[h] EXCEPT !.pid = NoPid]
<1>1. /\ h \in Handles /\ q \in Pids /\ ~Live(q) /\ handle[h].adopted
      /\ UNCHANGED <<tracked, proc, cmd, wish, letGo>>
  BY HandleFields DEF NoteDeath, Polled, IInv, TInv, TypeOK
<1>2. Mine(h) /\ HandleSound(h)
  <2>1. tracked[p] # NoHandle
    BY DEF NoteDeath
  <2>2. handle[h].preset = p
    BY <2>1 DEF IInv, Sound, TablesAgree
  <2> QED BY <1>1, <2>2 DEF IInv, Sound, Mine
<1>3. \E o \in {gone, ScheduleAutorestart(gone)} : handle' = [handle EXCEPT ![h] = o]
  BY DEF NoteDeath
<1>4. /\ gone \in Handle
      /\ gone.preset = handle[h].preset /\ gone.stop = handle[h].stop /\ gone.adopted = handle[h].adopted
      /\ gone.spawned = handle[h].spawned /\ gone.watch = handle[h].watch /\ gone.pid = NoPid
      /\ gone.auto = handle[h].auto
  BY <1>1, HandleFields DEF IInv, Handle
<1> HIDE DEF gone
<1>5. PICK o \in Handle :
      /\ handle' = [handle EXCEPT ![h] = o]
      /\ o.preset = handle[h].preset /\ o.stop = handle[h].stop /\ o.adopted = handle[h].adopted
      /\ o.spawned = handle[h].spawned /\ o.watch = handle[h].watch /\ o.pid = NoPid
      /\ \/ o.auto = handle[h].auto
         \/ handle[h].auto = "none" /\ o.auto = "cooldown" /\ ~handle[h].stop
  <2>1. CASE handle' = [handle EXCEPT ![h] = gone]
    BY <1>4, <2>1
  <2>2. CASE handle' = [handle EXCEPT ![h] = ScheduleAutorestart(gone)]
    <3> DEFINE s == ScheduleAutorestart(gone)
    <3>1. /\ s \in Handle
          /\ s.preset = gone.preset /\ s.stop = gone.stop /\ s.adopted = gone.adopted
          /\ s.spawned = gone.spawned /\ s.watch = gone.watch /\ s.pid = gone.pid
          /\ s.auto = gone.auto \/ (gone.auto = "none" /\ s.auto = "cooldown" /\ ~gone.stop)
      BY <1>4, ScheduleFields
    <3> HIDE DEF s
    <3>2. handle' = [handle EXCEPT ![h] = s]
      BY <2>2 DEF s
    <3> QED BY <1>4, <3>1, <3>2
  <2> QED BY <1>3, <2>1, <2>2
<1>6. answer[q] = "none"
  BY <1>1, <1>2 DEF HandleSound, AnswerSound, Awaits
<1>7. answer'[q] # "twice" /\ \A r \in Pids \ {q} : answer'[r] = answer[r]
  BY <1>1, <1>6, AnsweredFirst DEF NoteDeath, IInv, TInv
<1>8. q \notin o.watch /\ o.spawned # q /\ o.pid # q /\ ~(cmd.phase = "spawning" /\ cmd.pid = q)
  <2>1. q \notin o.watch
    BY <1>1, <1>2, <1>5 DEF HandleSound, WatchSound
  <2>2. o.spawned # q /\ o.pid # q
    BY <1>1, <1>2, <1>5, HandleFields, SupervisorAssumption DEF HandleSound, AutoSound, InAutoStart, IInv
  <2>3. ASSUME cmd.phase = "spawning", cmd.pid = q PROVE FALSE
    <3>1. cmd.h \in Handles /\ Mine(cmd.h)
      BY <2>3 DEF IInv, TInv, NothingMissing, Sound, TablesAgree, Quiet
    <3>2. cmd.h = h
      BY <1>1, <1>2, <2>3, <3>1, SoleHolder DEF Holds
    <3> QED BY <1>1, <2>3, <3>2 DEF IInv, Sound, CommandSound
  <2> QED BY <2>1, <2>2, <2>3
<1>9. /\ o.stop => o.auto = "none"
      /\ o.auto = "spawning" <=> handle[h].auto = "spawning"
      /\ InAutoStart(o) => o.pid = NoPid /\ ~InStart(h)
      /\ o.auto = "none" \/ handle[h].auto # "none"
           \/ (~o.stop /\ (handle[h].pid # NoPid \/ handle[h].watch # {}))
  <2>1. InStart(h) => ~InAutoStart(handle[h])
    BY DEF IInv, Sound, CommandSound, InStart
  <2>2. InAutoStart(o) => InAutoStart(handle[h])
    BY <1>5 DEF InAutoStart
  <2>3. handle[h].stop => handle[h].auto = "none"
    BY <1>2 DEF HandleSound, AutoSound
  <2>4. o.stop => o.auto = "none"
    BY <1>5, <2>3
  <2> QED BY <1>1, <1>5, <2>1, <2>2, <2>4, SupervisorAssumption
<1>10. \A r \in Pids : \/ answer'[r] = answer[r]
                      \/ /\ ~Live(r) /\ Holds(h, r) /\ answer'[r] # "twice"
                         /\ r \notin o.watch /\ o.spawned # r /\ ~(o.adopted /\ o.pid = r)
                         /\ ~(cmd.phase = "spawning" /\ cmd.pid = r)
  BY <1>1, <1>7, <1>8 DEF Holds
<1>11. o.pid = NoPid /\ ~IsRunning(handle[h])
  BY <1>1, <1>5 DEF IsRunning
<1> QED BY <1>1, <1>2, <1>5, <1>9, <1>10, <1>11, LessHeld

\* The handle of a command is tracked.
LEMMA CommandOwner ==
    ASSUME IInv, cmd.phase # "none"
    PROVE  cmd.h \in Handles /\ Mine(cmd.h) /\ HandleSound(cmd.h)
BY DEF IInv, TInv, NothingMissing, Sound, TablesAgree, Quiet

\* A handle whose auto-restart is inside start() has no process and no command.
LEMMA AutoAlone ==
    ASSUME IInv, NEW h \in Handles, InAutoStart(handle[h])
    PROVE  cmd.h # h /\ Mine(h) /\ HandleSound(h) /\ handle[h].pid = NoPid /\ ~handle[h].stop
<1>1. Mine(h) /\ HandleSound(h) /\ handle[h].pid = NoPid /\ ~handle[h].stop
  BY DEF InAutoStart, IInv, Sound, TablesAgree, Quiet, HandleSound, AutoSound
<1>2. cmd.h # h
  BY <1>1, SupervisorAssumption DEF IInv, Sound, CommandSound, InStart, Unlocked, TInv, TypeOK, Command
<1> QED BY <1>1, <1>2

\* A step at another handle does not disturb the command.
LEMMA CommandElsewhere ==
    ASSUME IInv, NEW h, \A g \in Handles \ {h} : handle'[g] = handle[g], cmd.h # h, cmd' = cmd,
           \A q \in Pids : Free(q) \/ (Live(q)' => Live(q)),
           \A p \in Presets : wish'[p] = wish[p] \/ wish'[p] # "down"
    PROVE  CommandSound'
<1>1. CASE cmd.phase = "none"
  BY <1>1 DEF IInv, Sound, CommandSound, InStart, Unlocked
<1>2. CASE cmd.phase # "none"
  <2>1. cmd.h \in Handles /\ Mine(cmd.h) /\ handle'[cmd.h] = handle[cmd.h]
    BY <1>2, CommandOwner
  <2>2. ~IsRunning(handle[cmd.h]) => ~IsRunning(handle[cmd.h])'
    BY <2>1, HandleFields DEF IsRunning, Free, Holds, IInv
  <2>3. wish[handle[cmd.h].preset] # "down" => wish'[handle'[cmd'.h].preset] # "down"
    BY <2>1 DEF Mine
  <2> QED BY <1>2, <2>1, <2>2, <2>3 DEF IInv, Sound, CommandSound, InStart, InAutoStart
<1> QED BY <1>1, <1>2

\* The auto-restart's process is attached to a handle that had none.
LEMMA AutoEndsSound ==
    ASSUME IInv, TInv', NEW h \in Handles, AutoEnds(h) PROVE Sound'
<1> DEFINE s == handle[h].spawned
           o == [Attach(handle[h], s) EXCEPT !.auto = "none", !.spawned = NoPid]
<1>1. /\ handle[h].auto = "spawning" /\ s \in Pids /\ handle' = [handle EXCEPT ![h] = o]
      /\ UNCHANGED <<tracked, proc, cmd, wish, letGo, answer>>
  BY DEF AutoEnds, IInv, TInv, NothingMissing
<1>2. /\ o \in Handle /\ o.pid = s /\ o.adopted = FALSE /\ o.watch = handle[h].watch \union {s}
      /\ o.auto = "none" /\ o.spawned = NoPid /\ o.stop = handle[h].stop /\ o.preset = handle[h].preset
  BY <1>1, HandleFields DEF IInv, Attach, Handle
<1> HIDE DEF o
<1>3. cmd.h # h /\ Mine(h) /\ HandleSound(h) /\ handle[h].pid = NoPid /\ ~handle[h].stop
  BY <1>1, AutoAlone DEF InAutoStart
<1>4. handle'[h] = o /\ \A g \in Handles \ {h} : handle'[g] = handle[g]
  BY <1>1 DEF IInv, TInv, TypeOK
<1>5. HandleSound(h)'
  <2>1. AutoSound(h)'
    BY <1>2, <1>3, <1>4 DEF AutoSound, InAutoStart
  <2>2. WatchSound(h)'
    BY <1>1, <1>2, <1>3, <1>4, HandleFields, SupervisorAssumption DEF HandleSound, WatchSound, Live, IInv
  <2>3. \A q \in Pids : (Holds(h, q)' => Holds(h, q)) /\ (Awaits(h, q)' => Awaits(h, q))
    BY <1>1, <1>2, <1>4, SupervisorAssumption DEF Holds, Awaits
  <2>4. PresetSound(h)' /\ AnswerSound(h)'
    BY <1>1, <1>2, <1>3, <1>4, <2>3 DEF HandleSound, PresetSound, AnswerSound, Mine
  <2>5. WishSound(h)'
    BY <1>1, <1>2, <1>3, <1>4 DEF HandleSound, WishSound, Mine
  <2> QED BY <2>1, <2>2, <2>4, <2>5 DEF HandleSound
<1>6. TablesAgree' /\ \A g \in Handles : HandleSound(g)'
  BY <1>1, <1>2, <1>3, <1>5, FrameOne
<1>7. CommandSound'
  BY <1>1, <1>3, <1>4, CommandElsewhere DEF Live
<1>8. LiveSound' /\ AnsweredOnce'
  BY <1>1 DEF IInv, Sound, LiveSound, AnsweredOnce, Live
<1>9. NoStray'
  BY <1>1, <1>2, <1>3, <1>4, SupervisorAssumption DEF NoStray, IInv, Sound, Tracks, Live, TInv, TypeOK
<1> QED BY <1>6, <1>7, <1>8, <1>9 DEF Sound

\* The user lets an adopted process go.
LEMMA ReleaseSound ==
    ASSUME IInv, TInv', NEW p \in Presets, Release(p) PROVE Sound'
<1> DEFINE h == tracked[p]
           o == Reset(handle[h])
<1>1. /\ h \in Handles /\ cmd = Unlocked /\ handle' = [handle EXCEPT ![h] = o]
      /\ letGo' = letGo \union ({handle[h].pid} \ {NoPid}) /\ wish' = [wish EXCEPT ![p] = "any"]
      /\ UNCHANGED <<tracked, proc, cmd, answer>> /\ handle[h].adopted
  BY DEF Release, IInv, TInv, TypeOK
<1>2. Mine(h) /\ HandleSound(h) /\ handle[h].preset = p
  BY <1>1, SupervisorAssumption DEF IInv, Sound, TablesAgree, Mine
<1>3. /\ o \in Handle /\ o.pid = NoPid /\ o.adopted = FALSE /\ o.watch = handle[h].watch
      /\ o.auto = handle[h].auto /\ o.spawned = handle[h].spawned /\ o.stop = handle[h].stop
      /\ o.preset = handle[h].preset
  BY <1>1, HandleFields DEF IInv, Reset, Handle
<1>4. cmd.h # h /\ cmd.phase = "none"
  BY <1>1, SupervisorAssumption DEF Unlocked
<1> HIDE DEF o
<1>5. handle'[h] = o /\ \A g \in Handles \ {h} : handle'[g] = handle[g]
  BY <1>1 DEF IInv, TInv, TypeOK
<1>6. HandleSound(h)'
  <2>1. AutoSound(h)'
    BY <1>1, <1>2, <1>3, <1>5 DEF HandleSound, AutoSound, InAutoStart
  <2>2. WatchSound(h)'
    BY <1>1, <1>2, <1>3, <1>5, HandleFields, SupervisorAssumption DEF HandleSound, WatchSound, Live, IInv
  <2>3. \A q \in Pids : (Holds(h, q)' => Holds(h, q)) /\ (Awaits(h, q)' => Awaits(h, q))
    BY <1>1, <1>3, <1>5, SupervisorAssumption DEF Holds, Awaits
  <2>4. PresetSound(h)' /\ AnswerSound(h)'
    BY <1>1, <1>2, <1>3, <1>5, <2>3 DEF HandleSound, PresetSound, AnswerSound, Mine
  <2>5. WishSound(h)'
    BY <1>1, <1>2, <1>3, <1>5 DEF WishSound, IInv, TInv, TypeOK
  <2> QED BY <2>1, <2>2, <2>4, <2>5 DEF HandleSound
<1>7. TablesAgree' /\ \A g \in Handles : HandleSound(g)'
  <2>1. \A r \in Presets : wish'[r] = wish[r] \/ r = handle[h].preset
    BY <1>1, <1>2 DEF IInv, TInv, TypeOK
  <2> QED BY <1>1, <1>2, <1>3, <1>6, <2>1, FrameOne
<1>8. CommandSound'
  BY <1>1 DEF CommandSound, InStart, Unlocked
<1>9. LiveSound' /\ AnsweredOnce'
  BY <1>1 DEF IInv, Sound, LiveSound, AnsweredOnce, Live
<1>10. NoStray'
  <2>1. ASSUME NEW q \in Pids \ letGo', Live(q), proc[q].ours PROVE Tracks(proc[q].preset, q)'
    <3>1. Tracks(proc[q].preset, q) /\ proc[q].preset \in Presets
      BY <1>1, <1>4, <2>1 DEF IInv, Sound, NoStray, LiveSound
    <3>2. tracked[proc[q].preset] \in Handles
      BY <3>1 DEF IInv, TInv, TypeOK, Tracks
    <3>3. handle[h].pid # q
      BY <1>1, <2>1, SupervisorAssumption
    <3> QED BY <1>1, <1>3, <1>5, <3>1, <3>2, <3>3 DEF Tracks
  <2> QED BY <1>1, <2>1 DEF NoStray, Live
<1> QED BY <1>7, <1>8, <1>9, <1>10 DEF Sound

\* A process, with its first life and preset, takes an id that is free.
Appears(q) ==
    /\ Reusable(q)
    /\ \E r \in [life : {"loading", "serving"}, preset : Presets, ours : BOOLEAN] :
          proc' = [proc EXCEPT ![q] = r]
    /\ letGo' = letGo \ {q} /\ answer' = [answer EXCEPT ![q] = "none"]
    /\ tracked' = tracked /\ wish' = wish

\* A process with a free id: nobody held the id, nothing was answered for it.
LEMMA AppearsFrame ==
    ASSUME IInv, NEW q \in Pids, Appears(q)
    PROVE  /\ Free(q) /\ cmd.pid # q /\ proc'[q].preset \in Presets
           /\ \A r \in Pids \ {q} : proc'[r] = proc[r] /\ answer'[r] = answer[r]
           /\ answer'[q] = "none"
           /\ \A r \in Pids : Free(r) \/ (proc'[r].preset = proc[r].preset /\ (Live(r)' => Live(r)))
           /\ \A r \in Pids : answer'[r] = answer[r] \/ answer'[r] = "none"
           /\ LiveSound' /\ AnsweredOnce'
<1>1. Free(q) /\ cmd.pid # q
  BY ReusableIsFree DEF Appears
<1>2. PICK r \in [life : {"loading", "serving"}, preset : Presets, ours : BOOLEAN] :
         proc' = [proc EXCEPT ![q] = r]
  BY DEF Appears
<1>3. /\ proc'[q].preset \in Presets
      /\ \A x \in Pids \ {q} : proc'[x] = proc[x] /\ answer'[x] = answer[x]
      /\ answer'[q] = "none"
  BY <1>2 DEF Appears, IInv, TInv, TypeOK
<1> QED BY <1>1, <1>3 DEF IInv, Sound, LiveSound, AnsweredOnce, Live

\* The process of a user's start() appears; cmd holds it.
LEMMA StartSpawnsSound ==
    ASSUME IInv, TInv', NEW q \in Pids, StartSpawns(q) PROVE Sound'
<1>0. cmd.phase = "preparing" /\ cmd.h \in Handles
  BY CommandOwner DEF StartSpawns
<1> PICK h \in Handles : h = cmd.h
  BY <1>0
<1>1. /\ cmd.phase = "preparing" /\ Mine(h) /\ HandleSound(h)
      /\ ~IsRunning(handle[h]) /\ ~InAutoStart(handle[h]) /\ wish[handle[h].preset] # "down"
  BY <1>0, CommandOwner DEF IInv, Sound, CommandSound, InStart
<1>2. /\ cmd'.phase = "spawning" /\ cmd'.pid = q /\ cmd'.h = h
      /\ UNCHANGED <<tracked, handle, wish>>
  BY DEF StartSpawns, IInv, TInv, TypeOK, Command
<1> DEFINE r == [life |-> "loading", preset |-> handle[h].preset, ours |-> TRUE]
<1>3. /\ r \in [life : {"loading", "serving"}, preset : Presets, ours : BOOLEAN]
      /\ r.preset = handle[h].preset /\ proc' = [proc EXCEPT ![q] = r]
  BY <1>1 DEF Mine, StartSpawns, Spawned
<1> HIDE DEF r
<1>4. Appears(q)
  BY <1>2, <1>3 DEF StartSpawns, Spawned, Appears
<1>5. /\ Free(q) /\ cmd.pid # q
      /\ \A x \in Pids \ {q} : proc'[x] = proc[x] /\ answer'[x] = answer[x]
      /\ answer'[q] = "none" /\ LiveSound' /\ AnsweredOnce'
  BY <1>4, AppearsFrame
<1>6. proc'[q].preset = handle[h].preset
  BY <1>3 DEF IInv, TInv, TypeOK
<1>7. HandleSound(h)'
  <2>1. AutoSound(h)' /\ WishSound(h)'
    BY <1>1, <1>2 DEF HandleSound, AutoSound, InAutoStart, WishSound, Mine
  <2>2. \A x \in Pids : Holds(h, x)' => x = q \/ Holds(h, x)
    BY <1>2 DEF Holds
  <2>3. \A x \in Pids : Awaits(h, x)' => x = q \/ Awaits(h, x)
    BY <1>2 DEF Awaits
  <2>4. PresetSound(h)' /\ AnswerSound(h)'
    BY <1>1, <1>2, <1>5, <1>6, <2>2, <2>3 DEF HandleSound, PresetSound, AnswerSound, Mine
  <2>5. WatchSound(h)'
    <3>1. q \notin handle[h].watch /\ handle[h].watch \subseteq Pids
      BY <1>1, <1>5, HandleFields DEF Free, Holds, IInv
    <3> QED BY <1>1, <1>2, <1>5, <3>1 DEF HandleSound, WatchSound, Live
  <2> QED BY <2>1, <2>4, <2>5 DEF HandleSound
<1>8. TablesAgree' /\ \A g \in Handles : HandleSound(g)'
  <2>1. /\ {h} \in SUBSET Handles /\ Mine(h)'
        /\ \A g \in Handles \ {h} :
              handle'[g] = handle[g] /\ (Mine(g)' <=> Mine(g)) /\ cmd.h # g /\ cmd'.h # g
        /\ \A p \in Presets : tracked'[p] # NoHandle => handle'[tracked'[p]].preset = p
    BY <1>1, <1>2 DEF Mine, IInv, Sound, TablesAgree
  <2>2. \A x \in Pids : Free(x) \/ (proc'[x].preset = proc[x].preset /\ (Live(x)' => Live(x)))
    BY <1>4, AppearsFrame
  <2>3. /\ \A x \in Pids : answer'[x] = answer[x] \/ answer'[x] = "none"
        /\ \A g \in {h} : Mine(g)' /\ HandleSound(g)'
    BY <1>4, <1>7, <2>1, AppearsFrame
  <2> QED BY <1>2, <1>7, <2>1, <2>2, <2>3, Frame
<1>9. CommandSound'
  <2>1. ~IsRunning(handle[h])'
    BY <1>1, <1>2, <1>5, HandleFields DEF IsRunning, Live, Free, Holds, IInv
  <2>2. handle[h].pid # q /\ q \notin handle[h].watch
    BY <1>1, <1>5 DEF Free, Holds
  <2> QED BY <1>1, <1>2, <2>1, <2>2 DEF CommandSound, InAutoStart
<1>10. NoStray'
  <2>1. letGo' = letGo \ {q}
    BY <1>4 DEF Appears
  <2> QED BY <1>1, <1>2, <1>5, <2>1 DEF IInv, Sound, NoStray, Tracks, Live
<1> QED BY <1>5, <1>8, <1>9, <1>10 DEF Sound

\* The process of an auto-restart appears; `spawned' holds it.
LEMMA AutoSpawnsSound ==
    ASSUME IInv, TInv', NEW h \in Handles, NEW q \in Pids, AutoSpawns(h, q) PROVE Sound'
<1> DEFINE o == [handle[h] EXCEPT !.auto = "spawning", !.spawned = q]
<1>1. /\ handle[h].auto = "preparing" /\ handle' = [handle EXCEPT ![h] = o]
      /\ UNCHANGED <<tracked, cmd, wish>>
  BY DEF AutoSpawns
<1>2. /\ cmd.h # h /\ Mine(h) /\ HandleSound(h) /\ handle[h].pid = NoPid /\ ~handle[h].stop
      /\ handle[h].spawned = NoPid
  <2>1. cmd.h # h /\ Mine(h) /\ HandleSound(h) /\ handle[h].pid = NoPid /\ ~handle[h].stop
    BY <1>1, AutoAlone DEF InAutoStart
  <2> QED BY <1>1, <2>1 DEF HandleSound, AutoSound
<1>3. /\ o.auto = "spawning" /\ o.spawned = q /\ o.pid = handle[h].pid /\ o.watch = handle[h].watch
      /\ o.stop = handle[h].stop /\ o.adopted = handle[h].adopted /\ o.preset = handle[h].preset
  BY HandleFields DEF IInv, Handle
<1> HIDE DEF o
<1>4. handle'[h] = o /\ \A g \in Handles \ {h} : handle'[g] = handle[g]
  BY <1>1 DEF IInv, TInv, TypeOK
<1> DEFINE r == [life |-> "loading", preset |-> handle[h].preset, ours |-> TRUE]
<1>5. /\ r \in [life : {"loading", "serving"}, preset : Presets, ours : BOOLEAN]
      /\ r.preset = handle[h].preset /\ proc' = [proc EXCEPT ![q] = r]
  BY <1>2 DEF Mine, AutoSpawns, Spawned
<1> HIDE DEF r
<1>6. Appears(q)
  BY <1>1, <1>5 DEF AutoSpawns, Spawned, Appears
<1>7. /\ Free(q) /\ cmd.pid # q
      /\ \A x \in Pids \ {q} : proc'[x] = proc[x] /\ answer'[x] = answer[x]
      /\ answer'[q] = "none" /\ LiveSound' /\ AnsweredOnce'
      /\ \A x \in Pids : Free(x) \/ (proc'[x].preset = proc[x].preset /\ (Live(x)' => Live(x)))
      /\ \A x \in Pids : answer'[x] = answer[x] \/ answer'[x] = "none"
  BY <1>6, AppearsFrame
<1>8. proc'[q].preset = handle[h].preset
  BY <1>5 DEF IInv, TInv, TypeOK
<1>9. HandleSound(h)'
  <2>1. AutoSound(h)' /\ WishSound(h)'
    BY <1>1, <1>2, <1>3, <1>4, SupervisorAssumption DEF HandleSound, AutoSound, InAutoStart, WishSound, Mine
  <2>2. \A x \in Pids : Holds(h, x)' => x = q \/ Holds(h, x)
    BY <1>1, <1>3, <1>4 DEF Holds
  <2>3. \A x \in Pids : Awaits(h, x)' => x = q \/ Awaits(h, x)
    BY <1>1, <1>3, <1>4 DEF Awaits
  <2>4. PresetSound(h)' /\ AnswerSound(h)'
    BY <1>1, <1>2, <1>3, <1>4, <1>7, <1>8, <2>2, <2>3 DEF HandleSound, PresetSound, AnswerSound, Mine
  <2>5. WatchSound(h)'
    <3>1. q \notin handle[h].watch /\ handle[h].watch \subseteq Pids
      BY <1>2, <1>7, HandleFields DEF Free, Holds, IInv
    <3> QED BY <1>2, <1>3, <1>4, <1>7, <3>1 DEF HandleSound, WatchSound, Live
  <2> QED BY <2>1, <2>4, <2>5 DEF HandleSound
<1>10. TablesAgree' /\ \A g \in Handles : HandleSound(g)'
  <2>1. /\ {h} \in SUBSET Handles /\ Mine(h)'
        /\ \A g \in Handles \ {h} : handle'[g] = handle[g] /\ (Mine(g)' <=> Mine(g))
    BY <1>1, <1>2, <1>3, <1>4 DEF Mine
  <2>2. \A p \in Presets : tracked'[p] # NoHandle => handle'[tracked'[p]].preset = p
    BY <1>1, <1>3, <1>4 DEF IInv, Sound, TablesAgree, TInv, TypeOK
  <2> QED BY <1>1, <1>7, <1>9, <2>1, <2>2, Frame
<1>11. CommandSound'
  BY <1>1, <1>2, <1>4, <1>7, CommandElsewhere
<1>12. NoStray'
  <2>1. letGo' = letGo \ {q}
    BY <1>6 DEF Appears
  <2>2. Tracks(handle[h].preset, q)'
    BY <1>1, <1>2, <1>3, <1>4, SupervisorAssumption DEF Tracks, Mine
  <2>3. ASSUME NEW x \in Pids \ letGo', x # q, Live(x)', proc'[x].ours
        PROVE  Tracks(proc[x].preset, x)' \/ (cmd'.phase = "spawning" /\ cmd'.pid = x)
    <3>1. x \in Pids \ letGo /\ Live(x) /\ proc[x].ours /\ proc'[x] = proc[x]
      BY <1>7, <2>1, <2>3 DEF Live
    <3>2. CASE Tracks(proc[x].preset, x)
      <4>1. tracked[proc[x].preset] \in Handles /\ proc[x].preset \in Presets
        BY <3>1, <3>2 DEF IInv, Sound, LiveSound, Tracks, TInv, TypeOK
      <4>2. handle[h].spawned # x /\ handle[h].pid # x
        BY <1>2, SupervisorAssumption
      <4>3. tracked[proc[x].preset] # h
        BY <3>2, <4>2 DEF Tracks
      <4> QED BY <1>1, <1>4, <3>1, <3>2, <4>1, <4>3 DEF Tracks
    <3>3. CASE cmd.phase = "spawning" /\ cmd.pid = x
      BY <1>1, <3>3
    <3> QED BY <3>1, <3>2, <3>3 DEF IInv, Sound, NoStray
  <2> QED BY <1>3, <1>4, <1>8, <2>2, <2>3 DEF NoStray, Tracks
<1> QED BY <1>7, <1>10, <1>11, <1>12 DEF Sound

\* Somebody else's process appears.
LEMMA ExternalSound ==
    ASSUME IInv, TInv', NEW p \in Presets, NEW q \in Pids, External(p, q) PROVE Sound'
<1>1. UNCHANGED <<tracked, handle, cmd, wish>> /\ letGo' = letGo \ {q}
  BY DEF External
<1> DEFINE r == [life |-> "serving", preset |-> p, ours |-> FALSE]
<1>2. /\ r \in [life : {"loading", "serving"}, preset : Presets, ours : BOOLEAN]
      /\ r.ours = FALSE /\ proc' = [proc EXCEPT ![q] = r]
  BY DEF External
<1> HIDE DEF r
<1>3. Appears(q)
  BY <1>1, <1>2 DEF External, Appears
<1>4. /\ Free(q) /\ cmd.pid # q
      /\ \A x \in Pids \ {q} : proc'[x] = proc[x] /\ answer'[x] = answer[x]
      /\ answer'[q] = "none" /\ LiveSound' /\ AnsweredOnce'
      /\ \A x \in Pids : Free(x) \/ (proc'[x].preset = proc[x].preset /\ (Live(x)' => Live(x)))
      /\ \A x \in Pids : answer'[x] = answer[x] \/ answer'[x] = "none"
  BY <1>3, AppearsFrame
<1>5. proc'[q].ours = FALSE
  BY <1>2 DEF IInv, TInv, TypeOK
<1>6. TablesAgree' /\ \A g \in Handles : HandleSound(g)'
  <2>1. /\ {} \in SUBSET Handles /\ \A g \in {} : Mine(g)' /\ HandleSound(g)'
        /\ \A g \in Handles \ {} : handle'[g] = handle[g] /\ (Mine(g)' <=> Mine(g))
    BY <1>1 DEF Mine
  <2>2. \A x \in Presets : tracked'[x] # NoHandle => handle'[tracked'[x]].preset = x
    BY <1>1 DEF IInv, Sound, TablesAgree
  <2> QED BY <1>1, <1>4, <2>1, <2>2, Frame
<1>7. CommandSound'
  <2>1. CASE cmd.h = NoHandle
    BY <1>1, <2>1, SupervisorAssumption DEF IInv, Sound, CommandSound, TInv, NothingMissing, InStart
  <2>2. CASE cmd.h # NoHandle
    BY <1>1, <1>4, <2>2, CommandElsewhere
  <2> QED BY <2>1, <2>2
<1>8. NoStray'
  BY <1>1, <1>4, <1>5 DEF IInv, Sound, NoStray, Tracks, Live
<1> QED BY <1>4, <1>6, <1>7, <1>8 DEF Sound

\* stop() up to its await: the process that auto had spawned dies with it.
LEMMA BeginStopSound ==
    ASSUME IInv, TInv', NEW h \in Handles, Mine(h), NEW next, cmd = Unlocked, BeginStop(h, next),
           UNCHANGED <<tracked, wish, letGo, answer>>
    PROVE  Sound'
<1> DEFINE o == [handle[h] EXCEPT !.stop = TRUE, !.auto = "none", !.spawned = NoPid]
<1>1. handle' = [handle EXCEPT ![h] = o] /\ HandleSound(h)
  BY DEF BeginStop, IInv, Sound
<1>2. /\ o.stop = TRUE /\ o.auto = "none" /\ o.spawned = NoPid /\ o.preset = handle[h].preset
      /\ o.pid = handle[h].pid /\ o.watch = handle[h].watch /\ o.adopted = handle[h].adopted
  BY HandleFields DEF IInv, Handle
<1> HIDE DEF o
<1>3. handle'[h] = o /\ \A g \in Handles \ {h} : handle'[g] = handle[g]
  BY <1>1 DEF IInv, TInv, TypeOK
<1>4. /\ cmd'.phase = "stopping" /\ cmd'.h = h /\ cmd'.pid \in {handle[h].pid, NoPid}
      /\ cmd.h = NoHandle /\ cmd.phase = "none"
  BY DEF BeginStop, Unlocked
<1>5. \A q \in Pids : /\ proc'[q].preset = proc[q].preset /\ proc'[q].ours = proc[q].ours
                      /\ Live(q)' => Live(q) /\ q # handle[h].spawned
  BY DEF BeginStop, IInv, TInv, TypeOK, Process, Live
<1>6. HandleSound(h)'
  <2>1. AutoSound(h)' /\ WishSound(h)'
    <3>1. handle'[h].stop /\ handle'[h].auto = "none" /\ handle'[h].spawned = NoPid
      BY <1>2, <1>3
    <3>2. AutoSound(h)'
      BY <3>1 DEF AutoSound, InAutoStart
    <3>3. WishSound(h)'
      BY <3>1 DEF WishSound
    <3> QED BY <3>2, <3>3
  <2>2. \A q \in Pids : (Holds(h, q)' => Holds(h, q)) /\ (Awaits(h, q)' => Awaits(h, q))
    BY <1>2, <1>3, <1>4, SupervisorAssumption DEF Holds, Awaits
  <2>3. PresetSound(h)' /\ AnswerSound(h)'
    BY <1>1, <1>2, <1>3, <1>5, <2>2 DEF HandleSound, PresetSound, AnswerSound, Mine
  <2>4. WatchSound(h)'
    BY <1>1, <1>2, <1>3, <1>5, HandleFields, SupervisorAssumption DEF HandleSound, WatchSound, IInv
  <2> QED BY <2>1, <2>3, <2>4 DEF HandleSound
<1>7. TablesAgree' /\ \A g \in Handles : HandleSound(g)'
  <2>1. /\ {h} \in SUBSET Handles /\ Mine(h)'
        /\ \A g \in Handles \ {h} :
              handle'[g] = handle[g] /\ (Mine(g)' <=> Mine(g)) /\ cmd.h # g /\ cmd'.h # g
    BY <1>2, <1>3, <1>4, SupervisorAssumption DEF Mine
  <2>2. \A p \in Presets : tracked'[p] # NoHandle => handle'[tracked'[p]].preset = p
    BY <1>2, <1>3 DEF IInv, Sound, TablesAgree, TInv, TypeOK
  <2>3. \A g \in {h} : Mine(g)' /\ HandleSound(g)'
    BY <1>6, <2>1
  <2> QED BY <1>5, <2>1, <2>2, <2>3, Frame
<1>8. CommandSound'
  BY <1>2, <1>3, <1>4 DEF CommandSound, InStart
<1>9. LiveSound' /\ AnsweredOnce'
  BY <1>5 DEF IInv, Sound, LiveSound, AnsweredOnce
<1>10. NoStray'
  <2>1. ASSUME NEW q \in Pids \ letGo, Live(q)', proc[q].ours PROVE Tracks(proc[q].preset, q)'
    <3>1. Tracks(proc[q].preset, q) /\ proc[q].preset \in Presets
      BY <1>4, <1>5, <2>1 DEF IInv, Sound, NoStray, LiveSound
    <3>2. tracked[proc[q].preset] \in Handles
      BY <3>1 DEF IInv, TInv, TypeOK, Tracks
    <3> QED BY <1>2, <1>3, <1>5, <2>1, <3>1, <3>2 DEF Tracks
  <2> QED BY <1>5, <2>1 DEF NoStray
<1> QED BY <1>7, <1>8, <1>9, <1>10 DEF Sound

\* What stop() leaves of a handle.
LEMMA StoppedFields ==
    ASSUME NEW o \in Handle
    PROVE  LET s == Stopped(o) IN
           /\ s \in Handle /\ s.pid = NoPid /\ s.adopted = FALSE /\ s.stop = o.stop
           /\ s.auto = o.auto /\ s.spawned = o.spawned /\ s.preset = o.preset
           /\ s.watch \subseteq o.watch
<1> DEFINE w == IF o.adopted THEN o.watch ELSE o.watch \ {cmd.pid}
<1>1. Stopped(o) = [o EXCEPT !.pid = NoPid, !.adopted = FALSE, !.watch = w]
  BY DEF Stopped, Reset, Handle
<1>2. w \subseteq o.watch
  OBVIOUS
<1> HIDE DEF w
<1> QED BY <1>1, <1>2 DEF Handle

\* When stop() ends, no process of ours runs under its handle.
LEMMA StopFields ==
    ASSUME IInv, cmd.phase = "stopping", StopIsOver(handle[cmd.h])
    PROVE  /\ cmd.h \in Handles /\ Mine(cmd.h) /\ HandleSound(cmd.h)
           /\ handle[cmd.h].stop /\ handle[cmd.h].auto = "none" /\ handle[cmd.h].spawned = NoPid
           /\ \A q \in handle[cmd.h].watch : ~Live(q)
           /\ Live(handle[cmd.h].pid) /\ handle[cmd.h].pid # NoPid => ~proc[handle[cmd.h].pid].ours
           /\ LET o == Stopped(handle[cmd.h]) IN
              /\ o \in Handle /\ o.pid = NoPid /\ o.adopted = FALSE /\ o.stop = handle[cmd.h].stop
              /\ o.auto = "none" /\ o.spawned = NoPid /\ o.preset = handle[cmd.h].preset
              /\ o.watch \subseteq handle[cmd.h].watch
<1>1. cmd.h \in Handles /\ Mine(cmd.h) /\ HandleSound(cmd.h)
  BY CommandOwner
<1>2. handle[cmd.h].stop /\ handle[cmd.h].auto = "none" /\ handle[cmd.h].spawned = NoPid
  BY <1>1 DEF IInv, Sound, CommandSound, HandleSound, AutoSound
<1>3. IsRunning(handle[cmd.h]) => handle[cmd.h].adopted /\ ~proc[handle[cmd.h].pid].ours
  BY DEF StopIsOver
<1>4. \A q \in handle[cmd.h].watch : ~Live(q)
  BY <1>1, <1>3, HandleFields, SupervisorAssumption DEF HandleSound, WatchSound, IsRunning, IInv
<1>5. Live(handle[cmd.h].pid) /\ handle[cmd.h].pid # NoPid => ~proc[handle[cmd.h].pid].ours
  BY <1>3 DEF IsRunning
<1>6. LET o == Stopped(handle[cmd.h]) IN
        /\ o \in Handle /\ o.pid = NoPid /\ o.adopted = FALSE /\ o.stop = handle[cmd.h].stop
        /\ o.auto = handle[cmd.h].auto /\ o.spawned = handle[cmd.h].spawned /\ o.preset = handle[cmd.h].preset
        /\ o.watch \subseteq handle[cmd.h].watch
  BY <1>1, HandleFields, StoppedFields DEF IInv
<1> QED BY <1>1, <1>2, <1>4, <1>5, <1>6

\* The handle that was stopped is sound, whatever follows.
LEMMA StoppedHandle ==
    ASSUME IInv, NEW h \in Handles, h = cmd.h, cmd.phase = "stopping", StopIsOver(handle[h]),
           handle'[h].pid = NoPid, handle'[h].adopted = FALSE,
           handle'[h].auto = "none", handle'[h].spawned = NoPid, handle'[h].preset = handle[h].preset,
           handle'[h].watch \subseteq handle[h].watch,
           handle'[h].stop \/ wish'[handle[h].preset] # "down",
           cmd'.pid = NoPid, cmd'.phase # "spawning", UNCHANGED <<proc, answer>>
    PROVE  HandleSound(h)'
<1>1. /\ Mine(h) /\ HandleSound(h)
      /\ \A q \in handle[h].watch : ~Live(q)
  BY StopFields
<1>2. AutoSound(h)'
  BY DEF AutoSound, InAutoStart
<1>3. WishSound(h)'
  BY DEF WishSound
<1>4. \A q \in Pids : (Holds(h, q)' => Holds(h, q)) /\ (Awaits(h, q)' => Awaits(h, q))
  BY SupervisorAssumption DEF Holds, Awaits
<1>5. PresetSound(h)' /\ AnswerSound(h)'
  BY <1>1, <1>4 DEF HandleSound, PresetSound, AnswerSound
<1>6. WatchSound(h)'
  BY <1>1, HandleFields, SupervisorAssumption DEF WatchSound, IInv, Live
<1> QED BY <1>2, <1>3, <1>5, <1>6 DEF HandleSound

\* stop() ends and the wish is "down".
LEMMA StopEndsSound == ASSUME IInv, TInv', StopEnds PROVE Sound'
<1>0. cmd.phase = "stopping" /\ StopIsOver(handle[cmd.h])
  BY DEF StopEnds
<1>1. cmd.h \in Handles
  BY <1>0, CommandOwner
<1> PICK h \in Handles : h = cmd.h
  BY <1>1
<1> DEFINE o == Stopped(handle[h])
<1>2. /\ handle' = [handle EXCEPT ![h] = o] /\ cmd' = Unlocked
      /\ wish' = [wish EXCEPT ![handle[h].preset] = "down"]
      /\ UNCHANGED <<tracked, proc, letGo, answer>>
  BY DEF StopEnds
<1>3. /\ Mine(h) /\ HandleSound(h)
      /\ handle[h].stop /\ handle[h].auto = "none" /\ handle[h].spawned = NoPid
      /\ \A q \in handle[h].watch : ~Live(q)
      /\ Live(handle[h].pid) /\ handle[h].pid # NoPid => ~proc[handle[h].pid].ours
  BY <1>0, StopFields
<1>4. /\ o \in Handle /\ o.pid = NoPid /\ o.adopted = FALSE /\ o.stop = handle[h].stop
      /\ o.auto = "none" /\ o.spawned = NoPid /\ o.preset = handle[h].preset
      /\ o.watch \subseteq handle[h].watch
  BY <1>0, StopFields
<1> HIDE DEF o
<1>5. handle'[h] = o /\ \A g \in Handles \ {h} : handle'[g] = handle[g]
  BY <1>2 DEF IInv, TInv, TypeOK
<1>6. cmd'.h = NoHandle /\ cmd'.phase = "none" /\ cmd'.pid = NoPid
  BY <1>2 DEF Unlocked
<1>7. HandleSound(h)'
  <2>1. handle'[h].stop
    BY <1>3, <1>4, <1>5
  <2> QED BY <1>0, <1>2, <1>4, <1>5, <1>6, <2>1, StoppedHandle
<1>8. TablesAgree' /\ \A g \in Handles : HandleSound(g)'
  <2>1. \A p \in Presets : wish'[p] = wish[p] \/ p = handle[h].preset
    BY <1>2 DEF IInv, TInv, TypeOK
  <2> QED BY <1>2, <1>3, <1>4, <1>6, <1>7, <2>1, FrameOne
<1>9. CommandSound'
  BY <1>2 DEF CommandSound, Unlocked, InStart
<1>10. LiveSound' /\ AnsweredOnce'
  BY <1>2 DEF IInv, Sound, LiveSound, AnsweredOnce, Live
<1>11. NoStray'
  <2>1. ASSUME NEW q \in Pids \ letGo, Live(q), proc[q].ours PROVE Tracks(proc[q].preset, q)'
    <3>1. Tracks(proc[q].preset, q) /\ proc[q].preset \in Presets
      BY <1>0, <2>1 DEF IInv, Sound, NoStray, LiveSound
    <3>2. tracked[proc[q].preset] \in Handles
      BY <3>1 DEF IInv, TInv, TypeOK, Tracks
    <3>3. handle[h].pid # q /\ handle[h].spawned # q
      BY <1>3, <2>1, SupervisorAssumption
    <3> QED BY <1>2, <1>4, <1>5, <2>1, <3>1, <3>2, <3>3 DEF Tracks
  <2> QED BY <1>2, <2>1 DEF NoStray, Live
<1> QED BY <1>8, <1>9, <1>10, <1>11 DEF Sound

\* A start() that is refused after its first await.
LEMMA StartFailsSound == ASSUME IInv, TInv', StartFails PROVE Sound'
<1>0. cmd.phase = "preparing" /\ cmd.h \in Handles
  BY CommandOwner DEF StartFails
<1> PICK h \in Handles : h = cmd.h
  BY <1>0
<1>1. /\ UNCHANGED <<tracked, handle, proc, wish, letGo, answer>> /\ cmd' = Unlocked
      /\ cmd'.h = NoHandle /\ cmd'.phase = "none" /\ cmd'.pid = NoPid
  BY DEF StartFails, Unlocked
<1>2. Mine(h) /\ HandleSound(h)
  BY <1>0, CommandOwner
<1>3. HandleSound(h)'
  <2>1. AutoSound(h)' /\ WishSound(h)' /\ WatchSound(h)'
    BY <1>1, <1>2 DEF HandleSound, AutoSound, InAutoStart, WishSound, WatchSound, Live, Mine
  <2>2. \A q \in Pids : (Holds(h, q)' => Holds(h, q)) /\ (Awaits(h, q)' => Awaits(h, q))
    BY <1>1, SupervisorAssumption DEF Holds, Awaits
  <2>3. PresetSound(h)' /\ AnswerSound(h)'
    BY <1>1, <1>2, <2>2 DEF HandleSound, PresetSound, AnswerSound, Mine
  <2> QED BY <2>1, <2>3 DEF HandleSound
<1>4. TablesAgree' /\ \A g \in Handles : HandleSound(g)'
  <2>1. handle' = [handle EXCEPT ![h] = handle[h]]
    BY <1>1 DEF IInv, TInv, TypeOK
  <2> QED BY <1>1, <1>2, <1>3, <2>1, FrameOne
<1>5. CommandSound'
  BY <1>1 DEF CommandSound, Unlocked, InStart
<1>6. LiveSound' /\ AnsweredOnce' /\ NoStray'
  BY <1>0, <1>1 DEF IInv, Sound, LiveSound, AnsweredOnce, NoStray, Tracks, Live
<1> QED BY <1>4, <1>5, <1>6 DEF Sound

\* The process is attached to a handle whose own did not run.
LEMMA StartEndsSound == ASSUME IInv, TInv', StartEnds PROVE Sound'
<1>0. cmd.phase = "spawning" /\ cmd.h \in Handles /\ cmd.pid \in Pids
  BY CommandOwner DEF StartEnds, IInv, TInv, NothingMissing
<1> PICK h \in Handles, s \in Pids : h = cmd.h /\ s = cmd.pid
  BY <1>0
<1> DEFINE o == Attach(handle[h], s)
<1>1. /\ handle' = [handle EXCEPT ![h] = o] /\ cmd' = Unlocked
      /\ wish' = [wish EXCEPT ![handle[h].preset] = "up"]
      /\ UNCHANGED <<tracked, proc, letGo, answer>>
      /\ cmd'.h = NoHandle /\ cmd'.phase = "none" /\ cmd'.pid = NoPid
  BY DEF StartEnds, Unlocked
<1>2. /\ Mine(h) /\ HandleSound(h) /\ ~IsRunning(handle[h]) /\ ~InAutoStart(handle[h])
      /\ handle[h].spawned = NoPid
  <2>1. Mine(h) /\ HandleSound(h) /\ ~IsRunning(handle[h]) /\ ~InAutoStart(handle[h])
    BY <1>0, CommandOwner DEF IInv, Sound, CommandSound, InStart
  <2> QED BY <2>1 DEF HandleSound, AutoSound, InAutoStart
<1>3. /\ o.pid = s /\ o.adopted = FALSE /\ o.stop = handle[h].stop
      /\ o.auto = handle[h].auto /\ o.spawned = NoPid /\ o.preset = handle[h].preset
      /\ o.watch = handle[h].watch \union {s}
  BY <1>2, HandleFields DEF IInv, Attach, Handle
<1> HIDE DEF o
<1>4. handle'[h] = o /\ \A g \in Handles \ {h} : handle'[g] = handle[g]
  BY <1>1 DEF IInv, TInv, TypeOK
<1>5. HandleSound(h)'
  <2>1. AutoSound(h)'
    BY <1>2, <1>3, <1>4 DEF HandleSound, AutoSound, InAutoStart
  <2>2. WishSound(h)'
    BY <1>1, <1>3, <1>4 DEF WishSound, Mine, IInv, TInv, TypeOK
  <2>3. \A q \in Pids : (Holds(h, q)' => Holds(h, q)) /\ (Awaits(h, q)' => Awaits(h, q))
    BY <1>0, <1>1, <1>2, <1>3, <1>4, SupervisorAssumption DEF Holds, Awaits
  <2>4. PresetSound(h)' /\ AnswerSound(h)'
    BY <1>1, <1>2, <1>3, <1>4, <2>3 DEF HandleSound, PresetSound, AnswerSound, Mine
  <2>5. WatchSound(h)'
    <3>1. \A q \in handle[h].watch : q \in Pids /\ ~Live(q)
      BY <1>2, HandleFields, SupervisorAssumption DEF HandleSound, WatchSound, IsRunning, IInv
    <3> QED BY <1>1, <1>3, <1>4, <3>1, SupervisorAssumption DEF WatchSound, Live
  <2> QED BY <2>1, <2>2, <2>4, <2>5 DEF HandleSound
<1>6. TablesAgree' /\ \A g \in Handles : HandleSound(g)'
  <2>1. \A p \in Presets : wish'[p] = wish[p] \/ p = handle[h].preset
    BY <1>1 DEF IInv, TInv, TypeOK
  <2> QED BY <1>1, <1>2, <1>3, <1>5, <2>1, FrameOne
<1>7. CommandSound'
  BY <1>1 DEF CommandSound, Unlocked, InStart
<1>8. LiveSound' /\ AnsweredOnce'
  BY <1>1 DEF IInv, Sound, LiveSound, AnsweredOnce, Live
<1>9. NoStray'
  <2>1. ASSUME NEW q \in Pids \ letGo, Live(q), proc[q].ours PROVE Tracks(proc[q].preset, q)'
    <3>1. CASE q = s
      <4>1. proc[q].preset = handle[h].preset
        BY <1>0, <1>2, <3>1 DEF HandleSound, PresetSound, Holds
      <4> QED BY <1>1, <1>2, <1>3, <1>4, <3>1, <4>1, SupervisorAssumption DEF Tracks, Mine
    <3>2. CASE q # s
      <4>1. Tracks(proc[q].preset, q) /\ proc[q].preset \in Presets
        BY <1>0, <2>1, <3>2 DEF IInv, Sound, NoStray, LiveSound
      <4>2. tracked[proc[q].preset] \in Handles
        BY <4>1 DEF IInv, TInv, TypeOK, Tracks
      <4>3. handle[h].pid # q /\ handle[h].spawned # q
        BY <1>2, <2>1, SupervisorAssumption DEF IsRunning
      <4> QED BY <1>1, <1>4, <2>1, <4>1, <4>2, <4>3 DEF Tracks
    <3> QED BY <3>1, <3>2
  <2> QED BY <1>1, <2>1 DEF NoStray, Live
<1> QED BY <1>6, <1>7, <1>8, <1>9 DEF Sound

\* Handle h may serve preset p as o, when nothing but the object changes.
Fit(p, o) ==
    /\ o.preset = p
    /\ o.stop => o.auto = "none"
    /\ InAutoStart(o) => o.pid = NoPid
    /\ o.auto = "spawning" <=> o.spawned # NoPid
    /\ \A q \in o.watch : /\ Live(q) => o.pid = q
                          /\ o.pid = q => ~o.adopted
                          /\ o.spawned # q
    /\ \A q \in Pids : o.pid = q \/ o.spawned = q \/ q \in o.watch => proc[q].preset = p
    /\ \A q \in Pids : q \in o.watch \/ o.spawned = q \/ (o.adopted /\ o.pid = q) => answer[q] = "none"

\* The object that _handle() returns fits its preset, and no other preset has it.
LEMMA LookedUp ==
    ASSUME IInv, NEW p \in Presets, NEW h \in Handles, Lookup(p, h)
    PROVE  /\ Object(p, h) \in Handle /\ Fit(p, Object(p, h))
           /\ tracked[p] \in {NoHandle, h} /\ \A r \in Presets \ {p} : tracked[r] # h
           /\ \A q \in Pids : Tracks(p, q) => Object(p, h).pid = q \/ Object(p, h).spawned = q
           /\ Object(p, h) = Fresh(p) \/ tracked[p] = h
<1>1. Object(p, h) \in Handle
  BY ObjectType DEF IInv, TInv
<1>2. CASE tracked[p] = NoHandle
  <2>1. Object(p, h) = Fresh(p) /\ \A r \in Presets : tracked[r] # h
    BY <1>2 DEF Object, Lookup, Dropped
  <2>2. Fit(p, Fresh(p))
    BY SupervisorAssumption DEF Fit, Fresh, InAutoStart
  <2> QED BY <1>1, <1>2, <2>1, <2>2 DEF Tracks
<1>3. CASE tracked[p] # NoHandle
  <2>1. Object(p, h) = handle[h] /\ tracked[p] = h /\ handle[h].preset = p
    BY <1>3 DEF Object, Lookup, IInv, Sound, TablesAgree
  <2>2. \A r \in Presets \ {p} : tracked[r] # h
    BY <2>1, SupervisorAssumption DEF IInv, Sound, TablesAgree
  <2>3. Mine(h) /\ HandleSound(h)
    BY <2>1 DEF Mine, IInv, Sound
  <2>4. Fit(p, handle[h])
    <3>1. \A q \in Pids : handle[h].pid = q \/ handle[h].spawned = q \/ q \in handle[h].watch => Holds(h, q)
      BY DEF Holds
    <3>2. \A q \in Pids : q \in handle[h].watch \/ handle[h].spawned = q \/ (handle[h].adopted /\ handle[h].pid = q)
                            => Awaits(h, q)
      BY DEF Awaits
    <3> QED BY <2>1, <2>3, <3>1, <3>2 DEF Fit, HandleSound, AutoSound, WatchSound, PresetSound, AnswerSound
  <2> QED BY <1>1, <2>1, <2>2, <2>4 DEF Tracks
<1> QED BY <1>2, <1>3

\* A handle that is an object that fits is sound.
LEMMA FitHandle ==
    ASSUME IInv, NEW p \in Presets, NEW h \in Handles, NEW o \in Handle, Fit(p, o), handle'[h] = o,
           UNCHANGED <<proc, answer>>,
           cmd'.h # h \/ (cmd'.pid = NoPid /\ cmd'.phase # "spawning"),
           wish'[p] # "down" \/ o = Fresh(p)
    PROVE  HandleSound(h)'
<1>1. AutoSound(h)' /\ WatchSound(h)'
  BY DEF Fit, AutoSound, WatchSound, InAutoStart, Live
<1>2. PresetSound(h)'
  BY SupervisorAssumption DEF Fit, PresetSound, Holds
<1>3. AnswerSound(h)'
  BY DEF Fit, AnswerSound, Awaits
<1>4. WishSound(h)'
  BY DEF Fit, WishSound, Fresh
<1> QED BY <1>1, <1>2, <1>3, <1>4 DEF HandleSound

\* The frame of a step that looks a handle up and changes it; a process that
\* the object loses did not run.
LEMMA Taken ==
    ASSUME IInv, TInv', NEW p \in Presets, NEW h \in Handles, Lookup(p, h), NEW o \in Handle, Fit(p, o),
           tracked' = [tracked EXCEPT ![p] = h], handle' = [handle EXCEPT ![h] = o],
           UNCHANGED <<proc, answer>>, cmd.h # h,
           cmd' = cmd \/ (cmd.h = NoHandle /\ cmd'.h \in {NoHandle, h} /\ cmd'.pid = NoPid /\ cmd'.phase # "spawning"),
           wish'[p] # "down" \/ o = Fresh(p),
           \A r \in Presets : wish'[r] = wish[r] \/ wish'[r] # "down",
           o.spawned = Object(p, h).spawned,
           o.pid = Object(p, h).pid \/ ~IsRunning(Object(p, h)),
           letGo \subseteq letGo' \union {o.pid}
    PROVE  TablesAgree' /\ (\A g \in Handles : HandleSound(g)') /\ LiveSound' /\ AnsweredOnce' /\ NoStray'
<1>1. handle'[h] = o /\ \A g \in Handles \ {h} : handle'[g] = handle[g]
  BY DEF IInv, TInv, TypeOK
<1>2. /\ tracked'[p] = h /\ \A r \in Presets \ {p} : tracked'[r] = tracked[r] /\ tracked[r] # h
      /\ tracked[p] \in {NoHandle, h}
  BY LookedUp DEF IInv, TInv, TypeOK
<1>3. o.preset = p
  BY DEF Fit
<1>4. HandleSound(h)'
  BY <1>1, FitHandle, SupervisorAssumption
<1>5. TablesAgree' /\ \A g \in Handles : HandleSound(g)'
  <2>1. Mine(h)'
    BY <1>1, <1>2, <1>3 DEF Mine
  <2>2. \A g \in Handles \ {h} : handle'[g] = handle[g] /\ (Mine(g)' <=> Mine(g))
                                   /\ (cmd' = cmd \/ (cmd.h # g /\ cmd'.h # g))
    BY <1>1, <1>2, SupervisorAssumption DEF Mine
  <2>3. \A r \in Presets : tracked'[r] # NoHandle => handle'[tracked'[r]].preset = r
    BY <1>1, <1>2, <1>3 DEF IInv, Sound, TablesAgree, TInv, TypeOK
  <2>4. /\ {h} \in SUBSET Handles /\ \A g \in {h} : Mine(g)' /\ HandleSound(g)'
        /\ \A q \in Pids : Free(q) \/ (proc'[q].preset = proc[q].preset /\ (Live(q)' => Live(q)))
        /\ \A r \in Presets : wish'[r] = wish[r] \/ wish'[r] # "down" \/ tracked'[r] \in {h}
    BY <1>4, <2>1 DEF Live
  <2> QED BY <2>2, <2>3, <2>4, Frame
<1>6. LiveSound' /\ AnsweredOnce'
  BY DEF IInv, Sound, LiveSound, AnsweredOnce, Live
<1>7. NoStray'
  <2>1. ASSUME NEW q \in Pids \ letGo', Live(q), proc[q].ours
        PROVE  Tracks(proc[q].preset, q)' \/ (cmd'.phase = "spawning" /\ cmd'.pid = q)
    <3>1. CASE q = o.pid
      <4>1. proc[q].preset = p
        BY <3>1 DEF Fit
      <4> QED BY <1>1, <1>2, <3>1, <4>1, SupervisorAssumption DEF Tracks
    <3>2. CASE q # o.pid /\ Tracks(proc[q].preset, q)
      <4>1. proc[q].preset \in Presets
        BY <2>1 DEF IInv, Sound, LiveSound
      <4>2. CASE proc[q].preset = p
        <5>1. Object(p, h).pid = q \/ Object(p, h).spawned = q
          BY <3>2, <4>2, LookedUp
        <5>2. o.spawned = q
          BY <2>1, <3>2, <5>1, SupervisorAssumption DEF IsRunning
        <5> QED BY <1>1, <1>2, <4>2, <5>2, SupervisorAssumption DEF Tracks
      <4>3. CASE proc[q].preset # p
        <5>1. tracked[proc[q].preset] \in Handles \ {h}
          BY <1>2, <3>2, <4>1, <4>3 DEF Tracks, IInv, TInv, TypeOK
        <5> QED BY <1>1, <1>2, <3>2, <4>1, <4>3, <5>1 DEF Tracks
      <4> QED BY <4>2, <4>3
    <3>3. CASE q # o.pid /\ cmd.phase = "spawning" /\ cmd.pid = q
      BY <3>3, CommandOwner, SupervisorAssumption
    <3> QED BY <2>1, <3>1, <3>2, <3>3 DEF IInv, Sound, NoStray
  <2> QED BY <2>1 DEF NoStray, Live
<1> QED BY <1>5, <1>6, <1>7

\* Object o is b, except that a stop request may be lifted.
SameButStop(o, b) ==
    /\ o.preset = b.preset /\ o.pid = b.pid /\ o.adopted = b.adopted
    /\ o.auto = b.auto /\ o.spawned = b.spawned /\ o.watch = b.watch
    /\ o.stop => b.stop

\* start() up to its first await may lift the stop request, no more.
LEMMA BegunHandle ==
    ASSUME NEW p \in Presets, NEW h \in Handles, NEW H \in [Handles -> Handle], BeginStart(p, h, H)
    PROVE  \E o \in Handle : handle' = [H EXCEPT ![h] = o] /\ SameButStop(o, H[h])
<1> DEFINE lifted == H[h].stop /\ IsRunning(H[h])
           o == [H[h] EXCEPT !.stop = lifted]
<1>1. lifted \in BOOLEAN /\ handle' = [H EXCEPT ![h].stop = lifted] /\ (lifted => H[h].stop)
  <2>1. H[h].stop \in BOOLEAN /\ IsRunning(H[h]) \in BOOLEAN
    BY DEF Handle, IsRunning, Live
  <2> QED BY <2>1 DEF BeginStart
<1> HIDE DEF lifted
<1>2. o \in Handle /\ handle' = [H EXCEPT ![h] = o]
  BY <1>1 DEF Handle
<1>3. /\ o.preset = H[h].preset /\ o.pid = H[h].pid /\ o.adopted = H[h].adopted
      /\ o.auto = H[h].auto /\ o.spawned = H[h].spawned /\ o.watch = H[h].watch
      /\ o.stop = lifted
  BY <1>1 DEF Handle
<1> HIDE DEF o
<1>4. SameButStop(o, H[h])
  BY <1>1, <1>3 DEF SameButStop
<1> QED BY <1>2, <1>4

\* What holds of the command then.
LEMMA BegunStart ==
    ASSUME "overlap" \notin Events, NEW p \in Presets, NEW h \in Handles, NEW H, BeginStart(p, h, H)
    PROVE  /\ ~InAutoStart(H[h])
           /\ cmd'.pid = NoPid /\ cmd'.phase \in {"none", "preparing"} /\ cmd'.h \in {NoHandle, h}
           /\ cmd'.phase = "none" => cmd' = Unlocked
           /\ cmd'.phase = "preparing" => cmd'.h = h /\ ~IsRunning(H[h])
<1>1. ~InAutoStart(H[h])
  BY DEF BeginStart, Overlap
<1>2. \/ cmd' = Unlocked
      \/ ~IsRunning(H[h]) /\ cmd' = [phase |-> "preparing", h |-> h, pid |-> NoPid, next |-> NoPreset]
  BY DEF BeginStart, Unlocked
<1>3. /\ cmd'.pid = NoPid /\ cmd'.phase \in {"none", "preparing"} /\ cmd'.h \in {NoHandle, h}
      /\ cmd'.phase = "none" => cmd' = Unlocked
      /\ cmd'.phase = "preparing" => cmd'.h = h
  <2>1. CASE cmd' = Unlocked
    BY <2>1 DEF Unlocked
  <2>2. CASE cmd' = [phase |-> "preparing", h |-> h, pid |-> NoPid, next |-> NoPreset]
    BY <2>2
  <2> QED BY <1>2, <2>1, <2>2
<1>4. cmd'.phase = "preparing" => ~IsRunning(H[h])
  BY <1>2 DEF Unlocked
<1> QED BY <1>1, <1>3, <1>4

\* The command that a start() begins is sound.
LEMMA BegunCommand ==
    ASSUME NEW h \in Handles, NEW b,
           cmd'.phase \in {"none", "preparing"}, cmd'.phase = "none" => cmd' = Unlocked,
           cmd'.phase = "preparing" => cmd'.h = h /\ ~IsRunning(b),
           SameButStop(handle'[h], b), ~InAutoStart(b), proc' = proc, wish'[b.preset] # "down"
    PROVE  CommandSound'
BY DEF CommandSound, SameButStop, InStart, InAutoStart, IsRunning, Live, Unlocked

\* Lifting a stop request keeps an object fitting.
LEMMA SameFits ==
    ASSUME NEW p, NEW o, NEW b, Fit(p, b), SameButStop(o, b) PROVE Fit(p, o)
BY DEF Fit, SameButStop, InAutoStart

\* start() is called.
LEMMA StartCalledSound ==
    ASSUME IInv, TInv', "overlap" \notin Events, NEW p \in Presets, StartCalled(p) PROVE Sound'
<1>1. PICK h \in Handles :
         /\ Lookup(p, h) /\ BeginStart(p, h, [handle EXCEPT ![h] = Object(p, h)])
         /\ tracked' = [tracked EXCEPT ![p] = h]
  BY DEF StartCalled
<1> DEFINE b == Object(p, h)
           H == [handle EXCEPT ![h] = b]
<1>2. b \in Handle /\ Fit(p, b)
  BY <1>1, LookedUp
<1> HIDE DEF b
<1>3. H \in [Handles -> Handle] /\ H[h] = b
  BY <1>2 DEF IInv, TInv, TypeOK
<1>4. BeginStart(p, h, H)
  BY <1>1 DEF b
<1> HIDE DEF H
<1>5. PICK o \in Handle : handle' = [H EXCEPT ![h] = o] /\ SameButStop(o, b)
  BY <1>3, <1>4, BegunHandle
<1>6. handle' = [handle EXCEPT ![h] = o] /\ handle'[h] = o
  BY <1>5 DEF H, IInv, TInv, TypeOK
<1>7. /\ ~InAutoStart(b)
      /\ cmd'.pid = NoPid /\ cmd'.phase \in {"none", "preparing"} /\ cmd'.h \in {NoHandle, h}
      /\ cmd'.phase = "none" => cmd' = Unlocked
      /\ cmd'.phase = "preparing" => cmd'.h = h /\ ~IsRunning(b)
  BY <1>3, <1>4, BegunStart
<1>8. /\ cmd.h = NoHandle /\ wish'[p] = "any" /\ \A r \in Presets : wish'[r] = wish[r] \/ wish'[r] # "down"
      /\ UNCHANGED <<proc, letGo, answer>>
  BY DEF StartCalled, Unlocked, IInv, TInv, TypeOK
<1>9. Fit(p, o) /\ o.pid = b.pid /\ o.spawned = b.spawned /\ b.preset = p
  BY <1>2, <1>5, SameFits DEF SameButStop, Fit
<1>10. TablesAgree' /\ (\A g \in Handles : HandleSound(g)') /\ LiveSound' /\ AnsweredOnce' /\ NoStray'
  BY <1>1, <1>6, <1>7, <1>8, <1>9, Taken, SupervisorAssumption DEF b
<1>11. CommandSound'
  BY <1>5, <1>6, <1>7, <1>8, <1>9, BegunCommand
<1> QED BY <1>10, <1>11 DEF Sound

\* A running process is adopted: nothing else awaited its end.
LEMMA AdoptSound ==
    ASSUME IInv, TInv', "overlap" \notin Events, NEW p \in Presets, NEW q \in Pids, Adopt(p, q) PROVE Sound'
<1>1. PICK h \in Handles :
         /\ Lookup(p, h) /\ ~IsRunning(Object(p, h)) /\ ~InAutoStart(Object(p, h))
         /\ tracked' = [tracked EXCEPT ![p] = h]
         /\ handle' = [handle EXCEPT ![h] = [Object(p, h) EXCEPT !.pid = q, !.adopted = TRUE]]
  BY DEF Adopt, Overlap
<1>2. /\ cmd = Unlocked /\ Live(q) /\ proc[q].preset = p /\ wish' = [wish EXCEPT ![p] = "up"]
      /\ letGo' = letGo \ {q} /\ UNCHANGED <<proc, cmd, answer>>
  BY DEF Adopt
<1> DEFINE b == Object(p, h)
           o == [b EXCEPT !.pid = q, !.adopted = TRUE]
<1>3. b \in Handle /\ Fit(p, b)
  BY <1>1, LookedUp
<1> HIDE DEF b
<1>4. /\ o \in Handle /\ o.pid = q /\ o.adopted = TRUE /\ o.preset = b.preset /\ o.stop = b.stop
      /\ o.auto = b.auto /\ o.spawned = b.spawned /\ o.watch = b.watch /\ b.watch \subseteq Pids
  BY <1>3 DEF Handle
<1>5. handle' = [handle EXCEPT ![h] = o] /\ ~IsRunning(b) /\ ~InAutoStart(b)
  BY <1>1 DEF b
<1> HIDE DEF o
<1>6. Fit(p, o)
  <2>1. \A x \in b.watch : ~Live(x)
    BY <1>3, <1>4, <1>5, SupervisorAssumption DEF Fit, IsRunning
  <2>2. b.spawned = NoPid /\ answer[q] = "none"
    BY <1>2, <1>3, <1>5 DEF Fit, InAutoStart, IInv, Sound, LiveSound
  <2>3. /\ o.preset = p /\ (o.stop => o.auto = "none")
        /\ InAutoStart(o) => o.pid = NoPid
        /\ o.auto = "spawning" <=> o.spawned # NoPid
    BY <1>3, <1>4, <1>5 DEF Fit, InAutoStart
  <2>4. \A x \in o.watch : ~Live(x) /\ x # q /\ o.spawned # x
    BY <1>2, <1>3, <1>4, <2>1, <2>2, SupervisorAssumption
  <2>5. \A x \in Pids : o.pid = x \/ o.spawned = x \/ x \in o.watch => proc[x].preset = p
    BY <1>2, <1>3, <1>4, <2>2, SupervisorAssumption DEF Fit
  <2>6. \A x \in Pids : x \in o.watch \/ o.spawned = x \/ (o.adopted /\ o.pid = x) => answer[x] = "none"
    BY <1>2, <1>3, <1>4, <2>2, SupervisorAssumption DEF Fit
  <2> QED BY <1>4, <2>3, <2>4, <2>5, <2>6 DEF Fit
<1>7. /\ cmd.h = NoHandle /\ wish'[p] = "up" /\ \A r \in Presets : wish'[r] = wish[r] \/ wish'[r] # "down"
  BY <1>2 DEF Unlocked, IInv, TInv, TypeOK
<1>8. TablesAgree' /\ (\A g \in Handles : HandleSound(g)') /\ LiveSound' /\ AnsweredOnce' /\ NoStray'
  <2>1. letGo \subseteq letGo' \union {o.pid}
    BY <1>2, <1>4
  <2>2. o.spawned = Object(p, h).spawned /\ ~IsRunning(Object(p, h))
    BY <1>4, <1>5 DEF b
  <2>3. cmd.h # h /\ cmd' = cmd
    BY <1>2, <1>7, SupervisorAssumption
  <2>4. o \in Handle /\ Fit(p, o) /\ Lookup(p, h) /\ UNCHANGED <<proc, answer>>
        /\ tracked' = [tracked EXCEPT ![p] = h] /\ handle' = [handle EXCEPT ![h] = o]
    BY <1>1, <1>2, <1>4, <1>5, <1>6
  <2>5. wish'[p] # "down"
    BY <1>7
  <2> QED BY <1>7, <2>1, <2>2, <2>3, <2>4, <2>5, Taken
<1>9. CommandSound'
  BY <1>2 DEF CommandSound, Unlocked, InStart
<1> QED BY <1>8, <1>9 DEF Sound

\* stream_logs() makes a handle without the lock.
LEMMA StreamLogsSound ==
    ASSUME IInv, TInv', NEW p \in Presets, StreamLogs(p) PROVE Sound'
<1>1. PICK h \in Handles :
         /\ Dropped(h)
         /\ tracked' = [tracked EXCEPT ![p] = h] /\ handle' = [handle EXCEPT ![h] = Fresh(p)]
  BY DEF StreamLogs
<1>2. tracked[p] = NoHandle /\ UNCHANGED <<proc, cmd, wish, letGo, answer>>
  BY DEF StreamLogs
<1>3. Lookup(p, h) /\ Object(p, h) = Fresh(p) /\ cmd.h # h
  BY <1>1, <1>2 DEF Lookup, Object, Dropped, Quiet
<1>4. Fresh(p) \in Handle /\ Fit(p, Fresh(p))
  BY <1>3, LookedUp
<1> DEFINE o == Fresh(p)
<1>5. o \in Handle /\ Fit(p, o) /\ o = Object(p, h) /\ handle' = [handle EXCEPT ![h] = o]
  BY <1>1, <1>3, <1>4
<1>6. letGo \subseteq letGo' \union {o.pid}
  BY <1>2
<1> HIDE DEF o
<1>7. TablesAgree' /\ (\A g \in Handles : HandleSound(g)') /\ LiveSound' /\ AnsweredOnce' /\ NoStray'
  BY <1>1, <1>2, <1>3, <1>5, <1>6, Taken
<1>8. CommandSound'
  <2>1. \A g \in Handles \ {h} : handle'[g] = handle[g]
    BY <1>1 DEF IInv, TInv, TypeOK
  <2>2. \A q \in Pids : Live(q)' => Live(q)
    BY <1>2 DEF Live
  <2> QED BY <1>2, <1>3, <2>1, <2>2, CommandElsewhere
<1> QED BY <1>7, <1>8 DEF Sound

\* restart(): the same handle is stopped, then started.
LEMMA RestartEndsStop ==
    ASSUME IInv, TInv', "overlap" \notin Events, NEW p \in Presets, NEW h \in Handles,
           StopEndsStart(p, h), p = handle[cmd.h].preset
    PROVE  Sound'
<1>0. cmd.phase = "stopping" /\ StopIsOver(handle[cmd.h]) /\ h = cmd.h
  BY DEF StopEndsStart
<1> DEFINE b == Stopped(handle[h])
           H == [handle EXCEPT ![h] = b]
<1>1. /\ Mine(h) /\ HandleSound(h) /\ handle[h].spawned = NoPid
      /\ Live(handle[h].pid) /\ handle[h].pid # NoPid => ~proc[handle[h].pid].ours
  BY <1>0, StopFields
<1>2. /\ b \in Handle /\ b.pid = NoPid /\ b.adopted = FALSE /\ b.auto = "none" /\ b.spawned = NoPid
      /\ b.preset = handle[h].preset /\ b.watch \subseteq handle[h].watch
  BY <1>0, StopFields
<1>3. BeginStart(p, h, H) /\ tracked' = tracked
  BY <1>0 DEF StopEndsStart
<1> HIDE DEF b
<1>4. H \in [Handles -> Handle] /\ H[h] = b
  BY <1>2 DEF IInv, TInv, TypeOK
<1> HIDE DEF H
<1>5. PICK o \in Handle : handle' = [H EXCEPT ![h] = o] /\ SameButStop(o, b)
  BY <1>3, <1>4, BegunHandle
<1>6. handle' = [handle EXCEPT ![h] = o] /\ handle'[h] = o /\ \A g \in Handles \ {h} : handle'[g] = handle[g]
  BY <1>5 DEF H, IInv, TInv, TypeOK
<1>7. /\ ~InAutoStart(b)
      /\ cmd'.pid = NoPid /\ cmd'.phase \in {"none", "preparing"} /\ cmd'.h \in {NoHandle, h}
      /\ cmd'.phase = "none" => cmd' = Unlocked
      /\ cmd'.phase = "preparing" => cmd'.h = h /\ ~IsRunning(b)
  BY <1>3, <1>4, BegunStart
<1>8. /\ UNCHANGED <<proc, letGo, answer>> /\ wish'[p] = "any"
      /\ \A r \in Presets : wish'[r] = wish[r] \/ r = handle[h].preset
  BY <1>0 DEF StopEndsStart, IInv, TInv, TypeOK
<1>9. /\ o.pid = NoPid /\ o.adopted = FALSE /\ o.auto = "none" /\ o.spawned = NoPid
      /\ o.preset = handle[h].preset /\ o.watch \subseteq handle[h].watch
  BY <1>2, <1>5 DEF SameButStop
<1>10. HandleSound(h)'
  <2>1. wish'[handle[h].preset] # "down"
    BY <1>0, <1>8
  <2> QED BY <1>0, <1>6, <1>7, <1>8, <1>9, <2>1, StoppedHandle
<1>11. TablesAgree' /\ \A g \in Handles : HandleSound(g)'
  BY <1>0, <1>1, <1>3, <1>6, <1>7, <1>8, <1>9, <1>10, FrameOne
<1>12. CommandSound'
  BY <1>0, <1>2, <1>5, <1>6, <1>7, <1>8, BegunCommand
<1>13. LiveSound' /\ AnsweredOnce'
  BY <1>8 DEF IInv, Sound, LiveSound, AnsweredOnce, Live
<1>14. NoStray'
  <2>1. ASSUME NEW q \in Pids \ letGo, Live(q), proc[q].ours PROVE Tracks(proc[q].preset, q)'
    <3>1. Tracks(proc[q].preset, q) /\ proc[q].preset \in Presets
      BY <1>0, <2>1 DEF IInv, Sound, NoStray, LiveSound
    <3>2. tracked[proc[q].preset] \in Handles
      BY <3>1 DEF IInv, TInv, TypeOK, Tracks
    <3>3. handle[h].pid # q /\ handle[h].spawned # q
      BY <1>1, <2>1, SupervisorAssumption
    <3> QED BY <1>3, <1>6, <1>8, <2>1, <3>1, <3>2, <3>3 DEF Tracks
  <2> QED BY <1>8, <2>1 DEF NoStray, Live
<1> QED BY <1>11, <1>12, <1>13, <1>14 DEF Sound

\* switch(): one handle is stopped, another one is started.
LEMMA SwitchEndsStop ==
    ASSUME IInv, TInv', "overlap" \notin Events, NEW p \in Presets, NEW h \in Handles,
           StopEndsStart(p, h), p # handle[cmd.h].preset
    PROVE  Sound'
<1>0. cmd.phase = "stopping" /\ StopIsOver(handle[cmd.h]) /\ h # cmd.h /\ Lookup(p, h) /\ cmd.h \in Handles
  BY StopFields DEF StopEndsStart
<1> PICK c \in Handles : c = cmd.h
  BY <1>0
<1> DEFINE s == Stopped(handle[c])
           b == Object(p, h)
           H == [handle EXCEPT ![c] = s]
           K == [H EXCEPT ![h] = b]
<1>1. /\ Mine(c) /\ HandleSound(c) /\ handle[c].stop /\ handle[c].spawned = NoPid
      /\ Live(handle[c].pid) /\ handle[c].pid # NoPid => ~proc[handle[c].pid].ours
  BY <1>0, StopFields
<1>2. /\ s \in Handle /\ s.pid = NoPid /\ s.adopted = FALSE /\ s.stop = handle[c].stop
      /\ s.auto = "none" /\ s.spawned = NoPid
      /\ s.preset = handle[c].preset /\ s.watch \subseteq handle[c].watch
  BY <1>0, StopFields
<1>3. /\ BeginStart(p, h, K) /\ tracked' = [tracked EXCEPT ![p] = h]
      /\ UNCHANGED <<proc, letGo, answer>>
      /\ wish' = [wish EXCEPT ![handle[c].preset] = "down", ![p] = "any"]
  BY DEF StopEndsStart
<1>4. /\ b \in Handle /\ Fit(p, b) /\ b.preset = p /\ tracked[p] \in {NoHandle, h}
      /\ \A r \in Presets \ {p} : tracked[r] # h
      /\ \A q \in Pids : Tracks(p, q) => b.pid = q \/ b.spawned = q
  BY <1>0, LookedUp DEF Fit
<1> HIDE DEF s, b
<1>5. K \in [Handles -> Handle] /\ K[h] = b
  BY <1>2, <1>4 DEF IInv, TInv, TypeOK
<1> HIDE DEF K
<1>6. PICK o \in Handle : handle' = [K EXCEPT ![h] = o] /\ SameButStop(o, b)
  BY <1>3, <1>5, BegunHandle
<1>7. handle'[h] = o /\ handle'[c] = s /\ \A g \in Handles \ {c, h} : handle'[g] = handle[g]
  BY <1>0, <1>6 DEF K, IInv, TInv, TypeOK
<1>8. /\ ~InAutoStart(b)
      /\ cmd'.pid = NoPid /\ cmd'.phase \in {"none", "preparing"} /\ cmd'.h \in {NoHandle, h}
      /\ cmd'.phase = "none" => cmd' = Unlocked
      /\ cmd'.phase = "preparing" => cmd'.h = h /\ ~IsRunning(b)
  BY <1>3, <1>5, BegunStart
<1>9. /\ wish'[p] = "any" /\ \A r \in Presets : wish'[r] = wish[r] \/ wish'[r] # "down" \/ r = handle[c].preset
      /\ tracked'[p] = h /\ \A r \in Presets \ {p} : tracked'[r] = tracked[r]
  BY <1>3 DEF IInv, TInv, TypeOK
<1>10. Fit(p, o) /\ o.pid = b.pid /\ o.spawned = b.spawned /\ o.preset = p
  BY <1>4, <1>6, SameFits DEF SameButStop
<1>11. HandleSound(h)'
  BY <1>3, <1>7, <1>8, <1>9, <1>10, FitHandle
<1>12. HandleSound(c)'
  <2>1. handle'[c].stop
    BY <1>1, <1>2, <1>7
  <2> QED BY <1>0, <1>2, <1>3, <1>7, <1>8, <2>1, StoppedHandle
<1>13. TablesAgree' /\ \A g \in Handles : HandleSound(g)'
  <2>1. Mine(h)' /\ Mine(c)'
    BY <1>0, <1>1, <1>2, <1>7, <1>9, <1>10 DEF Mine
  <2>2. \A g \in Handles \ {c, h} : handle'[g] = handle[g] /\ (Mine(g)' <=> Mine(g)) /\ cmd.h # g /\ cmd'.h # g
    BY <1>4, <1>7, <1>8, <1>9, SupervisorAssumption DEF Mine
  <2>3. \A r \in Presets : tracked'[r] # NoHandle => handle'[tracked'[r]].preset = r
    <3>1. \A r \in Presets \ {p} : tracked[r] # NoHandle => tracked[r] \in Handles \ {h} /\ handle[tracked[r]].preset = r
      BY <1>4 DEF IInv, Sound, TablesAgree, TInv, TypeOK
    <3> QED BY <1>2, <1>7, <1>9, <1>10, <3>1
  <2>4. \A r \in Presets : wish'[r] = wish[r] \/ wish'[r] # "down" \/ tracked'[r] \in {c, h}
    BY <1>1, <1>9 DEF Mine
  <2>5. {c, h} \in SUBSET Handles /\ \A g \in {c, h} : Mine(g)' /\ HandleSound(g)'
    BY <1>11, <1>12, <2>1
  <2>6. /\ \A q \in Pids : Free(q) \/ (proc'[q].preset = proc[q].preset /\ (Live(q)' => Live(q)))
        /\ \A q \in Pids : answer'[q] = answer[q]
    BY <1>3 DEF Live
  <2> QED BY <2>2, <2>3, <2>4, <2>5, <2>6, Frame
<1>14. CommandSound'
  <2>1. SameButStop(handle'[h], b) /\ wish'[b.preset] # "down" /\ proc' = proc
    BY <1>3, <1>4, <1>6, <1>7, <1>9
  <2> QED BY <1>8, <2>1, BegunCommand
<1>15. LiveSound' /\ AnsweredOnce'
  BY <1>3 DEF IInv, Sound, LiveSound, AnsweredOnce, Live
<1>16. NoStray'
  <2>1. ASSUME NEW q \in Pids \ letGo, Live(q), proc[q].ours PROVE Tracks(proc[q].preset, q)'
    <3>1. Tracks(proc[q].preset, q) /\ proc[q].preset \in Presets
      BY <1>0, <2>1 DEF IInv, Sound, NoStray, LiveSound
    <3>2. tracked[proc[q].preset] \in Handles
      BY <3>1 DEF IInv, TInv, TypeOK, Tracks
    <3>3. handle[c].pid # q /\ handle[c].spawned # q
      BY <1>1, <2>1, SupervisorAssumption
    <3>4. CASE proc[q].preset = p
      <4>1. o.pid = q \/ o.spawned = q
        BY <1>4, <1>10, <3>1, <3>4
      <4> QED BY <1>3, <1>7, <1>9, <3>4, <4>1, SupervisorAssumption DEF Tracks
    <3>5. CASE proc[q].preset # p
      <4>1. tracked[proc[q].preset] \in Handles \ {c, h}
        BY <1>4, <3>1, <3>2, <3>3, <3>5 DEF Tracks
      <4> QED BY <1>3, <1>7, <1>9, <3>1, <3>5, <4>1 DEF Tracks
    <3> QED BY <3>4, <3>5
  <2> QED BY <1>3, <2>1 DEF NoStray, Live
<1> QED BY <1>13, <1>14, <1>15, <1>16 DEF Sound

\* rebind() drops handles that have nothing to lose.
LEMMA RebindSound == ASSUME IInv, TInv', "overlap" \notin Events, Rebind PROVE Sound'
<1>1. /\ \A p \in Presets : tracked[p] # NoHandle => IsRunning(handle[tracked[p]]) \/ Quiet(tracked[p])
      /\ \A p \in Presets : tracked'[p] = IF tracked[p] # NoHandle /\ ~IsRunning(handle[tracked[p]])
                                          THEN NoHandle ELSE tracked[p]
      /\ UNCHANGED <<handle, proc, cmd, wish, letGo, answer>>
  BY DEF Rebind, Overlap
<1>2. \A h \in Handles : Mine(h)' => Mine(h)
  BY <1>1, SupervisorAssumption DEF Mine
<1>3. TablesAgree'
  <2>1. \A p \in Presets : tracked'[p] # NoHandle => handle'[tracked'[p]].preset = p
    BY <1>1 DEF IInv, Sound, TablesAgree
  <2>2. ASSUME NEW h \in Handles, ~Quiet(h) PROVE Mine(h)'
    <3>1. Mine(h)
      BY <2>2 DEF IInv, Sound, TablesAgree
    <3> QED BY <1>1, <2>2, <3>1 DEF Mine
  <2> QED BY <1>1, <2>1, <2>2 DEF TablesAgree, Quiet
<1>4. ASSUME NEW h \in Handles PROVE HandleSound(h)'
  <2>1. HandleSound(h)
    BY DEF IInv, Sound
  <2>2. AutoSound(h)' /\ WatchSound(h)' /\ WishSound(h)'
    BY <1>1, <1>2, <2>1 DEF HandleSound, AutoSound, WatchSound, WishSound, InAutoStart, Live
  <2>3. PresetSound(h)' /\ AnswerSound(h)'
    BY <1>1, <1>2, <2>1 DEF HandleSound, PresetSound, AnswerSound, Holds, Awaits
  <2> QED BY <2>2, <2>3 DEF HandleSound
<1>5. CommandSound'
  BY <1>1 DEF IInv, Sound, CommandSound, IsRunning, Live, InStart, InAutoStart, Unlocked
<1>6. LiveSound' /\ AnsweredOnce'
  BY <1>1 DEF IInv, Sound, LiveSound, AnsweredOnce, Live
<1>7. NoStray'
  <2>1. ASSUME NEW p \in Presets, NEW q \in Pids, Live(q), Tracks(p, q) PROVE Tracks(p, q)'
    <3>1. tracked[p] \in Handles
      BY <2>1 DEF Tracks, IInv, TInv, TypeOK
    <3>2. CASE handle[tracked[p]].pid = q
      <4>1. IsRunning(handle[tracked[p]])
        BY <2>1, <3>2, SupervisorAssumption DEF IsRunning
      <4> QED BY <1>1, <2>1, <4>1 DEF Tracks
    <3>3. CASE handle[tracked[p]].spawned = q
      <4>1. handle[tracked[p]].auto # "none"
        BY <3>1, <3>3, SupervisorAssumption DEF IInv, Sound, HandleSound, AutoSound
      <4>2. IsRunning(handle[tracked[p]])
        BY <1>1, <2>1, <4>1 DEF Quiet, Tracks
      <4> QED BY <1>1, <2>1, <4>2 DEF Tracks
    <3> QED BY <2>1, <3>2, <3>3 DEF Tracks
  <2> QED BY <1>1, <2>1 DEF IInv, Sound, NoStray, LiveSound, Live
<1> QED BY <1>3, <1>4, <1>5, <1>6, <1>7 DEF Sound

\* After os.execv() and the boot every live process is adopted or let go.
LEMMA ReexecSound == ASSUME IInv, TInv', Reexec PROVE Sound'
<1>1. PICK on \in [Presets -> Handles], of \in [Presets -> Pids \union {NoPid}] :
        /\ \A p, r \in Presets : p # r => on[p] # on[r]
        /\ \A p \in Presets : of[p] # NoPid => Live(of[p]) /\ proc[of[p]].preset = p
        /\ tracked' = [p \in Presets |-> IF of[p] = NoPid THEN NoHandle ELSE on[p]]
        /\ handle' = [h \in Handles |->
                         IF \E p \in Presets : on[p] = h /\ of[p] # NoPid
                         THEN LET p == CHOOSE p \in Presets : on[p] = h /\ of[p] # NoPid IN
                              [Fresh(p) EXCEPT !.pid = of[p], !.adopted = TRUE]
                         ELSE Fresh(NoPreset)]
        /\ wish' = [p \in Presets |-> IF of[p] # NoPid THEN "up"
                                      ELSE IF wish[p] = "up" THEN "any" ELSE wish[p]]
        /\ letGo' = {q \in Pids : Live(q) /\ \A p \in Presets : of[p] # q}
  <2>1. PICK on \in [Presets -> Handles], of \in [Presets -> Pids \union {NoPid}] :
          LET found(p) == {q \in Pids : Live(q) /\ proc[q].preset = p}
              adopts(p, h) == on[p] = h /\ of[p] # NoPid IN
          /\ \A p, r \in Presets : p # r => on[p] # on[r]
          /\ \A p \in Presets : IF found(p) = {} THEN of[p] = NoPid ELSE of[p] \in found(p)
          /\ tracked' = [p \in Presets |-> IF of[p] = NoPid THEN NoHandle ELSE on[p]]
          /\ handle' = [h \in Handles |->
                           IF \E p \in Presets : adopts(p, h)
                           THEN LET p == CHOOSE p \in Presets : adopts(p, h) IN
                                [Fresh(p) EXCEPT !.pid = of[p], !.adopted = TRUE]
                           ELSE Fresh(NoPreset)]
          /\ wish' = [p \in Presets |-> IF of[p] # NoPid THEN "up"
                                        ELSE IF wish[p] = "up" THEN "any" ELSE wish[p]]
          /\ letGo' = {q \in Pids : Live(q) /\ \A p \in Presets : of[p] # q}
    BY DEF Reexec
  <2>2. \A p \in Presets : of[p] # NoPid => Live(of[p]) /\ proc[of[p]].preset = p
    BY <2>1
  <2> QED BY <2>1, <2>2
<1>2. /\ cmd' = Unlocked /\ cmd'.h = NoHandle /\ cmd'.phase = "none" /\ cmd'.pid = NoPid
      /\ UNCHANGED <<proc, answer>>
  BY DEF Reexec, Unlocked
<1>3. ASSUME NEW p \in Presets, of[p] # NoPid
      PROVE  handle'[on[p]] = [Fresh(p) EXCEPT !.pid = of[p], !.adopted = TRUE]
  <2>1. on[p] \in Handles
    BY <1>1
  <2>2. \A r \in Presets : on[r] = on[p] /\ of[r] # NoPid <=> r = p
    BY <1>1, <1>3
  <2>3. (CHOOSE r \in Presets : on[r] = on[p] /\ of[r] # NoPid) = p
    BY <2>2
  <2> QED BY <1>1, <1>3, <2>1, <2>3
<1>4. \A p \in Presets : of[p] # NoPid =>
         /\ handle'[on[p]].preset = p /\ handle'[on[p]].pid = of[p] /\ handle'[on[p]].adopted = TRUE
         /\ handle'[on[p]].stop = FALSE /\ handle'[on[p]].auto = "none"
         /\ handle'[on[p]].spawned = NoPid /\ handle'[on[p]].watch = {}
  BY <1>3 DEF Fresh
<1>5. ASSUME NEW h \in Handles, \A p \in Presets : of[p] # NoPid => on[p] # h
      PROVE  /\ handle'[h].preset = NoPreset /\ handle'[h].stop = FALSE /\ handle'[h].auto = "none"
             /\ handle'[h].spawned = NoPid /\ handle'[h].watch = {} /\ handle'[h].pid = NoPid
  BY <1>1, <1>5 DEF Fresh
<1>6. ASSUME NEW h \in Handles
      PROVE  /\ handle'[h].stop = FALSE /\ handle'[h].auto = "none"
             /\ handle'[h].spawned = NoPid /\ handle'[h].watch = {}
             /\ Mine(h)' => LET p == handle'[h].preset IN
                            /\ p \in Presets /\ handle'[h].pid \in Pids /\ Live(handle'[h].pid)
                            /\ proc[handle'[h].pid].preset = p /\ wish'[p] = "up"
  <2>1. CASE \E p \in Presets : of[p] # NoPid /\ on[p] = h
    <3>1. PICK p \in Presets : of[p] # NoPid /\ on[p] = h
      BY <2>1
    <3>2. Live(of[p]) /\ proc[of[p]].preset = p /\ of[p] \in Pids /\ wish'[p] = "up"
      BY <1>1, <3>1
    <3>3. handle'[h].preset = p /\ handle'[h].pid = of[p]
      BY <1>4, <3>1
    <3>4. /\ handle'[h].stop = FALSE /\ handle'[h].auto = "none"
          /\ handle'[h].spawned = NoPid /\ handle'[h].watch = {}
      BY <1>4, <3>1
    <3> QED BY <3>2, <3>3, <3>4
  <2>2. CASE \A p \in Presets : of[p] # NoPid => on[p] # h
    <3>1. ~Mine(h)'
      BY <1>5, <2>2, SupervisorAssumption DEF Mine
    <3> QED BY <1>5, <2>2, <3>1
  <2> QED BY <2>1, <2>2
<1>7. TablesAgree'
  <2>1. ASSUME NEW p \in Presets, tracked'[p] # NoHandle PROVE handle'[tracked'[p]].preset = p
    <3>1. tracked'[p] = on[p] /\ of[p] # NoPid
      BY <1>1, <2>1
    <3> QED BY <1>4, <3>1
  <2>2. \A h \in Handles : Quiet(h)'
    BY <1>2, <1>6, SupervisorAssumption DEF Quiet
  <2> QED BY <2>1, <2>2 DEF TablesAgree
<1>8. ASSUME NEW h \in Handles PROVE HandleSound(h)'
  <2>1. AutoSound(h)' /\ WatchSound(h)'
    BY <1>6 DEF AutoSound, WatchSound, InAutoStart
  <2>2. PresetSound(h)' /\ WishSound(h)'
    BY <1>2, <1>6, SupervisorAssumption DEF PresetSound, WishSound, Holds
  <2>3. AnswerSound(h)'
    BY <1>2, <1>6, SupervisorAssumption DEF AnswerSound, Awaits, IInv, Sound, LiveSound
  <2> QED BY <2>1, <2>2, <2>3 DEF HandleSound
<1>9. CommandSound'
  BY <1>2 DEF CommandSound, Unlocked, InStart
<1>10. LiveSound' /\ AnsweredOnce'
  BY <1>2 DEF IInv, Sound, LiveSound, AnsweredOnce, Live
<1>11. NoStray'
  <2>1. ASSUME NEW q \in Pids \ letGo', Live(q) PROVE Tracks(proc[q].preset, q)'
    <3>1. PICK p \in Presets : of[p] = q
      BY <1>1, <2>1
    <3>2. of[p] # NoPid /\ proc[q].preset = p /\ tracked'[p] = on[p] /\ on[p] \in Handles
      BY <1>1, <3>1, SupervisorAssumption
    <3> QED BY <1>2, <1>4, <3>1, <3>2, SupervisorAssumption DEF Tracks
  <2> QED BY <1>2, <2>1 DEF NoStray, Live
<1> QED BY <1>7, <1>8, <1>9, <1>10, <1>11 DEF Sound

\* A new supervisor satisfies the invariant.
LEMMA InitSound == ASSUME Init PROVE IInv
<1>1. \A q \in Pids : ~Live(q)
  BY DEF Init, Live
<1>2. /\ \A h \in Handles : /\ handle[h].preset = NoPreset /\ handle[h].stop = FALSE /\ handle[h].auto = "none"
                            /\ handle[h].spawned = NoPid /\ handle[h].watch = {} /\ handle[h].pid = NoPid
      /\ cmd = Unlocked /\ cmd.phase = "none" /\ cmd.h = NoHandle
  BY DEF Init, Fresh, Unlocked
<1>3. TablesAgree
  BY <1>2, SupervisorAssumption DEF Init, TablesAgree, Quiet
<1>4. \A h \in Handles : HandleSound(h)
  BY <1>2, SupervisorAssumption DEF HandleSound, AutoSound, WatchSound, PresetSound, AnswerSound, WishSound, InAutoStart, Mine
<1>5. CommandSound /\ LiveSound /\ NoStray
  BY <1>1, <1>2 DEF CommandSound, LiveSound, NoStray, InStart
<1>6. AnsweredOnce
  BY DEF Init, AnsweredOnce
<1> QED BY <1>3, <1>4, <1>5, <1>6, TypeInit DEF IInv, Sound

\* Every step preserves it.
LEMMA NextSound == ASSUME IInv, "overlap" \notin Events, [Next]_vars PROVE IInv'
<1>1. TInv'
  BY TypeStep DEF IInv
<1>2. CASE UserCommand
  <2>1. ASSUME NEW p \in Presets, StopCalled(p) PROVE Sound'
    <3>1. tracked[p] \in Handles /\ Mine(tracked[p])
      BY <2>1 DEF StopCalled, IInv, TInv, TypeOK, Sound, TablesAgree, Mine
    <3> QED BY <1>1, <2>1, <3>1, BeginStopSound DEF StopCalled
  <2>2. ASSUME NEW f \in Presets, NEW p \in Presets, RestartCalled(f, p) PROVE Sound'
    <3>1. tracked[f] \in Handles /\ Mine(tracked[f])
      BY <2>2 DEF RestartCalled, IInv, TInv, TypeOK, Sound, TablesAgree, Mine
    <3> QED BY <1>1, <2>2, <3>1, BeginStopSound DEF RestartCalled
  <2> QED BY <1>1, <1>2, <2>1, <2>2, StartCalledSound, AdoptSound, StreamLogsSound, ReleaseSound
          DEF UserCommand, IInv
<1>3. CASE CommandStep
  <2>1. ASSUME NEW q \in Pids, Signalled(q) PROVE Sound'
    <3>1. PICK v \in {"failed", "ended"} : proc' = [proc EXCEPT ![q].life = v]
      BY <2>1 DEF Signalled, Crash, Exit
    <3> QED BY <1>1, <2>1, <3>1, Dies DEF Signalled, Crash, Exit
  <2> QED BY <1>1, <1>3, <2>1, StopEndsSound, StartFailsSound, StartEndsSound, StartSpawnsSound,
             RestartEndsStop, SwitchEndsStop DEF CommandStep, IInv
<1>4. CASE Environment
  <2>1. ASSUME NEW q \in Pids, Crash(q) \/ Exit(q) \/ Listens(q) PROVE Sound'
    <3>1. PICK v \in {"failed", "ended", "serving"} : proc' = [proc EXCEPT ![q].life = v] /\ Live(q)
      BY <2>1 DEF Crash, Exit, Listens, Live
    <3> QED BY <1>1, <2>1, <3>1, Dies DEF Crash, Exit, Listens
  <2> QED BY <1>1, <1>4, <2>1, ExternalSound, RebindSound, ReexecSound DEF Environment, IInv
<1>5. CASE \E h \in Handles : AutoRestart(h) \/ AttemptsAge(h)
  BY <1>1, <1>5, CooldownEndsSound, AutoFailsSound, AutoEndsSound, AutoSpawnsSound, AttemptsAgeSound
     DEF AutoRestart, IInv
<1>6. CASE \E h \in Handles, q \in Pids : WatchExit(h, q)
  BY <1>1, <1>6, WatchExitSound DEF IInv
<1>7. CASE \E p \in Presets : NoteDeath(p)
  BY <1>1, <1>7, NoteDeathSound DEF IInv
<1>8. CASE UNCHANGED vars
  <2>1. /\ TablesAgree' /\ CommandSound' /\ LiveSound' /\ NoStray' /\ AnsweredOnce'
    BY <1>8 DEF vars, IInv, Sound, TablesAgree, Quiet, Mine, CommandSound, InStart, IsRunning, InAutoStart,
                LiveSound, Live, NoStray, Tracks, AnsweredOnce, Unlocked
  <2>2. \A h \in Handles : HandleSound(h)'
    BY <1>8 DEF vars, IInv, Sound, HandleSound, AutoSound, WatchSound, PresetSound, AnswerSound, WishSound,
                Mine, Holds, Awaits, InAutoStart, Live
  <2> QED BY <1>1, <2>1, <2>2 DEF IInv, Sound
<1> QED BY <1>1, <1>2, <1>3, <1>4, <1>5, <1>6, <1>7, <1>8 DEF Next, IInv

-----------------------------------------------------------------------------
(* Theorems *)

\* The invariant holds of every run in which no unlocked path overlaps a start:
\* tables, handles, tasks and the command under the lock agree on who looks
\* after which process.
THEOREM Inductive == ASSUME "overlap" \notin Events PROVE Spec => []IInv
<1>1. Init => IInv
  BY InitSound
<1>2. IInv /\ [Next]_vars => IInv'
  BY NextSound
<1> QED BY <1>1, <1>2, PTL DEF Spec

\* So no llama-server of this backend runs behind its back: a start that finds
\* the preset "already running" is all it takes, whatever the tasks do in between.
THEOREM NothingStrays == ASSUME "overlap" \notin Events PROVE Spec => []NoStray
<1>1. IInv => NoStray
  BY DEF IInv, Sound
<1> QED BY <1>1, Inductive, PTL

\* The exit watcher, status polling and adoption never both spend a restart of
\* the window on one end of a process.
THEOREM EveryEndAnsweredOnce == ASSUME "overlap" \notin Events PROVE Spec => []AnsweredOnce
<1>1. IInv => AnsweredOnce
  BY DEF IInv, Sound
<1> QED BY <1>1, Inductive, PTL

\* The process of a start() serves the preset of its handle.
LEMMA SpawnedPreset ==
    ASSUME TypeOK, NEW q \in Pids, NEW p, Spawned(q, p) PROVE proc'[q].preset = p
<1> DEFINE r == [life |-> "loading", preset |-> p, ours |-> TRUE]
<1>1. r.preset = p /\ proc' = [proc EXCEPT ![q] = r]
  BY DEF Spawned
<1> HIDE DEF r
<1> QED BY <1>1 DEF TypeOK

\* Only a user's start() and an auto-restart bring a process of ours to life.
LEMMA Raised ==
    ASSUME TInv, [Next]_vars, NEW q \in Pids, ~Live(q), Live(q)', proc'[q].ours
    PROVE  StartSpawns(q) \/ \E h \in Handles : AutoSpawns(h, q)
<1>1. proc' # proc
  BY DEF Live
<1> SUFFICES ASSUME ~StartSpawns(q), \A h \in Handles : ~AutoSpawns(h, q) PROVE FALSE
  OBVIOUS
<1>2. CASE UserCommand
  <2>1. ASSUME NEW h, NEW next, BeginStop(h, next) PROVE FALSE
    BY <2>1 DEF BeginStop, TInv, TypeOK, Process, Live
  <2>2. \A p \in Presets : ~StopCalled(p) /\ \A f \in Presets : ~RestartCalled(f, p)
    BY <2>1 DEF StopCalled, RestartCalled
  <2> QED BY <1>1, <1>2, <2>2 DEF UserCommand, StartCalled, Release, StreamLogs, Adopt
<1>3. ASSUME NEW x \in Pids, x # q, NEW v, proc' = [proc EXCEPT ![x] = v] PROVE FALSE
  BY <1>3 DEF TInv, TypeOK, Live
<1>4. ASSUME NEW x \in Pids, Crash(x) \/ Exit(x) \/ Listens(x) PROVE FALSE
  BY <1>4 DEF Crash, Exit, Listens, TInv, TypeOK, Process, Live
<1>5. CASE CommandStep
  <2>1. ASSUME NEW x \in Pids, StartSpawns(x) PROVE FALSE
    BY <1>3, <2>1 DEF StartSpawns, Spawned
  <2> QED BY <1>1, <1>4, <1>5, <2>1 DEF CommandStep, StopEnds, StartFails, StartEnds, StopEndsStart, Signalled
<1>6. CASE Environment
  <2>1. ASSUME NEW p \in Presets, NEW x \in Pids, External(p, x) PROVE FALSE
    BY <2>1 DEF External, TInv, TypeOK, Live
  <2> QED BY <1>1, <1>4, <1>6, <2>1 DEF Environment, Rebind, Reexec
<1>7. CASE \E h \in Handles : AutoRestart(h) \/ AttemptsAge(h)
  <2>1. ASSUME NEW h \in Handles, NEW x \in Pids, AutoSpawns(h, x) PROVE FALSE
    BY <1>3, <2>1 DEF AutoSpawns, Spawned
  <2> QED BY <1>1, <1>7, <2>1 DEF AutoRestart, AttemptsAge, CooldownEnds, AutoFails, AutoEnds
<1>8. CASE (\E h \in Handles, x \in Pids : WatchExit(h, x)) \/ (\E p \in Presets : NoteDeath(p)) \/ UNCHANGED vars
  BY <1>1, <1>8 DEF WatchExit, NoteDeath, vars
<1> QED BY <1>2, <1>5, <1>6, <1>7, <1>8 DEF Next

\* No watcher, cooldown or half-finished start brings a preset back after the
\* user stopped it.
THEOREM StopsStick == ASSUME "overlap" \notin Events PROVE Spec => StopSticks
<1>1. ASSUME IInv, [Next]_vars
      PROVE  [\A q \in Pids : ~Live(q) /\ Live(q)' /\ proc'[q].ours => wish[proc'[q].preset] # "down"]_vars
  <2> SUFFICES ASSUME NEW q \in Pids, ~Live(q), Live(q)', proc'[q].ours
               PROVE  wish[proc'[q].preset] # "down"
    OBVIOUS
  <2>1. CASE StartSpawns(q)
    <3>1. proc'[q].preset = handle[cmd.h].preset
      BY <1>1, <2>1, SpawnedPreset DEF StartSpawns, IInv, TInv
    <3> QED BY <1>1, <2>1, <3>1 DEF StartSpawns, IInv, Sound, CommandSound, InStart
  <2>2. ASSUME NEW h \in Handles, AutoSpawns(h, q) PROVE wish[proc'[q].preset] # "down"
    <3>1. proc'[q].preset = handle[h].preset /\ handle[h].auto = "preparing"
      BY <1>1, <2>2, SpawnedPreset DEF AutoSpawns, IInv, TInv
    <3>2. Mine(h) /\ HandleSound(h)
      BY <1>1, <3>1, AutoAlone DEF InAutoStart
    <3> QED BY <3>1, <3>2 DEF HandleSound, WishSound
  <2> QED BY <2>1, <2>2, Raised, <1>1 DEF IInv
<1> QED BY <1>1, Inductive, PTL DEF Spec, StopSticks

-----------------------------------------------------------------------------
(* The supervisor implements Upkeep: the parts of the mapping *)

\* A server that counts, and a process that a tracked handle refers to.
IsServer(q) == Live(q) /\ Kept(q)
Held(q) == \E h \in Handles : Mine(h) /\ Holds(h, q)

\* The id of a process may be used again exactly when no tracked handle or its
\* command refers to it.
LEMMA ReusableIsNotHeld ==
    ASSUME IInv, NEW q \in Pids PROVE Reusable(q) <=> ~Live(q) /\ ~Held(q)
<1>1. Reusable(q) => ~Live(q) /\ ~Held(q)
  BY ReusableIsFree DEF Free, Held
<1>2. ASSUME ~Live(q), ~Held(q) PROVE Reusable(q)
  <2>1. cmd.pid # q
    <3>1. CASE cmd.phase = "none"
      BY <3>1, SupervisorAssumption DEF IInv, Sound, CommandSound, Unlocked
    <3>2. CASE cmd.phase # "none"
      BY <1>2, <3>2, CommandOwner DEF Held, Holds
    <3> QED BY <3>1, <3>2
  <2>2. \A h \in Handles : ~Dropped(h) => Mine(h)
    BY DroppedIsNotMine DEF IInv, Sound
  <2> QED BY <1>2, <2>1, <2>2 DEF Reusable, Held, Holds
<1> QED BY <1>1, <1>2

\* Nothing of a preset runs if its handle has no process of ours and no start()
\* of it has just spawned one.
LEMMA NothingRuns ==
    ASSUME IInv, NEW p \in Presets,
           \A q \in Pids : Tracks(p, q) => ~(IsServer(q) /\ proc[q].preset = p),
           cmd.phase = "spawning" => handle[cmd.h].preset # p
    PROVE  ~Promise!Runs(p)
<1> SUFFICES ASSUME NEW q \in Pids, IsServer(q), proc[q].preset = p PROVE FALSE
  BY DEF Promise!Runs, Promise!ServersOf, Servers, IsServer
<1>1. ~Tracks(p, q)
  OBVIOUS
<1>2. cmd.phase = "spawning" /\ cmd.pid = q
  BY <1>1 DEF IsServer, Kept, IInv, Sound, NoStray
<1>3. cmd.h \in Handles /\ Mine(cmd.h) /\ PresetSound(cmd.h) /\ Holds(cmd.h, q)
  BY <1>2, CommandOwner DEF HandleSound, Holds
<1> QED BY <1>2, <1>3 DEF PresetSound

\* What is due, by preset and reason.
LEMMA DueFor ==
    /\ \A p : <<p, "asked">> \in Due <=> p \in Presets /\ AskedFor(p)
    /\ \A p : <<p, "fall">> \in Due <=> p \in Presets /\ Answering(p)
    /\ \A d \in Due : \E p \in Presets : d = <<p, "asked">> \/ d = <<p, "fall">>
BY DEF Due

\* The same after the step.
LEMMA DueForPrimed ==
    /\ \A p : <<p, "asked">> \in Due' <=> p \in Presets /\ AskedFor(p)'
    /\ \A p : <<p, "fall">> \in Due' <=> p \in Presets /\ Answering(p)'
    /\ \A d \in Due' : \E p \in Presets : d = <<p, "asked">> \/ d = <<p, "fall">>
BY DEF Due

\* Nothing becomes due.
LEMMA DueShrinks ==
    ASSUME \A p \in Presets : (AskedFor(p)' => AskedFor(p)) /\ (Answering(p)' => Answering(p))
    PROVE  Due' \subseteq Due
BY DueFor, DueForPrimed

\* What is due stays as it is.
LEMMA DueStays ==
    ASSUME \A p \in Presets : (AskedFor(p)' <=> AskedFor(p)) /\ (Answering(p)' <=> Answering(p))
    PROVE  Due' = Due
<1>1. Due' \subseteq Due
  BY DueShrinks
<1>2. Due \subseteq Due'
  BY DueFor, DueForPrimed
<1> QED BY <1>1, <1>2

\* No server appears or goes, and none changes its preset.
LEMMA ServersStay ==
    ASSUME \A q \in Pids : /\ IsServer(q)' <=> IsServer(q)
                           /\ IsServer(q) => proc'[q].preset = proc[q].preset
    PROVE  Servers' = Servers
BY DEF Servers, IsServer

\* No end of a process starts to await an answer.
LEMMA FallenShrinks ==
    ASSUME \A q \in Pids : Unanswered(q)' => Unanswered(q) /\ proc'[q].preset = proc[q].preset
    PROVE  Fallen' \subseteq Fallen
BY DEF Fallen

\* The ends that await an answer stay the same.
LEMMA FallenStays ==
    ASSUME \A q \in Pids : /\ Unanswered(q)' <=> Unanswered(q)
                           /\ Unanswered(q) => proc'[q].preset = proc[q].preset
    PROVE  Fallen' = Fallen
BY DEF Fallen

\* The process is as it was, as far as the user can see.
SameProcess(q) ==
    (Live(q)' <=> Live(q)) /\ proc'[q].preset = proc[q].preset /\ proc'[q].ours = proc[q].ours

LEMMA Untouched == ASSUME proc' = proc PROVE \A q \in Pids : SameProcess(q)
BY DEF SameProcess, Live

\* A dead process awaits an answer only while a tracked handle refers to it.
UnansweredAreHeld ==
    \A q \in Pids : Unanswered(q) <=> ~Live(q) /\ Kept(q) /\ answer[q] = "none" /\ Held(q)

LEMMA UnansweredIsHeld == IInv => UnansweredAreHeld
BY ReusableIsNotHeld DEF Unanswered, UnansweredAreHeld

LEMMA UnansweredIsHeldPrimed == IInv' => UnansweredAreHeld'
BY UnansweredIsHeld, PTL

\* The handle, or the start() that works on it, has spawned the process.
Owns(h, q) ==
    \/ q \in handle[h].watch \/ handle[h].spawned = q
    \/ cmd.phase = "spawning" /\ cmd.h = h /\ cmd.pid = q

AdoptedAs(h, q) == handle[h].adopted /\ handle[h].pid = q

\* No watcher waits for a process of others, or for one that was let go; the
\* end of such a process would be answered like the fall of a server.
AwaitsKept ==
    \A h \in Handles, q \in Pids : Mine(h) =>
        (Owns(h, q) => Kept(q)) /\ (AdoptedAs(h, q) => q \notin letGo)

\* A command that has yet to spawn has no process.
NotYetSpawned == cmd.phase = "preparing" => cmd.pid = NoPid

\* The invariant under which the steps are steps of Upkeep.
RInv == IInv /\ AwaitsKept /\ NotYetSpawned

\* After the step the handle refers to no more processes than before.
RefersToNoMore(h) ==
    Mine(h)' => \A q \in Pids :
        /\ ~Live(q) /\ Holds(h, q)' => Mine(h) /\ Holds(h, q)
        /\ Owns(h, q)' => Mine(h) /\ Owns(h, q)
        /\ AdoptedAs(h, q)' => Mine(h) /\ AdoptedAs(h, q)

\* A handle that stays as it is refers to no more processes, unless a command
\* takes it up.
LEMMA SameRefers ==
    ASSUME NEW g, handle'[g] = handle[g], Mine(g)' => Mine(g),
           cmd' = cmd \/ cmd'.pid = NoPid \/ cmd'.h # g
    PROVE  RefersToNoMore(g)
BY SupervisorAssumption DEF RefersToNoMore, Holds, Owns, AdoptedAs

\* Nor does one that has nothing, or no more than it had.
LEMMA LessRefers ==
    ASSUME NEW g, Mine(g)' => Mine(g), cmd' = cmd \/ cmd'.pid = NoPid \/ cmd'.h # g,
           handle'[g].pid \in {handle[g].pid, NoPid}, handle'[g].spawned \in {handle[g].spawned, NoPid},
           handle'[g].watch \subseteq handle[g].watch, handle'[g].adopted => handle[g].adopted
    PROVE  RefersToNoMore(g)
BY SupervisorAssumption DEF RefersToNoMore, Holds, Owns, AdoptedAs

LEMMA EmptyRefers ==
    ASSUME NEW g, cmd'.pid = NoPid \/ cmd'.h # g,
           handle'[g].pid = NoPid, handle'[g].spawned = NoPid, handle'[g].watch = {}
    PROVE  RefersToNoMore(g)
BY SupervisorAssumption DEF RefersToNoMore, Holds, Owns, AdoptedAs

\* A step in which no process dies, that takes no dead one back, and after
\* which tracked handles refer to no more processes than before.
LEMMA NobodyFalls ==
    ASSUME IInv, IInv', \A q \in Pids : SameProcess(q), letGo \subseteq letGo',
           \A q \in Pids : answer'[q] = "none" => answer[q] = "none",
           \A h \in Handles : RefersToNoMore(h)
    PROVE  Fallen' \subseteq Fallen
<1>1. ASSUME NEW q \in Pids, Unanswered(q)' PROVE Unanswered(q)
  <2>1. ~Live(q) /\ Kept(q) /\ answer[q] = "none"
    BY <1>1 DEF Unanswered, Kept, SameProcess
  <2>2. Held(q)
    BY <1>1, <2>1, UnansweredIsHeldPrimed DEF UnansweredAreHeld, Held, RefersToNoMore
  <2> QED BY <2>1, <2>2, UnansweredIsHeld DEF UnansweredAreHeld
<1>2. \A q \in Pids : proc'[q].preset = proc[q].preset
  BY DEF SameProcess
<1> QED BY <1>1, <1>2, FallenShrinks

\* If nothing is let go, either, no watcher waits for a process it should not.
LEMMA AwaitsStayKept ==
    ASSUME AwaitsKept, letGo' \subseteq letGo, \A q \in Pids : proc'[q].ours = proc[q].ours,
           \A h \in Handles : RefersToNoMore(h)
    PROVE  AwaitsKept'
BY DEF AwaitsKept, RefersToNoMore, Kept

-----------------------------------------------------------------------------
(* The supervisor implements Upkeep: steps that only forget *)

\* A step after which no more is due, awaits an answer or is referred to.
LEMMA Forgets ==
    ASSUME IInv, AwaitsKept, IInv', letGo' = letGo, Due' \subseteq Due, \A q \in Pids : SameProcess(q),
           \A p \in Presets : wish'[p] = "down" <=> wish[p] = "down",
           \A q \in Pids : answer'[q] = "none" => answer[q] = "none",
           \A h \in Handles : RefersToNoMore(h)
    PROVE  Promise!Forget /\ AwaitsKept'
<1>1. Fallen' \subseteq Fallen
  BY NobodyFalls
<1>2. Servers' = Servers
  BY ServersStay DEF IsServer, Kept, SameProcess
<1>3. UserStopped' = UserStopped
  BY DEF UserStopped
<1>4. AwaitsKept'
  BY AwaitsStayKept DEF SameProcess
<1> QED BY <1>1, <1>2, <1>3, <1>4 DEF Promise!Forget

\* A handle that is replaced by one with no more processes.
LEMMA HandleRefers ==
    ASSUME IInv, NEW h \in Handles, NEW o \in Handle, handle' = [handle EXCEPT ![h] = o],
           UNCHANGED <<tracked, cmd>>, o.preset = handle[h].preset,
           \A q \in Pids : /\ o.pid = q => Holds(h, q)
                           /\ o.spawned = q \/ q \in o.watch => Owns(h, q)
                           /\ o.adopted /\ o.pid = q => AdoptedAs(h, q)
    PROVE  /\ handle'[h] = o /\ \A g \in Handles \ {h} : handle'[g] = handle[g]
           /\ \A g \in Handles : handle'[g].preset = handle[g].preset /\ RefersToNoMore(g)
<1>1. handle'[h] = o /\ \A g \in Handles \ {h} : handle'[g] = handle[g]
  BY DEF IInv, TInv, TypeOK
<1>2. \A g \in Handles : handle'[g].preset = handle[g].preset
  BY <1>1
<1>3. \A g \in Handles : Mine(g)' => Mine(g)
  BY <1>2 DEF Mine
<1>4. ASSUME NEW g \in Handles \ {h} PROVE RefersToNoMore(g)
  BY <1>1, <1>3, <1>4 DEF RefersToNoMore, Holds, Owns, AdoptedAs
<1>5. RefersToNoMore(h)
  <2>1. \A q \in Pids : Owns(h, q) => Holds(h, q)
    BY DEF Owns, Holds
  <2>2. \A q \in Pids : Holds(h, q)' => Holds(h, q)
    BY <1>1, <2>1 DEF Holds
  <2>3. \A q \in Pids : (Owns(h, q)' => Owns(h, q)) /\ (AdoptedAs(h, q)' => AdoptedAs(h, q))
    BY <1>1 DEF Owns, AdoptedAs
  <2> QED BY <1>3, <2>2, <2>3 DEF RefersToNoMore
<1> QED BY <1>1, <1>2, <1>4, <1>5

\* If it schedules nothing, either, the step forgets.
LEMMA HandleForgets ==
    ASSUME IInv, AwaitsKept, IInv', NEW h \in Handles, NEW o \in Handle, handle' = [handle EXCEPT ![h] = o],
           UNCHANGED <<tracked, proc, cmd, wish, letGo>>,
           \A q \in Pids : answer'[q] = "none" => answer[q] = "none",
           o.preset = handle[h].preset,
           o.auto \in {"cooldown", "preparing"} => handle[h].auto \in {"cooldown", "preparing"},
           \A q \in Pids : /\ o.pid = q => Holds(h, q)
                           /\ o.spawned = q \/ q \in o.watch => Owns(h, q)
                           /\ o.adopted /\ o.pid = q => AdoptedAs(h, q)
    PROVE  Promise!Forget /\ AwaitsKept'
<1>1. /\ handle'[h] = o /\ \A g \in Handles \ {h} : handle'[g] = handle[g]
      /\ \A g \in Handles : handle'[g].preset = handle[g].preset /\ RefersToNoMore(g)
  BY HandleRefers
<1>2. Due' \subseteq Due
  <2>1. ASSUME NEW p \in Presets, AskedFor(p)' PROVE AskedFor(p)
    <3>1. cmd.h \in Handles
      BY <2>1, CommandOwner DEF AskedFor
    <3> QED BY <1>1, <2>1, <3>1 DEF AskedFor
  <2>2. ASSUME NEW p \in Presets, Answering(p)' PROVE Answering(p)
    BY <1>1, <2>2 DEF Answering
  <2> QED BY <2>1, <2>2, DueShrinks
<1> QED BY <1>1, <1>2, Untouched, Forgets

\* The auto-restart of a handle, but for the spawn.
LEMMA AutoForgets ==
    ASSUME IInv, AwaitsKept, IInv', NEW h \in Handles, CooldownEnds(h) \/ AutoFails(h) \/ AutoEnds(h) \/ AttemptsAge(h)
    PROVE  Promise!Forget /\ AwaitsKept'
<1>1. CASE CooldownEnds(h)
  <2> DEFINE b == IF IsRunning(handle[h]) \/ handle[h].stop THEN handle[h].pid ELSE NoPid
             a == IF IsRunning(handle[h]) \/ handle[h].stop \/ PortInUse(handle[h].preset) THEN "none" ELSE "preparing"
             o == [handle[h] EXCEPT !.pid = b, !.auto = a]
  <2>1. b \in {handle[h].pid, NoPid} /\ a \in {"none", "preparing"}
    OBVIOUS
  <2>2. handle[h].auto = "cooldown" /\ UNCHANGED <<tracked, proc, cmd, wish, letGo, answer>>
    BY <1>1 DEF CooldownEnds
  <2>3. handle' = [handle EXCEPT ![h] = o]
    <3>1. CASE IsRunning(handle[h]) \/ handle[h].stop
      <4>1. b = handle[h].pid /\ a = "none"
        BY <3>1
      <4>2. handle' = [handle EXCEPT ![h] = [handle[h] EXCEPT !.auto = "none"]]
        BY <1>1, <3>1 DEF CooldownEnds
      <4>3. [handle[h] EXCEPT !.auto = "none"] = o
        <5> HIDE DEF a, b
        <5> QED BY <4>1, HandleFields DEF IInv, Handle
      <4> QED BY <4>2, <4>3
    <3>2. CASE ~(IsRunning(handle[h]) \/ handle[h].stop)
      BY <1>1, <3>2 DEF CooldownEnds
    <3> QED BY <3>1, <3>2
  <2> HIDE DEF a, b
  <2>4. /\ o \in Handle /\ o.preset = handle[h].preset /\ o.auto = a /\ o.pid = b
        /\ o.spawned = handle[h].spawned /\ o.watch = handle[h].watch /\ o.adopted = handle[h].adopted
    BY <2>1, HandleFields DEF IInv, Handle
  <2> HIDE DEF o
  <2>5. \A q \in Pids : /\ o.pid = q => Holds(h, q)
                        /\ o.spawned = q \/ q \in o.watch => Owns(h, q)
                        /\ o.adopted /\ o.pid = q => AdoptedAs(h, q)
    BY <2>1, <2>4, SupervisorAssumption DEF Holds, Owns, AdoptedAs
  <2> QED BY <2>1, <2>2, <2>3, <2>4, <2>5, HandleForgets
<1>2. CASE AutoFails(h)
  <2> DEFINE o == [handle[h] EXCEPT !.auto = "none"]
  <2>1. handle' = [handle EXCEPT ![h] = o] /\ UNCHANGED <<tracked, proc, cmd, wish, letGo, answer>>
    BY <1>2 DEF AutoFails
  <2>2. /\ o \in Handle /\ o.preset = handle[h].preset /\ o.auto = "none" /\ o.pid = handle[h].pid
        /\ o.spawned = handle[h].spawned /\ o.watch = handle[h].watch /\ o.adopted = handle[h].adopted
    BY HandleFields DEF IInv, Handle
  <2> HIDE DEF o
  <2>3. \A q \in Pids : /\ o.pid = q => Holds(h, q)
                        /\ o.spawned = q \/ q \in o.watch => Owns(h, q)
                        /\ o.adopted /\ o.pid = q => AdoptedAs(h, q)
    BY <2>2 DEF Holds, Owns, AdoptedAs
  <2> QED BY <2>1, <2>2, <2>3, HandleForgets
<1>3. CASE AutoEnds(h)
  <2> DEFINE s == handle[h].spawned
             o == [Attach(handle[h], s) EXCEPT !.auto = "none", !.spawned = NoPid]
  <2>1. /\ s \in Pids /\ handle' = [handle EXCEPT ![h] = o]
        /\ UNCHANGED <<tracked, proc, cmd, wish, letGo, answer>>
    BY <1>3 DEF AutoEnds, IInv, TInv, NothingMissing
  <2>2. /\ o \in Handle /\ o.pid = s /\ o.watch = handle[h].watch \union {s}
        /\ o.auto = "none" /\ o.spawned = NoPid /\ o.preset = handle[h].preset /\ o.adopted = FALSE
    BY <2>1, HandleFields DEF IInv, Attach, Handle
  <2> HIDE DEF o
  <2>3. \A q \in Pids : /\ o.pid = q => Holds(h, q)
                        /\ o.spawned = q \/ q \in o.watch => Owns(h, q)
                        /\ o.adopted /\ o.pid = q => AdoptedAs(h, q)
    BY <2>2, SupervisorAssumption DEF Holds, Owns, AdoptedAs
  <2> QED BY <2>1, <2>2, <2>3, HandleForgets
<1>4. CASE AttemptsAge(h)
  <2>1. PICK n \in 0 .. MaxAttempts : handle' = [handle EXCEPT ![h].attempts = n]
    BY <1>4 DEF AttemptsAge
  <2> DEFINE o == [handle[h] EXCEPT !.attempts = n]
  <2>2. handle' = [handle EXCEPT ![h] = o] /\ UNCHANGED <<tracked, proc, cmd, wish, letGo, answer>>
    BY <1>4, <2>1 DEF AttemptsAge
  <2>3. /\ o \in Handle /\ o.preset = handle[h].preset /\ o.auto = handle[h].auto /\ o.pid = handle[h].pid
        /\ o.spawned = handle[h].spawned /\ o.watch = handle[h].watch /\ o.adopted = handle[h].adopted
    BY HandleFields DEF IInv, Handle
  <2> HIDE DEF o
  <2>4. \A q \in Pids : /\ o.pid = q => Holds(h, q)
                        /\ o.spawned = q \/ q \in o.watch => Owns(h, q)
                        /\ o.adopted /\ o.pid = q => AdoptedAs(h, q)
    BY <2>3 DEF Holds, Owns, AdoptedAs
  <2> QED BY <2>2, <2>3, <2>4, HandleForgets
<1> QED BY <1>1, <1>2, <1>3, <1>4

\* A start() of the user that fails, or whose process is attached to its handle.
LEMMA StartOverForgets ==
    ASSUME IInv, AwaitsKept, IInv', StartFails \/ StartEnds PROVE Promise!Forget /\ AwaitsKept'
<1>1. cmd.phase \in {"preparing", "spawning"}
  BY DEF StartFails, StartEnds
<1>0. cmd.h \in Handles
  BY <1>1, CommandOwner
<1> PICK h \in Handles : h = cmd.h
  BY <1>0
<1>2. Mine(h) /\ wish[handle[h].preset] # "down"
  BY <1>1, CommandOwner DEF IInv, Sound, CommandSound, InStart
<1>3. /\ cmd'.phase = "none" /\ cmd'.h = NoHandle /\ cmd'.pid = NoPid
      /\ UNCHANGED <<tracked, proc, letGo, answer>>
  BY DEF StartFails, StartEnds, Unlocked
<1>4. \A p \in Presets : wish'[p] = "down" <=> wish[p] = "down"
  BY <1>2 DEF StartFails, StartEnds, IInv, TInv, TypeOK, Mine
<1>5. /\ \A g \in Handles \ {h} : handle'[g] = handle[g]
      /\ handle'[h].preset = handle[h].preset /\ handle'[h].auto = handle[h].auto
      /\ \A q \in Pids : /\ handle'[h].pid = q => Holds(h, q)
                         /\ handle'[h].spawned = q \/ q \in handle'[h].watch => Owns(h, q)
                         /\ handle'[h].adopted /\ handle'[h].pid = q => AdoptedAs(h, q)
  <2>1. CASE StartFails
    BY <2>1 DEF StartFails, Holds, Owns, AdoptedAs
  <2>2. CASE StartEnds
    <3> DEFINE o == Attach(handle[h], cmd.pid)
    <3>1. handle' = [handle EXCEPT ![h] = o] /\ cmd.pid \in Pids
      BY <2>2 DEF StartEnds, IInv, TInv, NothingMissing
    <3>2. /\ o.pid = cmd.pid /\ o.spawned = handle[h].spawned /\ o.watch = handle[h].watch \union {cmd.pid}
          /\ o.preset = handle[h].preset /\ o.auto = handle[h].auto /\ o.adopted = FALSE
      BY <1>2, HandleFields DEF IInv, Attach, Handle
    <3> HIDE DEF o
    <3>3. handle'[h] = o /\ \A g \in Handles \ {h} : handle'[g] = handle[g]
      BY <1>2, <3>1 DEF IInv, TInv, TypeOK
    <3> QED BY <2>2, <3>2, <3>3 DEF StartEnds, Holds, Owns, AdoptedAs
  <2> QED BY <2>1, <2>2
<1>6. Due' \subseteq Due
  BY <1>2, <1>3, <1>5, DueShrinks DEF AskedFor, Answering
<1>7. \A g \in Handles : Mine(g)' => Mine(g)
  BY <1>2, <1>3, <1>5 DEF Mine
<1>8. \A g \in Handles \ {h} : RefersToNoMore(g)
  BY <1>3, <1>5, <1>7, SameRefers
<1>9. RefersToNoMore(h)
  <2>1. \A q \in Pids : Owns(h, q) => Holds(h, q)
    BY DEF Owns, Holds
  <2>2. \A q \in Pids : Holds(h, q)' => Holds(h, q)
    BY <1>3, <1>5, <2>1, SupervisorAssumption DEF Holds
  <2>3. \A q \in Pids : (Owns(h, q)' => Owns(h, q)) /\ (AdoptedAs(h, q)' => AdoptedAs(h, q))
    BY <1>3, <1>5 DEF Owns, AdoptedAs
  <2> QED BY <1>7, <2>2, <2>3 DEF RefersToNoMore
<1> QED BY <1>3, <1>4, <1>6, <1>8, <1>9, Untouched, Forgets

\* The log stream makes a handle that refers to nothing.
LEMMA StreamLogsForgets ==
    ASSUME IInv, AwaitsKept, IInv', NEW p \in Presets, StreamLogs(p) PROVE Promise!Forget /\ AwaitsKept'
<1>1. PICK h \in Handles : /\ Dropped(h) /\ tracked' = [tracked EXCEPT ![p] = h]
                           /\ handle' = [handle EXCEPT ![h] = Fresh(p)]
  BY DEF StreamLogs
<1>2. tracked[p] = NoHandle /\ UNCHANGED <<proc, cmd, wish, letGo, answer>>
  BY DEF StreamLogs
<1>3. cmd.h # h /\ \A r \in Presets : tracked[r] # h
  BY <1>1 DEF Dropped, Quiet
<1>4. /\ \A g \in Handles \ {h} : handle'[g] = handle[g]
      /\ handle'[h].pid = NoPid /\ handle'[h].spawned = NoPid /\ handle'[h].watch = {} /\ handle'[h].auto = "none"
      /\ tracked'[p] = h /\ \A r \in Presets \ {p} : tracked'[r] = tracked[r]
  BY <1>1 DEF Fresh, IInv, TInv, TypeOK
<1>5. Due' \subseteq Due
  <2>1. ASSUME NEW r \in Presets, AskedFor(r)' PROVE AskedFor(r)
    BY <1>2, <1>3, <1>4, <2>1, CommandOwner DEF AskedFor
  <2>2. ASSUME NEW r \in Presets, Answering(r)' PROVE Answering(r)
    BY <1>4, <2>2 DEF Answering
  <2> QED BY <2>1, <2>2, DueShrinks
<1>6. ASSUME NEW g \in Handles PROVE RefersToNoMore(g)
  <2>1. CASE g = h
    BY <1>2, <1>3, <1>4, <2>1, EmptyRefers
  <2>2. CASE g # h
    <3>1. Mine(g)' => Mine(g)
      BY <1>4, <2>2 DEF Mine
    <3> QED BY <1>2, <1>4, <2>2, <3>1, SameRefers
  <2> QED BY <2>1, <2>2
<1> QED BY <1>2, <1>5, <1>6, Untouched, Forgets

\* rebind() drops handles.
LEMMA RebindForgets == ASSUME IInv, AwaitsKept, IInv', Rebind PROVE Promise!Forget /\ AwaitsKept'
<1>1. /\ UNCHANGED <<handle, proc, cmd, wish, letGo, answer>>
      /\ \A p \in Presets : tracked'[p] \in {tracked[p], NoHandle}
  BY DEF Rebind
<1>2. Due' \subseteq Due
  BY <1>1, DueShrinks DEF AskedFor, Answering
<1>3. \A g \in Handles : RefersToNoMore(g)
  BY <1>1, SameRefers, SupervisorAssumption DEF Mine
<1> QED BY <1>1, <1>2, <1>3, Untouched, Forgets

-----------------------------------------------------------------------------
(* The supervisor implements Upkeep: processes end, and their ends are answered *)

\* A server goes down; or the process did not count, and nothing is seen.
LEMMA ServerFalls ==
    ASSUME IInv, AwaitsKept, IInv', NEW q \in Pids, Live(q), ~Live(q)',
           \A r \in Pids \ {q} : proc'[r] = proc[r],
           proc'[q].preset = proc[q].preset /\ proc'[q].ours = proc[q].ours,
           UNCHANGED <<wish, letGo, answer>>, Due' \subseteq Due,
           \A h \in Handles, r \in Pids \ {q} : Mine(h)' /\ Holds(h, r)' <=> Mine(h) /\ Holds(h, r),
           \A h \in Handles : RefersToNoMore(h)
    PROVE  (Promise!Forget \/ \E p \in Presets : Promise!Fall(p, q)) /\ AwaitsKept'
<1>0. AwaitsKept'
  <2>1. \A r \in Pids : proc'[r].ours = proc[r].ours
    OBVIOUS
  <2> QED BY <2>1, AwaitsStayKept
<1>1. \A r \in Pids \ {q} : /\ Live(r)' <=> Live(r)
                            /\ Held(r)' <=> Held(r)
  BY DEF Live, Held
<1>2. \A r \in Pids \ {q} : (IsServer(r)' <=> IsServer(r)) /\ (Unanswered(r)' <=> Unanswered(r))
  BY <1>1, UnansweredIsHeld, UnansweredIsHeldPrimed DEF UnansweredAreHeld, IsServer, Kept
<1>3. ~IsServer(q)' /\ ~Unanswered(q) /\ (Unanswered(q)' => Kept(q)) /\ (IsServer(q) <=> Kept(q))
  BY DEF IsServer, Unanswered, Kept
<1>4. UserStopped' = UserStopped
  BY DEF UserStopped
<1>5. CASE Kept(q)
  <2> DEFINE p == proc[q].preset
  <2>1. p \in Presets
    BY DEF IInv, Sound, LiveSound
  <2>2. <<p, q>> \in Servers /\ Servers' = Servers \ {<<p, q>>}
    BY <1>2, <1>3, <1>5 DEF Servers, IsServer
  <2>3. Fallen' \in {Fallen, Fallen \union {<<p, q>>}}
    BY <1>2, <1>3 DEF Fallen
  <2> QED BY <1>0, <1>4, <2>1, <2>2, <2>3 DEF Promise!Fall
<1>6. CASE ~Kept(q)
  <2>1. Servers' = Servers
    BY <1>2, <1>3, <1>6, ServersStay
  <2>2. Fallen' \subseteq Fallen
    BY <1>2, <1>3, <1>6, FallenShrinks
  <2> QED BY <1>0, <1>4, <2>1, <2>2 DEF Promise!Forget
<1> QED BY <1>5, <1>6

\* A process loads, crashes or exits.
LEMMA LifeImplements ==
    ASSUME IInv, AwaitsKept, IInv', NEW q \in Pids, NEW v \in {"failed", "ended", "serving"}, Live(q),
           proc' = [proc EXCEPT ![q].life = v], UNCHANGED <<tracked, handle, cmd, wish, letGo, answer>>
    PROVE  (Promise!Forget \/ \E p \in Presets : Promise!Fall(p, q)) /\ AwaitsKept'
<1>1. /\ \A r \in Pids \ {q} : proc'[r] = proc[r]
      /\ proc'[q].life = v /\ proc'[q].preset = proc[q].preset /\ proc'[q].ours = proc[q].ours
  BY DEF IInv, TInv, TypeOK, Process
<1>2. Due' \subseteq Due
  BY DueShrinks DEF AskedFor, Answering
<1>3. \A h \in Handles, r \in Pids : Mine(h)' /\ Holds(h, r)' <=> Mine(h) /\ Holds(h, r)
  BY DEF Mine, Holds
<1>a. \A h \in Handles : RefersToNoMore(h)
  BY SameRefers DEF Mine
<1>4. CASE v = "serving"
  <2>1. \A r \in Pids : SameProcess(r)
    BY <1>1, <1>4 DEF SameProcess, Live
  <2> QED BY <1>a, <1>2, <2>1, Forgets
<1>5. CASE v # "serving"
  <2>1. ~Live(q)'
    BY <1>1, <1>5 DEF Live
  <2> QED BY <1>1, <1>2, <1>3, <1>a, <2>1, ServerFalls
<1> QED BY <1>4, <1>5

\* stop() up to its await may end a process that an auto-restart has spawned.
LEMMA BeginStopImplements ==
    ASSUME IInv, AwaitsKept, IInv', NEW h \in Handles, NEW next, Mine(h), cmd = Unlocked, BeginStop(h, next),
           UNCHANGED <<tracked, wish, letGo, answer>>
    PROVE  (Promise!Forget \/ \E p \in Presets, q \in Pids : Promise!Fall(p, q)) /\ AwaitsKept'
<1> DEFINE o == [handle[h] EXCEPT !.stop = TRUE, !.auto = "none", !.spawned = NoPid]
           s == handle[h].spawned
<1>1. /\ handle' = [handle EXCEPT ![h] = o] /\ cmd'.h = h /\ cmd'.pid \in {handle[h].pid, NoPid}
      /\ cmd'.phase = "stopping"
      /\ proc' = [q \in Pids |-> IF q = s THEN [proc[q] EXCEPT !.life = "ended"] ELSE proc[q]]
  BY DEF BeginStop
<1>2. /\ o.preset = handle[h].preset /\ o.pid = handle[h].pid /\ o.watch = handle[h].watch
      /\ o.auto = "none" /\ o.spawned = NoPid /\ o.adopted = handle[h].adopted
  BY HandleFields DEF IInv, Handle
<1> HIDE DEF o
<1>3. handle'[h] = o /\ \A g \in Handles \ {h} : handle'[g] = handle[g]
  BY <1>1 DEF IInv, TInv, TypeOK
<1>4. \A g \in Handles : handle'[g].preset = handle[g].preset
  BY <1>2, <1>3
<1>5. Due' \subseteq Due
  BY <1>1, <1>2, <1>3, DueShrinks DEF AskedFor, Answering
<1>6. cmd.phase = "none" /\ cmd.pid = NoPid
  BY DEF Unlocked
<1>7. \A g \in Handles : Mine(g)' <=> Mine(g)
  BY <1>4 DEF Mine
<1>8. ASSUME NEW g \in Handles, NEW r \in Pids
      PROVE  /\ Holds(g, r)' => Holds(g, r)
             /\ Holds(g, r) => Holds(g, r)' \/ r = s
  BY <1>1, <1>2, <1>3, <1>6, SupervisorAssumption DEF Holds
<1>a. \A g \in Handles : RefersToNoMore(g)
  <2>1. \A g \in Handles \ {h} : RefersToNoMore(g)
    BY <1>1, <1>3, <1>7, SameRefers
  <2>2. \A q \in Pids : (Owns(h, q)' => Owns(h, q)) /\ (AdoptedAs(h, q)' => AdoptedAs(h, q))
    BY <1>1, <1>2, <1>3, SupervisorAssumption DEF Owns, AdoptedAs
  <2>3. RefersToNoMore(h)
    BY <1>7, <1>8, <2>2 DEF RefersToNoMore
  <2> QED BY <2>1, <2>3
<1>9. \A r \in Pids \ {s} : proc'[r] = proc[r]
  BY <1>1
<1>10. CASE s \in Pids /\ Live(s)
  <2> PICK q \in Pids : q = s
    BY <1>10
  <2>1. proc'[q] = [proc[q] EXCEPT !.life = "ended"] /\ proc[q] \in Process
    BY <1>1 DEF IInv, TInv, TypeOK
  <2>2. proc'[q].life = "ended" /\ proc'[q].preset = proc[q].preset /\ proc'[q].ours = proc[q].ours
    BY <2>1 DEF Process
  <2>3. Live(q) /\ ~Live(q)'
    BY <1>10, <2>2 DEF Live
  <2>4. /\ \A r \in Pids \ {q} : proc'[r] = proc[r]
        /\ \A g \in Handles, r \in Pids \ {q} : Mine(g)' /\ Holds(g, r)' <=> Mine(g) /\ Holds(g, r)
    BY <1>7, <1>8, <1>9
  <2> QED BY <1>a, <1>5, <2>2, <2>3, <2>4, ServerFalls
<1>11. CASE ~(s \in Pids /\ Live(s))
  <2>1. ASSUME NEW r \in Pids PROVE SameProcess(r)
    <3>1. CASE r = s
      <4>1. proc'[s] = [proc[s] EXCEPT !.life = "ended"] /\ proc[s] \in Process
        BY <1>1, <3>1 DEF IInv, TInv, TypeOK
      <4>2. proc'[s].life = "ended" /\ proc'[s].preset = proc[s].preset /\ proc'[s].ours = proc[s].ours
        BY <4>1 DEF Process
      <4> QED BY <1>11, <3>1, <4>2 DEF SameProcess, Live
    <3>2. CASE r # s
      BY <1>9, <3>2 DEF SameProcess, Live
    <3> QED BY <3>1, <3>2
  <2> QED BY <1>a, <1>5, <2>1, Forgets
<1> QED BY <1>10, <1>11

-----------------------------------------------------------------------------
(* The supervisor implements Upkeep: answers, and processes that appear *)

\* The end of a process is answered: by a restart that is scheduled, or not.
LEMMA HandleAnswers ==
    ASSUME IInv, AwaitsKept, IInv', NEW h \in Handles, NEW q \in Pids, Mine(h),
           handle[h].pid = q \/ q \in handle[h].watch, ~Live(q), Kept(q), answer[q] = "none", ~handle[h].stop,
           NEW o \in Handle, handle' = [handle EXCEPT ![h] = o],
           UNCHANGED <<tracked, proc, cmd, wish, letGo>>,
           answer'[q] # "none", \A r \in Pids \ {q} : answer'[r] = answer[r],
           o.preset = handle[h].preset, o.spawned = handle[h].spawned, o.adopted = handle[h].adopted,
           o.pid = handle[h].pid \/ (o.pid = NoPid /\ handle[h].pid = q),
           o.watch \subseteq handle[h].watch, handle[h].watch \subseteq o.watch \union {q},
           handle[h].auto = "none", o.auto = "cooldown"
    PROVE  Promise!Answer(handle[h].preset, q) /\ handle[h].preset \in Presets /\ AwaitsKept'
<1> DEFINE p == handle[h].preset
<1>1. p \in Presets /\ HandleSound(h) /\ Holds(h, q) /\ proc[q].preset = p
  BY DEF Mine, Holds, IInv, Sound, HandleSound, PresetSound
<1>2. \A r \in Pids : /\ o.pid = r => Holds(h, r)
                      /\ o.spawned = r \/ r \in o.watch => Owns(h, r)
                      /\ o.adopted /\ o.pid = r => AdoptedAs(h, r)
  BY SupervisorAssumption DEF Holds, Owns, AdoptedAs
<1>3. /\ handle'[h] = o /\ \A g \in Handles \ {h} : handle'[g] = handle[g]
      /\ \A g \in Handles : handle'[g].preset = handle[g].preset /\ RefersToNoMore(g)
  BY <1>2, HandleRefers
<1>4. AwaitsKept'
  BY <1>3, AwaitsStayKept
<1>5. p \notin UserStopped /\ UserStopped' = UserStopped
  BY <1>1, SupervisorAssumption DEF UserStopped, HandleSound, WishSound
<1>6. Due' = Due \union {<<p, "fall">>}
  <2>1. \A r \in Presets : AskedFor(r)' <=> AskedFor(r)
    BY <1>3, CommandOwner DEF AskedFor
  <2>2. \A r \in Presets : Answering(r)' <=> Answering(r) \/ r = p
    BY <1>3 DEF Answering
  <2> QED BY <1>1, <2>1, <2>2, DueFor, DueForPrimed
<1>7. \A r \in Pids \ {q} : Unanswered(r)' <=> Unanswered(r)
  <2>1. \A g \in Handles, r \in Pids \ {q} : Holds(g, r)' <=> Holds(g, r)
    BY <1>3, SupervisorAssumption DEF Holds
  <2>2. \A g \in Handles : Mine(g)' <=> Mine(g)
    BY <1>3 DEF Mine
  <2>3. \A r \in Pids \ {q} : Held(r)' <=> Held(r)
    BY <2>1, <2>2 DEF Held
  <2> QED BY <2>3, UnansweredIsHeld, UnansweredIsHeldPrimed DEF UnansweredAreHeld, Kept, Live
<1>8. Unanswered(q) /\ ~Unanswered(q)'
  <2>1. Held(q)
    BY <1>1 DEF Held
  <2>2. ~Unanswered(q)'
    BY DEF Unanswered
  <2> QED BY <2>1, <2>2, UnansweredIsHeld DEF UnansweredAreHeld
<1>9. <<p, q>> \in Fallen /\ Fallen' = Fallen \ {<<p, q>>}
  <2> HIDE DEF p
  <2> QED BY <1>1, <1>7, <1>8 DEF Fallen
<1>10. Servers' = Servers
  BY ServersStay DEF IsServer, Live, Kept
<1> QED BY <1>1, <1>4, <1>5, <1>6, <1>9, <1>10 DEF Promise!Answer

\* What an answer leaves of the record of answers.
LEMMA AnsweredFields ==
    ASSUME TypeOK, NEW o, NEW q \in Pids, answer[q] = "none"
    PROVE  /\ Answered(o, q)[q] # "none"
           /\ \A r \in Pids \ {q} : Answered(o, q)[r] = answer[r]
BY DEF Answered, TypeOK

\* The exit watcher reacts to the end of its process.
LEMMA WatchExitImplements ==
    ASSUME IInv, AwaitsKept, IInv', NEW h \in Handles, NEW q \in Pids, WatchExit(h, q)
    PROVE  (Promise!Forget \/ \E p \in Presets : Promise!Answer(p, q)) /\ AwaitsKept'
<1>1. q \in handle[h].watch /\ ~Live(q) /\ UNCHANGED <<tracked, proc, cmd, wish, letGo>>
  BY DEF WatchExit
<1>2. Mine(h) /\ HandleSound(h)
  BY <1>1 DEF IInv, Sound, TablesAgree, Quiet
<1>3. PICK then \in {handle[h], ScheduleAutorestart(handle[h])} :
         handle' = [handle EXCEPT ![h] = [then EXCEPT !.watch = @ \ {q}]]
  BY DEF WatchExit
<1>4. /\ then \in Handle
      /\ then.preset = handle[h].preset /\ then.stop = handle[h].stop /\ then.adopted = handle[h].adopted
      /\ then.spawned = handle[h].spawned /\ then.watch = handle[h].watch /\ then.pid = handle[h].pid
      /\ \/ then.auto = handle[h].auto
         \/ handle[h].auto = "none" /\ then.auto = "cooldown" /\ ~handle[h].stop
  BY HandleFields, ScheduleFields DEF IInv
<1> DEFINE o == [then EXCEPT !.watch = @ \ {q}]
<1>5. /\ o \in Handle /\ handle' = [handle EXCEPT ![h] = o]
      /\ o.preset = handle[h].preset /\ o.stop = handle[h].stop /\ o.adopted = handle[h].adopted
      /\ o.spawned = handle[h].spawned /\ o.watch = handle[h].watch \ {q} /\ o.pid = handle[h].pid
      /\ o.auto = then.auto
  BY <1>3, <1>4 DEF Handle
<1> HIDE DEF o
<1>6. answer[q] = "none" /\ Holds(h, q) /\ Owns(h, q)
  BY <1>1, <1>2 DEF HandleSound, AnswerSound, Awaits, Holds, Owns
<1>7. answer'[q] # "none" /\ \A r \in Pids \ {q} : answer'[r] = answer[r]
  BY <1>6, AnsweredFields DEF WatchExit, IInv, TInv, TypeOK
<1>8. Kept(q)
  BY <1>2, <1>6 DEF AwaitsKept
<1>9. CASE o.auto = handle[h].auto
  <2>1. \A r \in Pids : /\ o.pid = r => Holds(h, r)
                        /\ o.spawned = r \/ r \in o.watch => Owns(h, r)
                        /\ o.adopted /\ o.pid = r => AdoptedAs(h, r)
    BY <1>5 DEF Holds, Owns, AdoptedAs
  <2>2. \A r \in Pids : answer'[r] = "none" => answer[r] = "none"
    BY <1>7
  <2>3. o.auto \in {"cooldown", "preparing"} => handle[h].auto \in {"cooldown", "preparing"}
    BY <1>9
  <2> QED BY <1>1, <1>5, <2>1, <2>2, <2>3, HandleForgets
<1>10. CASE handle[h].auto = "none" /\ o.auto = "cooldown" /\ ~handle[h].stop
  <2>1. o.watch \subseteq handle[h].watch /\ handle[h].watch \subseteq o.watch \union {q}
    BY <1>5
  <2> QED BY <1>1, <1>2, <1>5, <1>6, <1>7, <1>8, <1>10, <2>1, HandleAnswers
<1> QED BY <1>4, <1>5, <1>9, <1>10

\* The liveness poll finds that an adopted process is gone.
LEMMA NoteDeathImplements ==
    ASSUME IInv, AwaitsKept, IInv', NEW p \in Presets, NoteDeath(p)
    PROVE  (Promise!Forget \/ \E r \in Presets, q \in Pids : Promise!Answer(r, q)) /\ AwaitsKept'
<1> DEFINE x == tracked[p]
           y == handle[x].pid
<1>1. /\ x \in Handles /\ y \in Pids /\ ~Live(y) /\ handle[x].adopted
      /\ UNCHANGED <<tracked, proc, cmd, wish, letGo>>
  BY HandleFields DEF NoteDeath, Polled, IInv, TInv, TypeOK
<1> PICK h \in Handles : h = tracked[p]
  BY <1>1
<1> PICK q \in Pids : q = handle[h].pid
  BY <1>1
<1> HIDE DEF x, y
<1> DEFINE gone == [handle[h] EXCEPT !.pid = NoPid]
<1>2. ~Live(q) /\ handle[h].adopted
  BY <1>1 DEF x, y
<1>3. Mine(h) /\ HandleSound(h)
  <2>1. handle[h].preset = p
    BY SupervisorAssumption DEF IInv, Sound, TablesAgree
  <2> QED BY <2>1 DEF IInv, Sound, Mine
<1>4. /\ gone \in Handle
      /\ gone.preset = handle[h].preset /\ gone.stop = handle[h].stop /\ gone.adopted = handle[h].adopted
      /\ gone.spawned = handle[h].spawned /\ gone.watch = handle[h].watch /\ gone.pid = NoPid
      /\ gone.auto = handle[h].auto
  BY HandleFields DEF IInv, Handle
<1>5. /\ handle' = [handle EXCEPT ![h] = IF proc[q].ours THEN ScheduleAutorestart(gone) ELSE gone]
      /\ answer' = IF proc[q].ours THEN Answered(handle[h], q) ELSE answer
  BY DEF NoteDeath
<1> HIDE DEF gone
<1>6. answer[q] = "none" /\ Holds(h, q) /\ AdoptedAs(h, q)
  BY <1>2, <1>3 DEF HandleSound, AnswerSound, Awaits, Holds, AdoptedAs
<1>7. PICK o \in Handle :
      /\ handle' = [handle EXCEPT ![h] = o]
      /\ o.preset = handle[h].preset /\ o.stop = handle[h].stop /\ o.adopted = handle[h].adopted
      /\ o.spawned = handle[h].spawned /\ o.watch = handle[h].watch /\ o.pid = NoPid
      /\ \/ o.auto = handle[h].auto
         \/ handle[h].auto = "none" /\ o.auto = "cooldown" /\ ~handle[h].stop /\ proc[q].ours
  <2>1. CASE ~proc[q].ours
    BY <1>4, <1>5, <2>1
  <2>2. CASE proc[q].ours
    <3> DEFINE s == ScheduleAutorestart(gone)
    <3>1. /\ s \in Handle
          /\ s.preset = gone.preset /\ s.stop = gone.stop /\ s.adopted = gone.adopted
          /\ s.spawned = gone.spawned /\ s.watch = gone.watch /\ s.pid = gone.pid
          /\ s.auto = gone.auto \/ (gone.auto = "none" /\ s.auto = "cooldown" /\ ~gone.stop)
      BY <1>4, ScheduleFields
    <3>2. handle' = [handle EXCEPT ![h] = s]
      BY <1>5, <2>2
    <3> HIDE DEF s
    <3> QED BY <1>4, <2>2, <3>1, <3>2
  <2> QED BY <2>1, <2>2
<1>8. /\ \A r \in Pids \ {q} : answer'[r] = answer[r]
      /\ proc[q].ours => answer'[q] # "none"
  BY <1>5, <1>6, AnsweredFields DEF IInv, TInv
<1>9. CASE o.auto = handle[h].auto
  <2>1. \A r \in Pids : /\ o.pid = r => Holds(h, r)
                        /\ o.spawned = r \/ r \in o.watch => Owns(h, r)
                        /\ o.adopted /\ o.pid = r => AdoptedAs(h, r)
    BY <1>7, SupervisorAssumption DEF Holds, Owns, AdoptedAs
  <2>2. \A r \in Pids : answer'[r] = "none" => answer[r] = "none"
    BY <1>6, <1>8
  <2>3. o.auto \in {"cooldown", "preparing"} => handle[h].auto \in {"cooldown", "preparing"}
    BY <1>9
  <2> QED BY <1>1, <1>7, <2>1, <2>2, <2>3, HandleForgets
<1>10. CASE handle[h].auto = "none" /\ o.auto = "cooldown" /\ ~handle[h].stop /\ proc[q].ours
  <2>1. o.watch \subseteq handle[h].watch /\ handle[h].watch \subseteq o.watch \union {q}
    BY <1>7
  <2>2. Kept(q)
    BY <1>3, <1>6, <1>10 DEF AwaitsKept, Kept
  <2> QED BY <1>1, <1>2, <1>3, <1>6, <1>7, <1>8, <1>10, <2>1, <2>2, HandleAnswers
<1> QED BY <1>7, <1>9, <1>10

\* A process appears: it is a server exactly if it is ours, and takes nobody's place.
LEMMA Appeared ==
    ASSUME IInv, IInv', NEW q \in Pids, Appears(q), \A h \in Handles : Mine(h)' <=> Mine(h),
           \A h \in Handles, r \in Pids \ {q} : Holds(h, r)' <=> Holds(h, r)
    PROVE  /\ Fallen' = Fallen /\ UserStopped' = UserStopped
           /\ \A p \in Presets : <<p, q>> \notin Servers \union Fallen
           /\ Servers' = IF proc'[q].ours THEN Servers \union {<<proc'[q].preset, q>>} ELSE Servers
<1>1. /\ \A r \in Pids \ {q} : proc'[r] = proc[r] /\ answer'[r] = answer[r]
      /\ ~Live(q) /\ Reusable(q) /\ letGo' = letGo \ {q} /\ wish' = wish
  BY AppearsFrame DEF Appears, Free
<1>2. Live(q)'
  <2>1. PICK r \in [life : {"loading", "serving"}, preset : Presets, ours : BOOLEAN] :
           proc' = [proc EXCEPT ![q] = r]
    BY DEF Appears
  <2>2. proc'[q].life \in {"loading", "serving"}
    BY <2>1 DEF IInv, TInv, TypeOK
  <2> QED BY <2>2 DEF Live
<1>3. \A r \in Pids \ {q} : (Held(r)' <=> Held(r)) /\ (Kept(r)' <=> Kept(r)) /\ (Live(r)' <=> Live(r))
  BY <1>1 DEF Held, Kept, Live
<1>4. \A r \in Pids \ {q} : (Unanswered(r)' <=> Unanswered(r)) /\ (IsServer(r)' <=> IsServer(r))
  BY <1>1, <1>3, UnansweredIsHeld, UnansweredIsHeldPrimed DEF UnansweredAreHeld, IsServer
<1>5. ~Unanswered(q) /\ ~Unanswered(q)' /\ ~IsServer(q) /\ (IsServer(q)' <=> proc'[q].ours)
  BY <1>1, <1>2 DEF Unanswered, IsServer, Kept
<1>6. Fallen' = Fallen
  BY <1>1, <1>4, <1>5, FallenStays
<1>7. \A p \in Presets : <<p, q>> \notin Servers \union Fallen
  BY <1>5 DEF Servers, Fallen, IsServer
<1>8. Servers' = IF proc'[q].ours THEN Servers \union {<<proc'[q].preset, q>>} ELSE Servers
  BY <1>1, <1>4, <1>5 DEF Servers, IsServer
<1>9. UserStopped' = UserStopped
  BY <1>1 DEF UserStopped
<1> QED BY <1>6, <1>7, <1>8, <1>9

\* What handles own is still kept; the new process is, if somebody owns it.
LEMMA AppearedKept ==
    ASSUME IInv, AwaitsKept, NEW q \in Pids, Appears(q), \A h \in Handles : Mine(h)' <=> Mine(h),
           \A h \in Handles, r \in Pids \ {q} :
              (Owns(h, r)' => Owns(h, r)) /\ (AdoptedAs(h, r)' => AdoptedAs(h, r)),
           proc'[q].ours \/ \A h \in Handles : Mine(h)' => ~Owns(h, q)'
    PROVE  AwaitsKept'
<1>1. /\ \A r \in Pids \ {q} : proc'[r] = proc[r]
      /\ letGo' = letGo \ {q}
  BY AppearsFrame DEF Appears
<1> QED BY <1>1 DEF AwaitsKept, Kept

\* The process of a start() or an auto-restart takes an id, as the process of
\* the handle's preset.
LEMMA SpawnAppears ==
    ASSUME IInv, NEW q \in Pids, NEW p \in Presets, Spawned(q, p), UNCHANGED <<tracked, wish>>
    PROVE  Appears(q) /\ proc'[q].ours /\ proc'[q].preset = p
<1> DEFINE r == [life |-> "loading", preset |-> p, ours |-> TRUE]
<1>1. /\ r \in [life : {"loading", "serving"}, preset : Presets, ours : BOOLEAN]
      /\ r.preset = p /\ r.ours /\ proc' = [proc EXCEPT ![q] = r]
  BY DEF Spawned
<1> HIDE DEF r
<1>2. proc'[q] = r
  BY <1>1 DEF IInv, TInv, TypeOK
<1> QED BY <1>1, <1>2 DEF Spawned, Appears

\* A start() of the user launches its process.
LEMMA StartSpawnsLaunches ==
    ASSUME IInv, AwaitsKept, NotYetSpawned, IInv', NEW q \in Pids, StartSpawns(q)
    PROVE  (\E p \in Presets : Promise!Launch(p, q, "asked")) /\ AwaitsKept'
<1>0. cmd.phase = "preparing" /\ cmd.pid = NoPid /\ cmd.h \in Handles
  BY CommandOwner DEF StartSpawns, NotYetSpawned
<1> PICK h \in Handles : h = cmd.h
  BY <1>0
<1> DEFINE p == handle[h].preset
<1>1. /\ Mine(h) /\ HandleSound(h) /\ p \in Presets /\ tracked[p] = h
      /\ ~IsRunning(handle[h]) /\ ~InAutoStart(handle[h]) /\ wish[p] # "down"
  BY <1>0, CommandOwner DEF IInv, Sound, CommandSound, InStart, Mine
<1>2. /\ cmd'.phase = "spawning" /\ cmd'.pid = q /\ cmd'.h = h
      /\ UNCHANGED <<tracked, handle, wish>>
  BY DEF StartSpawns, IInv, TInv, TypeOK, Command
<1>3. Appears(q) /\ proc'[q].ours /\ proc'[q].preset = p
  BY <1>1, <1>2, SpawnAppears DEF StartSpawns
<1>4. \A g \in Handles : Mine(g)' <=> Mine(g)
  BY <1>2 DEF Mine
<1>5. \A g \in Handles, r \in Pids \ {q} : Holds(g, r)' <=> Holds(g, r)
  BY <1>0, <1>2, SupervisorAssumption DEF Holds
<1>6. AwaitsKept'
  <2>1. \A g \in Handles, r \in Pids \ {q} : (Owns(g, r)' => Owns(g, r)) /\ (AdoptedAs(g, r)' => AdoptedAs(g, r))
    BY <1>2 DEF Owns, AdoptedAs
  <2> QED BY <1>3, <1>4, <2>1, AppearedKept
<1>7. ~Promise!Runs(p)
  <2>1. handle[h].spawned = NoPid
    BY <1>1 DEF HandleSound, AutoSound, InAutoStart
  <2>2. \A r \in Pids : Tracks(p, r) => ~IsServer(r)
    BY <1>1, <2>1, SupervisorAssumption DEF Tracks, IsRunning, IsServer
  <2> QED BY <1>0, <1>1, <2>2, NothingRuns
<1>8. /\ <<p, "asked">> \in Due
      /\ Due' = Due \ {<<p, "asked">>}
  <2>1. \A r \in Presets : ~AskedFor(r)' /\ (AskedFor(r) <=> r = p) /\ (Answering(r)' <=> Answering(r))
    BY <1>0, <1>2 DEF AskedFor, Answering
  <2> HIDE DEF p
  <2>2. Due' \subseteq Due /\ <<p, "asked">> \in Due /\ <<p, "asked">> \notin Due'
    BY <1>1, <2>1, DueFor, DueForPrimed
  <2>3. \A d \in Due : d = <<p, "asked">> \/ d \in Due'
    BY <2>1, DueFor, DueForPrimed
  <2> QED BY <2>2, <2>3
<1>9. p \notin UserStopped
  BY <1>1 DEF UserStopped
<1>10. /\ Fallen' = Fallen /\ UserStopped' = UserStopped
       /\ \A r \in Presets : <<r, q>> \notin Servers \union Fallen
       /\ Servers' = Servers \union {<<p, q>>}
  BY <1>3, <1>4, <1>5, Appeared
<1> QED BY <1>1, <1>6, <1>7, <1>8, <1>9, <1>10 DEF Promise!Launch

\* An auto-restart launches its process.
LEMMA AutoSpawnsLaunches ==
    ASSUME IInv, AwaitsKept, IInv', NEW h \in Handles, NEW q \in Pids, AutoSpawns(h, q)
    PROVE  (\E p \in Presets : Promise!Launch(p, q, "fall")) /\ AwaitsKept'
<1> DEFINE o == [handle[h] EXCEPT !.auto = "spawning", !.spawned = q]
<1>1. /\ handle[h].auto = "preparing" /\ handle' = [handle EXCEPT ![h] = o]
      /\ UNCHANGED <<tracked, cmd, wish>>
  BY DEF AutoSpawns
<1>0. Mine(h)
  BY <1>1, AutoAlone DEF InAutoStart
<1> PICK p \in Presets : p = handle[h].preset
  BY <1>0 DEF Mine
<1>2. /\ cmd.h # h /\ Mine(h) /\ HandleSound(h) /\ tracked[p] = h
      /\ handle[h].pid = NoPid /\ handle[h].spawned = NoPid
  BY <1>1, AutoAlone DEF InAutoStart, HandleSound, AutoSound, Mine
<1>3. /\ o.preset = p /\ o.pid = NoPid /\ o.watch = handle[h].watch
      /\ o.auto = "spawning" /\ o.spawned = q
  BY <1>2, HandleFields DEF IInv, Handle
<1> HIDE DEF o
<1>4. handle'[h] = o /\ \A g \in Handles \ {h} : handle'[g] = handle[g]
  BY <1>1 DEF IInv, TInv, TypeOK
<1>5. Appears(q) /\ proc'[q].ours /\ proc'[q].preset = p
  BY <1>1, <1>2, SpawnAppears DEF AutoSpawns
<1>6. \A g \in Handles : (Mine(g)' <=> Mine(g)) /\ handle'[g].preset = handle[g].preset
  BY <1>1, <1>3, <1>4 DEF Mine
<1>7. \A g \in Handles, r \in Pids \ {q} : Holds(g, r)' <=> Holds(g, r)
  BY <1>1, <1>2, <1>3, <1>4, SupervisorAssumption DEF Holds
<1>8. AwaitsKept'
  <2>1. \A g \in Handles, r \in Pids \ {q} : (Owns(g, r)' => Owns(g, r)) /\ (AdoptedAs(g, r)' => AdoptedAs(g, r))
    BY <1>1, <1>2, <1>3, <1>4, SupervisorAssumption DEF Owns, AdoptedAs
  <2> QED BY <1>5, <1>6, <2>1, AppearedKept
<1>9. ~Promise!Runs(p)
  <2>1. \A r \in Pids : ~Tracks(p, r)
    BY <1>2, SupervisorAssumption DEF Tracks
  <2>2. ASSUME cmd.phase = "spawning", handle[cmd.h].preset = p PROVE FALSE
    BY <1>2, <2>2, CommandOwner DEF Mine
  <2> QED BY <1>2, <2>1, <2>2, NothingRuns
<1>10. /\ <<p, "fall">> \in Due
       /\ Due' = Due \ {<<p, "fall">>}
  <2>1. \A r \in Presets : AskedFor(r)' <=> AskedFor(r)
    BY <1>1, <1>6, CommandOwner DEF AskedFor
  <2>2. \A g \in Handles : handle[g].auto # "none" /\ handle[g].preset = p => g = h
    BY <1>2 DEF IInv, Sound, TablesAgree, Quiet, Mine
  <2>3. Answering(p) /\ ~Answering(p)'
    <3>1. Answering(p)
      BY <1>1 DEF Answering
    <3>2. \A g \in Handles : ~(handle'[g].preset = p /\ handle'[g].auto \in {"cooldown", "preparing"})
      BY <1>3, <1>4, <2>2
    <3> QED BY <3>1, <3>2 DEF Answering
  <2>4. \A r \in Presets \ {p} : Answering(r)' <=> Answering(r)
    BY <1>3, <1>4 DEF Answering
  <2>5. Due' \subseteq Due /\ <<p, "fall">> \in Due /\ <<p, "fall">> \notin Due'
    BY <1>2, <2>1, <2>3, <2>4, DueFor, DueForPrimed
  <2>6. \A d \in Due : d = <<p, "fall">> \/ d \in Due'
    BY <2>1, <2>4, DueFor, DueForPrimed
  <2> QED BY <2>5, <2>6
<1>11. p \notin UserStopped
  BY <1>1, <1>2 DEF UserStopped, HandleSound, WishSound
<1>12. /\ Fallen' = Fallen /\ UserStopped' = UserStopped
       /\ \A r \in Presets : <<r, q>> \notin Servers \union Fallen
       /\ Servers' = Servers \union {<<p, q>>}
  BY <1>5, <1>6, <1>7, Appeared
<1> QED BY <1>2, <1>8, <1>9, <1>10, <1>11, <1>12 DEF Promise!Launch

\* A llama-server that somebody else starts is nobody's.
LEMMA ExternalImplements ==
    ASSUME IInv, AwaitsKept, IInv', NEW p \in Presets, NEW q \in Pids, External(p, q)
    PROVE  Promise!Forget /\ AwaitsKept'
<1> DEFINE r == [life |-> "serving", preset |-> p, ours |-> FALSE]
<1>1. /\ r \in [life : {"loading", "serving"}, preset : Presets, ours : BOOLEAN]
      /\ ~r.ours /\ proc' = [proc EXCEPT ![q] = r]
  BY DEF External
<1> HIDE DEF r
<1>2. ~proc'[q].ours
  BY <1>1 DEF IInv, TInv, TypeOK
<1>3. Appears(q) /\ UNCHANGED <<tracked, handle, cmd, wish>>
  BY <1>1 DEF External, Appears
<1>4. /\ \A g \in Handles : Mine(g)' <=> Mine(g)
      /\ \A g \in Handles, x \in Pids : /\ Holds(g, x)' <=> Holds(g, x)
                                        /\ Owns(g, x)' <=> Owns(g, x)
                                        /\ AdoptedAs(g, x)' <=> AdoptedAs(g, x)
                                        /\ Owns(g, x) => Holds(g, x)
  BY <1>3 DEF Mine, Holds, Owns, AdoptedAs
<1>5. Free(q)
  BY <1>3, AppearsFrame
<1>6. AwaitsKept'
  BY <1>3, <1>4, <1>5, AppearedKept DEF Free
<1>7. Fallen' = Fallen /\ UserStopped' = UserStopped /\ Servers' = Servers
  BY <1>2, <1>3, <1>4, Appeared
<1>8. Due' = Due
  BY <1>3, DueStays DEF AskedFor, Answering
<1> QED BY <1>6, <1>7, <1>8 DEF Promise!Forget

-----------------------------------------------------------------------------
(* The supervisor implements Upkeep: the user's commands *)

\* A handle that a command looks up, and from which it lifts a stop request at
\* most, has what it had, or nothing.
LEMMA LookedUpHandle ==
    ASSUME IInv, NEW p \in Presets, NEW h \in Handles, Lookup(p, h),
           tracked' = [tracked EXCEPT ![p] = h], SameButStop(handle'[h], Object(p, h)),
           \A g \in Handles \ {h} : handle'[g].preset = handle[g].preset
    PROVE  /\ handle'[h].preset = p /\ Mine(h)' /\ \A g \in Handles \ {h} : Mine(g)' <=> Mine(g)
           /\ \/ Mine(h) /\ SameButStop(handle'[h], handle[h])
              \/ /\ ~Mine(h) /\ handle[h].auto = "none" /\ handle'[h].auto = "none" /\ handle'[h].pid = NoPid
                 /\ handle'[h].spawned = NoPid /\ handle'[h].watch = {}
<1>1. /\ tracked'[p] = h /\ \A r \in Presets \ {p} : tracked'[r] = tracked[r] /\ tracked[r] # h
      /\ tracked[p] \in {NoHandle, h} /\ Object(p, h).preset = p
  BY LookedUp DEF IInv, TInv, TypeOK, Fit
<1>2. handle'[h].preset = p
  BY <1>1 DEF SameButStop
<1>3. Mine(h)'
  BY <1>1, <1>2 DEF Mine
<1>4. \A g \in Handles \ {h} : Mine(g)' <=> Mine(g)
  BY <1>1, SupervisorAssumption DEF Mine
<1>5. CASE tracked[p] = NoHandle
  <2>1. Object(p, h) = Fresh(p) /\ Dropped(h)
    BY <1>5 DEF Object, Lookup
  <2>2. ~Mine(h) /\ handle[h].auto = "none"
    BY <2>1 DEF Dropped, Quiet, Mine
  <2>3. /\ handle'[h].auto = "none" /\ handle'[h].pid = NoPid
        /\ handle'[h].spawned = NoPid /\ handle'[h].watch = {}
    BY <2>1 DEF SameButStop, Fresh
  <2> QED BY <1>2, <1>3, <1>4, <2>2, <2>3
<1>6. CASE tracked[p] # NoHandle
  <2>1. Object(p, h) = handle[h] /\ tracked[p] = h /\ handle[h].preset = p
    BY <1>1, <1>6 DEF Object
  <2>2. Mine(h)
    BY <2>1 DEF Mine
  <2> QED BY <1>2, <1>3, <1>4, <2>1, <2>2
<1> QED BY <1>5, <1>6

\* A start() up to its first await is a request for the preset.
LEMMA BegunAsks ==
    ASSUME NEW p \in Presets, NEW h, cmd.phase # "preparing",
           cmd'.phase \in {"none", "preparing"}, cmd'.phase = "preparing" => cmd'.h = h,
           handle'[h].preset = p, \A r \in Presets : Answering(r)' <=> Answering(r)
    PROVE  Promise!Asked(p)
<1>1. \A r \in Presets : ~AskedFor(r) /\ <<r, "asked">> \notin Due
  BY DueFor DEF AskedFor
<1>2. \A r \in Presets : AskedFor(r)' <=> cmd'.phase = "preparing" /\ r = p
  BY DEF AskedFor
<1>3. CASE cmd'.phase = "none"
  <2>1. Due' = Due
    BY <1>1, <1>2, <1>3, DueStays
  <2> QED BY <2>1 DEF Promise!Asked
<1>4. CASE cmd'.phase = "preparing"
  <2>1. Due' = Due \union {<<p, "asked">>}
    BY <1>1, <1>2, <1>4, DueFor, DueForPrimed
  <2> QED BY <1>1, <2>1 DEF Promise!Asked
<1> QED BY <1>3, <1>4

\* start() is called.
LEMMA StartCalledAsks ==
    ASSUME IInv, AwaitsKept, IInv', "overlap" \notin Events, NEW p \in Presets, StartCalled(p)
    PROVE  Promise!Ask(p) /\ AwaitsKept'
<1>1. PICK h \in Handles :
         /\ Lookup(p, h) /\ BeginStart(p, h, [handle EXCEPT ![h] = Object(p, h)])
         /\ tracked' = [tracked EXCEPT ![p] = h]
  BY DEF StartCalled
<1> DEFINE b == Object(p, h)
           H == [handle EXCEPT ![h] = b]
<1>2. b \in Handle
  BY <1>1, LookedUp
<1> HIDE DEF b
<1>3. H \in [Handles -> Handle] /\ H[h] = b
  BY <1>2 DEF IInv, TInv, TypeOK
<1>4. BeginStart(p, h, H)
  BY <1>1 DEF b
<1> HIDE DEF H
<1>5. PICK o \in Handle : handle' = [H EXCEPT ![h] = o] /\ SameButStop(o, b)
  BY <1>3, <1>4, BegunHandle
<1>6. handle'[h] = o /\ \A g \in Handles \ {h} : handle'[g] = handle[g]
  BY <1>5 DEF H, IInv, TInv, TypeOK
<1>7. /\ cmd'.pid = NoPid /\ cmd'.phase \in {"none", "preparing"}
      /\ cmd'.phase = "preparing" => cmd'.h = h
  BY <1>3, <1>4, BegunStart
<1>8. /\ cmd.phase = "none" /\ cmd.pid = NoPid /\ wish' = [wish EXCEPT ![p] = "any"]
      /\ UNCHANGED <<proc, letGo, answer>>
  BY DEF StartCalled, Unlocked
<1>9. SameButStop(handle'[h], Object(p, h))
  BY <1>5, <1>6 DEF b
<1>10. /\ handle'[h].preset = p /\ Mine(h)' /\ \A g \in Handles \ {h} : Mine(g)' <=> Mine(g)
       /\ \/ Mine(h) /\ SameButStop(handle'[h], handle[h])
          \/ /\ ~Mine(h) /\ handle[h].auto = "none" /\ handle'[h].auto = "none" /\ handle'[h].pid = NoPid
             /\ handle'[h].spawned = NoPid /\ handle'[h].watch = {}
  BY <1>1, <1>6, <1>9, LookedUpHandle
<1>11. ASSUME NEW g \in Handles, NEW q \in Pids
       PROVE  /\ Mine(g)' /\ Holds(g, q)' <=> Mine(g) /\ Holds(g, q)
              /\ Mine(g)' => (Owns(g, q)' => Mine(g) /\ Owns(g, q))
              /\ Mine(g)' => (AdoptedAs(g, q)' => Mine(g) /\ AdoptedAs(g, q))
  <2>1. CASE g # h
    BY <1>6, <1>7, <1>8, <1>10, <2>1, SupervisorAssumption DEF Holds, Owns, AdoptedAs
  <2>2. CASE g = h /\ Mine(h)
    BY <1>7, <1>8, <1>10, <2>2, SupervisorAssumption DEF Holds, Owns, AdoptedAs, SameButStop
  <2>3. CASE g = h /\ ~Mine(h)
    BY <1>7, <1>10, <2>3, SupervisorAssumption DEF Holds, Owns, AdoptedAs
  <2> QED BY <2>1, <2>2, <2>3
<1>12. AwaitsKept'
  <2>1. \A g \in Handles : RefersToNoMore(g)
    BY <1>11 DEF RefersToNoMore
  <2> QED BY <1>8, <2>1, AwaitsStayKept
<1>13. Promise!Asked(p)
  <2>1. \A g \in Handles : \/ handle'[g].auto = handle[g].auto /\ handle'[g].preset = handle[g].preset
                           \/ handle'[g].auto = "none" /\ handle[g].auto = "none"
    BY <1>6, <1>10 DEF SameButStop
  <2>2. \A r \in Presets : Answering(r)' <=> Answering(r)
    BY <2>1 DEF Answering
  <2> QED BY <1>7, <1>8, <1>10, <2>2, BegunAsks
<1>14. Fallen' = Fallen
  <2>1. \A q \in Pids : Held(q)' <=> Held(q)
    BY <1>11 DEF Held
  <2>2. \A q \in Pids : Unanswered(q)' <=> Unanswered(q)
    BY <1>8, <2>1, UnansweredIsHeld, UnansweredIsHeldPrimed DEF UnansweredAreHeld, Kept, Live
  <2> QED BY <1>8, <2>2, FallenStays
<1>15. Servers' = Servers
  BY <1>8, ServersStay DEF IsServer, Live, Kept
<1>16. UserStopped' = UserStopped \ {p}
  BY <1>8 DEF UserStopped, IInv, TInv, TypeOK
<1> QED BY <1>12, <1>13, <1>14, <1>15, <1>16 DEF Promise!Ask

\* When a stop is over, no server of the preset runs and none is due.
LEMMA StopIsQuiet ==
    ASSUME IInv, cmd.phase = "stopping", StopIsOver(handle[cmd.h])
    PROVE  LET f == handle[cmd.h].preset IN f \in Presets /\ ~Promise!Runs(f) /\ ~Promise!IsDue(f)
<1>1. /\ cmd.h \in Handles /\ Mine(cmd.h) /\ handle[cmd.h].auto = "none" /\ handle[cmd.h].spawned = NoPid
      /\ Live(handle[cmd.h].pid) /\ handle[cmd.h].pid # NoPid => ~proc[handle[cmd.h].pid].ours
  BY StopFields
<1> PICK c \in Handles : c = cmd.h
  BY <1>1
<1> PICK f \in Presets : f = handle[c].preset /\ tracked[f] = c
  BY <1>1 DEF Mine
<1>2. ~Promise!Runs(f)
  <2>1. \A q \in Pids : Tracks(f, q) => ~IsServer(q)
    BY <1>1, SupervisorAssumption DEF Tracks, IsServer, Kept
  <2> QED BY <2>1, NothingRuns
<1>3. ~Answering(f) /\ ~AskedFor(f)
  BY <1>1 DEF Answering, AskedFor, IInv, Sound, TablesAgree, Quiet, Mine
<1> QED BY <1>2, <1>3, DueFor DEF Promise!IsDue, Promise!Reasons

\* stop() ends.
LEMMA StopEndsStops ==
    ASSUME IInv, AwaitsKept, IInv', StopEnds
    PROVE  (\E f \in Presets : Promise!Stop(f)) /\ AwaitsKept'
<1>0. cmd.phase = "stopping" /\ StopIsOver(handle[cmd.h]) /\ cmd.h \in Handles
  BY StopFields DEF StopEnds
<1> PICK h \in Handles : h = cmd.h
  BY <1>0
<1> PICK f \in Presets : f = handle[h].preset /\ ~Promise!Runs(f) /\ ~Promise!IsDue(f)
  BY <1>0, StopIsQuiet
<1> DEFINE o == Stopped(handle[h])
<1>1. /\ o \in Handle /\ o.pid = NoPid /\ o.adopted = FALSE /\ o.auto = "none" /\ o.spawned = NoPid
      /\ o.preset = f /\ o.watch \subseteq handle[h].watch /\ handle[h].auto = "none"
  BY <1>0, StopFields
<1>2. handle' = [handle EXCEPT ![h] = o]
  BY DEF StopEnds
<1> HIDE DEF o
<1>3. handle'[h] = o /\ \A g \in Handles \ {h} : handle'[g] = handle[g]
  BY <1>2 DEF IInv, TInv, TypeOK
<1>4. /\ cmd'.phase = "none" /\ cmd'.pid = NoPid /\ wish' = [wish EXCEPT ![f] = "down"]
      /\ UNCHANGED <<tracked, proc, letGo, answer>>
  BY DEF StopEnds, Unlocked
<1>5. \A g \in Handles : RefersToNoMore(g)
  <2>1. \A g \in Handles : Mine(g)' => Mine(g)
    BY <1>1, <1>3, <1>4 DEF Mine
  <2>2. RefersToNoMore(h)
    BY <1>1, <1>3, <1>4, <2>1, LessRefers
  <2> QED BY <1>3, <1>4, <2>1, <2>2, SameRefers
<1>6. AwaitsKept'
  BY <1>4, <1>5, AwaitsStayKept
<1>7. Fallen' \subseteq Fallen
  <2>1. \A q \in Pids : SameProcess(q)
    BY <1>4, Untouched
  <2> QED BY <1>4, <1>5, <2>1, NobodyFalls
<1>8. Due' = Due
  <2>1. \A r \in Presets : ~AskedFor(r)' /\ ~AskedFor(r)
    BY <1>0, <1>4 DEF AskedFor
  <2>2. \A r \in Presets : Answering(r)' <=> Answering(r)
    BY <1>1, <1>3 DEF Answering
  <2> QED BY <2>1, <2>2, DueStays
<1>9. Servers' = Servers
  BY <1>4, ServersStay DEF IsServer, Live, Kept
<1>10. UserStopped' = UserStopped \union {f}
  BY <1>4 DEF UserStopped, IInv, TInv, TypeOK
<1> QED BY <1>6, <1>7, <1>8, <1>9, <1>10 DEF Promise!Stop

\* A stop that is over, and the request that follows it.
LEMMA StopThenAsks ==
    ASSUME IInv, AwaitsKept, IInv', NEW f \in Presets, NEW p \in Presets, NEW h,
           cmd.phase = "stopping", ~Promise!Runs(f), ~Promise!IsDue(f),
           cmd'.phase \in {"none", "preparing"}, cmd'.phase = "preparing" => cmd'.h = h,
           handle'[h].preset = p, \A r \in Presets : Answering(r)' <=> Answering(r),
           UNCHANGED <<proc, letGo, answer>>, wish' = [wish EXCEPT ![f] = "down", ![p] = "any"],
           \A g \in Handles : RefersToNoMore(g)
    PROVE  Promise!StopThenAsk(f, p) /\ AwaitsKept'
<1>1. AwaitsKept'
  BY AwaitsStayKept
<1>2. Promise!Asked(p)
  BY BegunAsks
<1>3. Fallen' \subseteq Fallen
  <2>1. \A q \in Pids : SameProcess(q)
    BY Untouched
  <2> QED BY <2>1, NobodyFalls
<1>4. Servers' = Servers
  BY ServersStay DEF IsServer, Live, Kept
<1>5. UserStopped' = (UserStopped \union {f}) \ {p}
  BY DEF UserStopped, IInv, TInv, TypeOK
<1> QED BY <1>1, <1>2, <1>3, <1>4, <1>5 DEF Promise!StopThenAsk

\* restart(): the stop of a handle ends, and it is started again.
LEMMA RestartImplements ==
    ASSUME IInv, AwaitsKept, IInv', "overlap" \notin Events, NEW p \in Presets, NEW h \in Handles,
           StopEndsStart(p, h), p = handle[cmd.h].preset
    PROVE  Promise!StopThenAsk(p, p) /\ AwaitsKept'
<1>0. cmd.phase = "stopping" /\ StopIsOver(handle[cmd.h]) /\ h = cmd.h
  BY DEF StopEndsStart
<1> DEFINE b == Stopped(handle[h])
           H == [handle EXCEPT ![h] = b]
<1>1. Mine(h) /\ handle[h].auto = "none" /\ ~Promise!Runs(p) /\ ~Promise!IsDue(p)
  BY <1>0, StopFields, StopIsQuiet
<1>2. /\ b \in Handle /\ b.pid = NoPid /\ b.adopted = FALSE /\ b.auto = "none" /\ b.spawned = NoPid
      /\ b.preset = p /\ b.watch \subseteq handle[h].watch
  BY <1>0, StopFields
<1>3. BeginStart(p, h, H) /\ tracked' = tracked
  BY <1>0 DEF StopEndsStart
<1> HIDE DEF b
<1>4. H \in [Handles -> Handle] /\ H[h] = b
  BY <1>2 DEF IInv, TInv, TypeOK
<1> HIDE DEF H
<1>5. PICK o \in Handle : handle' = [H EXCEPT ![h] = o] /\ SameButStop(o, b)
  BY <1>3, <1>4, BegunHandle
<1>6. handle'[h] = o /\ \A g \in Handles \ {h} : handle'[g] = handle[g]
  BY <1>5 DEF H, IInv, TInv, TypeOK
<1>7. /\ cmd'.pid = NoPid /\ cmd'.phase \in {"none", "preparing"}
      /\ cmd'.phase = "preparing" => cmd'.h = h
  BY <1>3, <1>4, BegunStart
<1>8. /\ o.pid = NoPid /\ o.adopted = FALSE /\ o.auto = "none" /\ o.spawned = NoPid
      /\ o.preset = p /\ o.watch \subseteq handle[h].watch
  BY <1>2, <1>5 DEF SameButStop
<1>9. \A g \in Handles : handle'[g].preset = handle[g].preset /\ (Mine(g)' => Mine(g))
  BY <1>0, <1>3, <1>6, <1>8 DEF Mine
<1>10. \A g \in Handles : RefersToNoMore(g)
  <2>1. RefersToNoMore(h)
    BY <1>6, <1>7, <1>8, <1>9, LessRefers
  <2> QED BY <1>6, <1>7, <1>9, <2>1, SameRefers
<1>11. \A r \in Presets : Answering(r)' <=> Answering(r)
  BY <1>1, <1>6, <1>8 DEF Answering
<1>12. UNCHANGED <<proc, letGo, answer>> /\ wish' = [wish EXCEPT ![p] = "down", ![p] = "any"]
  BY <1>0 DEF StopEndsStart
<1> QED BY <1>0, <1>1, <1>6, <1>7, <1>8, <1>10, <1>11, <1>12, StopThenAsks

\* switch(): the stop of one handle ends, and another one is started.
LEMMA SwitchImplements ==
    ASSUME IInv, AwaitsKept, IInv', "overlap" \notin Events, NEW p \in Presets, NEW h \in Handles,
           StopEndsStart(p, h), p # handle[cmd.h].preset
    PROVE  (\E f \in Presets : Promise!StopThenAsk(f, p)) /\ AwaitsKept'
<1>0. cmd.phase = "stopping" /\ StopIsOver(handle[cmd.h]) /\ h # cmd.h /\ Lookup(p, h) /\ cmd.h \in Handles
  BY StopFields DEF StopEndsStart
<1> PICK c \in Handles : c = cmd.h
  BY <1>0
<1> PICK f \in Presets : f = handle[c].preset /\ ~Promise!Runs(f) /\ ~Promise!IsDue(f)
  BY <1>0, StopIsQuiet
<1> DEFINE s == Stopped(handle[c])
           b == Object(p, h)
           H == [handle EXCEPT ![c] = s]
           K == [H EXCEPT ![h] = b]
<1>1. Mine(c) /\ handle[c].auto = "none"
  BY <1>0, StopFields
<1>2. /\ s \in Handle /\ s.pid = NoPid /\ s.adopted = FALSE
      /\ s.auto = "none" /\ s.spawned = NoPid
      /\ s.preset = f /\ s.watch \subseteq handle[c].watch
  BY <1>0, StopFields
<1>3. /\ BeginStart(p, h, K) /\ tracked' = [tracked EXCEPT ![p] = h]
      /\ UNCHANGED <<proc, letGo, answer>>
      /\ wish' = [wish EXCEPT ![f] = "down", ![p] = "any"]
  BY DEF StopEndsStart
<1>4. b \in Handle
  BY <1>0, LookedUp
<1> HIDE DEF s, b
<1>5. K \in [Handles -> Handle] /\ K[h] = b
  BY <1>2, <1>4 DEF IInv, TInv, TypeOK
<1> HIDE DEF K
<1>6. PICK o \in Handle : handle' = [K EXCEPT ![h] = o] /\ SameButStop(o, b)
  BY <1>3, <1>5, BegunHandle
<1>7. handle'[h] = o /\ handle'[c] = s /\ \A g \in Handles \ {c, h} : handle'[g] = handle[g]
  BY <1>0, <1>6 DEF K, IInv, TInv, TypeOK
<1>8. /\ cmd'.pid = NoPid /\ cmd'.phase \in {"none", "preparing"}
      /\ cmd'.phase = "preparing" => cmd'.h = h
  BY <1>3, <1>5, BegunStart
<1>9. SameButStop(handle'[h], Object(p, h)) /\ \A g \in Handles \ {h} : handle'[g].preset = handle[g].preset
  BY <1>2, <1>6, <1>7 DEF b
<1>10. /\ handle'[h].preset = p /\ Mine(h)' /\ \A g \in Handles \ {h} : Mine(g)' <=> Mine(g)
       /\ \/ Mine(h) /\ SameButStop(handle'[h], handle[h])
          \/ /\ ~Mine(h) /\ handle[h].auto = "none" /\ handle'[h].auto = "none" /\ handle'[h].pid = NoPid
             /\ handle'[h].spawned = NoPid /\ handle'[h].watch = {}
  BY <1>0, <1>3, <1>9, LookedUpHandle
<1>11. \A g \in Handles : RefersToNoMore(g)
  <2>1. RefersToNoMore(c)
    BY <1>0, <1>2, <1>7, <1>8, <1>10, LessRefers
  <2>2. RefersToNoMore(h)
    <3>1. CASE Mine(h) /\ SameButStop(handle'[h], handle[h])
      BY <1>8, <3>1, LessRefers DEF SameButStop
    <3>2. CASE ~Mine(h)
      BY <1>8, <1>10, <3>2, EmptyRefers
    <3> QED BY <1>10, <3>1, <3>2
  <2>3. \A g \in Handles \ {c, h} : RefersToNoMore(g)
    BY <1>7, <1>8, <1>10, SameRefers
  <2> QED BY <2>1, <2>2, <2>3
<1>12. \A r \in Presets : Answering(r)' <=> Answering(r)
  <2>1. \A g \in Handles : \/ handle'[g].auto = handle[g].auto /\ handle'[g].preset = handle[g].preset
                           \/ handle'[g].auto = "none" /\ handle[g].auto = "none"
    BY <1>1, <1>2, <1>7, <1>10 DEF SameButStop
  <2> QED BY <2>1 DEF Answering
<1> QED BY <1>0, <1>3, <1>8, <1>10, <1>11, <1>12, StopThenAsks

\* The user hands a running process over: nothing of the preset runs, and what
\* was let go is taken back.
LEMMA AdoptImplements ==
    ASSUME IInv, AwaitsKept, IInv', "overlap" \notin Events, NEW p \in Presets, NEW q \in Pids, Adopt(p, q)
    PROVE  Promise!Adopt(p, q) /\ AwaitsKept'
<1>1. PICK h \in Handles :
         /\ Lookup(p, h) /\ ~IsRunning(Object(p, h)) /\ ~InAutoStart(Object(p, h))
         /\ tracked' = [tracked EXCEPT ![p] = h]
         /\ handle' = [handle EXCEPT ![h] = [Object(p, h) EXCEPT !.pid = q, !.adopted = TRUE]]
  BY DEF Adopt, Overlap
<1>2. /\ cmd = Unlocked /\ Live(q) /\ proc[q].preset = p /\ wish' = [wish EXCEPT ![p] = "up"]
      /\ letGo' = letGo \ {q} /\ UNCHANGED <<proc, cmd, answer>>
  BY DEF Adopt
<1> DEFINE b == Object(p, h)
           o == [b EXCEPT !.pid = q, !.adopted = TRUE]
<1>3. /\ b \in Handle /\ Fit(p, b) /\ tracked[p] \in {NoHandle, h} /\ \A r \in Presets \ {p} : tracked[r] # h
      /\ \A r \in Pids : Tracks(p, r) => b.pid = r \/ b.spawned = r
  BY <1>1, LookedUp
<1>4. \/ tracked[p] = h /\ b = handle[h]
      \/ tracked[p] = NoHandle /\ ~Mine(h) /\ handle[h].auto = "none" /\ b = Fresh(p)
  BY <1>1 DEF Object, Lookup, Dropped, Quiet, Mine
<1>5. handle' = [handle EXCEPT ![h] = o] /\ ~IsRunning(b) /\ ~InAutoStart(b)
  BY <1>1
<1> HIDE DEF b
<1>6. /\ o.pid = q /\ o.adopted = TRUE /\ o.preset = p
      /\ o.auto = b.auto /\ o.spawned = NoPid /\ o.watch = b.watch /\ b.spawned = NoPid
  BY <1>3, <1>5 DEF Handle, Fit, InAutoStart
<1> HIDE DEF o
<1>7. handle'[h] = o /\ \A g \in Handles \ {h} : handle'[g] = handle[g]
  BY <1>5 DEF IInv, TInv, TypeOK
<1>8. cmd.phase = "none" /\ cmd.pid = NoPid /\ cmd.h = NoHandle
  BY <1>2 DEF Unlocked
<1>9. /\ Mine(h)' /\ \A g \in Handles \ {h} : Mine(g)' <=> Mine(g)
      /\ tracked[p] = h => Mine(h) /\ handle[h].preset = p
  BY <1>1, <1>3, <1>6, <1>7, SupervisorAssumption DEF Mine, IInv, Sound, TablesAgree, TInv, TypeOK
<1>10. ~Promise!Runs(p)
  <2>1. \A r \in Pids : Tracks(p, r) => ~IsServer(r)
    BY <1>3, <1>5, <1>6, SupervisorAssumption DEF IsRunning, IsServer
  <2> QED BY <1>8, <2>1, NothingRuns
<1>11. \A r \in Presets : <<r, q>> \notin Servers \union Fallen
  <2>1. <<p, q>> \notin Servers
    BY <1>10 DEF Promise!Runs, Promise!ServersOf
  <2> QED BY <1>2, <2>1 DEF Servers, Fallen, Unanswered
<1>12. Servers' \in {Servers, Servers \union {<<p, q>>}}
  <2>1. \A r \in Pids \ {q} : (Kept(r)' <=> Kept(r)) /\ (Live(r)' <=> Live(r))
    BY <1>2 DEF Kept, Live
  <2>2. \A r \in Pids \ {q} : IsServer(r)' <=> IsServer(r)
    BY <2>1 DEF IsServer
  <2>3. ~IsServer(q)
    BY <1>11 DEF Servers, IsServer, IInv, Sound, LiveSound
  <2>4. CASE IsServer(q)'
    BY <1>2, <2>2, <2>3, <2>4 DEF Servers, IsServer
  <2>5. CASE ~IsServer(q)'
    <3>1. Servers' = Servers
      BY <1>2, <2>2, <2>3, <2>5, ServersStay
    <3> QED BY <3>1
  <2> QED BY <2>4, <2>5
<1>13. ASSUME NEW g \in Handles, NEW r \in Pids, Mine(g)'
       PROVE  /\ r # q /\ Holds(g, r)' => Mine(g) /\ Holds(g, r)
              /\ Owns(g, r)' => Mine(g) /\ Owns(g, r)
              /\ r # q /\ AdoptedAs(g, r)' => Mine(g) /\ AdoptedAs(g, r)
  <2>1. CASE g # h
    BY <1>2, <1>7, <1>9, <1>13, <2>1 DEF Holds, Owns, AdoptedAs
  <2>2. CASE g = h /\ tracked[p] = h /\ b = handle[h]
    BY <1>2, <1>6, <1>7, <1>8, <1>9, <2>2, SupervisorAssumption DEF Holds, Owns, AdoptedAs
  <2>3. CASE g = h /\ b = Fresh(p)
    BY <1>2, <1>6, <1>7, <1>8, <2>3, SupervisorAssumption DEF Holds, Owns, AdoptedAs, Fresh
  <2> QED BY <1>4, <2>1, <2>2, <2>3
<1>14. AwaitsKept'
  <2>1. \A r \in Pids : Kept(r) => Kept(r)'
    BY <1>2 DEF Kept
  <2>2. q \notin letGo' /\ letGo' \subseteq letGo
    BY <1>2
  <2> QED BY <1>13, <2>1, <2>2 DEF AwaitsKept
<1>15. Fallen' \subseteq Fallen
  <2>1. ASSUME NEW r \in Pids, Unanswered(r)' PROVE Unanswered(r)
    <3>1. r # q /\ ~Live(r) /\ Kept(r) /\ answer[r] = "none"
      BY <1>2, <2>1 DEF Unanswered, Kept, Live
    <3>2. Held(r)
      BY <1>13, <2>1, <3>1, UnansweredIsHeldPrimed DEF UnansweredAreHeld, Held
    <3> QED BY <3>1, <3>2, UnansweredIsHeld DEF UnansweredAreHeld
  <2>2. \A r \in Pids : proc'[r].preset = proc[r].preset
    BY <1>2
  <2> QED BY <2>1, <2>2, FallenShrinks
<1>16. Due' = Due
  <2>1. \A g \in Handles : \/ handle'[g].auto = handle[g].auto /\ handle'[g].preset = handle[g].preset
                           \/ handle'[g].auto = "none" /\ handle[g].auto = "none"
    <3>1. b = Fresh(p) => b.auto = "none"
      BY DEF Fresh
    <3> QED BY <1>4, <1>6, <1>7, <1>9, <3>1
  <2>2. \A r \in Presets : Answering(r)' <=> Answering(r)
    BY <2>1 DEF Answering
  <2>3. \A r \in Presets : ~AskedFor(r)' /\ ~AskedFor(r)
    BY <1>2, <1>8 DEF AskedFor
  <2> QED BY <2>2, <2>3, DueStays
<1>17. UserStopped' = UserStopped \ {p}
  BY <1>2 DEF UserStopped, IInv, TInv, TypeOK
<1> QED BY <1>10, <1>11, <1>12, <1>14, <1>15, <1>16, <1>17 DEF Promise!Adopt

\* The user takes an adopted process back: it was the only server of the preset,
\* and no watcher waits for it.
LEMMA ReleaseImplements ==
    ASSUME IInv, AwaitsKept, IInv', NEW p \in Presets, Release(p)
    PROVE  Promise!Release(p) /\ AwaitsKept'
<1>1. /\ cmd = Unlocked /\ tracked[p] \in Handles /\ handle[tracked[p]].adopted
      /\ wish' = [wish EXCEPT ![p] = "any"] /\ UNCHANGED <<tracked, proc, cmd, answer>>
  BY DEF Release, IInv, TInv, TypeOK
<1> PICK h \in Handles : h = tracked[p]
  BY <1>1
<1> DEFINE o == Reset(handle[h])
<1>2. Mine(h) /\ HandleSound(h) /\ handle[h].preset = p
  BY SupervisorAssumption DEF IInv, Sound, TablesAgree, Mine
<1>3. /\ o \in Handle /\ o.pid = NoPid /\ o.adopted = FALSE /\ o.watch = handle[h].watch
      /\ o.auto = handle[h].auto /\ o.spawned = handle[h].spawned /\ o.preset = handle[h].preset
  BY HandleFields DEF IInv, Reset, Handle
<1>4. handle' = [handle EXCEPT ![h] = o] /\ letGo' = letGo \union ({handle[h].pid} \ {NoPid})
  BY DEF Release
<1> HIDE DEF o
<1>5. /\ handle'[h] = o /\ \A g \in Handles \ {h} : handle'[g] = handle[g]
      /\ \A g \in Handles : handle'[g].preset = handle[g].preset /\ RefersToNoMore(g)
  <2>1. \A q \in Pids : /\ o.pid = q => Holds(h, q)
                        /\ o.spawned = q \/ q \in o.watch => Owns(h, q)
                        /\ o.adopted /\ o.pid = q => AdoptedAs(h, q)
    BY <1>3, SupervisorAssumption DEF Owns
  <2> QED BY <1>1, <1>3, <1>4, <2>1, HandleRefers
<1>6. cmd.phase = "none" /\ cmd.h = NoHandle /\ cmd.pid = NoPid
  BY <1>1 DEF Unlocked
<1>7. Fallen' \subseteq Fallen
  BY <1>1, <1>4, <1>5, Untouched, NobodyFalls
<1>8. Due' = Due
  <2>1. \A r \in Presets : ~AskedFor(r)' /\ ~AskedFor(r)
    BY <1>1, <1>6 DEF AskedFor
  <2>2. \A r \in Presets : Answering(r)' <=> Answering(r)
    BY <1>2, <1>3, <1>5 DEF Answering
  <2> QED BY <2>1, <2>2, DueStays
<1>9. Servers' \in {Servers, Servers \ Promise!ServersOf(p)}
  <2> DEFINE x == handle[h].pid
  <2>1. \A r \in Pids : IsServer(r)' <=> IsServer(r) /\ r # x
    BY <1>1, <1>4, SupervisorAssumption DEF IsServer, Live, Kept
  <2>2. CASE x \in Pids /\ IsServer(x)
    <3>1. proc[x].preset = p
      BY <1>2, <2>2 DEF HandleSound, PresetSound, Holds
    <3>2. handle[h].spawned = NoPid
      BY <1>2, <2>2, SupervisorAssumption DEF HandleSound, AutoSound, InAutoStart
    <3>3. ASSUME NEW r \in Pids, IsServer(r), proc[r].preset = p PROVE r = x
      BY <1>6, <3>2, <3>3, SupervisorAssumption DEF IsServer, Kept, IInv, Sound, NoStray, Tracks
    <3>4. \A r \in Pids : IsServer(r)' <=> IsServer(r) /\ proc[r].preset # p
      BY <2>1, <3>1, <3>3
    <3>5. Servers' = Servers \ Promise!ServersOf(p)
      BY <1>1, <3>4 DEF Servers, IsServer, Promise!ServersOf
    <3> QED BY <3>5
  <2>3. CASE ~(x \in Pids /\ IsServer(x))
    <3>1. Servers' = Servers
      BY <1>1, <2>1, <2>3, ServersStay
    <3> QED BY <3>1
  <2> QED BY <2>2, <2>3
<1>10. UserStopped' = UserStopped \ {p}
  BY <1>1 DEF UserStopped, IInv, TInv, TypeOK
<1>11. AwaitsKept'
  <2>1. ASSUME NEW g \in Handles, NEW r \in Pids, Mine(g)'
        PROVE  (Owns(g, r)' => Kept(r)') /\ (AdoptedAs(g, r)' => r \notin letGo')
    <3>1. Mine(g)
      BY <1>1, <1>5, <2>1 DEF Mine
    <3>2. CASE r # handle[h].pid
      BY <1>1, <1>4, <1>5, <2>1, <3>1, <3>2 DEF AwaitsKept, RefersToNoMore, Kept
    <3>3. CASE r = handle[h].pid
      <4>1. Holds(h, r) /\ ~Owns(h, r)
        BY <1>1, <1>2, <1>6, <3>3, SupervisorAssumption
           DEF Holds, Owns, HandleSound, WatchSound, AutoSound, InAutoStart
      <4>2. ~AdoptedAs(h, r)'
        BY <1>3, <1>5 DEF AdoptedAs
      <4>3. Owns(g, r) \/ AdoptedAs(g, r) => Holds(g, r)
        BY DEF Owns, AdoptedAs, Holds
      <4>4. Owns(g, r) \/ AdoptedAs(g, r) => g = h
        BY <1>2, <3>1, <4>1, <4>3, SoleHolder
      <4> QED BY <1>5, <2>1, <4>1, <4>2, <4>4 DEF RefersToNoMore
    <3> QED BY <3>2, <3>3
  <2> QED BY <2>1 DEF AwaitsKept
<1> QED BY <1>7, <1>8, <1>9, <1>10, <1>11 DEF Promise!Release

-----------------------------------------------------------------------------
(* The supervisor implements Upkeep: the backend is replaced *)

\* After os.execv() and the boot every handle is new; one that is tracked has
\* adopted a process that runs.
LEMMA ReexecHandles ==
    ASSUME Reexec, NEW h \in Handles
    PROVE  /\ handle'[h].auto = "none" /\ handle'[h].spawned = NoPid /\ handle'[h].watch = {}
           /\ Mine(h)' => Live(handle'[h].pid) /\ handle'[h].pid \notin letGo'
<1>1. PICK on \in [Presets -> Handles], of \in [Presets -> Pids \union {NoPid}] :
        /\ \A p \in Presets : of[p] # NoPid => Live(of[p])
        /\ handle' = [g \in Handles |->
                         IF \E p \in Presets : on[p] = g /\ of[p] # NoPid
                         THEN LET p == CHOOSE p \in Presets : on[p] = g /\ of[p] # NoPid IN
                              [Fresh(p) EXCEPT !.pid = of[p], !.adopted = TRUE]
                         ELSE Fresh(NoPreset)]
        /\ letGo' = {q \in Pids : Live(q) /\ \A p \in Presets : of[p] # q}
  <2>1. PICK on \in [Presets -> Handles], of \in [Presets -> Pids \union {NoPid}] :
          LET found(p) == {q \in Pids : Live(q) /\ proc[q].preset = p}
              adopts(p, g) == on[p] = g /\ of[p] # NoPid IN
          /\ \A p \in Presets : IF found(p) = {} THEN of[p] = NoPid ELSE of[p] \in found(p)
          /\ handle' = [g \in Handles |->
                           IF \E p \in Presets : adopts(p, g)
                           THEN LET p == CHOOSE p \in Presets : adopts(p, g) IN
                                [Fresh(p) EXCEPT !.pid = of[p], !.adopted = TRUE]
                           ELSE Fresh(NoPreset)]
          /\ letGo' = {q \in Pids : Live(q) /\ \A p \in Presets : of[p] # q}
    BY DEF Reexec
  <2>2. \A p \in Presets : of[p] # NoPid => Live(of[p])
    BY <2>1
  <2> QED BY <2>1, <2>2
<1>2. CASE \E p \in Presets : on[p] = h /\ of[p] # NoPid
  <2>1. PICK p \in Presets : of[p] # NoPid /\ handle'[h] = [Fresh(p) EXCEPT !.pid = of[p], !.adopted = TRUE]
    BY <1>1, <1>2
  <2>2. /\ handle'[h].auto = "none" /\ handle'[h].spawned = NoPid /\ handle'[h].watch = {}
        /\ handle'[h].pid = of[p]
    BY <2>1 DEF Fresh
  <2>3. Live(of[p]) /\ of[p] \notin letGo'
    BY <1>1, <2>1
  <2> QED BY <2>2, <2>3 DEF Live
<1>3. CASE ~ \E p \in Presets : on[p] = h /\ of[p] # NoPid
  <2>1. handle'[h] = Fresh(NoPreset)
    BY <1>1, <1>3
  <2>2. ~Mine(h)'
    BY <2>1, SupervisorAssumption DEF Mine, Fresh
  <2> QED BY <2>1, <2>2 DEF Fresh
<1> QED BY <1>2, <1>3

\* The new backend has nothing due, nothing to answer, and at most one server
\* of each preset.
LEMMA ReexecRestarts ==
    ASSUME IInv, IInv', Reexec PROVE Promise!Restart /\ AwaitsKept'
<1>1. cmd'.phase = "none" /\ cmd'.h = NoHandle /\ cmd'.pid = NoPid /\ proc' = proc
  BY DEF Reexec, Unlocked
<1>2. Due' = {}
  <2>1. \A p \in Presets : ~AskedFor(p)' /\ ~Answering(p)'
    BY <1>1, ReexecHandles DEF AskedFor, Answering
  <2> QED BY <2>1, DueForPrimed
<1>3. Fallen' = {}
  <2>1. ASSUME NEW q \in Pids, Unanswered(q)' PROVE FALSE
    <3>1. ~Live(q)
      BY <1>1, <2>1 DEF Unanswered, Live
    <3>2. PICK h \in Handles : Mine(h)' /\ Holds(h, q)'
      BY <2>1, UnansweredIsHeldPrimed DEF UnansweredAreHeld, Held
    <3>3. handle'[h].pid = q
      BY <1>1, <3>2, ReexecHandles, SupervisorAssumption DEF Holds
    <3> QED BY <3>1, <3>2, <3>3, ReexecHandles
  <2> QED BY <2>1 DEF Fallen
<1>4. ASSUME NEW q \in Pids, IsServer(q)'
      PROVE  /\ proc'[q].preset \in Presets
             /\ handle'[tracked'[proc'[q].preset]].pid = q
  <2>1. proc'[q].preset \in Presets
    BY <1>4 DEF IsServer, IInv, Sound, LiveSound
  <2>2. Tracks(proc[q].preset, q)'
    BY <1>1, <1>4 DEF IsServer, Kept, IInv, Sound, NoStray
  <2>3. tracked'[proc'[q].preset] \in Handles
    BY <1>1, <2>1, <2>2 DEF Tracks, IInv, TInv, TypeOK
  <2> QED BY <1>1, <2>1, <2>2, <2>3, ReexecHandles, SupervisorAssumption DEF Tracks
<1>5. /\ Servers' \subseteq Presets \X Pids
      /\ \A one, other \in Servers' : one[1] = other[1] \/ one[2] = other[2] => one = other
  <2>1. \A s \in Servers' : \E q \in Pids : IsServer(q)' /\ s = <<proc'[q].preset, q>>
    BY DEF Servers, IsServer
  <2>2. Servers' \subseteq Presets \X Pids
    BY <1>4, <2>1
  <2>3. ASSUME NEW one \in Servers', NEW other \in Servers', one[1] = other[1] \/ one[2] = other[2]
        PROVE  one = other
    <3>1. PICK q \in Pids : IsServer(q)' /\ one = <<proc'[q].preset, q>>
      BY <2>1
    <3>2. PICK r \in Pids : IsServer(r)' /\ other = <<proc'[r].preset, r>>
      BY <2>1
    <3>3. q = r
      BY <1>4, <2>3, <3>1, <3>2
    <3> QED BY <3>1, <3>2, <3>3
  <2> QED BY <2>2, <2>3
<1>6. UserStopped' \subseteq UserStopped
  BY DEF Reexec, UserStopped
<1>7. AwaitsKept'
  <2>1. ASSUME NEW h \in Handles, NEW q \in Pids, Mine(h)'
        PROVE  (Owns(h, q)' => Kept(q)') /\ (AdoptedAs(h, q)' => q \notin letGo')
    BY <1>1, <2>1, ReexecHandles, SupervisorAssumption DEF Owns, AdoptedAs
  <2> QED BY <2>1 DEF AwaitsKept
<1> QED BY <1>2, <1>3, <1>5, <1>6, <1>7 DEF Promise!Restart

-----------------------------------------------------------------------------
(* The supervisor implements Upkeep: every step, and the theorem *)

\* start() up to its first await has no process yet.
LEMMA BegunWithoutProcess ==
    ASSUME NEW p, NEW h, NEW H, BeginStart(p, h, H) PROVE NotYetSpawned'
<1>1. cmd' \in {Unlocked, [phase |-> "preparing", h |-> h, pid |-> NoPid, next |-> NoPreset]}
  BY DEF BeginStart, Unlocked
<1> QED BY <1>1 DEF NotYetSpawned, Unlocked

\* No step leaves a command with a process that it has not spawned.
LEMMA NotYetSpawnedStays == ASSUME TInv, NotYetSpawned, [Next]_vars PROVE NotYetSpawned'
<1>1. ASSUME NEW h, NEW next, BeginStop(h, next) PROVE NotYetSpawned'
  BY <1>1 DEF BeginStop, NotYetSpawned
<1>2. CASE cmd' = cmd \/ cmd' = Unlocked
  BY <1>2 DEF NotYetSpawned, Unlocked
<1>3. CASE UserCommand
  BY <1>1, <1>2, <1>3, BegunWithoutProcess
     DEF UserCommand, StartCalled, StopCalled, RestartCalled, Adopt, StreamLogs, Release
<1>4. CASE CommandStep
  <2>1. ASSUME NEW q \in Pids, StartSpawns(q) PROVE NotYetSpawned'
    BY <2>1 DEF StartSpawns, NotYetSpawned, TInv, TypeOK, Command
  <2> QED BY <1>2, <1>4, <2>1, BegunWithoutProcess
          DEF CommandStep, StopEnds, StartFails, StartEnds, StopEndsStart, Signalled, Crash, Exit
<1>5. CASE Environment
  BY <1>2, <1>5 DEF Environment, Listens, Crash, Exit, External, Rebind, Reexec
<1>6. CASE \E h \in Handles : AutoRestart(h) \/ AttemptsAge(h)
  BY <1>2, <1>6 DEF AutoRestart, CooldownEnds, AutoFails, AutoEnds, AutoSpawns, AttemptsAge
<1>7. CASE (\E h \in Handles, q \in Pids : WatchExit(h, q)) \/ (\E p \in Presets : NoteDeath(p)) \/ UNCHANGED vars
  BY <1>2, <1>7 DEF WatchExit, NoteDeath, vars
<1> QED BY <1>3, <1>4, <1>5, <1>6, <1>7 DEF Next

\* Every step of the supervisor is one of Upkeep.
LEMMA StepImplements ==
    ASSUME RInv, IInv', "overlap" \notin Events, [Next]_vars
    PROVE  Promise!Next /\ AwaitsKept'
<1> USE DEF RInv
<1>1. CASE UserCommand
  <2>1. ASSUME NEW p \in Presets, StopCalled(p) PROVE Promise!Next /\ AwaitsKept'
    <3>1. tracked[p] \in Handles /\ Mine(tracked[p])
      BY <2>1 DEF StopCalled, IInv, TInv, TypeOK, Sound, TablesAgree, Mine
    <3> QED BY <2>1, <3>1, BeginStopImplements DEF StopCalled, Promise!Next
  <2>2. ASSUME NEW f \in Presets, NEW p \in Presets, RestartCalled(f, p) PROVE Promise!Next /\ AwaitsKept'
    <3>1. tracked[f] \in Handles /\ Mine(tracked[f])
      BY <2>2 DEF RestartCalled, IInv, TInv, TypeOK, Sound, TablesAgree, Mine
    <3> QED BY <2>2, <3>1, BeginStopImplements DEF RestartCalled, Promise!Next
  <2>3. ASSUME NEW p \in Presets, StartCalled(p) \/ Release(p) \/ StreamLogs(p) PROVE Promise!Next /\ AwaitsKept'
    BY <2>3, StartCalledAsks, ReleaseImplements, StreamLogsForgets DEF Promise!Next
  <2>4. ASSUME NEW p \in Presets, NEW q \in Pids, Adopt(p, q) PROVE Promise!Next /\ AwaitsKept'
    BY <2>4, AdoptImplements DEF Promise!Next
  <2> QED BY <1>1, <2>1, <2>2, <2>3, <2>4 DEF UserCommand
<1>2. ASSUME NEW q \in Pids, Crash(q) \/ Exit(q) \/ Listens(q) PROVE Promise!Next /\ AwaitsKept'
  <2>1. PICK v \in {"failed", "ended", "serving"} : proc' = [proc EXCEPT ![q].life = v] /\ Live(q)
    BY <1>2 DEF Crash, Exit, Listens, Live
  <2> QED BY <1>2, <2>1, LifeImplements DEF Crash, Exit, Listens, Promise!Next
<1>3. CASE CommandStep
  <2>1. ASSUME NEW p \in Presets, NEW h \in Handles, StopEndsStart(p, h) PROVE Promise!Next /\ AwaitsKept'
    BY <2>1, RestartImplements, SwitchImplements DEF Promise!Next
  <2>2. ASSUME NEW q \in Pids, StartSpawns(q) PROVE Promise!Next /\ AwaitsKept'
    BY <2>2, StartSpawnsLaunches DEF Promise!Next, Promise!Reasons
  <2>3. CASE StopEnds
    BY <2>3, StopEndsStops DEF Promise!Next
  <2>4. CASE StartFails \/ StartEnds
    BY <2>4, StartOverForgets DEF Promise!Next
  <2>5. ASSUME NEW q \in Pids, Signalled(q) PROVE Promise!Next /\ AwaitsKept'
    BY <1>2, <2>5 DEF Signalled
  <2> QED BY <1>3, <2>1, <2>2, <2>3, <2>4, <2>5 DEF CommandStep
<1>4. CASE Environment
  BY <1>2, <1>4, ExternalImplements, RebindForgets, ReexecRestarts DEF Environment, Promise!Next
<1>5. CASE \E h \in Handles : AutoRestart(h) \/ AttemptsAge(h)
  <2>1. PICK h \in Handles : AutoRestart(h) \/ AttemptsAge(h)
    BY <1>5
  <2>2. ASSUME NEW q \in Pids, AutoSpawns(h, q) PROVE Promise!Next /\ AwaitsKept'
    BY <2>2, AutoSpawnsLaunches DEF Promise!Next, Promise!Reasons
  <2> QED BY <2>1, <2>2, AutoForgets DEF AutoRestart, Promise!Next
<1>6. CASE \E h \in Handles, q \in Pids : WatchExit(h, q)
  BY <1>6, WatchExitImplements DEF Promise!Next
<1>7. CASE \E p \in Presets : NoteDeath(p)
  BY <1>7, NoteDeathImplements DEF Promise!Next
<1>8. CASE UNCHANGED vars
  <2>1. UNCHANGED <<tracked, handle, proc, cmd, wish, letGo, answer>>
    BY <1>8 DEF vars
  <2>2. Due' \subseteq Due
    BY <2>1, DueShrinks DEF AskedFor, Answering
  <2>3. \A h \in Handles : RefersToNoMore(h)
    BY <2>1, SameRefers DEF Mine
  <2> QED BY <2>1, <2>2, <2>3, Untouched, Forgets DEF Promise!Next
<1> QED BY <1>1, <1>3, <1>4, <1>5, <1>6, <1>7, <1>8 DEF Next

\* A new supervisor keeps nothing, owes nothing and awaits nothing.
LEMMA InitImplements == ASSUME Init PROVE Promise!Init /\ RInv
<1>1. IInv
  BY InitSound
<1>2. /\ \A h \in Handles : /\ handle[h].preset = NoPreset /\ handle[h].auto = "none"
      /\ cmd.phase = "none" /\ cmd.pid = NoPid
      /\ \A q \in Pids : proc[q].ours = FALSE
      /\ \A p \in Presets : wish[p] = "any"
  BY DEF Init, Fresh, Unlocked
<1>3. Servers = {} /\ Fallen = {} /\ UserStopped = {}
  BY <1>2 DEF Servers, Fallen, UserStopped, Unanswered, Kept
<1>4. Due = {}
  <2>1. \A p \in Presets : ~AskedFor(p) /\ ~Answering(p)
    BY <1>2 DEF AskedFor, Answering
  <2> QED BY <2>1, DueFor
<1>5. AwaitsKept /\ NotYetSpawned
  BY <1>2, SupervisorAssumption DEF AwaitsKept, NotYetSpawned, Mine
<1> QED BY <1>1, <1>3, <1>4, <1>5 DEF Promise!Init, RInv

\* Handles, watchers, cooldowns, adoptions, stops that overlap crashes and
\* restarts of the backend: in all of it the user sees no more than Upkeep
\* shows, as long as no unlocked path overlaps a start of the same preset.
THEOREM SupervisorImplementsUpkeep == ASSUME "overlap" \notin Events PROVE Spec => ImplementsUpkeep
<1>1. Init => Promise!Init /\ RInv
  BY InitImplements
<1>2. RInv /\ [Next]_vars => [Promise!Next]_(Promise!vars) /\ RInv'
  <2> SUFFICES ASSUME RInv, [Next]_vars PROVE Promise!Next /\ RInv'
    OBVIOUS
  <2>1. IInv'
    BY NextSound DEF RInv
  <2>2. NotYetSpawned'
    BY NotYetSpawnedStays DEF RInv, IInv
  <2>3. Promise!Next /\ AwaitsKept'
    BY <2>1, StepImplements
  <2> QED BY <2>1, <2>2, <2>3 DEF RInv
<1> QED BY <1>1, <1>2, PTL DEF Spec, ImplementsUpkeep, Promise!Spec

=============================================================================
