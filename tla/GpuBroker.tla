----------------------------- MODULE GpuBroker -----------------------------
(***************************************************************************)
(* The GPU broker of src/backend/lld/gpu_broker.py: clients acquire leases *)
(* on slots, at most one slot owns the GPU, and background tasks stop one  *)
(* service and start the next.                                             *)
(*                                                                         *)
(* The broker runs on one asyncio event loop, so code between two awaits   *)
(* is one atomic step.  `async with self._lock' only suspends when another *)
(* coroutine is suspended INSIDE a locked section, which only the two      *)
(* keepalive stops do; `holder' records that.  Every other locked section  *)
(* is one action, guarded by LockFree.                                     *)
(*                                                                         *)
(* Time is abstracted: a timer (deadline, TTL, keepalive, cooldown) may    *)
(* fire at any moment after it was set.                                    *)
(***************************************************************************)
EXTENDS Naturals, FiniteSets

CONSTANTS
    Slots,              \* ALL_SLOTS
    LlmSlot,            \* the slot whose service the user can steer too
    NoSlot,             \* None
    Requests,           \* identities of acquire() calls, and of their leases
    SlotOf,             \* the slot each request is for
    FailureThreshold,   \* _FAILURE_THRESHOLD
    KeepaliveOn,        \* settings.llm_keepalive_s > 0
    Events              \* what the environment does, beyond good service

(* What may happen around the broker.
     crash        a service process dies
     autorestart  the supervisor brings the LLM server back by itself
     user         somebody drives the LLM server through /api/server/*
     notReady     wait_ready() gives up on a process that stays alive
     stopFails    Service.stop() fails to end the process
     timeout      an acquire() reaches its wait_timeout_s
     lostGrant    asyncio.wait_for (Python >= 3.12) drops a result that
                  arrives together with the timeout
     stale        a holder stops sending heartbeats
     shutdown     the application stops the broker                         *)
EventKinds == {"crash", "autorestart", "user", "notReady", "stopFails",
               "timeout", "lostGrant", "stale", "shutdown"}

ASSUME BrokerAssumption ==
    /\ LlmSlot \in Slots
    /\ NoSlot \notin Slots
    /\ SlotOf \in [Requests -> Slots]
    /\ FailureThreshold \in Nat \ {0}
    /\ KeepaliveOn \in BOOLEAN
    /\ Events \subseteq EventKinds

VARIABLES
    active,     \* _active_slot
    starting,   \* _starting_slot
    leases,     \* _active_leases: the requests that hold a lease
    stale,      \* leases whose expires_at has passed
    queue,      \* _queue: the requests in it
    ahead,      \* the order of _queue: who stands in front of each request
    call,       \* where each client's acquire() call is
    starters,   \* _background_tasks: the _start_and_grant coroutines
    timer,      \* _keepalive_task: the slot its sleeping _runner is for
    arm,        \* a release() is about to take the lock again for keepalive
    stopNow,    \* a _stop_active_now task is pending
    holder,     \* the slot being stopped by a task that holds the lock
    fails,      \* _failed_starts: recent failures per slot
    svc,        \* what runs behind each slot, and for whom
    notify,     \* a notify_supervisor_changed() call is due
    shutdown,   \* where GpuBroker.stop() is
    last        \* the slot whose service GpuBroker.stop() stops

slotVars == <<active, starting>>
queueVars == <<queue, ahead>>
keepVars == <<timer, arm, stopNow, holder>>
stopVars == <<shutdown, last>>
vars == <<active, starting, leases, stale, queue, ahead, call, starters, timer,
          arm, stopNow, holder, fails, svc, notify, shutdown, last>>

Maybe == Slots \union {NoSlot}

(* The client's side of an acquire() call: no call in progress, blocked on
   the lock, waiting for its future, its future cancelled by the timeout but
   still in _queue, its future resolved with a lease but acquire() not yet
   resumed, lease returned to the client. *)
CallStates == {"idle", "blocked", "waiting", "cancelled", "offered", "held"}

(* _start_and_grant: scheduled with call_soon, stopping the previous slot,
   starting the service, waiting for it to be ready. *)
Phases == {"soon", "stopping", "starting", "waiting"}
Starter == [slot : Slots, prev : Maybe, phase : Phases]

(* A service is down; or runs and was started by the broker ("managed"); or
   runs and belongs to somebody else ("external"); or the broker's LLM server
   died and LlmService still remembers it as its own ("crashed"). *)
SvcStates == {"down", "crashed", "managed", "external"}

ShutdownPhases == {"up", "called", "stopping", "cancelling", "done"}

Init ==
    /\ active = NoSlot /\ starting = NoSlot
    /\ leases = {} /\ stale = {}
    /\ queue = {} /\ ahead = [r \in Requests |-> {}]
    /\ call = [r \in Requests |-> "idle"]
    /\ starters = {}
    /\ timer = NoSlot /\ arm = FALSE /\ stopNow = FALSE /\ holder = NoSlot
    /\ fails = [s \in Slots |-> 0]
    /\ svc \in {[s \in Slots |-> IF s = LlmSlot THEN v ELSE "down"] :
                    v \in {"down", "external"}}
    /\ notify = FALSE
    /\ shutdown = "up" /\ last = NoSlot

-----------------------------------------------------------------------------
(* Helpers *)

LockFree == holder = NoSlot

\* Service.is_running()
Running(s) == svc[s] \in {"managed", "external"}

\* The queue without the requests of R; the others keep their order.
Dequeue(R) ==
    /\ queue' = queue \ R
    /\ ahead' = [r \in Requests |-> IF r \in R THEN {} ELSE ahead[r] \ R]

Enqueue(r) ==
    /\ queue' = queue \union {r}
    /\ ahead' = [ahead EXCEPT ![r] = queue]

\* Mutant: the next slot is anybody's, not the oldest request's.
IsHeadAny(h, Q) == h \in Q

\* Q[0], for a part Q of the queue.
IsHead(h, Q) == h \in Q /\ ahead[h] \cap Q = {}

QueuedFor(s) == {r \in queue : SlotOf[r] = s}

\* Mutant: the futures are never resolved.
ResolveForgets(R, c) == call

\* The calls after the futures of R that are not done() yet get result `c'.
Resolve(R, c) ==
    [r \in Requests |-> IF r \in R /\ call[r] = "waiting" THEN c ELSE call[r]]

\* Mutant: futures that are done() get a lease too.
LiveAll(R) == R

\* Those of R that a grant reaches: it skips futures that are done().
Live(R) == {r \in R : call[r] = "waiting"}

Cooling(s) == fails[s] >= FailureThreshold

\* Mutant: the previous slot's service is not stopped.
NewStarterNoStop(s, prev) == [slot |-> s, prev |-> prev, phase |-> "starting"]

\* create_task(_start_and_grant(slot, prev)): the previous service is only
\* stopped when there is one and it is another slot's.
NewStarter(s, prev) ==
    [slot |-> s, prev |-> prev,
     phase |-> IF prev = NoSlot \/ prev = s THEN "starting" ELSE "stopping"]

\* Mutant: the new slot is active as soon as its start begins.
TransitionAtOnce(s, prev) ==
    active' = s /\ starting' = s /\ starters' = starters \union {NewStarter(s, prev)}

\* The slot begins to change hands: from now on `s' is starting.
Transition(s, prev) ==
    /\ active' = NoSlot
    /\ starting' = s
    /\ starters' = starters \union {NewStarter(s, prev)}

(* What Service.stop() leaves behind.  LlmService only stops what the broker
   started, and forgets its ownership even when the supervisor fails to stop
   it; ComfyService and TtsService forget an adopted process. *)
AfterStop(s) ==
    IF svc[s] = "external" THEN {IF s = LlmSlot THEN "external" ELSE "down"}
    ELSE {"down"} \union
         IF svc[s] = "managed" /\ "stopFails" \in Events
         THEN {IF s = LlmSlot THEN "external" ELSE "managed"} ELSE {}

(* What a Service.start() that does not raise leaves behind: a service that
   runs is left as it is, ComfyService and TtsService adopt a reachable one. *)
AfterStart(s) ==
    IF Running(s) THEN {svc[s]}
    ELSE IF s = LlmSlot THEN {"managed"} ELSE {"managed", "external"}

\* _schedule_keepalive_locked(), which replaces a timer that is still running.
ScheduleKeepalive ==
    /\ timer' = IF KeepaliveOn /\ active # NoSlot THEN active ELSE timer
    /\ stopNow' = (stopNow \/ (~KeepaliveOn /\ active # NoSlot))

(* The last lease on the active slot is gone, `late' are dropped from the
   queue and Q, not empty, is left of it.  The slot passes to the request in
   front: at once if it is for the active slot, else by a transition. *)
HandOver(late, Q) ==
    \E h \in Q :
        LET same == {r \in Q : SlotOf[r] = active} IN
        /\ IsHead(h, Q)
        /\ IF SlotOf[h] = active
           THEN /\ Dequeue(late \union same)
                /\ leases' = Live(same)
                /\ UNCHANGED <<slotVars, starters>>
           ELSE /\ Dequeue(late)
                /\ leases' = {}
                /\ Transition(SlotOf[h], active)

-----------------------------------------------------------------------------
(* acquire() *)

\* Mutant: the section is entered while a keepalive stop holds the lock.
AtLockUnlocked(r) ==
    call[r] = "blocked" \/ (call[r] = "idle" /\ r \notin leases /\ shutdown = "up")

\* Mutant: _stopped is not checked.
AtLockStopped(r) ==
    LockFree /\ (call[r] = "blocked" \/ (call[r] = "idle" /\ r \notin leases))

\* A call that may enter acquire()'s locked section now: a new one, or one
\* that passed the _stopped check earlier and then blocked on the lock.
AtLock(r) ==
    /\ LockFree
    /\ \/ call[r] = "blocked"
       \/ call[r] = "idle" /\ r \notin leases /\ shutdown = "up"

\* Mutant: no cooldown gate.
AdmittedUngated(r) == AtLock(r)

\* The call passes the cooldown gate.
Admitted(r) == AtLock(r) /\ ~Cooling(SlotOf[r])

\* Mutants of the condition below: a start in flight, tenants of the active
\* slot, an idle active slot are overlooked.
MayTransitionTwice == active = NoSlot \/ leases = {}
MayTransitionOverTenants == starting = NoSlot
MayTransitionIfNone == starting = NoSlot /\ active = NoSlot

\* No start is in progress and the GPU is idle, or its slot unused.
MayTransition == starting = NoSlot /\ (active = NoSlot \/ leases = {})

AcquireBlocks(r) ==
    /\ ~LockFree /\ shutdown = "up"
    /\ call[r] = "idle" /\ r \notin leases
    /\ call' = [call EXCEPT ![r] = "blocked"]
    /\ UNCHANGED <<slotVars, leases, stale, queueVars, starters, keepVars,
                   fails, svc, notify, stopVars>>

\* The cooldown gate: 503 service.unhealthy.
AcquireRefused(r) ==
    /\ AtLock(r)
    /\ Cooling(SlotOf[r])
    /\ call' = [call EXCEPT ![r] = "idle"]
    /\ UNCHANGED <<slotVars, leases, stale, queueVars, starters, keepVars,
                   fails, svc, notify, stopVars>>

\* Fast path: the slot is active and no start is in flight.
AcquireFast(r) ==
    /\ Admitted(r)
    /\ active = SlotOf[r] /\ starting = NoSlot
    /\ timer' = NoSlot
    /\ leases' = leases \union {r}
    /\ call' = [call EXCEPT ![r] = "held"]
    /\ UNCHANGED <<slotVars, stale, queueVars, starters, arm, stopNow, holder,
                   fails, svc, notify, stopVars>>

\* Slow path: queue up, and start a transition if the GPU is idle.
AcquireQueued(r) ==
    /\ Admitted(r)
    /\ ~(active = SlotOf[r] /\ starting = NoSlot)
    /\ Enqueue(r)
    /\ call' = [call EXCEPT ![r] = "waiting"]
    /\ IF MayTransition
       THEN Transition(SlotOf[r], active)
       ELSE UNCHANGED <<slotVars, starters>>
    /\ UNCHANGED <<leases, stale, keepVars, fails, svc, notify, stopVars>>

\* The future was resolved with a lease and acquire() returns it.
AcquireReturns(r) ==
    /\ call[r] = "offered"
    /\ call' = [call EXCEPT ![r] = "held"]
    /\ UNCHANGED <<slotVars, leases, stale, queueVars, starters, keepVars,
                   fails, svc, notify, stopVars>>

\* wait_for gives up: the future is cancelled, its entry still queued.
WaitTimesOut(r) ==
    /\ "timeout" \in Events
    /\ call[r] = "waiting"
    /\ call' = [call EXCEPT ![r] = "cancelled"]
    /\ UNCHANGED <<slotVars, leases, stale, queueVars, starters, keepVars,
                   fails, svc, notify, stopVars>>

\* The except branch: take the entry out of the queue, answer 408.
DropTimedOut(r) ==
    /\ LockFree
    /\ call[r] = "cancelled"
    /\ Dequeue({r})
    /\ call' = [call EXCEPT ![r] = "idle"]
    /\ UNCHANGED <<slotVars, leases, stale, starters, keepVars, fails, svc,
                   notify, stopVars>>

\* Python >= 3.12: the timeout cancels the task after the future got its
\* lease and before the task ran; the client is told 408.
GrantIsLost(r) ==
    /\ "lostGrant" \in Events
    /\ LockFree
    /\ call[r] = "offered"
    /\ call' = [call EXCEPT ![r] = "idle"]
    /\ UNCHANGED <<slotVars, leases, stale, queueVars, starters, keepVars,
                   fails, svc, notify, stopVars>>

-----------------------------------------------------------------------------
(* heartbeat(), release() and the passing of a lease's TTL *)

Heartbeat(r) ==
    /\ LockFree
    /\ call[r] = "held" /\ r \in stale
    /\ stale' = stale \ {r}
    /\ UNCHANGED <<slotVars, leases, queueVars, call, starters, keepVars,
                   fails, svc, notify, stopVars>>

LeaseGoesStale(r) ==
    /\ "stale" \in Events
    /\ r \in leases \ stale
    /\ call[r] # "offered"
    /\ stale' = stale \union {r}
    /\ UNCHANGED <<slotVars, leases, queueVars, call, starters, keepVars,
                   fails, svc, notify, stopVars>>

\* 404 lease.not_found: the broker revoked the lease before.
ReleaseUnknown(r) ==
    /\ LockFree
    /\ call[r] = "held" /\ r \notin leases
    /\ call' = [call EXCEPT ![r] = "idle"]
    /\ UNCHANGED <<slotVars, leases, stale, queueVars, starters, keepVars,
                   fails, svc, notify, stopVars>>

\* Mutant: the leases are counted before the pop.
LastOneStale(r) == leases = {}

\* No lease is left after r's is popped.
LastOne(r) == leases = {r}

Release(r) ==
    /\ LockFree
    /\ call[r] = "held" /\ r \in leases
    /\ stale' = stale \ {r}
    /\ IF ~LastOne(r) \/ starting # NoSlot
       THEN /\ leases' = leases \ {r}
            /\ call' = [call EXCEPT ![r] = "idle"]
            /\ UNCHANGED <<slotVars, queueVars, starters, arm>>
       ELSE IF queue # {}
       THEN /\ HandOver({}, queue)
            /\ call' = [Resolve(leases', "offered") EXCEPT ![r] = "idle"]
            /\ arm' = arm
       ELSE /\ leases' = {}
            /\ call' = [call EXCEPT ![r] = "idle"]
            /\ arm' = TRUE
            /\ UNCHANGED <<slotVars, queueVars, starters>>
    /\ UNCHANGED <<timer, stopNow, holder, fails, svc, notify, stopVars>>

\* release() takes the lock a second time to schedule the keepalive.
ArmKeepalive ==
    /\ LockFree /\ arm
    /\ arm' = FALSE
    /\ ScheduleKeepalive
    /\ UNCHANGED <<slotVars, leases, stale, queueVars, call, starters, holder,
                   fails, svc, notify, stopVars>>

\* One round of _watchdog_loop: drop the stale leases and the waiters past
\* their deadline, then let the slot pass on if nobody holds it any more.
WatchdogTick(late) ==
    LET left == leases \ stale
        rest == queue \ late IN
    /\ LockFree /\ shutdown # "done"
    /\ stale # {} \/ late # {}
    /\ stale' = {}
    /\ IF stale = {} \/ left # {} \/ starting # NoSlot
       THEN /\ leases' = left
            /\ Dequeue(late)
            /\ call' = Resolve(late, "idle")
            /\ UNCHANGED <<slotVars, starters, timer, stopNow>>
       ELSE IF rest # {}
       THEN /\ HandOver(late, rest)
            /\ call' = [r \in Requests |->
                           IF r \in leases' THEN "offered"
                           ELSE Resolve(late, "idle")[r]]
            /\ UNCHANGED <<timer, stopNow>>
       ELSE /\ leases' = {}
            /\ Dequeue(late)
            /\ call' = Resolve(late, "idle")
            /\ ScheduleKeepalive
            /\ UNCHANGED <<slotVars, starters>>
    /\ UNCHANGED <<arm, holder, fails, svc, notify, stopVars>>

-----------------------------------------------------------------------------
(* notify_supervisor_changed(), after a successful /api/server/* call *)

\* LlmService.forget_ownership()
Forgotten == [svc EXCEPT ![LlmSlot] =
                 CASE svc[LlmSlot] = "managed" -> "external"
                   [] svc[LlmSlot] = "crashed" -> "down"
                   [] OTHER -> svc[LlmSlot]]

\* Mutant: the leases go even if the server still runs.
LlmGoneAnyway == active = LlmSlot

LlmGone == active = LlmSlot /\ ~Running(LlmSlot)

Notify ==
    /\ LockFree /\ notify
    /\ notify' = FALSE
    /\ svc' = Forgotten
    /\ IF LlmGone
       THEN /\ leases' = {r \in leases : SlotOf[r] # LlmSlot}
            /\ stale' = {r \in stale : SlotOf[r] # LlmSlot}
            /\ IF starting = NoSlot /\ queue # {}
               THEN \E h \in queue : /\ IsHead(h, queue)
                                     /\ Transition(SlotOf[h], NoSlot)
               ELSE active' = NoSlot /\ UNCHANGED <<starting, starters>>
       ELSE UNCHANGED <<slotVars, leases, stale, starters>>
    /\ UNCHANGED <<queueVars, call, keepVars, fails, stopVars>>

-----------------------------------------------------------------------------
(* _start_and_grant() and _start_service() *)

\* The transition stops the previous slot's service; a failure is logged.
StopPrevious(t) ==
    /\ t \in starters /\ t.phase = "stopping"
    /\ \E v \in AfterStop(t.prev) : svc' = [svc EXCEPT ![t.prev] = v]
    /\ starters' = (starters \ {t}) \union {[t EXCEPT !.phase = "starting"]}
    /\ UNCHANGED <<slotVars, leases, stale, queueVars, call, keepVars, fails,
                   notify, stopVars>>

StartService(t) ==
    /\ t \in starters /\ t.phase = "starting"
    /\ \E v \in AfterStart(t.slot) : svc' = [svc EXCEPT ![t.slot] = v]
    /\ starters' = (starters \ {t}) \union {[t EXCEPT !.phase = "waiting"]}
    /\ UNCHANGED <<slotVars, leases, stale, queueVars, call, keepVars, fails,
                   notify, stopVars>>

\* The pre-spawn VRAM check or start() raises, or wait_ready() is FALSE.
MayFail(t) ==
    \/ t.phase = "starting" /\ ~Running(t.slot)
    \/ t.phase = "waiting" /\ (~Running(t.slot) \/ "notReady" \in Events)

\* Mutant: no start is kicked for the waiters that are left.
KickNever(rest) == FALSE

\* Somebody else waits for the GPU, which nobody uses.
Kick(rest) == leases = {} /\ active = NoSlot /\ rest # {}

(* Record the failure and fail every waiter of the slot; if waiters of other
   slots are left, schedule the start of the first one's slot. *)
StartFails(t) ==
    LET rest == queue \ QueuedFor(t.slot) IN
    /\ t \in starters /\ MayFail(t)
    /\ LockFree
    /\ fails' = [fails EXCEPT ![t.slot] = @ + 1]
    /\ Dequeue(QueuedFor(t.slot))
    /\ call' = Resolve(QueuedFor(t.slot), "idle")
    /\ IF Kick(rest)
       THEN \E h \in rest :
               /\ IsHead(h, rest)
               /\ starting' = SlotOf[h]
               /\ starters' = (starters \ {t}) \union
                     {[slot |-> SlotOf[h], prev |-> NoSlot, phase |-> "soon"]}
       ELSE starting' = NoSlot /\ starters' = starters \ {t}
    /\ UNCHANGED <<active, leases, stale, keepVars, svc, notify, stopVars>>

\* call_soon ran: the coroutine of the next start exists.
SpawnScheduled(t) ==
    /\ t \in starters /\ t.phase = "soon"
    /\ starters' = (starters \ {t}) \union {NewStarter(t.slot, t.prev)}
    /\ UNCHANGED <<slotVars, leases, stale, queueVars, call, keepVars, fails,
                   svc, notify, stopVars>>

\* Mutant: only one waiter is granted.
StartDoneGrantsOne(t) ==
    /\ t \in starters /\ t.phase = "waiting" /\ Running(t.slot)
    /\ LockFree
    /\ active' = t.slot /\ starting' = NoSlot
    /\ starters' = starters \ {t}
    /\ \E h \in QueuedFor(t.slot) :
          Dequeue({h}) /\ leases' = Live({h}) /\ call' = Resolve({h}, "offered")
    /\ UNCHANGED <<stale, keepVars, fails, svc, notify, stopVars>>

\* The service is ready: the slot is active and its waiters get leases.
StartDone(t) ==
    /\ t \in starters /\ t.phase = "waiting" /\ Running(t.slot)
    /\ LockFree
    /\ active' = t.slot /\ starting' = NoSlot
    /\ starters' = starters \ {t}
    /\ Dequeue(QueuedFor(t.slot))
    /\ leases' = leases \union Live(QueuedFor(t.slot))
    /\ call' = Resolve(QueuedFor(t.slot), "offered")
    /\ UNCHANGED <<stale, keepVars, fails, svc, notify, stopVars>>

\* Failures leave the 60 s window, or the cooldown ends and clears them.
FailuresAge(s) ==
    /\ \E n \in 0 .. FailureThreshold :
          n < fails[s] /\ fails' = [fails EXCEPT ![s] = n]
    /\ UNCHANGED <<slotVars, leases, stale, queueVars, call, starters,
                   keepVars, svc, notify, stopVars>>

-----------------------------------------------------------------------------
(* The keepalive stops *)

\* The slot may be stopped: it is active, unused and nobody waits.
Unused(s) == s # NoSlot /\ active = s /\ leases = {} /\ queue = {}

\* _runner wakes up, takes the lock and keeps it while it stops the service.
TimerFires ==
    /\ timer # NoSlot /\ LockFree
    /\ timer' = NoSlot
    /\ holder' = IF Unused(timer) THEN timer ELSE NoSlot
    /\ UNCHANGED <<slotVars, leases, stale, queueVars, call, starters, arm,
                   stopNow, fails, svc, notify, stopVars>>

\* _stop_active_now, which does the same without a delay.
StopNowRuns ==
    /\ stopNow /\ LockFree
    /\ stopNow' = FALSE
    /\ holder' = IF Unused(active) THEN active ELSE NoSlot
    /\ UNCHANGED <<slotVars, leases, stale, queueVars, call, starters, timer,
                   arm, fails, svc, notify, stopVars>>

\* stop() returns: the slot stays active if the service still runs.
KeepaliveStops ==
    /\ ~LockFree
    /\ \E v \in AfterStop(holder) : svc' = [svc EXCEPT ![holder] = v]
    /\ active' = IF svc'[holder] \in {"managed", "external"} THEN active
                 ELSE NoSlot
    /\ holder' = NoSlot
    /\ UNCHANGED <<starting, leases, stale, queueVars, call, starters, timer,
                   arm, stopNow, fails, notify, stopVars>>

-----------------------------------------------------------------------------
(* The services and the user *)

Crash(s) ==
    /\ "crash" \in Events
    /\ svc[s] = "managed" \/ (s = LlmSlot /\ svc[s] = "external")
    /\ svc' = [svc EXCEPT ![s] =
                  IF s = LlmSlot /\ @ = "managed" THEN "crashed" ELSE "down"]
    /\ UNCHANGED <<slotVars, leases, stale, queueVars, call, starters,
                   keepVars, fails, notify, stopVars>>

AutoRestart ==
    /\ "autorestart" \in Events
    /\ svc[LlmSlot] = "crashed"
    /\ svc' = [svc EXCEPT ![LlmSlot] = "managed"]
    /\ UNCHANGED <<slotVars, leases, stale, queueVars, call, starters,
                   keepVars, fails, notify, stopVars>>

\* A start, stop, restart, switch, adopt or release of a preset.
UserSteers ==
    /\ "user" \in Events
    /\ \E v \in SvcStates :
          /\ v = svc[LlmSlot] \/ {v, svc[LlmSlot]} = {"managed", "crashed"}
                \/ {v, svc[LlmSlot]} = {"external", "down"}
          /\ svc' = [svc EXCEPT ![LlmSlot] = v]
    /\ notify' = TRUE
    /\ UNCHANGED <<slotVars, leases, stale, queueVars, call, starters,
                   keepVars, fails, stopVars>>

-----------------------------------------------------------------------------
(* stop(), when the application shuts down *)

StopCalled ==
    /\ "shutdown" \in Events
    /\ shutdown = "up"
    /\ shutdown' = "called"
    /\ UNCHANGED <<slotVars, leases, stale, queueVars, call, starters,
                   keepVars, fails, svc, notify, last>>

(* The locked section.  The lock is fair and acquire() checks _stopped first,
   so every call blocked on the lock asked for it before stop() did. *)
StopSection ==
    /\ shutdown = "called" /\ LockFree
    /\ \A r \in Requests : call[r] # "blocked"
    /\ Dequeue(queue)
    /\ call' = Resolve(queue, "idle")
    /\ leases' = {} /\ stale' = {}
    /\ active' = NoSlot /\ starting' = NoSlot
    /\ last' = active
    /\ shutdown' = IF active = NoSlot THEN "cancelling" ELSE "stopping"
    /\ UNCHANGED <<starters, keepVars, fails, svc, notify>>

StopLast ==
    /\ shutdown = "stopping"
    /\ \E v \in AfterStop(last) : svc' = [svc EXCEPT ![last] = v]
    /\ shutdown' = "cancelling"
    /\ UNCHANGED <<slotVars, leases, stale, queueVars, call, starters,
                   keepVars, fails, notify, last>>

\* The tasks that exist are cancelled, one that is only scheduled is not; a
\* cancelled _runner gives the lock back.
StopCancels ==
    /\ shutdown = "cancelling"
    /\ starters' = {t \in starters : t.phase = "soon"}
    /\ timer' = NoSlot
    /\ holder' = IF KeepaliveOn THEN NoSlot ELSE holder
    /\ shutdown' = "done"
    /\ UNCHANGED <<slotVars, leases, stale, queueVars, call, arm, stopNow,
                   fails, svc, notify, last>>

-----------------------------------------------------------------------------

Late == IF "timeout" \in Events THEN SUBSET queue ELSE {{}}

Client(r) == \/ AcquireBlocks(r) \/ AcquireRefused(r)
             \/ AcquireFast(r) \/ AcquireQueued(r)
             \/ Heartbeat(r) \/ LeaseGoesStale(r)
             \/ ReleaseUnknown(r) \/ Release(r)

Waiting(r) == AcquireReturns(r) \/ WaitTimesOut(r) \/ DropTimedOut(r)
                 \/ GrantIsLost(r)

StarterStep(t) == \/ StopPrevious(t) \/ StartService(t) \/ StartFails(t)
                  \/ SpawnScheduled(t) \/ StartDone(t)

Keepalive == ArmKeepalive \/ TimerFires \/ StopNowRuns \/ KeepaliveStops

Shutdown == StopCalled \/ StopSection \/ StopLast \/ StopCancels

Next ==
    \/ \E r \in Requests : Client(r) \/ Waiting(r)
    \/ \E late \in Late : WatchdogTick(late)
    \/ \E t \in starters : StarterStep(t)
    \/ \E s \in Slots : FailuresAge(s) \/ Crash(s)
    \/ Keepalive \/ Notify \/ AutoRestart \/ UserSteers \/ Shutdown

Spec == Init /\ [][Next]_vars

-----------------------------------------------------------------------------
(* Safety *)

\* Every variable of the broker stays in its range; no slot ever has more
\* than FailureThreshold failures on record, although nothing caps them.
TypeOK ==
    /\ active \in Maybe /\ starting \in Maybe
    /\ leases \subseteq Requests /\ stale \subseteq leases
    /\ queue \subseteq Requests
    /\ ahead \in [Requests -> SUBSET Requests]
    /\ call \in [Requests -> CallStates]
    /\ starters \subseteq Starter
    /\ timer \in Maybe /\ holder \in Maybe
    /\ arm \in BOOLEAN /\ stopNow \in BOOLEAN /\ notify \in BOOLEAN
    /\ fails \in [Slots -> 0 .. FailureThreshold]
    /\ svc \in [Slots -> SvcStates]
    /\ shutdown \in ShutdownPhases /\ last \in Maybe

InService == shutdown \in {"up", "called"}

\* However acquires, releases, failures and supervisor changes interleave, at
\* most one _start_and_grant coroutine exists, it is the one _starting_slot
\* speaks of, and while it exists no slot is active.
OneTransition ==
    InService =>
        \/ starting = NoSlot /\ starters = {}
        \/ /\ active = NoSlot
           /\ \E t \in starters : starters = {t} /\ t.slot = starting

\* A lease the broker knows is a lease on the active slot: no slot change
\* ever carries a tenant of the old slot along.
LeasesOnActive == \A r \in leases : SlotOf[r] = active

\* Slots are mutually exclusive on the GPU: one is started, or one is active
\* and every lease is on it.
OneOwner == OneTransition /\ LeasesOnActive

\* A request never sits in the queue for the slot that is active with no
\* start in flight: the fast path and the grant after a start leave none
\* behind (so release()'s "same slot in queue (rare race)" branch is dead).
NoWaiterForActive == starting = NoSlot => QueuedFor(active) = {}

\* A call whose future is pending is in the queue exactly as long as it waits,
\* and the queue is a line: any two requests in it are ordered one way.
QueueIsALine ==
    /\ \A r \in Requests : call[r] = "waiting" => r \in queue
    /\ \A r \in queue : /\ call[r] \in {"waiting", "cancelled"}
                        /\ ahead[r] \subseteq queue \ {r}
    /\ \A r, q \in queue :
          r # q => ((r \in ahead[q]) <=> (q \notin ahead[r]))

\* Nobody waits for a GPU that is idle with no start in flight.
IdleGpuHasNoQueue == active = NoSlot /\ starting = NoSlot => queue = {}

\* Whoever waits is in the queue, which is a line, and has something to wait
\* for: another slot that is active, or a start.
NobodyWaitsInVain == QueueIsALine /\ NoWaiterForActive /\ IdleGpuHasNoQueue

\* A slot that is cooling down is left alone: no start of it is in flight and
\* nobody who waits could trigger one.
CoolingSlotIsQuiet ==
    \A s \in Slots : Cooling(s) => starting # s /\ QueuedFor(s) = {}

\* What a keepalive stop checked before it awaited stop() still holds when
\* the await returns: nothing was granted, queued or started meanwhile.
KeepaliveUndisturbed == InService /\ ~LockFree => Unused(holder)

\* A lease only ends because its holder released it, its TTL passed, the LLM
\* server it is for went away, or the broker shut down.
LeaseEndsForAReason ==
    [][\A r \in leases \ leases' :
          \/ call[r] = "held" /\ call'[r] = "idle"
          \/ r \in stale
          \/ SlotOf[r] = LlmSlot /\ ~Running(LlmSlot)
          \/ shutdown = "called"]_vars

\* The broker implements the lease promise of SlotLease.
Tenants == {<<r, SlotOf[r]>> : r \in leases}
Lease == INSTANCE SlotLease WITH owner <- active, tenants <- Tenants
ImplementsSlotLease == Lease!Spec

-----------------------------------------------------------------------------
(* Safety of a broker that meets fewer events *)

\* As long as no waiter times out, whoever waits waits for somebody: a lease
\* that will be released or a start in flight (acquire(): "the active slot is
\* held -> wait until release triggers transition").
QueueIsAttended == InService /\ queue # {} => starting # NoSlot \/ leases # {}

\* As long as no waiter times out, the slot goes to the oldest request.
StartsForTheOldest ==
    [][starting' \notin {starting, NoSlot} =>
          \E h \in queue' : ahead'[h] = {} /\ SlotOf[h] = starting']_vars

\* As long as every start ends in a ready or a dead service and every stop
\* succeeds, the broker never has two services of its own on the GPU.
OneManaged ==
    \A s, u \in Slots : svc[s] = "managed" /\ svc[u] = "managed" => s = u

\* As long as no grant is lost, every lease has a client that was or will be
\* told of it.
NoOrphanLease == \A r \in leases : call[r] \in {"offered", "held"}

\* Once stop() cleared the broker, no call is pending and no lease exists: a
\* start that completes meanwhile or a call that was blocked changes nothing.
ShutdownIsFinal ==
    ~InService => /\ leases = {} /\ queue = {}
                  /\ \A r \in Requests : call[r] \notin {"blocked", "waiting"}

-----------------------------------------------------------------------------
(* Liveness *)

(* asyncio runs every task that can run, and timers fire: weak fairness for
   each task.  A call that is blocked on the lock gets it, because
   asyncio.Lock is fair, although others may take the lock in between: strong
   fairness.  Nothing is assumed of clients, of the user, or of crashes. *)
Fairness ==
    /\ WF_vars(\E t \in starters : StarterStep(t))
    /\ WF_vars(KeepaliveStops)
    /\ WF_vars(ArmKeepalive) /\ WF_vars(TimerFires) /\ WF_vars(StopNowRuns)
    /\ WF_vars(Notify)
    /\ WF_vars(\E late \in Late : WatchdogTick(late))
    /\ \A r \in Requests :
          /\ WF_vars(AcquireReturns(r) \/ DropTimedOut(r))
          /\ SF_vars(call[r] = "blocked" /\
                        (AcquireRefused(r) \/ AcquireFast(r) \/ AcquireQueued(r)))
    /\ WF_vars(StopSection) /\ WF_vars(StopLast) /\ WF_vars(StopCancels)

FairSpec == Spec /\ Fairness

\* If the holders let go again and again, every queued call is answered with
\* a lease or an error, without the help of its timeout.
QueueIsServed ==
    []<>(leases = {}) =>
        \A r \in Requests :
            call[r] \in {"blocked", "waiting"} ~> call[r] \in {"offered", "held", "idle"}

\* A service of the broker's that nobody uses is stopped in the end, unless
\* somebody uses the slot again (module docstring: "after that it is stopped
\* to free VRAM").
UnusedServiceStops ==
    \A s \in Slots : Unused(s) /\ svc[s] = "managed"
                         ~> ~(Unused(s) /\ svc[s] = "managed")

\* stop() terminates, whatever is in flight when it is called, and no call
\* is left waiting for an answer.
ShutdownCompletes ==
    shutdown = "called" ~>
        /\ shutdown = "done"
        /\ \A r \in Requests : call[r] \in {"idle", "held"}

=============================================================================
