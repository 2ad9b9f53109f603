-------------------------- MODULE GpuBrokerProofs --------------------------
(***************************************************************************)
(* What holds of GpuBroker for every set of slots and requests, every      *)
(* threshold and every set of events.  The theorems follow from one        *)
(* inductive invariant, IInv, which relates the slot fields, the leases,   *)
(* the queue, the _start_and_grant coroutine and the lock.  The last ones  *)
(* are of a broker that meets fewer events: each excludes the events that  *)
(* refute it and no others.                                                *)
(***************************************************************************)
EXTENDS GpuBroker, TLAPS

\* The _start_and_grant coroutine is alone, works for _starting_slot on an
\* idle GPU and not for a slot that is cooling down, and has something to stop
\* when it stops something.
StarterAlone ==
    /\ \A t, u \in starters : t = u
    /\ \A t \in starters : /\ active = NoSlot
                           /\ ~Cooling(t.slot)
                           /\ InService => starting = t.slot
                           /\ t.phase = "stopping" => t.prev # NoSlot
    /\ starting # NoSlot => InService /\ starters # {}

\* The lock is only held across an await to stop an unused slot.
LockHeldForUnused == ~LockFree => Unused(holder)

Control ==
    /\ StarterAlone
    /\ LockHeldForUnused
    /\ LeasesOnActive
    /\ CoolingSlotIsQuiet
    /\ NoWaiterForActive
    /\ IdleGpuHasNoQueue
    /\ ShutdownIsFinal

IInv == TypeOK /\ Control /\ QueueIsALine

-----------------------------------------------------------------------------
(* Lemmas about the operators of GpuBroker *)

\* A new coroutine is a Starter for the slot it is asked for.
LEMMA NewStarterIsStarter ==
    ASSUME NEW s \in Slots, NEW prev \in Maybe
    PROVE  /\ NewStarter(s, prev) \in Starter /\ NewStarter(s, prev).slot = s
           /\ NewStarter(s, prev).phase = "stopping" => NewStarter(s, prev).prev # NoSlot
BY DEF NewStarter, Starter, Phases

\* A step of a coroutine changes its phase, not its slot.
LEMMA PhaseIsStarter ==
    ASSUME NEW t \in Starter, NEW p \in Phases
    PROVE  /\ [t EXCEPT !.phase = p] \in Starter
           /\ [t EXCEPT !.phase = p].slot = t.slot
           /\ [t EXCEPT !.phase = p].phase = p
BY DEF Starter

\* stop() leaves a service in one of its states.
LEMMA AfterStopIsState ==
    ASSUME NEW s \in Slots PROVE AfterStop(s) \subseteq SvcStates
BY DEF AfterStop, SvcStates

LEMMA AfterStartIsState ==
    ASSUME TypeOK, NEW s \in Slots PROVE AfterStart(s) \subseteq SvcStates
BY DEF AfterStart, SvcStates, TypeOK

\* Removing requests from the queue keeps it a queue.
LEMMA DequeueType ==
    ASSUME TypeOK, NEW R, Dequeue(R)
    PROVE  queue' \subseteq Requests /\ ahead' \in [Requests -> SUBSET Requests]
BY DEF TypeOK, Dequeue

LEMMA ResolveType ==
    ASSUME TypeOK, NEW R, NEW c \in CallStates
    PROVE  Resolve(R, c) \in [Requests -> CallStates]
BY DEF TypeOK, Resolve

\* A coroutine's slot is a slot, and its previous slot one or none.
LEMMA StarterType ==
    ASSUME TypeOK, NEW t \in starters
    PROVE  t \in Starter /\ t.slot \in Slots /\ t.prev \in Maybe
BY DEF TypeOK, Starter

\* The beginning of a transition: no coroutine exists yet, the new one is
\* alone, and its slot is not cooling down.
LEMMA TransitionAlone ==
    ASSUME TypeOK, StarterAlone, starting = NoSlot, InService, InService',
           NEW s \in Slots, NEW prev \in Maybe, ~Cooling(s),
           Transition(s, prev), fails' = fails, starters = {}
    PROVE  /\ StarterAlone'
           /\ active' \in Maybe /\ starting' \in Maybe
           /\ starters' \subseteq Starter
<1>1. /\ NewStarter(s, prev) \in Starter /\ NewStarter(s, prev).slot = s
      /\ NewStarter(s, prev).phase = "stopping" => NewStarter(s, prev).prev # NoSlot
  BY NewStarterIsStarter
<1>2. starters' = {NewStarter(s, prev)} /\ active' = NoSlot /\ starting' = s
  BY DEF Transition
<1>3. StarterAlone'
  BY <1>1, <1>2 DEF StarterAlone, Cooling
<1> QED BY <1>1, <1>2, <1>3 DEF Maybe

\* In service, no coroutine exists when no start is in flight; nor does one
\* while a slot is active.
LEMMA NoStarter ==
    ASSUME StarterAlone, TypeOK, InService \/ active # NoSlot,
           starting = NoSlot \/ active # NoSlot
    PROVE  starters = {} /\ starting = NoSlot
BY BrokerAssumption DEF StarterAlone, TypeOK, Starter

\* Control speaks of these variables only.
LEMMA ControlFrame ==
    ASSUME Control,
           UNCHANGED <<active, starting, leases, queue, starters, holder,
                       fails, shutdown>>,
           \A r \in Requests : ~InService => call'[r] \notin {"blocked", "waiting"}
    PROVE  Control'
BY DEF Control, StarterAlone, LockHeldForUnused, LeasesOnActive,
       CoolingSlotIsQuiet, NoWaiterForActive, IdleGpuHasNoQueue,
       ShutdownIsFinal, LockFree, Unused, Cooling, QueuedFor, InService

-----------------------------------------------------------------------------
(* The invariant holds initially and is preserved by every action *)

LEMMA InitInv == ASSUME Init PROVE IInv
<1>1. TypeOK
  <2>1. svc \in [Slots -> SvcStates]
    BY BrokerAssumption DEF Init, SvcStates
  <2>2. fails \in [Slots -> 0 .. FailureThreshold]
    BY BrokerAssumption DEF Init
  <2> QED BY <2>1, <2>2 DEF Init, TypeOK, Maybe, CallStates, ShutdownPhases
<1>2. Control
  BY BrokerAssumption DEF Init, Control, StarterAlone, LockHeldForUnused,
     LeasesOnActive, CoolingSlotIsQuiet, NoWaiterForActive, IdleGpuHasNoQueue,
     ShutdownIsFinal, LockFree, Cooling, QueuedFor, InService
<1>3. QueueIsALine
  BY DEF Init, QueueIsALine
<1> QED BY <1>1, <1>2, <1>3 DEF IInv

\* The steps of a client that change nothing but where its call is, or the age
\* of its lease.
ClientQuiet(r) ==
    \/ AcquireBlocks(r) \/ AcquireRefused(r) \/ AcquireReturns(r)
    \/ WaitTimesOut(r) \/ GrantIsLost(r) \/ Heartbeat(r)
    \/ LeaseGoesStale(r) \/ ReleaseUnknown(r)

LEMMA ClientQuietInv ==
    ASSUME IInv, NEW r \in Requests, ClientQuiet(r) PROVE TypeOK' /\ Control'
<1>1. UNCHANGED <<active, starting, leases, queue, ahead, starters, holder, fails,
                  shutdown, timer, arm, stopNow, svc, notify, last>>
  BY DEF ClientQuiet, AcquireBlocks, AcquireRefused, AcquireReturns, WaitTimesOut,
     GrantIsLost, Heartbeat, LeaseGoesStale, ReleaseUnknown, slotVars, queueVars,
     keepVars, stopVars
<1>2. /\ stale' \subseteq leases
      /\ call' \in [Requests -> CallStates]
      /\ \A q \in Requests :
            ~InService => call'[q] \notin {"blocked", "waiting"}
  BY DEF IInv, TypeOK, Control, ShutdownIsFinal, InService, CallStates, ClientQuiet,
     AcquireBlocks, AcquireRefused, AcquireReturns, WaitTimesOut, GrantIsLost,
     Heartbeat, LeaseGoesStale, ReleaseUnknown
<1>3. TypeOK'
  BY <1>1, <1>2 DEF IInv, TypeOK
<1>4. Control'
  BY <1>1, <1>2, ControlFrame DEF IInv
<1> QED BY <1>3, <1>4

\* The steps of the services, of timers and of the user that change nothing
\* but what runs, what is pending and how far stop() is.
EnvironmentQuiet ==
    \/ ArmKeepalive \/ AutoRestart \/ UserSteers
    \/ \E s \in Slots : Crash(s)

LEMMA EnvironmentQuietInv == ASSUME IInv, EnvironmentQuiet PROVE TypeOK' /\ Control'
<1>1. UNCHANGED <<active, starting, leases, queue, ahead, starters, holder, fails,
                  shutdown, call, stale, last>>
  BY DEF EnvironmentQuiet, ArmKeepalive, AutoRestart, UserSteers, Crash, slotVars,
     queueVars, keepVars, stopVars
<1>2. /\ timer' \in Maybe /\ arm' \in BOOLEAN /\ stopNow' \in BOOLEAN
      /\ notify' \in BOOLEAN
  BY DEF IInv, TypeOK, EnvironmentQuiet, ArmKeepalive, AutoRestart, UserSteers,
     Crash, ScheduleKeepalive, keepVars
<1>3. svc' \in [Slots -> SvcStates]
  BY BrokerAssumption DEF IInv, TypeOK, EnvironmentQuiet, ArmKeepalive, AutoRestart,
     UserSteers, Crash, SvcStates
<1>4. TypeOK'
  BY <1>1, <1>2, <1>3 DEF IInv, TypeOK
<1>5. Control'
  BY <1>1, ControlFrame DEF IInv, Control, ShutdownIsFinal
<1> QED BY <1>4, <1>5

LEMMA AcquireFastInv ==
    ASSUME IInv, NEW r \in Requests, AcquireFast(r) PROVE TypeOK' /\ Control'
<1>1. TypeOK'
  BY DEF IInv, TypeOK, AcquireFast, CallStates, Maybe, slotVars, queueVars, stopVars
<1>2. InService
  BY DEF IInv, Control, ShutdownIsFinal, AcquireFast, Admitted, AtLock, InService
<1>3. active \in Slots /\ active = SlotOf[r] /\ LockFree
  BY BrokerAssumption DEF AcquireFast, Admitted, AtLock
<1>4. StarterAlone' /\ CoolingSlotIsQuiet' /\ NoWaiterForActive' /\ IdleGpuHasNoQueue'
  BY DEF IInv, Control, StarterAlone, CoolingSlotIsQuiet, NoWaiterForActive,
     IdleGpuHasNoQueue, Cooling, QueuedFor, InService, AcquireFast, slotVars,
     queueVars, stopVars
<1>5. LockHeldForUnused' /\ LeasesOnActive' /\ ShutdownIsFinal'
  BY <1>2, <1>3 DEF IInv, Control, LeasesOnActive, LockHeldForUnused, ShutdownIsFinal,
     LockFree, InService, AcquireFast, slotVars, stopVars
<1> QED BY <1>1, <1>4, <1>5 DEF IInv, Control

LEMMA AcquireQueuedInv ==
    ASSUME IInv, NEW r \in Requests, AcquireQueued(r) PROVE TypeOK' /\ Control'
<1> DEFINE s == SlotOf[r]
<1>1. /\ s \in Slots /\ ~Cooling(s) /\ LockFree
      /\ ~(active = s /\ starting = NoSlot)
      /\ queue' = queue \union {r} /\ ahead' = [ahead EXCEPT ![r] = queue]
      /\ call' = [call EXCEPT ![r] = "waiting"]
      /\ UNCHANGED <<leases, stale, timer, arm, stopNow, holder, fails, svc, notify,
                     shutdown, last>>
  BY BrokerAssumption DEF AcquireQueued, Admitted, AtLock, Enqueue, keepVars, stopVars
<1>2. InService /\ InService'
  BY <1>1 DEF IInv, Control, ShutdownIsFinal, AcquireQueued, Admitted, AtLock, InService
<1>3. /\ queue' \subseteq Requests /\ ahead' \in [Requests -> SUBSET Requests]
      /\ call' \in [Requests -> CallStates]
  BY <1>1 DEF IInv, TypeOK, CallStates
<1>4. ShutdownIsFinal' /\ LockHeldForUnused'
  BY <1>1, <1>2 DEF ShutdownIsFinal, LockHeldForUnused, LockFree
<1>5. CASE MayTransition
  <2>1. Transition(s, active) /\ starting = NoSlot /\ active \in Maybe
    BY <1>5 DEF AcquireQueued, MayTransition, IInv, TypeOK
  <2>2. starters = {}
    BY <1>2, <2>1, NoStarter DEF IInv, Control
  <2>3. /\ StarterAlone' /\ active' \in Maybe /\ starting' \in Maybe
        /\ starters' \subseteq Starter
    BY <1>1, <1>2, <2>1, <2>2, TransitionAlone DEF IInv, Control
  <2>4. TypeOK'
    BY <1>1, <1>3, <2>3 DEF IInv, TypeOK
  <2>5. active' = NoSlot /\ starting' = s /\ s # NoSlot
    BY <1>1, <2>1, BrokerAssumption DEF Transition
  <2>6. leases = {}
    BY <1>5, BrokerAssumption DEF MayTransition, IInv, Control, LeasesOnActive, TypeOK
  <2>7. LeasesOnActive' /\ NoWaiterForActive' /\ IdleGpuHasNoQueue'
    BY <1>1, <2>5, <2>6 DEF LeasesOnActive, NoWaiterForActive, IdleGpuHasNoQueue
  <2>8. CoolingSlotIsQuiet'
    BY <1>1, <2>5 DEF IInv, Control, CoolingSlotIsQuiet, Cooling, QueuedFor
  <2> QED BY <1>4, <2>3, <2>4, <2>7, <2>8 DEF IInv, Control
<1>6. CASE ~MayTransition
  <2>1. UNCHANGED <<active, starting, starters>>
    BY <1>6 DEF AcquireQueued, slotVars
  <2>2. TypeOK'
    BY <1>1, <1>3, <2>1 DEF IInv, TypeOK
  <2>3. StarterAlone' /\ LeasesOnActive'
    BY <1>1, <2>1 DEF IInv, Control, StarterAlone, LeasesOnActive, Cooling, InService
  <2>4. CoolingSlotIsQuiet'
    BY <1>1, <2>1 DEF IInv, Control, CoolingSlotIsQuiet, Cooling, QueuedFor
  <2>5. NoWaiterForActive' /\ IdleGpuHasNoQueue'
    BY <1>1, <1>6, <2>1 DEF IInv, Control, NoWaiterForActive, IdleGpuHasNoQueue,
       QueuedFor, MayTransition
  <2> QED BY <1>4, <2>2, <2>3, <2>4, <2>5 DEF IInv, Control
<1> QED BY <1>5, <1>6

LEMMA DropTimedOutInv ==
    ASSUME IInv, NEW r \in Requests, DropTimedOut(r) PROVE TypeOK' /\ Control'
<1>1. queue' \subseteq Requests /\ ahead' \in [Requests -> SUBSET Requests]
  BY DequeueType DEF IInv, DropTimedOut
<1>2. TypeOK'
  BY <1>1 DEF IInv, TypeOK, DropTimedOut, CallStates, slotVars, keepVars, stopVars
<1>3. Control'
  BY DEF IInv, Control, StarterAlone, LockHeldForUnused, LeasesOnActive,
     CoolingSlotIsQuiet, NoWaiterForActive, IdleGpuHasNoQueue, ShutdownIsFinal,
     LockFree, Unused, Cooling, QueuedFor, InService, DropTimedOut, Dequeue,
     slotVars, keepVars, stopVars
<1> QED BY <1>2, <1>3

\* The slot of a lease passes on: the invariant's parts about the slot, the
\* queue and the leases survive both ways of handing over.
LEMMA HandOverInv ==
    ASSUME IInv, leases # {}, LockFree, NEW late \in SUBSET queue,
           HandOver(late, queue \ late), UNCHANGED <<fails, shutdown, holder>>
    PROVE  /\ active' \in Maybe /\ starting' \in Maybe /\ starters' \subseteq Starter
           /\ queue' \subseteq Requests /\ ahead' \in [Requests -> SUBSET Requests]
           /\ leases' \subseteq Live(queue)
           /\ InService
           /\ StarterAlone' /\ LockHeldForUnused' /\ LeasesOnActive'
           /\ CoolingSlotIsQuiet' /\ NoWaiterForActive' /\ IdleGpuHasNoQueue'
<1> DEFINE Q == queue \ late
           same == {r \in Q : SlotOf[r] = active}
<1>1. active \in Slots /\ InService
  BY BrokerAssumption DEF IInv, Control, TypeOK, LeasesOnActive, ShutdownIsFinal
<1>2. starters = {} /\ starting = NoSlot
  BY <1>1, NoStarter, BrokerAssumption DEF IInv, Control
<1>3. LockHeldForUnused'
  BY DEF LockFree, LockHeldForUnused
<1>4. PICK h \in Q :
        IF SlotOf[h] = active
        THEN /\ Dequeue(late \union same)
             /\ leases' = Live(same)
             /\ UNCHANGED <<slotVars, starters>>
        ELSE /\ Dequeue(late)
             /\ leases' = {}
             /\ Transition(SlotOf[h], active)
  BY DEF HandOver
<1>5. h \in Requests /\ SlotOf[h] \in Slots
  BY BrokerAssumption DEF IInv, TypeOK
<1>6. CASE SlotOf[h] = active
  <2>1. /\ Dequeue(late \union same) /\ leases' = Live(same)
        /\ UNCHANGED <<active, starting, starters>>
    BY <1>4, <1>6 DEF slotVars
  <2>2. queue' \subseteq Requests /\ ahead' \in [Requests -> SUBSET Requests]
    BY <2>1, DequeueType DEF IInv
  <2>3. queue' = queue \ (late \union same)
    BY <2>1 DEF Dequeue
  <2>4. StarterAlone' /\ LeasesOnActive' /\ leases' \subseteq Live(queue)
    BY <1>2, <2>1 DEF StarterAlone, LeasesOnActive, Live
  <2>5. CoolingSlotIsQuiet' /\ NoWaiterForActive' /\ IdleGpuHasNoQueue'
    BY <1>1, <1>2, <2>1, <2>3, BrokerAssumption DEF IInv, Control, CoolingSlotIsQuiet,
       NoWaiterForActive, IdleGpuHasNoQueue, Cooling, QueuedFor
  <2> QED BY <1>1, <1>3, <2>1, <2>2, <2>4, <2>5 DEF IInv, TypeOK
<1>7. CASE SlotOf[h] # active
  <2>1. Dequeue(late) /\ leases' = {} /\ Transition(SlotOf[h], active)
    BY <1>4, <1>7
  <2>2. queue' \subseteq Requests /\ ahead' \in [Requests -> SUBSET Requests]
    BY <2>1, DequeueType DEF IInv
  <2>3. queue' \subseteq queue /\ active' = NoSlot /\ starting' = SlotOf[h]
    BY <2>1 DEF Dequeue, Transition
  <2>4. ~Cooling(SlotOf[h])
    BY <1>5 DEF IInv, Control, CoolingSlotIsQuiet, QueuedFor
  <2>5. /\ StarterAlone' /\ active' \in Maybe /\ starting' \in Maybe
        /\ starters' \subseteq Starter
    BY <1>1, <1>2, <1>5, <2>1, <2>4, TransitionAlone DEF IInv, Control, Maybe, InService
  <2>6. LeasesOnActive' /\ NoWaiterForActive' /\ IdleGpuHasNoQueue'
    BY <1>5, <2>1, <2>3, BrokerAssumption
    DEF LeasesOnActive, NoWaiterForActive, IdleGpuHasNoQueue
  <2>7. CoolingSlotIsQuiet'
    BY <2>3, <2>4 DEF IInv, Control, CoolingSlotIsQuiet, Cooling, QueuedFor
  <2> QED BY <1>1, <1>3, <2>1, <2>2, <2>5, <2>6, <2>7
<1> QED BY <1>6, <1>7

LEMMA ReleaseInv ==
    ASSUME IInv, NEW r \in Requests, Release(r) PROVE TypeOK' /\ Control'
<1>1. /\ LockFree /\ call[r] = "held" /\ r \in leases /\ stale' = stale \ {r}
      /\ UNCHANGED <<timer, stopNow, holder, fails, svc, notify, shutdown, last>>
  BY DEF Release, stopVars
<1>2. InService /\ LockHeldForUnused'
  BY <1>1 DEF IInv, Control, ShutdownIsFinal, LockHeldForUnused, LockFree
<1>3. ShutdownIsFinal'
  BY <1>1, <1>2 DEF ShutdownIsFinal, InService
<1>4. CASE ~LastOne(r) \/ starting # NoSlot
  <2>1. /\ leases' = leases \ {r} /\ call' = [call EXCEPT ![r] = "idle"]
        /\ UNCHANGED <<active, starting, queue, ahead, starters, arm>>
    BY <1>4 DEF Release, slotVars, queueVars
  <2>2. TypeOK'
    BY <1>1, <2>1 DEF IInv, TypeOK, CallStates
  <2> QED BY <1>1, <1>2, <1>3, <2>1, <2>2 DEF IInv, Control, StarterAlone,
          LeasesOnActive, CoolingSlotIsQuiet, NoWaiterForActive,
          IdleGpuHasNoQueue, Cooling, QueuedFor, InService
<1>5. CASE LastOne(r) /\ starting = NoSlot /\ queue # {}
  <2>1. /\ HandOver({}, queue) /\ arm' = arm
        /\ call' = [Resolve(leases', "offered") EXCEPT ![r] = "idle"]
    BY <1>5 DEF Release
  <2>2. queue = queue \ {} /\ leases # {}
    BY <1>1
  <2>3. /\ active' \in Maybe /\ starting' \in Maybe /\ starters' \subseteq Starter
        /\ queue' \subseteq Requests /\ ahead' \in [Requests -> SUBSET Requests]
        /\ leases' \subseteq Live(queue)
        /\ StarterAlone' /\ LeasesOnActive' /\ CoolingSlotIsQuiet'
        /\ NoWaiterForActive' /\ IdleGpuHasNoQueue'
    BY <1>1, <2>1, <2>2, HandOverInv
  <2>4. call' \in [Requests -> CallStates]
    BY <2>1, ResolveType DEF IInv, CallStates
  <2>5. stale' = {} /\ leases' \subseteq Requests
    BY <1>1, <1>5, <2>3 DEF IInv, TypeOK, LastOne, Live
  <2>6. TypeOK'
    BY <1>1, <2>1, <2>3, <2>4, <2>5 DEF IInv, TypeOK
  <2> QED BY <1>2, <1>3, <2>3, <2>6 DEF IInv, Control
<1>6. CASE LastOne(r) /\ starting = NoSlot /\ queue = {}
  <2>1. /\ leases' = {} /\ call' = [call EXCEPT ![r] = "idle"] /\ arm' = TRUE
        /\ UNCHANGED <<active, starting, queue, ahead, starters>>
    BY <1>6 DEF Release, slotVars, queueVars
  <2>2. TypeOK'
    BY <1>1, <1>6, <2>1 DEF IInv, TypeOK, CallStates, LastOne
  <2> QED BY <1>1, <1>2, <1>3, <2>1, <2>2 DEF IInv, Control, StarterAlone,
          LeasesOnActive, CoolingSlotIsQuiet, NoWaiterForActive,
          IdleGpuHasNoQueue, Cooling, QueuedFor, InService
<1> QED BY <1>4, <1>5, <1>6

LEMMA WatchdogTickInv ==
    ASSUME IInv, NEW late \in SUBSET queue, WatchdogTick(late) PROVE TypeOK' /\ Control'
<1> DEFINE left == leases \ stale
           rest == queue \ late
<1>1. /\ LockFree /\ stale' = {}
      /\ UNCHANGED <<arm, holder, fails, svc, notify, shutdown, last>>
  BY DEF WatchdogTick, stopVars
<1>2. LockHeldForUnused'
  BY <1>1 DEF LockHeldForUnused, LockFree
<1>3. CASE stale = {} \/ left # {} \/ starting # NoSlot
  <2>1. /\ leases' = left /\ Dequeue(late) /\ call' = Resolve(late, "idle")
        /\ UNCHANGED <<active, starting, starters, timer, stopNow>>
    BY <1>3 DEF WatchdogTick, slotVars
  <2>2. /\ queue' \subseteq Requests /\ ahead' \in [Requests -> SUBSET Requests]
        /\ call' \in [Requests -> CallStates]
    BY <2>1, DequeueType, ResolveType DEF IInv, CallStates
  <2>3. TypeOK'
    BY <1>1, <2>1, <2>2 DEF IInv, TypeOK
  <2>4. ShutdownIsFinal'
    BY <1>1, <2>1, <2>2 DEF IInv, Control, ShutdownIsFinal, InService, Resolve, Dequeue
  <2> QED BY <1>1, <1>2, <2>1, <2>3, <2>4 DEF IInv, Control, StarterAlone,
          LeasesOnActive, CoolingSlotIsQuiet, NoWaiterForActive,
          IdleGpuHasNoQueue, Cooling, QueuedFor, Dequeue, InService
<1>4. CASE stale # {} /\ left = {} /\ starting = NoSlot /\ rest # {}
  <2>1. /\ HandOver(late, rest) /\ UNCHANGED <<timer, stopNow>>
        /\ call' = [r \in Requests |-> IF r \in leases' THEN "offered"
                                       ELSE Resolve(late, "idle")[r]]
    BY <1>4 DEF WatchdogTick
  <2>2. leases # {}
    BY <1>4 DEF IInv, TypeOK
  <2>3. /\ active' \in Maybe /\ starting' \in Maybe /\ starters' \subseteq Starter
        /\ queue' \subseteq Requests /\ ahead' \in [Requests -> SUBSET Requests]
        /\ leases' \subseteq Live(queue) /\ InService
        /\ StarterAlone' /\ LeasesOnActive' /\ CoolingSlotIsQuiet'
        /\ NoWaiterForActive' /\ IdleGpuHasNoQueue'
    BY <1>1, <2>1, <2>2, HandOverInv
  <2>4. Resolve(late, "idle") \in [Requests -> CallStates]
    BY ResolveType DEF IInv, CallStates
  <2>5. call' \in [Requests -> CallStates] /\ leases' \subseteq Requests
    BY <2>1, <2>3, <2>4 DEF CallStates, IInv, TypeOK, Live
  <2>6. TypeOK'
    BY <1>1, <2>1, <2>3, <2>5 DEF IInv, TypeOK
  <2>7. ShutdownIsFinal'
    BY <1>1, <2>3 DEF ShutdownIsFinal, InService
  <2> QED BY <1>2, <2>3, <2>6, <2>7 DEF IInv, Control
<1>5. CASE stale # {} /\ left = {} /\ starting = NoSlot /\ rest = {}
  <2>1. /\ leases' = {} /\ Dequeue(late) /\ call' = Resolve(late, "idle")
        /\ ScheduleKeepalive /\ UNCHANGED <<active, starting, starters>>
    BY <1>5 DEF WatchdogTick, slotVars
  <2>2. /\ queue' \subseteq Requests /\ ahead' \in [Requests -> SUBSET Requests]
        /\ call' \in [Requests -> CallStates]
    BY <2>1, DequeueType, ResolveType DEF IInv, CallStates
  <2>3. timer' \in Maybe /\ stopNow' \in BOOLEAN
    BY <2>1 DEF IInv, TypeOK, ScheduleKeepalive
  <2>4. TypeOK'
    BY <1>1, <2>1, <2>2, <2>3 DEF IInv, TypeOK
  <2>5. ShutdownIsFinal'
    BY <1>1, <2>1, <2>2 DEF IInv, Control, ShutdownIsFinal, InService, Resolve, Dequeue
  <2> QED BY <1>1, <1>2, <2>1, <2>4, <2>5 DEF IInv, Control, StarterAlone,
          LeasesOnActive, CoolingSlotIsQuiet, NoWaiterForActive,
          IdleGpuHasNoQueue, Cooling, QueuedFor, Dequeue, InService
<1> QED BY <1>3, <1>4, <1>5

LEMMA NotifyInv == ASSUME IInv, Notify PROVE TypeOK' /\ Control'
<1>1. /\ LockFree /\ notify' = FALSE /\ svc' = Forgotten
      /\ UNCHANGED <<queue, ahead, call, timer, arm, stopNow, holder, fails,
                     shutdown, last>>
  BY DEF Notify, queueVars, keepVars, stopVars
<1>2. svc' \in [Slots -> SvcStates]
  BY <1>1 DEF IInv, TypeOK, Forgotten, SvcStates
<1>3. LockHeldForUnused'
  BY <1>1 DEF LockHeldForUnused, LockFree
<1>4. CASE LlmGone
  <2>1. /\ leases' = {r \in leases : SlotOf[r] # LlmSlot}
        /\ stale' = {r \in stale : SlotOf[r] # LlmSlot}
        /\ IF starting = NoSlot /\ queue # {}
           THEN \E h \in queue : IsHead(h, queue) /\ Transition(SlotOf[h], NoSlot)
           ELSE active' = NoSlot /\ UNCHANGED <<starting, starters>>
    BY <1>4 DEF Notify
  <2>2. active \in Slots /\ active = LlmSlot /\ starters = {} /\ starting = NoSlot
    BY <1>4, NoStarter, BrokerAssumption DEF LlmGone, IInv, Control
  <2>3. leases' = {} /\ stale' = {}
    BY <2>1, <2>2 DEF IInv, Control, TypeOK, LeasesOnActive
  <2>4. LeasesOnActive' /\ ShutdownIsFinal'
    BY <1>1, <2>3 DEF LeasesOnActive, IInv, Control, ShutdownIsFinal, InService
  <2>5. CASE queue # {}
    <3>1. PICK h \in queue : Transition(SlotOf[h], NoSlot)
      BY <2>1, <2>2, <2>5
    <3>2. SlotOf[h] \in Slots /\ SlotOf[h] # NoSlot /\ NoSlot \in Maybe
      BY BrokerAssumption DEF IInv, TypeOK, Maybe
    <3>3. InService /\ InService' /\ ~Cooling(SlotOf[h])
      BY <1>1, <2>5, <3>2 DEF IInv, Control, ShutdownIsFinal, CoolingSlotIsQuiet,
         QueuedFor, InService
    <3>4. active' = NoSlot /\ starting' = SlotOf[h]
      BY <3>1 DEF Transition
    <3>5. /\ StarterAlone' /\ active' \in Maybe /\ starting' \in Maybe
          /\ starters' \subseteq Starter
      BY <1>1, <2>2, <3>1, <3>2, <3>3, TransitionAlone DEF IInv, Control
    <3>6. TypeOK'
      BY <1>1, <1>2, <2>3, <3>5 DEF IInv, TypeOK
    <3>7. CoolingSlotIsQuiet' /\ NoWaiterForActive' /\ IdleGpuHasNoQueue'
      BY <1>1, <3>2, <3>3, <3>4 DEF IInv, Control, CoolingSlotIsQuiet,
         NoWaiterForActive, IdleGpuHasNoQueue, Cooling, QueuedFor
    <3> QED BY <1>3, <2>4, <3>5, <3>6, <3>7 DEF IInv, Control
  <2>6. CASE queue = {}
    <3>1. active' = NoSlot /\ UNCHANGED <<starting, starters>>
      BY <2>1, <2>6
    <3>2. TypeOK'
      BY <1>1, <1>2, <2>3, <3>1 DEF IInv, TypeOK, Maybe
    <3> QED BY <1>1, <1>3, <2>2, <2>4, <2>6, <3>1, <3>2 DEF IInv, Control, StarterAlone,
            CoolingSlotIsQuiet, NoWaiterForActive, IdleGpuHasNoQueue, Cooling, QueuedFor
  <2> QED BY <2>5, <2>6
<1>5. CASE ~LlmGone
  <2>1. UNCHANGED <<active, starting, leases, stale, starters>>
    BY <1>5 DEF Notify, slotVars
  <2>2. TypeOK'
    BY <1>1, <1>2, <2>1 DEF IInv, TypeOK
  <2>3. Control'
    BY <1>1, <2>1, ControlFrame DEF IInv, Control, ShutdownIsFinal
  <2> QED BY <2>2, <2>3 DEF IInv
<1> QED BY <1>4, <1>5

\* A coroutine moves to its next phase, and at most a service changes.
LEMMA PhaseStepInv ==
    ASSUME IInv, NEW t \in starters, NEW u \in Starter, u.slot = t.slot,
           u.phase = "stopping" => u.prev # NoSlot,
           starters' = (starters \ {t}) \union {u},
           svc' \in [Slots -> SvcStates],
           UNCHANGED <<active, starting, leases, stale, queue, ahead, call, timer, arm,
                       stopNow, holder, fails, notify, shutdown, last>>
    PROVE  TypeOK' /\ Control'
<1>1. starters' = {u}
  BY DEF IInv, Control, StarterAlone
<1>2. TypeOK'
  BY <1>1 DEF IInv, TypeOK
<1>3. StarterAlone'
  BY <1>1 DEF IInv, Control, StarterAlone, Cooling, InService
<1> QED BY <1>2, <1>3 DEF IInv, Control, LockHeldForUnused, LeasesOnActive,
        CoolingSlotIsQuiet, NoWaiterForActive, IdleGpuHasNoQueue, ShutdownIsFinal,
        LockFree, Unused, Cooling, QueuedFor, InService

LEMMA StopPreviousInv ==
    ASSUME IInv, NEW t \in starters, StopPrevious(t) PROVE TypeOK' /\ Control'
<1> DEFINE u == [t EXCEPT !.phase = "starting"]
<1>1. t.prev \in Slots /\ t \in Starter
  BY StarterType DEF IInv, Control, StarterAlone, StopPrevious, Maybe
<1>2. u \in Starter /\ u.slot = t.slot /\ u.phase # "stopping"
  BY <1>1, PhaseIsStarter DEF Phases
<1>3. PICK v \in AfterStop(t.prev) : svc' = [svc EXCEPT ![t.prev] = v]
  BY DEF StopPrevious
<1>4. svc' \in [Slots -> SvcStates]
  BY <1>1, <1>3, AfterStopIsState DEF IInv, TypeOK
<1>5. /\ starters' = (starters \ {t}) \union {u}
      /\ UNCHANGED <<active, starting, leases, stale, queue, ahead, call, timer, arm,
                     stopNow, holder, fails, notify, shutdown, last>>
  BY DEF StopPrevious, slotVars, queueVars, keepVars, stopVars
<1> QED BY <1>2, <1>4, <1>5, PhaseStepInv

LEMMA StartServiceInv ==
    ASSUME IInv, NEW t \in starters, StartService(t) PROVE TypeOK' /\ Control'
<1> DEFINE u == [t EXCEPT !.phase = "waiting"]
<1>1. t.slot \in Slots /\ t \in Starter
  BY StarterType DEF IInv
<1>2. u \in Starter /\ u.slot = t.slot /\ u.phase # "stopping"
  BY <1>1, PhaseIsStarter DEF Phases
<1>3. PICK v \in AfterStart(t.slot) : svc' = [svc EXCEPT ![t.slot] = v]
  BY DEF StartService
<1>4. svc' \in [Slots -> SvcStates]
  BY <1>1, <1>3, AfterStartIsState DEF IInv, TypeOK
<1>5. /\ starters' = (starters \ {t}) \union {u}
      /\ UNCHANGED <<active, starting, leases, stale, queue, ahead, call, timer, arm,
                     stopNow, holder, fails, notify, shutdown, last>>
  BY DEF StartService, slotVars, queueVars, keepVars, stopVars
<1> QED BY <1>2, <1>4, <1>5, PhaseStepInv

LEMMA SpawnScheduledInv ==
    ASSUME IInv, NEW t \in starters, SpawnScheduled(t) PROVE TypeOK' /\ Control'
<1> DEFINE u == NewStarter(t.slot, t.prev)
<1>1. t.slot \in Slots /\ t.prev \in Maybe
  BY StarterType DEF IInv
<1>2. /\ u \in Starter /\ u.slot = t.slot
      /\ u.phase = "stopping" => u.prev # NoSlot
  BY <1>1, NewStarterIsStarter
<1>3. /\ starters' = (starters \ {t}) \union {u}
      /\ UNCHANGED <<active, starting, leases, stale, queue, ahead, call, timer, arm,
                     stopNow, holder, fails, svc, notify, shutdown, last>>
  BY DEF SpawnScheduled, slotVars, queueVars, keepVars, stopVars
<1>4. svc' \in [Slots -> SvcStates]
  BY <1>3 DEF IInv, TypeOK
<1> QED BY <1>2, <1>3, <1>4, PhaseStepInv

LEMMA StartFailsInv ==
    ASSUME IInv, NEW t \in starters, StartFails(t) PROVE TypeOK' /\ Control'
<1> DEFINE s == t.slot
           rest == queue \ QueuedFor(s)
<1>1. /\ LockFree /\ fails' = [fails EXCEPT ![s] = @ + 1]
      /\ Dequeue(QueuedFor(s)) /\ call' = Resolve(QueuedFor(s), "idle")
      /\ UNCHANGED <<active, leases, stale, timer, arm, stopNow, holder, svc, notify,
                     shutdown, last>>
  BY DEF StartFails, keepVars, stopVars
<1>2. s \in Slots /\ starters = {t} /\ active = NoSlot /\ ~Cooling(s)
  BY StarterType DEF IInv, Control, StarterAlone
<1>3. leases = {}
  BY <1>2, BrokerAssumption DEF IInv, Control, TypeOK, LeasesOnActive
<1>4. fails' \in [Slots -> 0 .. FailureThreshold]
  BY <1>1, <1>2, BrokerAssumption DEF IInv, TypeOK, Cooling
<1>5. /\ queue' \subseteq Requests /\ ahead' \in [Requests -> SUBSET Requests]
      /\ call' \in [Requests -> CallStates] /\ queue' = rest
  BY <1>1, DequeueType, ResolveType DEF IInv, CallStates, Dequeue
<1>6. ShutdownIsFinal' /\ LockHeldForUnused' /\ LeasesOnActive'
  BY <1>1, <1>3, <1>5 DEF IInv, Control, ShutdownIsFinal, LockHeldForUnused, LockFree,
     LeasesOnActive, InService, Resolve
<1>7. CASE Kick(rest)
  <2>1. PICK h \in rest :
          /\ starting' = SlotOf[h]
          /\ starters' = (starters \ {t}) \union
                {[slot |-> SlotOf[h], prev |-> NoSlot, phase |-> "soon"]}
    BY <1>7 DEF StartFails
  <2>2. /\ SlotOf[h] \in Slots /\ SlotOf[h] # s /\ SlotOf[h] # NoSlot
        /\ h \in queue
    BY BrokerAssumption DEF IInv, TypeOK, QueuedFor
  <2>3. InService /\ ~Cooling(SlotOf[h])
    BY <2>2 DEF IInv, Control, ShutdownIsFinal, CoolingSlotIsQuiet, QueuedFor
  <2>4. /\ starters' = {[slot |-> SlotOf[h], prev |-> NoSlot, phase |-> "soon"]}
        /\ starters' \subseteq Starter
    BY <1>2, <2>1, <2>2 DEF Starter, Phases, Maybe
  <2>5. ~Cooling(SlotOf[h])'
    BY <1>1, <2>2, <2>3 DEF Cooling, IInv, TypeOK
  <2>6. StarterAlone'
    <3>1. \A u \in starters' : u.slot = SlotOf[h] /\ u.phase # "stopping"
      BY <2>4
    <3>2. \A u, w \in starters' : u = w
      BY <2>4
    <3>3. InService' /\ active' = NoSlot /\ starting' = SlotOf[h] /\ starters' # {}
      BY <1>1, <1>2, <2>1, <2>3, <2>4 DEF InService
    <3> QED BY <2>5, <3>1, <3>2, <3>3 DEF StarterAlone, Cooling
  <2>7. CoolingSlotIsQuiet'
    <3> SUFFICES ASSUME NEW p \in Slots, Cooling(p)'
                 PROVE  starting' # p /\ QueuedFor(p)' = {}
      BY DEF CoolingSlotIsQuiet
    <3>1. CASE p = s
      BY <1>5, <2>1, <2>2, <3>1 DEF QueuedFor
    <3>2. CASE p # s
      <4>1. Cooling(p)
        BY <1>1, <1>2, <3>2 DEF Cooling, IInv, TypeOK
      <4> QED BY <1>5, <2>1, <2>5, <4>1 DEF IInv, Control, CoolingSlotIsQuiet, QueuedFor
    <3> QED BY <3>1, <3>2
  <2>8. NoWaiterForActive' /\ IdleGpuHasNoQueue'
    BY <2>1, <2>2 DEF NoWaiterForActive, IdleGpuHasNoQueue
  <2>9. TypeOK'
    BY <1>1, <1>4, <1>5, <2>1, <2>2, <2>4 DEF IInv, TypeOK, Maybe
  <2> QED BY <1>6, <2>6, <2>7, <2>8, <2>9 DEF IInv, Control
<1>8. CASE ~Kick(rest)
  <2>1. starting' = NoSlot /\ starters' = {} /\ rest = {}
    BY <1>2, <1>3, <1>8 DEF StartFails, Kick
  <2>2. TypeOK'
    BY <1>1, <1>4, <1>5, <2>1 DEF IInv, TypeOK, Maybe
  <2>3. StarterAlone' /\ NoWaiterForActive' /\ IdleGpuHasNoQueue' /\ CoolingSlotIsQuiet'
    BY <1>5, <2>1, BrokerAssumption DEF StarterAlone, NoWaiterForActive,
       IdleGpuHasNoQueue, CoolingSlotIsQuiet, QueuedFor
  <2> QED BY <1>6, <2>2, <2>3 DEF IInv, Control
<1> QED BY <1>7, <1>8

LEMMA StartDoneInv ==
    ASSUME IInv, NEW t \in starters, StartDone(t) PROVE TypeOK' /\ Control'
<1> DEFINE s == t.slot
<1>1. /\ LockFree /\ active' = s /\ starting' = NoSlot
      /\ Dequeue(QueuedFor(s)) /\ leases' = leases \union Live(QueuedFor(s))
      /\ call' = Resolve(QueuedFor(s), "offered")
      /\ UNCHANGED <<stale, timer, arm, stopNow, holder, fails, svc, notify, shutdown,
                     last>>
  BY DEF StartDone, keepVars, stopVars
<1>2. s \in Slots /\ starters = {t} /\ active = NoSlot /\ starters' = {}
  BY StarterType DEF IInv, Control, StarterAlone, StartDone
<1>3. leases = {}
  BY <1>2, BrokerAssumption DEF IInv, Control, TypeOK, LeasesOnActive
<1>4. /\ queue' \subseteq Requests /\ ahead' \in [Requests -> SUBSET Requests]
      /\ call' \in [Requests -> CallStates] /\ queue' = queue \ QueuedFor(s)
  BY <1>1, DequeueType, ResolveType DEF IInv, CallStates, Dequeue
<1>5. TypeOK'
  BY <1>1, <1>2, <1>3, <1>4 DEF IInv, TypeOK, Maybe, Live, QueuedFor
<1>6. ShutdownIsFinal' /\ LockHeldForUnused' /\ LeasesOnActive'
  BY <1>1, <1>3, <1>4 DEF IInv, Control, ShutdownIsFinal, LockHeldForUnused, LockFree,
     LeasesOnActive, InService, Resolve, Live, QueuedFor
<1>7. /\ StarterAlone' /\ NoWaiterForActive' /\ IdleGpuHasNoQueue'
      /\ CoolingSlotIsQuiet'
  BY <1>1, <1>2, <1>4, BrokerAssumption DEF IInv, Control, StarterAlone,
     NoWaiterForActive, IdleGpuHasNoQueue, CoolingSlotIsQuiet, Cooling, QueuedFor
<1> QED BY <1>5, <1>6, <1>7 DEF IInv, Control

LEMMA FailuresAgeInv ==
    ASSUME IInv, NEW s \in Slots, FailuresAge(s) PROVE TypeOK' /\ Control'
<1>1. UNCHANGED <<active, starting, leases, stale, queue, ahead, call, starters,
                  timer, arm, stopNow, holder, svc, notify, shutdown, last>>
  BY DEF FailuresAge, slotVars, queueVars, keepVars, stopVars
<1>2. /\ fails' \in [Slots -> 0 .. FailureThreshold]
      /\ \A p \in Slots : Cooling(p)' => Cooling(p)
  BY BrokerAssumption DEF FailuresAge, IInv, TypeOK, Cooling
<1>3. TypeOK'
  BY <1>1, <1>2 DEF IInv, TypeOK
<1>4. StarterAlone' /\ CoolingSlotIsQuiet'
  BY <1>1, <1>2, StarterType DEF IInv, Control, StarterAlone, CoolingSlotIsQuiet,
     QueuedFor, InService
<1>5. /\ LockHeldForUnused' /\ LeasesOnActive' /\ NoWaiterForActive'
      /\ IdleGpuHasNoQueue' /\ ShutdownIsFinal'
  BY <1>1 DEF IInv, Control, LockHeldForUnused, LeasesOnActive, NoWaiterForActive,
     IdleGpuHasNoQueue, ShutdownIsFinal, LockFree, Unused, QueuedFor, InService
<1> QED BY <1>3, <1>4, <1>5 DEF IInv, Control

\* A keepalive task takes the lock, to stop an unused slot.
LEMMA TakeLockInv ==
    ASSUME IInv, TimerFires \/ StopNowRuns PROVE TypeOK' /\ Control'
<1>1. UNCHANGED <<active, starting, leases, stale, queue, ahead, call, starters,
                  arm, fails, svc, notify, shutdown, last>>
  BY DEF TimerFires, StopNowRuns, slotVars, queueVars, stopVars
<1>2. /\ timer' \in Maybe /\ stopNow' \in BOOLEAN /\ holder' \in Maybe
      /\ holder' = NoSlot \/ Unused(holder')
  BY DEF TimerFires, StopNowRuns, IInv, TypeOK, Maybe
<1>3. TypeOK'
  BY <1>1, <1>2 DEF IInv, TypeOK
<1> QED BY <1>1, <1>2, <1>3 DEF IInv, Control, StarterAlone, LockHeldForUnused,
        LeasesOnActive, CoolingSlotIsQuiet, NoWaiterForActive, IdleGpuHasNoQueue,
        ShutdownIsFinal, LockFree, Unused, Cooling, QueuedFor, InService

LEMMA KeepaliveStopsInv == ASSUME IInv, KeepaliveStops PROVE TypeOK' /\ Control'
<1>1. /\ holder \in Slots /\ holder' = NoSlot /\ active' \in {active, NoSlot}
      /\ active = holder /\ leases = {} /\ queue = {}
      /\ UNCHANGED <<starting, leases, stale, queue, ahead, call, starters, timer, arm,
                     stopNow, fails, notify, shutdown, last>>
  BY DEF KeepaliveStops, queueVars, stopVars, LockFree, IInv, Control,
     LockHeldForUnused, Unused, TypeOK, Maybe
<1>2. PICK v \in AfterStop(holder) : svc' = [svc EXCEPT ![holder] = v]
  BY DEF KeepaliveStops
<1>3. svc' \in [Slots -> SvcStates]
  BY <1>1, <1>2, AfterStopIsState DEF IInv, TypeOK
<1>4. TypeOK'
  BY <1>1, <1>3 DEF IInv, TypeOK, Maybe
<1> QED BY <1>1, <1>4, BrokerAssumption DEF IInv, Control, StarterAlone,
        LockHeldForUnused, LeasesOnActive, CoolingSlotIsQuiet, NoWaiterForActive,
        IdleGpuHasNoQueue, ShutdownIsFinal, LockFree, Cooling, QueuedFor, InService

LEMMA StopCalledInv == ASSUME IInv, StopCalled PROVE TypeOK' /\ Control'
<1>1. /\ UNCHANGED <<active, starting, leases, stale, queue, ahead, call, starters,
                     timer, arm, stopNow, holder, fails, svc, notify, last>>
      /\ InService /\ shutdown' = "called"
  BY DEF StopCalled, slotVars, queueVars, keepVars, InService
<1>2. TypeOK'
  BY <1>1 DEF IInv, TypeOK, ShutdownPhases
<1> QED BY <1>1, <1>2 DEF IInv, Control, StarterAlone, LockHeldForUnused,
        LeasesOnActive, CoolingSlotIsQuiet, NoWaiterForActive, IdleGpuHasNoQueue,
        ShutdownIsFinal, LockFree, Unused, Cooling, QueuedFor, InService

LEMMA StopSectionInv == ASSUME IInv, StopSection PROVE TypeOK' /\ Control'
<1>1. /\ LockFree /\ \A r \in Requests : call[r] # "blocked"
      /\ Dequeue(queue) /\ call' = Resolve(queue, "idle")
      /\ leases' = {} /\ stale' = {} /\ active' = NoSlot /\ starting' = NoSlot
      /\ last' = active
      /\ shutdown' = IF active = NoSlot THEN "cancelling" ELSE "stopping"
      /\ UNCHANGED <<starters, timer, arm, stopNow, holder, fails, svc, notify>>
  BY DEF StopSection, keepVars
<1>2. /\ queue' = {} /\ ahead' \in [Requests -> SUBSET Requests]
      /\ call' \in [Requests -> CallStates]
  BY <1>1, DequeueType, ResolveType DEF IInv, CallStates, Dequeue
<1>3. ~InService'
  BY <1>1 DEF InService
<1>4. TypeOK'
  BY <1>1, <1>2 DEF IInv, TypeOK, Maybe, ShutdownPhases
<1>5. StarterAlone'
  BY <1>1, <1>3 DEF IInv, Control, StarterAlone, Cooling
<1>6. ShutdownIsFinal'
  BY <1>1, <1>2 DEF ShutdownIsFinal, Resolve, IInv, QueueIsALine
<1>7. /\ LockHeldForUnused' /\ LeasesOnActive' /\ NoWaiterForActive'
      /\ IdleGpuHasNoQueue'
  BY <1>1, <1>2 DEF LockHeldForUnused, LeasesOnActive, NoWaiterForActive,
     IdleGpuHasNoQueue, LockFree, QueuedFor
<1>8. CoolingSlotIsQuiet'
  BY <1>1, <1>2, BrokerAssumption DEF CoolingSlotIsQuiet, QueuedFor
<1> QED BY <1>4, <1>5, <1>6, <1>7, <1>8 DEF Control

LEMMA StopEndsInv ==
    ASSUME IInv, StopLast \/ StopCancels PROVE TypeOK' /\ Control'
<1>1. /\ ~InService /\ ~InService' /\ shutdown' \in ShutdownPhases
      /\ starters' \subseteq starters /\ holder' \in {holder, NoSlot}
      /\ timer' \in {timer, NoSlot}
      /\ UNCHANGED <<active, starting, leases, stale, queue, ahead, call, arm, stopNow,
                     fails, notify, last>>
  BY DEF StopLast, StopCancels, InService, ShutdownPhases, slotVars, queueVars, keepVars
<1>2. svc' \in [Slots -> SvcStates]
  <2>1. CASE StopLast
    <3>1. PICK v \in AfterStop(last) : svc' = [svc EXCEPT ![last] = v]
      BY <2>1 DEF StopLast
    <3> QED BY <3>1, BrokerAssumption DEF IInv, TypeOK, AfterStop, SvcStates
  <2>2. CASE StopCancels
    BY <2>2 DEF StopCancels, IInv, TypeOK
  <2> QED BY <2>1, <2>2
<1>3. TypeOK'
  BY <1>1, <1>2 DEF IInv, TypeOK, Maybe
<1>4. StarterAlone'
  BY <1>1 DEF IInv, Control, StarterAlone, Cooling
<1> QED BY <1>1, <1>3, <1>4 DEF IInv, Control, LockHeldForUnused, LeasesOnActive,
        CoolingSlotIsQuiet, NoWaiterForActive, IdleGpuHasNoQueue, ShutdownIsFinal,
        LockFree, Unused, Cooling, QueuedFor

-----------------------------------------------------------------------------
(* The queue stays a line *)

LEMMA DequeueLine ==
    ASSUME QueueIsALine, queue \subseteq Requests, NEW R, Dequeue(R),
           \A q \in queue \ R : call'[q] = call[q],
           \A q \in Requests : call'[q] = "waiting" => call[q] = "waiting" /\ q \notin R
    PROVE  QueueIsALine'
BY DEF QueueIsALine, Dequeue

LEMMA EnqueueLine ==
    ASSUME QueueIsALine, queue \subseteq Requests, NEW r \in Requests, r \notin queue,
           ahead \in [Requests -> SUBSET Requests], Enqueue(r),
           call \in [Requests -> CallStates], call' = [call EXCEPT ![r] = "waiting"]
    PROVE  QueueIsALine'
BY DEF QueueIsALine, Enqueue

\* A step that leaves the queue alone and disturbs nobody who is in it.
LEMMA LineFrame ==
    ASSUME QueueIsALine, UNCHANGED <<queue, ahead>>,
           \A q \in queue : call'[q] \in {"waiting", "cancelled"},
           \A q \in Requests : call'[q] = "waiting" => call[q] = "waiting"
    PROVE  QueueIsALine'
BY DEF QueueIsALine

LEMMA LineInv == ASSUME IInv, Next PROVE QueueIsALine'
<1>1. /\ QueueIsALine /\ queue \subseteq Requests /\ call \in [Requests -> CallStates]
      /\ ahead \in [Requests -> SUBSET Requests]
      /\ \A q \in queue : call[q] \in {"waiting", "cancelled"}
  BY DEF IInv, TypeOK, QueueIsALine
<1>2. ASSUME NEW r \in Requests, ClientQuiet(r) PROVE QueueIsALine'
  <2>1. /\ UNCHANGED <<queue, ahead>>
        /\ \A q \in queue : call'[q] \in {"waiting", "cancelled"}
        /\ \A q \in Requests : call'[q] = "waiting" => call[q] = "waiting"
    BY <1>1, <1>2 DEF ClientQuiet, AcquireBlocks, AcquireRefused, AcquireReturns, AtLock,
       WaitTimesOut, GrantIsLost, Heartbeat, LeaseGoesStale, ReleaseUnknown, queueVars
  <2> QED BY <1>1, <2>1, LineFrame
<1>3. ASSUME NEW r \in Requests, AcquireFast(r) PROVE QueueIsALine'
  <2>1. /\ UNCHANGED <<queue, ahead>>
        /\ \A q \in queue : call'[q] \in {"waiting", "cancelled"}
        /\ \A q \in Requests : call'[q] = "waiting" => call[q] = "waiting"
    BY <1>1, <1>3 DEF AcquireFast, Admitted, AtLock, queueVars
  <2> QED BY <1>1, <2>1, LineFrame
<1>4. ASSUME NEW r \in Requests, AcquireQueued(r) PROVE QueueIsALine'
  <2>1. /\ r \notin queue /\ Enqueue(r) /\ call' = [call EXCEPT ![r] = "waiting"]
    BY <1>1, <1>4 DEF AcquireQueued, Admitted, AtLock
  <2> QED BY <1>1, <2>1, EnqueueLine
<1>5. ASSUME NEW r \in Requests, DropTimedOut(r) PROVE QueueIsALine'
  BY <1>1, <1>5, DequeueLine DEF DropTimedOut
<1>6. ASSUME NEW r \in Requests, Release(r) PROVE QueueIsALine'
  <2>1. r \notin queue /\ call[r] = "held"
    BY <1>1, <1>6 DEF Release
  <2>2. CASE LastOne(r) /\ starting = NoSlot /\ queue # {}
    <3>1. /\ HandOver({}, queue)
          /\ call' = [Resolve(leases', "offered") EXCEPT ![r] = "idle"]
      BY <1>6, <2>2 DEF Release
    <3>2. PICK R \in SUBSET queue : Dequeue(R) /\ leases' = Live(R)
      <4>1. PICK h \in queue :
              IF SlotOf[h] = active
              THEN /\ Dequeue({} \union {q \in queue : SlotOf[q] = active})
                   /\ leases' = Live({q \in queue : SlotOf[q] = active})
              ELSE Dequeue({}) /\ leases' = {}
        BY <3>1 DEF HandOver
      <4>2. Live({}) = {} /\ {} \union {q \in queue : SlotOf[q] = active}
                               = {q \in queue : SlotOf[q] = active}
        BY DEF Live
      <4> QED BY <4>1, <4>2
    <3>3. \A q \in Requests :
            call'[q] = IF q = r THEN "idle"
                       ELSE IF q \in leases' /\ call[q] = "waiting" THEN "offered"
                       ELSE call[q]
      BY <3>1 DEF Resolve
    <3>4. \A q \in queue \ R : call'[q] = call[q]
      BY <1>1, <2>1, <3>2, <3>3 DEF Live
    <3>5. \A q \in Requests :
            call'[q] = "waiting" => call[q] = "waiting" /\ q \notin R
      BY <3>2, <3>3 DEF Live
    <3> QED BY <1>1, <3>2, <3>4, <3>5, DequeueLine
  <2>3. CASE ~(LastOne(r) /\ starting = NoSlot /\ queue # {})
    <3>1. UNCHANGED <<queue, ahead>> /\ call' = [call EXCEPT ![r] = "idle"]
      BY <1>6, <2>3 DEF Release, queueVars
    <3> QED BY <1>1, <2>1, <3>1, LineFrame
  <2> QED BY <2>2, <2>3
<1>7. ASSUME NEW late \in SUBSET queue, WatchdogTick(late) PROVE QueueIsALine'
  <2> DEFINE rest == queue \ late
             over == stale # {} /\ leases \ stale = {} /\ starting = NoSlot
                        /\ rest # {}
  <2>1. CASE over
    <3>1. /\ HandOver(late, rest)
          /\ call' = [r \in Requests |-> IF r \in leases' THEN "offered"
                                         ELSE Resolve(late, "idle")[r]]
      BY <1>7, <2>1 DEF WatchdogTick
    <3>2. PICK R \in SUBSET queue :
            Dequeue(R) /\ late \subseteq R /\ leases' = Live(R \ late)
      <4> DEFINE same == {q \in rest : SlotOf[q] = active}
      <4>1. PICK h \in rest :
              IF SlotOf[h] = active
              THEN Dequeue(late \union same) /\ leases' = Live(same)
              ELSE Dequeue(late) /\ leases' = {}
        BY <3>1 DEF HandOver
      <4>2. (late \union same) \ late = same /\ late \ late = {} /\ Live({}) = {}
        BY DEF Live
      <4> QED BY <4>1, <4>2
    <3>3. \A q \in Requests :
            call'[q] = IF q \in leases' THEN "offered"
                       ELSE IF q \in late /\ call[q] = "waiting" THEN "idle"
                       ELSE call[q]
      BY <3>1 DEF Resolve
    <3>4. /\ \A q \in queue \ R : call'[q] = call[q]
          /\ \A q \in Requests :
                call'[q] = "waiting" => call[q] = "waiting" /\ q \notin R
      BY <1>1, <3>2, <3>3 DEF Live
    <3> QED BY <1>1, <3>2, <3>4, DequeueLine
  <2>2. CASE ~over
    <3>1. Dequeue(late) /\ call' = Resolve(late, "idle")
      BY <1>7, <2>2 DEF WatchdogTick
    <3> QED BY <1>1, <3>1, DequeueLine DEF Resolve
  <2> QED BY <2>1, <2>2
<1>8. ASSUME NEW t \in starters, StartFails(t) \/ StartDone(t) PROVE QueueIsALine'
  <2>1. PICK c \in {"idle", "offered"} :
          Dequeue(QueuedFor(t.slot)) /\ call' = Resolve(QueuedFor(t.slot), c)
    BY <1>8 DEF StartFails, StartDone
  <2> QED BY <1>1, <2>1, DequeueLine DEF Resolve
<1>9. ASSUME StopSection PROVE QueueIsALine'
  <2>1. Dequeue(queue) /\ call' = Resolve(queue, "idle")
    BY <1>9 DEF StopSection
  <2> QED BY <1>1, <2>1, DequeueLine DEF Resolve, QueueIsALine
<1>10. ASSUME UNCHANGED <<queue, ahead, call>> PROVE QueueIsALine'
  BY <1>10, LineFrame DEF IInv, QueueIsALine
<1>11. ASSUME NEW t \in starters, StopPrevious(t) \/ StartService(t) \/ SpawnScheduled(t)
       PROVE  QueueIsALine'
  BY <1>10, <1>11 DEF StopPrevious, StartService, SpawnScheduled, queueVars
<1>12. ASSUME EnvironmentQuiet \/ Notify \/ (\E s \in Slots : FailuresAge(s))
       PROVE  QueueIsALine'
  BY <1>10, <1>12 DEF EnvironmentQuiet, ArmKeepalive, AutoRestart, UserSteers, Crash,
     Notify, FailuresAge, queueVars
<1>13. ASSUME TimerFires \/ StopNowRuns \/ KeepaliveStops PROVE QueueIsALine'
  BY <1>10, <1>13 DEF TimerFires, StopNowRuns, KeepaliveStops, queueVars
<1>14. ASSUME StopCalled \/ StopLast \/ StopCancels PROVE QueueIsALine'
  BY <1>10, <1>14 DEF StopCalled, StopLast, StopCancels, queueVars
<1> QED BY <1>2, <1>3, <1>4, <1>5, <1>6, <1>7, <1>8, <1>9, <1>11, <1>12, <1>13, <1>14
        DEF Next, Client, Waiting, StarterStep, Keepalive, Shutdown, Late, ClientQuiet,
            EnvironmentQuiet

-----------------------------------------------------------------------------
(* The inductive invariant and what follows from it *)

LEMMA NextInv == ASSUME IInv, [Next]_vars PROVE IInv'
<1>1. CASE Next
  <2>1. QueueIsALine'
    BY <1>1, LineInv
  <2>2. ASSUME NEW r \in Requests, Client(r) \/ Waiting(r) PROVE TypeOK' /\ Control'
    BY <2>2, ClientQuietInv, AcquireFastInv, AcquireQueuedInv, DropTimedOutInv, ReleaseInv
    DEF Client, Waiting, ClientQuiet
  <2>3. ASSUME NEW late \in Late, WatchdogTick(late) PROVE TypeOK' /\ Control'
    BY <2>3, WatchdogTickInv DEF Late
  <2>4. ASSUME NEW t \in starters, StarterStep(t) PROVE TypeOK' /\ Control'
    BY <2>4, StopPreviousInv, StartServiceInv, StartFailsInv, SpawnScheduledInv,
       StartDoneInv DEF StarterStep
  <2>5. ASSUME NEW s \in Slots, FailuresAge(s) \/ Crash(s) PROVE TypeOK' /\ Control'
    BY <2>5, FailuresAgeInv, EnvironmentQuietInv DEF EnvironmentQuiet
  <2>6. CASE Keepalive \/ Notify \/ AutoRestart \/ UserSteers
    BY <2>1, <2>6, EnvironmentQuietInv, TakeLockInv, KeepaliveStopsInv, NotifyInv
    DEF Keepalive, EnvironmentQuiet, IInv
  <2>7. CASE Shutdown
    BY <2>1, <2>7, StopCalledInv, StopSectionInv, StopEndsInv DEF Shutdown, IInv
  <2> QED BY <1>1, <2>1, <2>2, <2>3, <2>4, <2>5, <2>6, <2>7 DEF Next, IInv
<1>2. CASE UNCHANGED vars
  <2>1. TypeOK'
    BY <1>2 DEF vars, IInv, TypeOK
  <2>2. Control'
    BY <1>2, ControlFrame DEF vars, IInv, Control, ShutdownIsFinal
  <2>3. QueueIsALine'
    BY <1>2, LineFrame DEF vars, IInv, QueueIsALine
  <2> QED BY <2>1, <2>2, <2>3 DEF IInv
<1> QED BY <1>1, <1>2

LEMMA InductiveInvariant == Spec => []IInv
<1>1. Init => IInv
  BY InitInv
<1>2. IInv /\ [Next]_vars => IInv'
  BY NextInv
<1> QED BY <1>1, <1>2, PTL DEF Spec

\* Every variable stays in its range; in particular no slot ever has more than
\* FailureThreshold failures on record.
THEOREM TypeCorrectness == Spec => []TypeOK
<1>1. IInv => TypeOK
  BY DEF IInv
<1> QED BY <1>1, InductiveInvariant, PTL

\* However requests, releases, failures and notifications interleave, at most
\* one slot is started or active, and every lease is on it.
THEOREM OneSlotAtATime == Spec => []OneOwner
<1>1. IInv => OneTransition
  BY BrokerAssumption DEF IInv, Control, StarterAlone, OneTransition, TypeOK, Starter
<1>2. IInv => OneOwner
  BY <1>1 DEF IInv, Control, OneOwner
<1> QED BY <1>2, InductiveInvariant, PTL

\* Pending calls are in the queue, which stays a line; no request is left behind
\* for an idle GPU or for the active slot with no start in flight.
THEOREM WaitersHaveAReason == Spec => []NobodyWaitsInVain
<1>1. IInv => NobodyWaitsInVain
  BY DEF IInv, Control, NobodyWaitsInVain
<1> QED BY <1>1, InductiveInvariant, PTL

\* No start of a slot that is cooling down is in flight or can be triggered.
THEOREM CoolingIsRespected == Spec => []CoolingSlotIsQuiet
<1>1. IInv => CoolingSlotIsQuiet
  BY DEF IInv, Control
<1> QED BY <1>1, InductiveInvariant, PTL

\* What the keepalive stop checked still holds when its await returns.
THEOREM KeepaliveIsAtomic == Spec => []KeepaliveUndisturbed
<1>1. IInv => KeepaliveUndisturbed
  BY DEF IInv, Control, LockHeldForUnused, KeepaliveUndisturbed
<1> QED BY <1>1, InductiveInvariant, PTL

\* After stop() cleared the broker nothing is granted and nobody waits.
THEOREM StopIsFinal == Spec => []ShutdownIsFinal
<1>1. IInv => ShutdownIsFinal
  BY DEF IInv, Control
<1> QED BY <1>1, InductiveInvariant, PTL

-----------------------------------------------------------------------------
(* The broker implements SlotLease *)

\* Ownership never passes from one slot to another in one step.
LEMMA OwnerPassesThroughIdle ==
    ASSUME IInv, Next PROVE active = NoSlot \/ active' \in {active, NoSlot}
<1>1. ASSUME NEW r \in Requests, Client(r) \/ Waiting(r)
      PROVE  active' \in {active, NoSlot}
  <2>1. CASE AcquireQueued(r)
    BY <2>1 DEF AcquireQueued, Transition, slotVars
  <2>2. CASE Release(r)
    BY <2>2 DEF Release, HandOver, Transition, slotVars
  <2> QED
    BY <1>1, <2>1, <2>2 DEF Client, Waiting, AcquireBlocks, AcquireRefused, AcquireFast,
       Heartbeat, LeaseGoesStale, ReleaseUnknown, AcquireReturns, WaitTimesOut,
       DropTimedOut, GrantIsLost, slotVars
<1>2. ASSUME NEW late \in Late, WatchdogTick(late) PROVE active' \in {active, NoSlot}
  BY <1>2 DEF WatchdogTick, HandOver, Transition, slotVars
<1>3. ASSUME NEW t \in starters, StarterStep(t) PROVE active = NoSlot
  BY <1>3 DEF IInv, Control, StarterAlone
<1>4. ASSUME NEW s \in Slots, FailuresAge(s) \/ Crash(s) PROVE active' = active
  BY <1>4 DEF FailuresAge, Crash, slotVars
<1>5. CASE Keepalive
  BY <1>5 DEF Keepalive, ArmKeepalive, TimerFires, StopNowRuns, KeepaliveStops, slotVars
<1>6. CASE Notify
  BY <1>6 DEF Notify, Transition, slotVars
<1>7. CASE AutoRestart \/ UserSteers
  BY <1>7 DEF AutoRestart, UserSteers, slotVars
<1>8. CASE Shutdown
  BY <1>8 DEF Shutdown, StopCalled, StopSection, StopLast, StopCancels, slotVars
<1> QED BY <1>1, <1>2, <1>3, <1>4, <1>5, <1>6, <1>7, <1>8 DEF Next

\* All tenants are the owner's, so an idle GPU has none.
LEMMA TenantsAreTheOwners ==
    ASSUME IInv
    PROVE  /\ Tenants \in SUBSET (Requests \X {active})
           /\ active = NoSlot => Tenants = {}
<1>1. \A r \in leases : r \in Requests /\ SlotOf[r] = active /\ SlotOf[r] # NoSlot
  BY BrokerAssumption DEF IInv, Control, LeasesOnActive, TypeOK
<1> QED BY <1>1 DEF Tenants

\* Every step of the broker is a step of SlotLease or leaves it as it is.
LEMMA StepImplementsLease ==
    ASSUME IInv, IInv', [Next]_vars PROVE [Lease!Next]_(Lease!vars)
<1>1. active \in Maybe /\ active' \in Maybe
  BY DEF IInv, TypeOK, Maybe
<1>2. /\ Tenants' \in SUBSET (Requests \X {active'})
      /\ active' = NoSlot => Tenants' = {}
  <2>1. \A r \in leases' : r \in Requests /\ SlotOf[r] = active' /\ SlotOf[r] # NoSlot
    BY BrokerAssumption DEF IInv, Control, LeasesOnActive, TypeOK
  <2> QED BY <2>1 DEF Tenants
<1>3. active = NoSlot => Tenants = {}
  BY TenantsAreTheOwners
<1>4. active = NoSlot \/ active' \in {active, NoSlot}
  BY OwnerPassesThroughIdle DEF vars
<1>5. CASE active = NoSlot /\ active' = NoSlot
  BY <1>2, <1>3, <1>5 DEF Lease!vars
<1>6. CASE active = NoSlot /\ active' # NoSlot
  BY <1>1, <1>2, <1>6 DEF Lease!Next, Lease!Open, Maybe
<1>7. CASE active # NoSlot /\ active' = active
  BY <1>2, <1>7 DEF Lease!Next, Lease!Serve
<1>8. CASE active # NoSlot /\ active' = NoSlot
  BY <1>2, <1>8 DEF Lease!Next, Lease!Close
<1> QED BY <1>4, <1>5, <1>6, <1>7, <1>8

\* However clients, coroutines, timers and the supervisor interleave, the
\* broker keeps the promise of SlotLease: one owner, no lease but on the owner,
\* and an idle moment between two owners.
THEOREM BrokerImplementsSlotLease == Spec => ImplementsSlotLease
<1>1. Init => Lease!Init
  BY DEF Init, Lease!Init, Tenants
<1>2. IInv /\ IInv' /\ [Next]_vars => [Lease!Next]_(Lease!vars)
  BY StepImplementsLease
<1> QED BY <1>1, <1>2, InductiveInvariant, PTL DEF Spec, ImplementsSlotLease, Lease!Spec

-----------------------------------------------------------------------------
(* Leases end for a reason *)

\* What may end the lease of r in this step.
Reason(r) ==
    \/ call[r] = "held" /\ call'[r] = "idle"
    \/ r \in stale
    \/ SlotOf[r] = LlmSlot /\ ~Running(LlmSlot)
    \/ shutdown = "called"

\* A step that ends a lease has a reason to.
LEMMA EndsForAReason ==
    ASSUME IInv, [Next]_vars, NEW r \in leases, r \notin leases' PROVE Reason(r)
<1>1. r \in Requests /\ call \in [Requests -> CallStates]
  BY DEF IInv, TypeOK
<1>2. CASE \E q \in Requests : Client(q) \/ Waiting(q)
  <2>1. PICK q \in Requests : Client(q) \/ Waiting(q)
    BY <1>2
  <2>2. Release(q)
    BY <2>1 DEF Client, Waiting, AcquireBlocks, AcquireRefused, AcquireFast, AcquireQueued, Heartbeat,
       LeaseGoesStale, ReleaseUnknown, AcquireReturns, WaitTimesOut, DropTimedOut, GrantIsLost
  <2>3. r = q
    BY <2>2 DEF Release, LastOne
  <2>4. call[q] = "held" /\ call'[q] = "idle"
    BY <1>1, <2>2 DEF Release, Resolve
  <2> QED BY <2>3, <2>4 DEF Reason
<1>3. CASE \E late \in Late : WatchdogTick(late)
  BY <1>3 DEF WatchdogTick, Reason
<1>4. CASE Notify
  BY <1>4 DEF Notify, LlmGone, Reason
<1>5. CASE Shutdown
  BY <1>5 DEF Shutdown, StopCalled, StopSection, StopLast, StopCancels, Reason
<1>6. CASE \E t \in starters : StarterStep(t)
  BY <1>6 DEF StarterStep, StopPrevious, StartService, StartFails, SpawnScheduled, StartDone
<1>7. CASE Keepalive \/ AutoRestart \/ UserSteers \/ \E s \in Slots : FailuresAge(s) \/ Crash(s)
  BY <1>7 DEF Keepalive, ArmKeepalive, TimerFires, StopNowRuns, KeepaliveStops, AutoRestart, UserSteers,
     FailuresAge, Crash
<1>8. CASE UNCHANGED vars
  BY <1>8 DEF vars
<1> QED BY <1>2, <1>3, <1>4, <1>5, <1>6, <1>7, <1>8 DEF Next

\* No hand-over, watchdog round or supervisor change takes a lease from a client
\* that neither released it nor let it expire, while its service runs.
THEOREM LeasesEndForAReason == Spec => LeaseEndsForAReason
<1>1. IInv /\ [Next]_vars => [\A r \in leases \ leases' : Reason(r)]_vars
  BY EndsForAReason
<1> QED BY <1>1, InductiveInvariant, PTL DEF Spec, LeaseEndsForAReason, Reason

-----------------------------------------------------------------------------
(* No waiter times out: the queue is attended, and served from the front *)

\* No future is cancelled with its entry still in the queue.
NobodyCancelled == \A r \in Requests : call[r] # "cancelled"

\* The slot that is being started has a waiter.
StartIsWanted == InService /\ starting # NoSlot => QueuedFor(starting) # {}

\* The queue is attended, with what that rests on.
Attended == NobodyCancelled /\ StartIsWanted /\ QueueIsAttended

\* A step that leaves the queue, the slot fields and the leases alone.
LEMMA AttendedFrame ==
    ASSUME Attended, UNCHANGED <<queue, starting, leases>>, InService' => InService,
           NobodyCancelled'
    PROVE  Attended'
BY DEF Attended, StartIsWanted, QueueIsAttended, QueuedFor

\* Without timeouts a hand-over starts the slot of the oldest request.
LEMMA HandOverAttended ==
    ASSUME IInv, leases # {}, LockFree, HandOver({}, queue), UNCHANGED <<fails, shutdown, holder>>
    PROVE  \E h \in queue' : /\ queue' = queue /\ starting' = SlotOf[h] /\ ahead'[h] = {}
                             /\ leases' = {} /\ SlotOf[h] \in Slots
<1>1. InService
  BY DEF IInv, Control, ShutdownIsFinal
<1>2. active \in Slots
  BY BrokerAssumption DEF IInv, Control, TypeOK, LeasesOnActive
<1>3. starters = {} /\ starting = NoSlot
  BY <1>1, <1>2, NoStarter, BrokerAssumption DEF IInv, Control
<1>4. PICK h \in queue :
        /\ IsHead(h, queue)
        /\ SlotOf[h] # active => Dequeue({}) /\ leases' = {} /\ Transition(SlotOf[h], active)
  BY DEF HandOver
<1>5. h \in Requests /\ SlotOf[h] \in Slots /\ SlotOf[h] # active
  BY <1>3, BrokerAssumption DEF IInv, Control, TypeOK, NoWaiterForActive, QueuedFor
<1>6. queue' = queue /\ starting' = SlotOf[h] /\ leases' = {}
  BY <1>4, <1>5 DEF Dequeue, Transition
<1>7. ahead[h] \cap queue = {} /\ ahead[h] \subseteq queue
  BY <1>4 DEF IsHead, IInv, QueueIsALine
<1>8. ahead'[h] = {}
  BY <1>4, <1>5, <1>7 DEF Dequeue
<1> QED BY <1>5, <1>6, <1>8

\* Nobody is cancelled if no waiter times out.
LEMMA NobodyIsCancelled ==
    ASSUME IInv, NobodyCancelled, "timeout" \notin Events, [Next]_vars PROVE NobodyCancelled'
<1>1. call \in [Requests -> CallStates]
  BY DEF IInv, TypeOK
<1>2. CASE \E q \in Requests : Client(q) \/ Waiting(q)
  <2>1. PICK q \in Requests : Client(q) \/ Waiting(q)
    BY <1>2
  <2>2. CASE Release(q)
    BY <1>1, <2>2 DEF Release, Resolve, NobodyCancelled
  <2> QED
    BY <1>1, <2>1, <2>2 DEF Client, Waiting, AcquireBlocks, AcquireRefused, AcquireFast, AcquireQueued,
       Heartbeat, LeaseGoesStale, ReleaseUnknown, AcquireReturns, WaitTimesOut, DropTimedOut, GrantIsLost,
       NobodyCancelled
<1>3. CASE \E late \in Late : WatchdogTick(late)
  BY <1>1, <1>3 DEF WatchdogTick, Resolve, NobodyCancelled
<1>4. CASE Notify \/ Keepalive \/ AutoRestart \/ UserSteers \/ \E s \in Slots : FailuresAge(s) \/ Crash(s)
  BY <1>4 DEF Notify, Keepalive, ArmKeepalive, TimerFires, StopNowRuns, KeepaliveStops, AutoRestart,
     UserSteers, FailuresAge, Crash, NobodyCancelled
<1>5. CASE Shutdown
  BY <1>1, <1>5 DEF Shutdown, StopCalled, StopSection, StopLast, StopCancels, Resolve, NobodyCancelled
<1>6. CASE \E t \in starters : StarterStep(t)
  BY <1>1, <1>6 DEF StarterStep, StopPrevious, StartService, StartFails, SpawnScheduled, StartDone, Resolve,
     NobodyCancelled
<1>7. CASE UNCHANGED vars
  BY <1>7 DEF vars, NobodyCancelled
<1> QED BY <1>2, <1>3, <1>4, <1>5, <1>6, <1>7 DEF Next

\* Every step keeps the queue attended.
LEMMA AttendedStep ==
    ASSUME IInv, Attended, "timeout" \notin Events, [Next]_vars PROVE Attended'
<1>0. NobodyCancelled' /\ (shutdown' \in {"up", "called"} => InService)
  <2>1. InService' => InService
    BY DEF Next, vars, InService, Client, Waiting, AcquireBlocks, AcquireRefused, AcquireFast, AcquireQueued,
       Heartbeat, LeaseGoesStale, ReleaseUnknown, Release, AcquireReturns, WaitTimesOut, DropTimedOut, GrantIsLost,
       WatchdogTick, StarterStep, StopPrevious, StartService, StartFails, SpawnScheduled, StartDone, FailuresAge,
       Crash, Keepalive, ArmKeepalive, TimerFires, StopNowRuns, KeepaliveStops, Notify, AutoRestart, UserSteers,
       Shutdown, StopCalled, StopSection, StopLast, StopCancels, stopVars
  <2> QED BY <2>1, NobodyIsCancelled DEF Attended, InService
<1>1. ASSUME UNCHANGED <<queue, starting, leases>> PROVE Attended'
  BY <1>0, <1>1, AttendedFrame DEF InService
<1>2. ASSUME NEW r \in Requests, AcquireFast(r) PROVE Attended'
  BY <1>0, <1>2 DEF AcquireFast, Attended, StartIsWanted, QueueIsAttended, slotVars, queueVars
<1>3. ASSUME NEW r \in Requests, AcquireQueued(r) PROVE Attended'
  <2>1. queue' = queue \union {r} /\ leases' = leases /\ SlotOf[r] \in Slots
    BY <1>3, BrokerAssumption DEF AcquireQueued, Enqueue
  <2>2. CASE MayTransition
    BY <1>0, <1>3, <2>1, <2>2, BrokerAssumption
    DEF AcquireQueued, Transition, Attended, StartIsWanted, QueueIsAttended, QueuedFor
  <2>3. CASE ~MayTransition
    BY <1>0, <1>3, <2>1, <2>3
    DEF AcquireQueued, MayTransition, Attended, StartIsWanted, QueueIsAttended, QueuedFor, slotVars, InService
  <2> QED BY <2>2, <2>3
<1>4. ASSUME NEW r \in Requests, Release(r) PROVE Attended'
  <2>1. LockFree /\ r \in leases /\ UNCHANGED <<fails, shutdown, holder>>
    BY <1>4 DEF Release, stopVars
  <2>2. CASE LastOne(r) /\ starting = NoSlot /\ queue # {}
    <3>1. HandOver({}, queue)
      BY <1>4, <2>2 DEF Release
    <3> QED BY <1>0, <2>1, <3>1, HandOverAttended, BrokerAssumption
            DEF Attended, StartIsWanted, QueueIsAttended, QueuedFor
  <2>3. CASE ~LastOne(r) \/ starting # NoSlot
    BY <1>0, <1>4, <2>1, <2>3
    DEF Release, LastOne, Attended, StartIsWanted, QueueIsAttended, QueuedFor, slotVars, queueVars, InService
  <2>4. CASE LastOne(r) /\ starting = NoSlot /\ queue = {}
    BY <1>0, <1>4, <2>4
    DEF Release, Attended, StartIsWanted, QueueIsAttended, slotVars, queueVars, InService
  <2> QED BY <2>2, <2>3, <2>4
<1>5. ASSUME NEW late \in Late, WatchdogTick(late) PROVE Attended'
  <2>1. late = {} /\ LockFree /\ UNCHANGED <<fails, shutdown, holder>>
    BY <1>5 DEF Late, WatchdogTick, stopVars
  <2> DEFINE left == leases \ stale
  <2>2. CASE stale = {} \/ left # {} \/ starting # NoSlot
    BY <1>0, <1>5, <2>1, <2>2
    DEF WatchdogTick, Dequeue, Attended, StartIsWanted, QueueIsAttended, QueuedFor, slotVars, InService
  <2>3. CASE ~(stale = {} \/ left # {} \/ starting # NoSlot) /\ queue # {}
    <3>1. HandOver({}, queue) /\ leases # {}
      BY <1>5, <2>1, <2>3 DEF WatchdogTick, IInv, TypeOK
    <3> QED BY <1>0, <2>1, <3>1, HandOverAttended, BrokerAssumption
            DEF Attended, StartIsWanted, QueueIsAttended, QueuedFor
  <2>4. CASE ~(stale = {} \/ left # {} \/ starting # NoSlot) /\ queue = {}
    BY <1>0, <1>5, <2>1, <2>4
    DEF WatchdogTick, Dequeue, Attended, StartIsWanted, QueueIsAttended, slotVars, InService
  <2> QED BY <2>2, <2>3, <2>4
<1>6. ASSUME Notify PROVE Attended'
  <2>1. CASE LlmGone /\ starting = NoSlot /\ queue # {}
    <3>1. PICK h \in queue : starting' = SlotOf[h] /\ queue' = queue
      BY <1>6, <2>1 DEF Notify, Transition, queueVars
    <3>2. SlotOf[h] \in Slots
      BY BrokerAssumption DEF IInv, TypeOK
    <3> QED BY <1>0, <3>1, <3>2, BrokerAssumption DEF Attended, StartIsWanted, QueueIsAttended, QueuedFor
  <2>2. CASE LlmGone /\ ~(starting = NoSlot /\ queue # {})
    BY <1>0, <1>6, <2>2
    DEF Notify, Attended, StartIsWanted, QueueIsAttended, QueuedFor, queueVars, InService
  <2>3. CASE ~LlmGone
    BY <1>1, <1>6, <2>3 DEF Notify, slotVars, queueVars
  <2> QED BY <2>1, <2>2, <2>3
<1>7. ASSUME NEW t \in starters, StartFails(t) PROVE Attended'
  <2> DEFINE rest == queue \ QueuedFor(t.slot)
  <2>1. queue' = rest /\ leases' = leases
    BY <1>7 DEF StartFails, Dequeue
  <2>2. CASE Kick(rest)
    <3>1. PICK h \in rest : starting' = SlotOf[h]
      BY <1>7, <2>2 DEF StartFails
    <3>2. SlotOf[h] \in Slots
      BY BrokerAssumption DEF IInv, TypeOK
    <3> QED BY <1>0, <2>1, <3>1, <3>2, BrokerAssumption DEF Attended, StartIsWanted, QueueIsAttended, QueuedFor
  <2>3. CASE ~Kick(rest)
    <3>1. active = NoSlot /\ starting' = NoSlot
      BY <1>7, <2>3 DEF StartFails, IInv, Control, StarterAlone
    <3>2. leases = {}
      BY <3>1, BrokerAssumption DEF IInv, Control, LeasesOnActive, TypeOK
    <3> QED BY <1>0, <2>1, <2>3, <3>1, <3>2 DEF Kick, Attended, StartIsWanted, QueueIsAttended
  <2> QED BY <2>2, <2>3
<1>8. ASSUME NEW t \in starters, StartDone(t) PROVE Attended'
  <2>1. /\ starting' = NoSlot /\ leases' = leases \union Live(QueuedFor(t.slot))
        /\ queue' = queue \ QueuedFor(t.slot) /\ shutdown' = shutdown
    BY <1>8 DEF StartDone, Dequeue, stopVars
  <2>2. ASSUME InService, queue # {} PROVE leases' # {}
    <3>1. starting = t.slot /\ starting # NoSlot
      BY <2>2, BrokerAssumption, StarterType DEF IInv, Control, StarterAlone
    <3>2. PICK r \in QueuedFor(t.slot) : TRUE
      BY <2>2, <3>1 DEF Attended, StartIsWanted
    <3>3. call[r] = "waiting"
      BY <3>2 DEF QueuedFor, IInv, QueueIsALine, TypeOK, Attended, NobodyCancelled
    <3> QED BY <2>1, <3>2, <3>3 DEF Live
  <2> QED BY <1>0, <2>1, <2>2 DEF Attended, StartIsWanted, QueueIsAttended, InService
<1>9. ASSUME StopSection PROVE Attended'
  BY <1>0, <1>9 DEF StopSection, Attended, StartIsWanted, QueueIsAttended, InService
<1>10. ASSUME NEW r \in Requests, DropTimedOut(r) PROVE FALSE
  BY <1>10 DEF DropTimedOut, Attended, NobodyCancelled
<1>11. CASE \E r \in Requests : Client(r) \/ Waiting(r)
  <2>1. PICK r \in Requests : Client(r) \/ Waiting(r)
    BY <1>11
  <2>2. CASE AcquireFast(r) \/ AcquireQueued(r) \/ Release(r) \/ DropTimedOut(r)
    BY <2>2, <1>2, <1>3, <1>4, <1>10
  <2>3. CASE ~(AcquireFast(r) \/ AcquireQueued(r) \/ Release(r) \/ DropTimedOut(r))
    BY <1>1, <2>1, <2>3 DEF Client, Waiting, AcquireBlocks, AcquireRefused, Heartbeat, LeaseGoesStale,
       ReleaseUnknown, AcquireReturns, WaitTimesOut, GrantIsLost, slotVars, queueVars
  <2> QED BY <2>2, <2>3
<1>12. CASE \E t \in starters : StarterStep(t)
  <2>1. PICK t \in starters : StarterStep(t)
    BY <1>12
  <2>2. CASE StartFails(t) \/ StartDone(t)
    BY <2>2, <1>7, <1>8
  <2>3. CASE StopPrevious(t) \/ StartService(t) \/ SpawnScheduled(t)
    BY <1>1, <2>3 DEF StopPrevious, StartService, SpawnScheduled, slotVars, queueVars
  <2> QED BY <2>1, <2>2, <2>3 DEF StarterStep
<1>13. CASE Keepalive \/ AutoRestart \/ UserSteers \/ \E s \in Slots : FailuresAge(s) \/ Crash(s)
  BY <1>1, <1>13 DEF Keepalive, ArmKeepalive, TimerFires, StopNowRuns, KeepaliveStops, AutoRestart,
     UserSteers, FailuresAge, Crash, slotVars, queueVars
<1>14. CASE Shutdown
  BY <1>1, <1>9, <1>14 DEF Shutdown, StopCalled, StopLast, StopCancels, slotVars, queueVars
<1>15. CASE UNCHANGED vars
  BY <1>1, <1>15 DEF vars
<1> QED BY <1>5, <1>6, <1>11, <1>12, <1>13, <1>14, <1>15 DEF Next

\* So it stays attended.
LEMMA AttendedHolds == ASSUME "timeout" \notin Events PROVE Spec => []Attended
<1>1. Init => Attended
  BY DEF Init, Attended, NobodyCancelled, StartIsWanted, QueueIsAttended
<1>2. IInv /\ Attended /\ [Next]_vars => Attended'
  BY AttendedStep
<1> QED BY <1>1, <1>2, InductiveInvariant, PTL DEF Spec

\* Whoever waits in the queue waits for a start in flight or for a lease that
\* somebody holds, whatever else goes wrong.
THEOREM QueueStaysAttended == ASSUME "timeout" \notin Events PROVE Spec => []QueueIsAttended
<1>1. Attended => QueueIsAttended
  BY DEF Attended
<1> QED BY <1>1, AttendedHolds, PTL

\* A new start is for the request in front of the queue.
LEMMA OldestFirst ==
    ASSUME IInv, Attended, "timeout" \notin Events, [Next]_vars, starting' \notin {starting, NoSlot}
    PROVE  \E h \in queue' : ahead'[h] = {} /\ SlotOf[h] = starting'
<1>1. \A h \in queue : h \in Requests /\ ahead[h] \subseteq queue
  BY DEF IInv, TypeOK, QueueIsALine
<1>2. CASE \E r \in Requests : Client(r) \/ Waiting(r)
  <2>1. PICK r \in Requests : Client(r) \/ Waiting(r)
    BY <1>2
  <2>2. CASE AcquireQueued(r)
    <3>1. MayTransition /\ starting' = SlotOf[r] /\ queue' = queue \union {r}
      BY <2>2 DEF AcquireQueued, Transition, Enqueue, slotVars
    <3>2. InService
      BY <2>2 DEF AcquireQueued, Admitted, AtLock, IInv, Control, ShutdownIsFinal, InService
    <3>3. queue = {}
      BY <3>1, <3>2 DEF MayTransition, Attended, QueueIsAttended, IInv, Control, IdleGpuHasNoQueue
    <3>4. ahead'[r] = {}
      BY <2>2, <3>3 DEF AcquireQueued, Enqueue, IInv, TypeOK
    <3> QED BY <3>1, <3>4
  <2>3. CASE Release(r)
    <3>1. /\ r \in leases /\ LockFree /\ HandOver({}, queue)
          /\ UNCHANGED <<fails, shutdown, holder>>
      BY <2>3 DEF Release, slotVars, stopVars
    <3> QED BY <3>1, HandOverAttended
  <2> QED
    BY <2>1, <2>2, <2>3 DEF Client, Waiting, AcquireBlocks, AcquireRefused, AcquireFast, Heartbeat,
       LeaseGoesStale, ReleaseUnknown, AcquireReturns, WaitTimesOut, DropTimedOut, GrantIsLost, slotVars
<1>3. CASE \E late \in Late : WatchdogTick(late)
  <2>1. WatchdogTick({})
    BY <1>3 DEF Late
  <2>2. /\ leases # {} /\ LockFree /\ HandOver({}, queue)
        /\ UNCHANGED <<fails, shutdown, holder>>
    BY <2>1 DEF WatchdogTick, slotVars, stopVars, IInv, TypeOK
  <2> QED BY <2>2, HandOverAttended
<1>4. CASE Notify
  <2>1. PICK h \in queue : /\ IsHead(h, queue) /\ starting' = SlotOf[h]
                           /\ queue' = queue /\ ahead' = ahead
    BY <1>4 DEF Notify, Transition, slotVars, queueVars
  <2> QED BY <1>1, <2>1 DEF IsHead
<1>5. CASE \E t \in starters : StarterStep(t)
  <2>1. PICK t \in starters : StartFails(t)
    BY <1>5 DEF StarterStep, StopPrevious, StartService, SpawnScheduled, StartDone, slotVars
  <2> DEFINE gone == QueuedFor(t.slot)
  <2>2. PICK h \in queue \ gone : IsHead(h, queue \ gone) /\ starting' = SlotOf[h] /\ Dequeue(gone)
    BY <2>1 DEF StartFails
  <2>3. h \in queue' /\ ahead'[h] = ahead[h] \ gone
    BY <1>1, <2>2 DEF Dequeue
  <2>4. ahead[h] \ gone = {}
    BY <1>1, <2>2 DEF IsHead
  <2> QED BY <2>2, <2>3, <2>4
<1>6. CASE Keepalive \/ AutoRestart \/ UserSteers \/ \E s \in Slots : FailuresAge(s) \/ Crash(s)
  BY <1>6 DEF Keepalive, ArmKeepalive, TimerFires, StopNowRuns, KeepaliveStops, AutoRestart,
     UserSteers, FailuresAge, Crash, slotVars
<1>7. CASE Shutdown
  BY <1>7 DEF Shutdown, StopCalled, StopSection, StopLast, StopCancels, slotVars
<1>8. CASE UNCHANGED vars
  BY <1>8 DEF vars
<1> QED BY <1>2, <1>3, <1>4, <1>5, <1>6, <1>7, <1>8 DEF Next

\* Releases, the watchdog, failed starts and supervisor changes all pass the
\* slot on to the request that has waited longest.
THEOREM OldestIsNext == ASSUME "timeout" \notin Events PROVE Spec => StartsForTheOldest
<1>1. IInv /\ Attended /\ [Next]_vars =>
        [starting' \notin {starting, NoSlot} =>
            \E h \in queue' : ahead'[h] = {} /\ SlotOf[h] = starting']_vars
  BY OldestFirst
<1> QED BY <1>1, InductiveInvariant, AttendedHolds, PTL DEF Spec, StartsForTheOldest

-----------------------------------------------------------------------------
(* No grant is lost: every lease has a client *)

\* Every step leaves each lease with its client.
LEMMA NoOrphanStep ==
    ASSUME IInv, NoOrphanLease, "lostGrant" \notin Events, [Next]_vars PROVE NoOrphanLease'
<1>1. call \in [Requests -> CallStates] /\ leases \subseteq Requests /\ queue \subseteq Requests
  BY DEF IInv, TypeOK
<1>2. \A q \in queue : call[q] \in {"waiting", "cancelled"}
  BY DEF IInv, QueueIsALine
<1>3. CASE \E r \in Requests : Client(r) \/ Waiting(r)
  <2>1. PICK r \in Requests : Client(r) \/ Waiting(r)
    BY <1>3
  <2>2. CASE Release(r)
    <3>1. CASE LastOne(r) /\ starting = NoSlot /\ queue # {}
      <4>1. /\ HandOver({}, queue) /\ call[r] = "held"
            /\ call' = [Resolve(leases', "offered") EXCEPT ![r] = "idle"]
        BY <2>2, <3>1 DEF Release
      <4>2. \A q \in leases' : q \in queue /\ call[q] = "waiting"
        BY <4>1 DEF HandOver, Live
      <4> QED BY <1>1, <4>1, <4>2 DEF Resolve, NoOrphanLease
    <3>2. CASE ~(LastOne(r) /\ starting = NoSlot /\ queue # {})
      BY <1>1, <2>2, <3>2 DEF Release, LastOne, NoOrphanLease
    <3> QED BY <3>1, <3>2
  <2>3. CASE ~Release(r)
    BY <1>1, <2>1, <2>3 DEF Client, Waiting, AcquireBlocks, AcquireRefused, AcquireFast, AcquireQueued,
       AtLock, Admitted, Heartbeat, LeaseGoesStale, ReleaseUnknown, AcquireReturns, WaitTimesOut, DropTimedOut,
       GrantIsLost, NoOrphanLease
  <2> QED BY <2>2, <2>3
<1>4. CASE \E late \in Late : WatchdogTick(late)
  <2>1. PICK late \in Late : WatchdogTick(late)
    BY <1>4
  <2> DEFINE over == stale # {} /\ leases \ stale = {} /\ starting = NoSlot /\ queue \ late # {}
  <2>2. CASE over
    BY <2>1, <2>2 DEF WatchdogTick, NoOrphanLease, HandOver, Live, IInv, TypeOK
  <2>3. CASE ~over
    <3>1. leases' \subseteq leases /\ call' = Resolve(late, "idle")
      BY <2>1, <2>3 DEF WatchdogTick
    <3> QED BY <1>1, <3>1 DEF Resolve, NoOrphanLease
  <2> QED BY <2>2, <2>3
<1>5. CASE Notify
  BY <1>5 DEF Notify, NoOrphanLease
<1>6. CASE \E t \in starters : StarterStep(t)
  <2>1. PICK t \in starters : StarterStep(t)
    BY <1>6
  <2>2. CASE StartFails(t)
    BY <1>1, <2>2 DEF StartFails, Resolve, NoOrphanLease
  <2>3. CASE StartDone(t)
    BY <1>1, <2>3 DEF StartDone, Resolve, Live, QueuedFor, NoOrphanLease
  <2> QED BY <2>1, <2>2, <2>3 DEF StarterStep, StopPrevious, StartService, SpawnScheduled, NoOrphanLease
<1>7. CASE Keepalive \/ AutoRestart \/ UserSteers \/ \E s \in Slots : FailuresAge(s) \/ Crash(s)
  BY <1>7 DEF Keepalive, ArmKeepalive, TimerFires, StopNowRuns, KeepaliveStops, AutoRestart,
     UserSteers, FailuresAge, Crash, NoOrphanLease
<1>8. CASE Shutdown
  BY <1>8 DEF Shutdown, StopCalled, StopSection, StopLast, StopCancels, NoOrphanLease
<1>9. CASE UNCHANGED vars
  BY <1>9 DEF vars, NoOrphanLease
<1> QED BY <1>3, <1>4, <1>5, <1>6, <1>7, <1>8, <1>9 DEF Next

\* No lease occupies the slot without a client that knows of it.
THEOREM NoLeaseIsOrphaned == ASSUME "lostGrant" \notin Events PROVE Spec => []NoOrphanLease
<1>1. Init => NoOrphanLease
  BY DEF Init, NoOrphanLease
<1>2. IInv /\ NoOrphanLease /\ [Next]_vars => NoOrphanLease'
  BY NoOrphanStep
<1> QED BY <1>1, <1>2, InductiveInvariant, PTL DEF Spec

-----------------------------------------------------------------------------
(* Starts and stops end as they should: one service of the broker's *)

\* What may go wrong so that a service of the broker's outlives its turn.
Rough == {"notReady", "stopFails", "autorestart", "user"}

\* The broker knows that s may have a service: it is the active slot, the
\* coroutine is about to stop it or has started it, or stop() is stopping it.
Keeper(s) ==
    \/ active = s
    \/ \E t \in starters : \/ t.phase = "stopping" /\ t.prev = s
                           \/ t.phase \in {"starting", "waiting"} /\ t.slot = s
    \/ shutdown = "stopping" /\ last = s

\* No service of the broker's is forgotten.
ManagedIsKept == \A s \in Slots : svc[s] = "managed" => Keeper(s)

\* While stop() stops the last service, nothing is active or being started.
StoppingIsQuiet == shutdown = "stopping" => active = NoSlot /\ starters = {}

\* A start that stop() cancels may leave its service, and nothing starts then.
Over == shutdown = "done" /\ starters = {} /\ OneManaged

Kept == StoppingIsQuiet /\ (ManagedIsKept \/ Over)

\* Only one slot can have a keeper.
LEMMA OneKeeper ==
    ASSUME IInv, StoppingIsQuiet, ManagedIsKept PROVE OneManaged
<1> SUFFICES ASSUME NEW s \in Slots, NEW u \in Slots, Keeper(s), Keeper(u) PROVE s = u
  BY DEF ManagedIsKept, OneManaged
<1>1. active # NoSlot => starters = {} /\ shutdown # "stopping"
  BY DEF IInv, Control, StarterAlone, StoppingIsQuiet
<1>2. s # NoSlot /\ u # NoSlot
  BY BrokerAssumption
<1> QED BY <1>1, <1>2 DEF Keeper, IInv, Control, StarterAlone, StoppingIsQuiet

\* A step that starts nothing, keeps the keepers and the shutdown.
LEMMA KeptFrame ==
    ASSUME Kept, UNCHANGED <<active, starters, shutdown, last>>,
           \A s \in Slots : svc'[s] = "managed" => svc[s] = "managed"
    PROVE  Kept'
BY DEF Kept, OneManaged, StoppingIsQuiet, ManagedIsKept, Over, Keeper

\* The GPU passes to another slot: the new coroutine keeps the old service.
LEMMA TransitionKept ==
    ASSUME IInv, IInv', Kept, InService, starting = NoSlot, starters = {}, NEW s \in Slots,
           Transition(s, active), UNCHANGED <<svc, shutdown, last>>
    PROVE  Kept'
<1>1. /\ starters' = {NewStarter(s, active)} /\ StoppingIsQuiet' /\ shutdown # "stopping"
  BY DEF Transition, InService, StoppingIsQuiet
<1>2. ManagedIsKept'
  <2>1. ASSUME NEW u \in Slots, svc[u] = "managed" PROVE active = u
    BY <1>1, <2>1 DEF Kept, ManagedIsKept, Keeper, Over, InService
  <2>2. active \in Slots => \/ NewStarter(s, active).phase = "stopping" /\ NewStarter(s, active).prev = active
                            \/ NewStarter(s, active).phase = "starting" /\ NewStarter(s, active).slot = active
    BY BrokerAssumption DEF NewStarter
  <2> QED BY <1>1, <2>1, <2>2 DEF ManagedIsKept, Keeper
<1> QED BY <1>1, <1>2 DEF Kept

\* stop() and start() of a coroutine keep one service.
LEMMA StarterKept ==
    ASSUME IInv, IInv', Kept, Events \cap Rough = {}, NEW t \in starters, StarterStep(t)
    PROVE  Kept'
<1>1. /\ \A u \in starters : u = t
      /\ active = NoSlot /\ t \in Starter
      /\ StoppingIsQuiet' /\ shutdown' = shutdown /\ last' = last /\ shutdown # "stopping"
      /\ ManagedIsKept
  BY DEF IInv, Control, StarterAlone, TypeOK, Kept, StoppingIsQuiet, Over, StarterStep, StopPrevious, StartService,
     StartFails, SpawnScheduled, StartDone, stopVars
<1>2. ASSUME NEW s \in Slots, svc[s] = "managed"
      PROVE  \/ t.phase = "stopping" /\ t.prev = s
             \/ t.phase \in {"starting", "waiting"} /\ t.slot = s
  BY <1>1, <1>2, BrokerAssumption DEF ManagedIsKept, Keeper
<1>3. svc \in [Slots -> SvcStates]
  BY DEF IInv, TypeOK
<1>4. ManagedIsKept'
  <2>1. CASE StopPrevious(t)
    <3>1. \A v \in AfterStop(t.prev) : v # "managed"
      BY DEF AfterStop, Rough
    <3>2. \A s \in Slots : svc'[s] = "managed" => svc[s] = "managed" /\ s # t.prev
      BY <1>3, <2>1, <3>1 DEF StopPrevious
    <3> QED BY <1>2, <2>1, <3>2 DEF StopPrevious, ManagedIsKept
  <2>2. CASE StartService(t)
    <3> DEFINE r == [t EXCEPT !.phase = "waiting"]
    <3>1. r \in starters' /\ r.phase = "waiting" /\ r.slot = t.slot
      BY <1>1, <2>2, PhaseIsStarter DEF StartService, Phases
    <3> HIDE DEF r
    <3>2. \A s \in Slots : svc'[s] = "managed" => s = t.slot
      BY <1>2, <1>3, <2>2 DEF StartService
    <3> QED BY <3>1, <3>2 DEF ManagedIsKept, Keeper
  <2>3. CASE StartFails(t)
    <3>1. t.phase \in {"starting", "waiting"} /\ svc[t.slot] # "managed" /\ svc' = svc
      BY <2>3 DEF StartFails, MayFail, Running, Rough
    <3> QED BY <1>2, <3>1 DEF ManagedIsKept
  <2>4. CASE SpawnScheduled(t)
    BY <1>2, <2>4 DEF SpawnScheduled, ManagedIsKept
  <2>5. CASE StartDone(t)
    BY <1>2, <2>5 DEF StartDone, ManagedIsKept, Keeper
  <2> QED BY <2>1, <2>2, <2>3, <2>4, <2>5 DEF StarterStep
<1> QED BY <1>1, <1>4 DEF Kept

\* Every step keeps one service.
LEMMA KeptStep ==
    ASSUME IInv, IInv', Kept, Events \cap Rough = {}, [Next]_vars PROVE Kept'
<1>1. /\ svc \in [Slots -> SvcStates]
      /\ \A r \in Requests : SlotOf[r] \in Slots
      /\ queue \subseteq Requests /\ leases \subseteq Requests
  BY BrokerAssumption DEF IInv, TypeOK
<1>2. CASE \E r \in Requests : Client(r) \/ Waiting(r)
  <2>1. PICK r \in Requests : Client(r) \/ Waiting(r)
    BY <1>2
  <2>2. UNCHANGED <<svc, shutdown, last>>
    BY <2>1 DEF Client, Waiting, AcquireBlocks, AcquireRefused, AcquireFast, AcquireQueued, Heartbeat,
       LeaseGoesStale, ReleaseUnknown, Release, AcquireReturns, WaitTimesOut, DropTimedOut, GrantIsLost, stopVars
  <2>3. CASE AcquireQueued(r) /\ MayTransition
    <3>1. InService
      BY <2>3 DEF AcquireQueued, Admitted, AtLock, IInv, Control, ShutdownIsFinal, InService
    <3>2. starting = NoSlot /\ starters = {}
      BY <2>3, <3>1, NoStarter DEF MayTransition, IInv, Control
    <3> QED BY <1>1, <2>2, <2>3, <3>1, <3>2, TransitionKept DEF AcquireQueued
  <2>4. CASE Release(r) /\ ~UNCHANGED <<active, starters>>
    <3>1. HandOver({}, queue) /\ starting = NoSlot /\ InService
      BY <2>4 DEF Release, slotVars, IInv, Control, ShutdownIsFinal
    <3>2. PICK h \in queue : Transition(SlotOf[h], active)
      BY <2>4, <3>1 DEF HandOver, slotVars
    <3>3. starters = {}
      BY <3>1, NoStarter DEF IInv, Control
    <3> QED BY <1>1, <2>2, <3>1, <3>2, <3>3, TransitionKept
  <2>5. CASE UNCHANGED <<active, starters>>
    BY <2>2, <2>5, KeptFrame
  <2>6. UNCHANGED <<active, starters>> \/ (AcquireQueued(r) /\ MayTransition) \/ Release(r)
    BY <2>1 DEF Client, Waiting, AcquireBlocks, AcquireRefused, AcquireFast, AcquireQueued, Heartbeat,
       LeaseGoesStale, ReleaseUnknown, AcquireReturns, WaitTimesOut, DropTimedOut, GrantIsLost, slotVars
  <2> QED BY <2>3, <2>4, <2>5, <2>6
<1>3. CASE \E late \in Late : WatchdogTick(late)
  <2>1. PICK late \in Late : WatchdogTick(late)
    BY <1>3
  <2>2. UNCHANGED <<svc, shutdown, last>>
    BY <2>1 DEF WatchdogTick, stopVars
  <2>3. CASE ~UNCHANGED <<active, starters>>
    <3>1. /\ HandOver(late, queue \ late) /\ starting = NoSlot /\ leases # {}
      BY <2>1, <2>3 DEF WatchdogTick, slotVars, IInv, TypeOK
    <3>2. InService /\ starters = {}
      BY <3>1, NoStarter DEF IInv, Control, ShutdownIsFinal
    <3>3. PICK h \in queue : Transition(SlotOf[h], active)
      BY <2>3, <3>1 DEF HandOver, slotVars
    <3> QED BY <1>1, <2>2, <3>1, <3>2, <3>3, TransitionKept
  <2> QED BY <2>2, <2>3, KeptFrame
<1>4. CASE Notify
  <2>1. UNCHANGED <<shutdown, last>> /\ \A s \in Slots : svc'[s] = "managed" => svc[s] = "managed"
    BY <1>1, <1>4 DEF Notify, Forgotten, stopVars
  <2>2. CASE LlmGone
    <3>1. starters = {} /\ shutdown # "stopping"
      BY <2>2, BrokerAssumption DEF LlmGone, IInv, Control, StarterAlone, Kept, StoppingIsQuiet
    <3>2. CASE Over
      <4>1. queue = {} /\ active' = NoSlot /\ starters' = {}
        BY <1>4, <2>2, <3>1, <3>2 DEF Over, Notify, IInv, Control, ShutdownIsFinal, InService
      <4> QED BY <2>1, <3>1, <3>2, <4>1 DEF Over, Kept, OneManaged, StoppingIsQuiet
    <3>3. CASE ManagedIsKept
      <4>1. \A s \in Slots : svc'[s] # "managed"
        BY <2>1, <2>2, <3>1, <3>3 DEF LlmGone, Running, ManagedIsKept, Keeper
      <4> QED BY <2>1, <3>1, <4>1 DEF Kept, OneManaged, StoppingIsQuiet, ManagedIsKept
    <3> QED BY <3>2, <3>3 DEF Kept
  <2>3. CASE ~LlmGone
    BY <1>4, <2>1, <2>3, KeptFrame DEF Notify, slotVars
  <2> QED BY <2>2, <2>3
<1>5. CASE \E t \in starters : StarterStep(t)
  BY <1>5, StarterKept
<1>6. CASE KeepaliveStops
  <2>1. holder = active /\ holder \in Slots
    BY <1>6 DEF KeepaliveStops, IInv, Control, LockHeldForUnused, Unused, TypeOK, Maybe
  <2>2. \A v \in AfterStop(holder) : v # "managed"
    BY DEF AfterStop, Rough
  <2>3. /\ \A s \in Slots : svc'[s] = "managed" => svc[s] = "managed" /\ s # active
        /\ active' \in {active, NoSlot} /\ UNCHANGED <<starters, shutdown, last>>
    BY <1>1, <1>6, <2>1, <2>2 DEF KeepaliveStops, stopVars
  <2> QED BY <2>1, <2>3, BrokerAssumption DEF Kept, OneManaged, StoppingIsQuiet, ManagedIsKept, Keeper, Over
<1>7. CASE ArmKeepalive \/ TimerFires \/ StopNowRuns \/ \E s \in Slots : FailuresAge(s) \/ Crash(s)
  <2>1. UNCHANGED <<active, starters, shutdown, last>>
    BY <1>7 DEF ArmKeepalive, TimerFires, StopNowRuns, FailuresAge, Crash, slotVars, stopVars
  <2>2. \A s \in Slots : svc'[s] = "managed" => svc[s] = "managed"
    BY <1>1, <1>7 DEF ArmKeepalive, TimerFires, StopNowRuns, FailuresAge, Crash
  <2> QED BY <2>1, <2>2, KeptFrame
<1>8. CASE AutoRestart \/ UserSteers
  BY <1>8 DEF AutoRestart, UserSteers, Rough
<1>9. CASE StopCalled
  <2>1. UNCHANGED <<active, starters, svc, last>> /\ shutdown = "up" /\ shutdown' = "called"
    BY <1>9 DEF StopCalled, slotVars
  <2> QED BY <2>1 DEF Kept, OneManaged, StoppingIsQuiet, ManagedIsKept, Keeper, Over
<1>10. CASE StopSection
  <2>1. /\ shutdown = "called" /\ svc' = svc /\ last' = active /\ active' = NoSlot /\ starters' = starters
        /\ shutdown' = IF active = NoSlot THEN "cancelling" ELSE "stopping"
    BY <1>10 DEF StopSection
  <2>2. active # NoSlot => starters = {}
    BY DEF IInv, Control, StarterAlone
  <2> QED BY <2>1, <2>2, BrokerAssumption DEF Kept, OneManaged, StoppingIsQuiet, ManagedIsKept, Keeper, Over
<1>11. CASE StopLast
  <2>1. \A v \in AfterStop(last) : v # "managed"
    BY DEF AfterStop, Rough
  <2>2. /\ \A s \in Slots : svc'[s] = "managed" => svc[s] = "managed" /\ s # last
        /\ shutdown = "stopping" /\ shutdown' = "cancelling" /\ UNCHANGED <<active, starters, last>>
    BY <1>1, <1>11, <2>1 DEF StopLast, slotVars
  <2> QED BY <2>2, BrokerAssumption DEF Kept, OneManaged, StoppingIsQuiet, ManagedIsKept, Keeper, Over
<1>12. CASE StopCancels
  <2>1. /\ shutdown = "cancelling" /\ shutdown' = "done" /\ UNCHANGED <<active, svc, last>>
        /\ starters' = {t \in starters : t.phase = "soon"}
    BY <1>12 DEF StopCancels, slotVars
  <2>2. CASE starters' = {}
    BY <2>1, <2>2, OneKeeper DEF Kept, OneManaged, StoppingIsQuiet, Over
  <2>3. CASE starters' # {}
    <3>1. \A t \in starters : t.phase = "soon"
      BY <2>1, <2>3 DEF IInv, Control, StarterAlone
    <3> QED BY <2>1, <3>1 DEF Kept, OneManaged, StoppingIsQuiet, ManagedIsKept, Keeper, Over
  <2> QED BY <2>2, <2>3
<1>13. CASE UNCHANGED vars
  BY <1>13, KeptFrame DEF vars
<1> QED BY <1>2, <1>3, <1>4, <1>5, <1>6, <1>7, <1>8, <1>9, <1>10, <1>11, <1>12, <1>13
        DEF Next, Keepalive, Shutdown

\* The broker never has two services of its own on the GPU, also when waiters
\* time out, services crash or the application stops in the middle of a start.
THEOREM OneServiceAtATime == ASSUME Events \cap Rough = {} PROVE Spec => []OneManaged
<1>1. Init => Kept
  BY DEF Init, Kept, OneManaged, StoppingIsQuiet, ManagedIsKept
<1>2. IInv /\ IInv' /\ Kept /\ [Next]_vars => Kept'
  BY KeptStep
<1>3. IInv /\ Kept => OneManaged
  BY OneKeeper DEF Kept, Over
<1> QED BY <1>1, <1>2, <1>3, InductiveInvariant, PTL DEF Spec

=============================================================================
