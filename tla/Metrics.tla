------------------------------- MODULE Metrics -------------------------------
(***************************************************************************)
(* MetricsService of src/backend/lld/metrics.py for one preset: it polls   *)
(* the slots and the counters of llama-server, derives rates from what     *)
(* changed since the last frame, and keeps a record of every task.         *)
(*                                                                         *)
(* The two reads of a poll answer in any order, and either may fail.  Of a *)
(* rate only the number of tokens is kept, of a time only whether two      *)
(* frames are too close for a rate.  Prompts are counted as replies are.   *)
(***************************************************************************)
EXTENDS Naturals, Sequences, SequencesExt, FiniteSetsExt

CONSTANTS
    SlotIds,       \* the slots of llama-server
    MaxTasks,      \* bound: tasks llama-server gets
    MaxTokens,     \* bound: tokens of a task
    MaxPolls,      \* bound: polls
    RecentMax,     \* maxlen of recent_jobs
    QueueMax,      \* maxsize of a subscriber's queue
    GraceFrames    \* ERROR_GRACE_FRAMES

ASSUME MetricsAssumption ==
    /\ IsFiniteSet(SlotIds)
    /\ {MaxTasks, MaxTokens, MaxPolls, RecentMax, QueueMax, GraceFrames} \subseteq Nat

VARIABLES
    work,       \* llama-server: the task of each slot, 0 for none, and its tokens
    tasks,      \* llama-server: the tokens of every task so far
    total,      \* llama-server: tokens_predicted_total
    poll,       \* the poll in progress
    polls,      \* the number of polls
    frames,     \* the last frame, or none: the ring buffer beyond it is not read
    errors,     \* consecutive_errors
    activeJobs, \* active_jobs
    recentJobs, \* recent_jobs
    inbox,      \* the number of frames in a subscriber's queue
    credited,   \* tokens of each task that the slots have put in a rate (history)
    counted,    \* tokens that the counter has put in a rate since the last lapse (history)
    lapse,      \* the last poll that went wrong: what was credited by then, and its
                \* counter (history)
    overtaken,  \* whether a task ended after the counter was read, but before the
                \* slots of this poll were (history)
    split       \* the tasks that had a record when the slots could not be read (history)

metricsVars == <<work, tasks, total, poll, polls, frames, errors, activeJobs, recentJobs,
                 inbox, credited, counted, lapse, overtaken, split>>

Tokens == 0..MaxTokens
TaskIds == 1..MaxTasks
NoTaskId == 0

\* SlotState: a slot that is not processing has no task here.
SlotState == [task : TaskIds \union {NoTaskId}, n : Tokens]
IdleSlot == [task |-> NoTaskId, n |-> 0]

\* JobRecord: its key, tokens_decoded, and the baseline of its average rate.
JobRecord == [slot : SlotIds, task : TaskIds, tokens : Tokens, baseline : Tokens, begun : BOOLEAN]

NoRead == [is |-> "pending"]
Failed == [is |-> "failed"]
NoPoll == [slots |-> Failed, prom |-> Failed]

MetricsInit ==
    /\ work = [s \in SlotIds |-> IdleSlot]
    /\ tasks = <<>>
    /\ total = 0
    /\ poll = NoPoll /\ polls = 0
    /\ frames = <<>>
    /\ errors = 0
    /\ activeJobs = {} /\ recentJobs = <<>>
    /\ inbox = 0
    /\ credited = [t \in TaskIds |-> 0] /\ counted = 0
    /\ lapse = [credited |-> credited, counter |-> 0]
    /\ overtaken = FALSE /\ split = {}

serverSide == <<work, tasks, total>>
history == <<credited, counted, lapse, split>>
clientSide == <<poll, polls, frames, errors, activeJobs, recentJobs, inbox, history>>

-----------------------------------------------------------------------------
(* llama-server *)

TaskBegins(s) ==
    /\ work[s].task = NoTaskId /\ Len(tasks) < MaxTasks
    /\ tasks' = Append(tasks, 0)
    /\ work' = [work EXCEPT ![s] = [task |-> Len(tasks'), n |-> 0]]
    /\ UNCHANGED <<total, clientSide, overtaken>>

Decodes(s) ==
    LET t == work[s].task IN
    /\ t # NoTaskId /\ work[s].n < MaxTokens
    /\ work' = [work EXCEPT ![s].n = @ + 1]
    /\ tasks' = [tasks EXCEPT ![t] = @ + 1]
    /\ UNCHANGED <<total, clientSide, overtaken>>

\* The counter moves only now.
TaskEnds(s) ==
    /\ work[s].task # NoTaskId
    /\ work' = [work EXCEPT ![s] = IdleSlot]
    /\ total' = total + work[s].n
    /\ overtaken' = (overtaken \/ (poll.slots = NoRead /\ poll.prom.is = "read"))
    /\ UNCHANGED <<tasks, clientSide>>

-----------------------------------------------------------------------------
(* A poll *)

Polling == poll # NoPoll

PollBegins ==
    /\ ~Polling /\ polls < MaxPolls
    /\ poll' = [slots |-> NoRead, prom |-> NoRead]
    /\ polls' = polls + 1
    /\ UNCHANGED <<serverSide, frames, errors, activeJobs, recentJobs, inbox, history, overtaken>>

SlotsRead(ok) ==
    /\ poll.slots = NoRead
    /\ poll' = [poll EXCEPT !.slots = IF ok THEN [is |-> "read", value |-> work] ELSE Failed]
    /\ UNCHANGED <<serverSide, polls, frames, errors, activeJobs, recentJobs, inbox, history, overtaken>>

CountersRead(ok) ==
    /\ poll.prom = NoRead
    /\ poll' = [poll EXCEPT !.prom = IF ok THEN [is |-> "read", value |-> total] ELSE Failed]
    /\ UNCHANGED <<serverSide, polls, frames, errors, activeJobs, recentJobs, inbox, history, overtaken>>

\* Slots that could not be read are none, and counters that could not are 0.
Slots(read) == IF read.is = "read" THEN read.value ELSE [s \in {} |-> IdleSlot]
Counter(read) == IF read.is = "read" THEN read.value ELSE 0

Busy(slots) == {s \in DOMAIN slots : slots[s].task # NoTaskId}

\* The slots whose progress counts: the same task was there in the last frame.
Counted(prev, slots) ==
    {s \in Busy(prev) \intersect Busy(slots) : prev[s].task = slots[s].task /\ slots[s].n >= prev[s].n}

Progress(prev, slots, among) == MapThenSumSet(LAMBDA s : slots[s].n - prev[s].n, among)

NoRate == [by |-> "none", tokens |-> 0]

\* Mutant: the counter is used whenever no slot has made progress.
RateAtBoundary(prev, slots, prom) ==
    IF Counted(prev.slots, slots) # {}
    THEN [by |-> "slots", tokens |-> Progress(prev.slots, slots, Counted(prev.slots, slots))]
    ELSE IF prom.is = "read" /\ Counter(prom) > prev.counter
    THEN [by |-> "counter", tokens |-> Counter(prom) - prev.counter]
    ELSE NoRate

\* The rate of a frame, in tokens: from the slots, else, where no slot is or was
\* busy, from the counter.
Rate(prev, slots, prom) ==
    IF Counted(prev.slots, slots) # {}
    THEN [by |-> "slots", tokens |-> Progress(prev.slots, slots, Counted(prev.slots, slots))]
    ELSE IF Busy(prev.slots) \union Busy(slots) = {} /\ prom.is = "read" /\ Counter(prom) > prev.counter
    THEN [by |-> "counter", tokens |-> Counter(prom) - prev.counter]
    ELSE NoRate

JobsOf(s, task) == {j \in activeJobs : j.slot = s /\ j.task = task}

\* The record of a busy slot: a new one, or the one it has, brought up to date.
JobOf(s, slots) ==
    LET n == slots[s].n
        old == JobsOf(s, slots[s].task) IN
    IF old = {}
    THEN [slot |-> s, task |-> slots[s].task, tokens |-> n, baseline |-> n, begun |-> n > 0]
    ELSE LET j == CHOOSE j \in old : TRUE IN
         [j EXCEPT !.tokens = IF n > @ THEN n ELSE @,
                   !.baseline = IF ~j.begun THEN n ELSE @,
                   !.begun = j.begun \/ n > 0]

\* The records whose slot is idle, has another task, or was not read.
Finished(slots) == {j \in activeJobs : j.slot \notin Busy(slots) \/ slots[j.slot].task # j.task}

Kept(seq, max) == IF Len(seq) <= max THEN seq ELSE SubSeq(seq, Len(seq) - max + 1, Len(seq))

\* Both reads are there: the frame is made, stored and sent.  "soon": the last
\* one is less than MIN_DT_FOR_RATE old.
FrameMade(soon) ==
    LET slots == Slots(poll.slots)
        rate == IF frames = <<>> \/ soon THEN NoRate ELSE Rate(frames[1], slots, poll.prom)
        failed == Failed \in {poll.slots, poll.prom} IN
    /\ Polling /\ NoRead \notin {poll.slots, poll.prom}
    /\ frames' = <<[slots |-> slots, counter |-> Counter(poll.prom), rate |-> rate,
                    error |-> failed /\ errors + 1 >= GraceFrames]>>
    /\ errors' = IF ~failed THEN 0 ELSE IF errors < GraceFrames THEN errors + 1 ELSE errors
    /\ activeJobs' = {JobOf(s, slots) : s \in Busy(slots)}
    /\ recentJobs' = Kept(recentJobs \o SetToSeq(Finished(slots)), RecentMax)
    /\ inbox' = IF inbox < QueueMax THEN inbox + 1 ELSE inbox
    /\ credited' = [t \in TaskIds |->
                       IF rate.by # "slots" THEN credited[t]
                       ELSE credited[t] + Progress(frames[1].slots, slots,
                              {s \in Counted(frames[1].slots, slots) : slots[s].task = t})]
    /\ IF failed \/ overtaken
       THEN lapse' = [credited |-> credited', counter |-> Counter(poll.prom)] /\ counted' = 0
       ELSE counted' = counted + (IF rate.by = "counter" THEN rate.tokens ELSE 0) /\ UNCHANGED lapse
    /\ split' = split \union IF poll.slots = Failed THEN {j.task : j \in activeJobs} ELSE {}
    /\ overtaken' = FALSE
    /\ poll' = NoPoll
    /\ UNCHANGED <<serverSide, polls>>

\* stream(): a subscriber takes a frame.
FrameTaken ==
    /\ inbox > 0
    /\ inbox' = inbox - 1
    /\ UNCHANGED <<serverSide, poll, polls, frames, errors, activeJobs, recentJobs, history, overtaken>>

MetricsNext ==
    \/ \E s \in SlotIds : TaskBegins(s) \/ Decodes(s) \/ TaskEnds(s)
    \/ PollBegins \/ FrameTaken
    \/ \E b \in BOOLEAN : SlotsRead(b) \/ CountersRead(b) \/ FrameMade(b)

MetricsSpec == MetricsInit /\ [][MetricsNext]_metricsVars

-----------------------------------------------------------------------------
(* Properties *)

MetricsTypeOK ==
    /\ work \in [SlotIds -> SlotState]
    /\ tasks \in Seq(Tokens) /\ Len(tasks) <= MaxTasks
    /\ total \in Nat /\ polls \in 0..MaxPolls /\ counted \in Nat
    /\ errors \in 0..GraceFrames
    /\ activeJobs \subseteq JobRecord
    /\ recentJobs \in Seq(JobRecord) /\ Len(recentJobs) <= RecentMax
    /\ inbox \in 0..QueueMax
    /\ overtaken \in BOOLEAN /\ split \subseteq TaskIds

\* What the slots have put in rates since the last lapse.
SinceLapse == [t \in TaskIds |-> credited[t] - lapse.credited[t]]

\* No token is in two rates.  The progress of a slot never counts more than its
\* task has got, whichever reads fail.  With the counter it counts no token
\* twice from one lapse to the next, and none that the counter of the lapse had:
\* after a lapse it may repeat what was counted before, and only that.
RatesAreEarned ==
    /\ \A t \in TaskIds : credited[t] <= IF t <= Len(tasks) THEN tasks[t] ELSE 0
    /\ MapThenSumSet(LAMBDA t : SinceLapse[t], TaskIds) + counted
           <= FoldSeq(+, 0, tasks) - lapse.counter

\* A record stands for one task, and says no more of it than is true; a task has
\* two records only if it had one when the slots could not be read.
RecordsAreTrue ==
    LET records == activeJobs \union ToSet(recentJobs) IN
    /\ \A j \in records : j.baseline <= j.tokens /\ j.tokens <= tasks[j.task]
    /\ \A i, k \in DOMAIN recentJobs : i # k =>
           recentJobs[i].task # recentJobs[k].task \/ recentJobs[i].task \in split
    /\ \A j \in activeJobs : j.task \in split \/ ~\E i \in DOMAIN recentJobs : recentJobs[i].task = j.task

MetricsAreEarned == RatesAreEarned /\ RecordsAreTrue

=============================================================================
