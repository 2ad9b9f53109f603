------------------------- MODULE HfDownloadsProofs -------------------------
(***************************************************************************)
(* Safety of HfDownloads for any jobs, files, directories, clients, limits *)
(* and events.  NoLimbo says which jobs have a coroutine; that two of them *)
(* never share a file needs, beyond it, that two unfinished jobs never     *)
(* have one target (UniqueUnfinished), for a job that is paused or failed  *)
(* may be resumed; and what a restart restores needs that the database has *)
(* the state of each job (RowIsJob).                                       *)
(*                                                                         *)
(* Most actions touch one listed job: they are JobSteps, and JobStepKeeps  *)
(* shows once that a JobStep keeps the invariant.                          *)
(***************************************************************************)
EXTENDS HfDownloads, TLAPS

-----------------------------------------------------------------------------
(* What the operations on the table do: remove, keep the newest, append *)

\* RemoveAt() drops the i-th element and moves the later ones up.
LEMMA RemoveAtElements ==
    ASSUME NEW S, NEW s \in Seq(S), NEW i \in 1 .. Len(s)
    PROVE  /\ RemoveAt(s, i) \in Seq(S)
           /\ Len(RemoveAt(s, i)) = Len(s) - 1
           /\ \A k \in 1 .. Len(s) - 1 :
                 RemoveAt(s, i)[k] = IF k < i THEN s[k] ELSE s[k + 1]
<1> DEFINE front == SubSeq(s, 1, i - 1)
           back == SubSeq(s, i + 1, Len(s))
<1>1. /\ front \in Seq(S) /\ Len(front) = i - 1
      /\ \A k \in 1 .. i - 1 : front[k] = s[k]
  OBVIOUS
<1>2. /\ back \in Seq(S) /\ Len(back) = Len(s) - i
      /\ \A k \in 1 .. Len(s) - i : back[k] = s[k + i]
  OBVIOUS
<1> HIDE DEF front, back
<1>0. Len(s) \in Nat /\ i \in 1 .. Len(s)
  OBVIOUS
<1>3. front \o back \in Seq(S)
  BY <1>1, <1>2
<1>4. Len(front \o back) = Len(s) - 1
  BY <1>0, <1>1, <1>2
<1>5. ASSUME NEW k \in 1 .. Len(s) - 1
      PROVE  (front \o back)[k] = IF k < i THEN s[k] ELSE s[k + 1]
  <2>1. (front \o back)[k] = IF k <= Len(front) THEN front[k] ELSE back[k - Len(front)]
    BY <1>0, <1>1, <1>2
  <2>2. CASE k < i
    BY <1>0, <1>1, <2>1, <2>2
  <2>3. CASE k >= i
    <3>1. k - (i - 1) \in 1 .. Len(s) - i /\ ~(k <= Len(front)) /\ k - (i - 1) + i = k + 1
      BY <1>0, <1>1, <2>3
    <3> QED BY <1>0, <1>1, <1>2, <2>1, <2>3, <3>1
  <2>4. k < i \/ k >= i
    BY <1>0
  <2> QED BY <2>2, <2>3, <2>4
<1>6. RemoveAt(s, i) = front \o back
  BY DEF RemoveAt, front, back
<1> QED BY <1>3, <1>4, <1>5, <1>6

\* remove() takes one job out of the table, and only that one.
LEMMA RemoveAtListed ==
    ASSUME jobs \in Seq(Jobs), IsInjective(jobs), NEW i \in DOMAIN jobs
    PROVE  /\ RemoveAt(jobs, i) \in Seq(Jobs) /\ IsInjective(RemoveAt(jobs, i))
           /\ \A k \in Jobs : Contains(RemoveAt(jobs, i), k) <=> Listed(k) /\ k # jobs[i]
<1> DEFINE t == RemoveAt(jobs, i)
           n == Len(jobs)
<1>0. n \in Nat /\ i \in 1 .. n /\ \A a, b \in 1 .. n : jobs[a] = jobs[b] => a = b
  BY DEF IsInjective
<1>1. /\ t \in Seq(Jobs) /\ Len(t) = n - 1
      /\ \A k \in 1 .. n - 1 : t[k] = IF k < i THEN jobs[k] ELSE jobs[k + 1]
  <2>1. i \in 1 .. Len(jobs)
    OBVIOUS
  <2> QED BY <2>1, RemoveAtElements
<1> HIDE DEF t, n
<1>4. DOMAIN t = 1 .. n - 1
  BY <1>1
<1> DEFINE from(k) == IF k < i THEN k ELSE k + 1
<1>5. \A k \in 1 .. n - 1 : from(k) \in 1 .. n /\ from(k) # i /\ t[k] = jobs[from(k)]
  BY <1>0, <1>1
<1>6. \A a, b \in 1 .. n - 1 : from(a) = from(b) => a = b
  BY <1>0
<1> HIDE DEF from
<1>2. IsInjective(t)
  BY <1>0, <1>4, <1>5, <1>6 DEF IsInjective
<1>3. ASSUME NEW k \in Jobs PROVE Contains(t, k) <=> Listed(k) /\ k # jobs[i]
  <2>1. CASE Contains(t, k)
    <3>1. PICK a \in 1 .. n - 1 : t[a] = k
      BY <1>1, <2>1 DEF Contains
    <3> QED BY <1>0, <1>5, <2>1, <3>1 DEF Listed, Contains, n
  <2>2. ASSUME Listed(k), k # jobs[i] PROVE Contains(t, k)
    <3>1. PICK b \in 1 .. n : jobs[b] = k
      BY <2>2 DEF Listed, Contains, n
    <3>2. b # i
      BY <2>2, <3>1
    <3>3. CASE b < i
      BY <1>0, <1>1, <3>1, <3>3 DEF Contains
    <3>4. CASE b > i
      <4>1. b - 1 \in 1 .. n - 1 /\ t[b - 1] = k
        BY <1>0, <1>1, <3>1, <3>4
      <4> QED BY <1>1, <4>1 DEF Contains
    <3> QED BY <1>0, <3>2, <3>3, <3>4
  <2> QED BY <2>1, <2>2
<1> QED BY <1>1, <1>2, <1>3 DEF t

\* A suffix of the table has no job that was not in it, and none twice.
LEMMA SuffixListed ==
    ASSUME jobs \in Seq(Jobs), IsInjective(jobs), NEW a \in 1 .. Len(jobs) + 1
    PROVE  /\ SubSeq(jobs, a, Len(jobs)) \in Seq(Jobs)
           /\ IsInjective(SubSeq(jobs, a, Len(jobs)))
           /\ \A k \in Jobs : Contains(SubSeq(jobs, a, Len(jobs)), k) => Listed(k)
<1> DEFINE t == SubSeq(jobs, a, Len(jobs))
           n == Len(jobs)
<1>0. n \in Nat /\ a \in 1 .. n + 1 /\ \A b, c \in 1 .. n : jobs[b] = jobs[c] => b = c
  BY DEF IsInjective
<1>1. /\ t \in Seq(Jobs) /\ Len(t) = n - a + 1 /\ DOMAIN t = 1 .. n - a + 1
      /\ \A k \in 1 .. n - a + 1 : t[k] = jobs[k + a - 1]
  OBVIOUS
<1> HIDE DEF t
<1>2. IsInjective(t)
  <2> HIDE DEF n
  <2>1. ASSUME NEW b \in 1 .. n - a + 1, NEW c \in 1 .. n - a + 1, t[b] = t[c]
        PROVE  b = c
    <3>1. b + a - 1 \in 1 .. n /\ c + a - 1 \in 1 .. n
      BY <1>0
    <3>2. b + a - 1 = c + a - 1
      BY <1>0, <1>1, <2>1, <3>1
    <3> QED BY <1>0, <3>2
  <2> QED BY <1>1, <2>1 DEF IsInjective
<1>3. ASSUME NEW k \in Jobs, Contains(t, k) PROVE Listed(k)
  <2>1. PICK b \in 1 .. n - a + 1 : t[b] = k
    BY <1>0, <1>1, <1>3 DEF Contains
  <2>2. b + a - 1 \in 1 .. n /\ jobs[b + a - 1] = k
    BY <1>0, <1>1, <2>1
  <2> QED BY <2>2 DEF Listed, Contains
<1> QED BY <1>1, <1>2, <1>3 DEF t

\* A restart forgets jobs, and neither invents nor doubles one.
LEMMA KeptListed ==
    ASSUME jobs \in Seq(Jobs), IsInjective(jobs), NEW max \in Nat \ {0}
    PROVE  /\ Kept(max) \in Seq(Jobs) /\ IsInjective(Kept(max))
           /\ \A k \in Jobs : Contains(Kept(max), k) => Listed(k)
<1> DEFINE a == IF Len(jobs) > max THEN Len(jobs) - max + 1 ELSE 1
<1>1. a \in 1 .. Len(jobs) + 1
  OBVIOUS
<1> HIDE DEF a
<1> QED BY <1>1, SuffixListed DEF Kept, a
-----------------------------------------------------------------------------

(* The invariant *)

\* What is persisted of the job o.
RowOf(o) == [status |-> o.status, http |-> o.http]

\* The database has the state of every job of the table.
RowIsJob == \A j \in Jobs : Listed(j) => row[j] = RowOf(job[j])

Unfinished(j) == job[j].status # "done"

SameTarget(j, k) == job[j].file = job[k].file /\ job[j].dir = job[k].dir

\* Two jobs that run, or may be resumed, never have the same target.
UniqueUnfinished ==
    \A j, k \in Jobs :
        /\ Listed(j) /\ Listed(k) /\ Unfinished(j) /\ Unfinished(k)
        /\ SameTarget(j, k)
        => j = k

\* The inductive invariant.
IInv == TypeOK /\ NoLimbo /\ RowIsJob /\ UniqueUnfinished

-----------------------------------------------------------------------------

(* Steps of one job *)

\* A step that touches the listed job j alone, and leaves it with a coroutine
\* exactly if it is active, with its row, and done if it was done.
JobStep(j) ==
    /\ jobs' = jobs
    /\ \A k \in Jobs : k # j => /\ job'[k] = job[k] /\ row'[k] = row[k]
                                /\ work'[k].at = work[k].at
    /\ job'[j].file = job[j].file /\ job'[j].dir = job[j].dir
    /\ job'[j].status # "done" => job[j].status # "done"
    /\ row'[j] = RowOf(job'[j])
    /\ work'[j].at = "none" <=> job'[j].status \in Settled

\* Such a step keeps the invariant.
LEMMA JobStepKeeps ==
    ASSUME IInv, TypeOK', NEW j \in Jobs, Listed(j), JobStep(j)
    PROVE  IInv'
<1>0. \A k \in Jobs : Listed(k)' <=> Listed(k)
  BY DEF JobStep, Listed
<1>1. NoLimbo'
  <2>1. job'[j].status \in Status
    BY DEF TypeOK, DownloadJob
  <2>2. \A k \in Jobs : k # j => (Active(k)' <=> Active(k)) /\ (At(k, "none")' <=> At(k, "none"))
    BY DEF JobStep, Active, At
  <2>3. At(j, "none")' <=> ~ Active(j)'
    BY <2>1 DEF JobStep, Active, At, Status, Settled
  <2> QED BY <1>0, <2>2, <2>3 DEF IInv, NoLimbo
<1>2. RowIsJob'
  BY <1>0 DEF IInv, RowIsJob, JobStep, RowOf
<1>3. UniqueUnfinished'
  BY <1>0 DEF IInv, UniqueUnfinished, JobStep, Unfinished, SameTarget
<1> QED BY <1>1, <1>2, <1>3 DEF IInv

\* A job with a coroutine is listed, active and persisted.
LEMMA WorkingJobs ==
    ASSUME IInv, NEW j \in Jobs, ~At(j, "none")
    PROVE  Listed(j) /\ Active(j) /\ row[j] = RowOf(job[j])
BY DEF IInv, NoLimbo, RowIsJob

\* _publish() keeps the streams' type.
LEMMA PublishedType ==
    ASSUME TypeOK, NEW j
    PROVE  Published(j) \in [Streams -> [on : Jobs \union {NoJob}, news : BOOLEAN]]
BY DEF TypeOK, Published

\* A coroutine or thread that goes on touches no other job's.
LEMMA GoesType ==
    ASSUME TypeOK, NEW j \in Jobs, NEW place \in Places, Goes(j, place)
    PROVE  /\ work' \in [Jobs -> Work] /\ work'[j].at = place
           /\ \A k \in Jobs : k # j => work'[k] = work[k]
BY DEF TypeOK, Goes, Work

\* An assignment to a job followed by _persist() touches no other job.
LEMMA SaveType ==
    ASSUME TypeOK, NEW j \in Jobs, NEW o \in DownloadJob,
           job' = [job EXCEPT ![j] = o], row' = Persisted(j, o)
    PROVE  /\ job' \in [Jobs -> DownloadJob] /\ row' \in [Jobs -> Row]
           /\ job'[j] = o /\ row'[j] = RowOf(o)
           /\ \A k \in Jobs : k # j => job'[k] = job[k] /\ row'[k] = row[k]
BY DEF TypeOK, Persisted, RowOf, Row, DownloadJob

-----------------------------------------------------------------------------

(* The users' calls *)

\* resume() keeps the invariant.
LEMMA ResumeKeeps == ASSUME IInv, NEW j \in Jobs, Resume(j) PROVE IInv'
<1> DEFINE o == [job[j] EXCEPT !.status = "queued", !.signal = FALSE]
<1>1. job[j] \in DownloadJob
  BY DEF IInv, TypeOK
<1>2. o \in DownloadJob /\ o.file = job[j].file /\ o.dir = job[j].dir /\ o.status = "queued"
  BY <1>1 DEF DownloadJob, Status
<1>3. job' = [job EXCEPT ![j] = o] /\ row' = Persisted(j, o)
  BY DEF Resume
<1> HIDE DEF o
<1>4. /\ job' \in [Jobs -> DownloadJob] /\ row' \in [Jobs -> Row]
      /\ job'[j] = o /\ row'[j] = RowOf(o)
      /\ \A k \in Jobs : k # j => job'[k] = job[k] /\ row'[k] = row[k]
  BY <1>2, <1>3, SaveType DEF IInv
<1>5. /\ work' \in [Jobs -> Work] /\ work'[j].at = "scheduled"
      /\ \A k \in Jobs : k # j => work'[k] = work[k]
  BY GoesType DEF Resume, IInv, Places
<1>6. TypeOK'
  BY <1>4, <1>5 DEF Resume, IInv, TypeOK
<1>7. Listed(j) /\ JobStep(j)
  BY <1>2, <1>4, <1>5 DEF Resume, Resumable, JobStep, Settled
<1> QED BY <1>6, <1>7, JobStepKeeps

\* pause() keeps it: the signal is not persisted.
LEMMA PauseKeeps == ASSUME IInv, NEW j \in Jobs, Pause(j) PROVE IInv'
<1>1. job[j] \in DownloadJob
  BY DEF IInv, TypeOK
<1>2. /\ job' \in [Jobs -> DownloadJob]
      /\ \A k \in Jobs : k # j => job'[k] = job[k]
      /\ job'[j] = [job[j] EXCEPT !.signal = TRUE]
  BY <1>1 DEF Pause, IInv, TypeOK, DownloadJob
<1>3. /\ job'[j].file = job[j].file /\ job'[j].dir = job[j].dir
      /\ job'[j].status = job[j].status /\ job'[j].http = job[j].http
  BY <1>1, <1>2 DEF DownloadJob
<1>4. TypeOK'
  BY <1>2 DEF Pause, IInv, TypeOK
<1>5. Listed(j) /\ ~At(j, "none") /\ row[j] = RowOf(job[j])
  BY DEF Pause, IInv, NoLimbo, RowIsJob
<1>6. JobStep(j)
  BY <1>2, <1>3, <1>5 DEF Pause, JobStep, RowOf, Active, At, Settled
<1> QED BY <1>4, <1>5, <1>6, JobStepKeeps

\* remove() keeps it: it takes no active job.
LEMMA RemoveJobKeeps == ASSUME IInv, NEW j \in Jobs, RemoveJob(j) PROVE IInv'
<1>1. jobs \in Seq(Jobs) /\ IsInjective(jobs)
  BY DEF IInv, TypeOK
<1>2. PICK i \in DOMAIN jobs : jobs[i] = j /\ jobs' = RemoveAt(jobs, i)
  BY DEF RemoveJob
<1>3. /\ jobs' \in Seq(Jobs) /\ IsInjective(jobs')
      /\ \A k \in Jobs : Contains(jobs', k) <=> Listed(k) /\ k # j
  BY <1>1, <1>2, RemoveAtListed
<1>4. \A k \in Jobs : Listed(k)' <=> Listed(k) /\ k # j
  BY <1>3 DEF Listed
<1>5. TypeOK'
  BY <1>3 DEF RemoveJob, IInv, TypeOK, NoRow, Row
<1>6. NoLimbo'
  BY <1>4 DEF RemoveJob, IInv, NoLimbo, At, Active
<1>7. RowIsJob'
  BY <1>4 DEF RemoveJob, IInv, RowIsJob, TypeOK
<1>8. UniqueUnfinished'
  BY <1>4 DEF RemoveJob, IInv, UniqueUnfinished, Unfinished, SameTarget
<1> QED BY <1>5, <1>6, <1>7, <1>8 DEF IInv

\* A new job is in the table, beside the ones that were.
LEMMA AppendListed ==
    ASSUME jobs \in Seq(Jobs), IsInjective(jobs), NEW j \in Jobs, ~Listed(j)
    PROVE  /\ Append(jobs, j) \in Seq(Jobs) /\ IsInjective(Append(jobs, j))
           /\ \A k \in Jobs : Contains(Append(jobs, j), k) <=> Listed(k) \/ k = j
BY DEF Listed, Contains, IsInjective

\* A new job keeps it if no job of the table answers the request.
LEMMA NewJobKeeps ==
    ASSUME IInv, NEW f \in Files, NEW d \in Dirs, NewJob(f, d),
           \A i \in DOMAIN jobs : ~Matches(jobs[i], f, d)
    PROVE  IInv'
<1> DEFINE o == [file |-> f, dir |-> d, status |-> "queued",
                 http |-> FALSE, signal |-> FALSE]
<1>1. PICK j \in Jobs :
         /\ Unused(j)
         /\ jobs' = Append(jobs, j)
         /\ job' = [job EXCEPT ![j] = o]
         /\ row' = Persisted(j, o)
         /\ Goes(j, "scheduled")
         /\ UNCHANGED <<disk, queues, stream>>
  BY DEF NewJob
<1>2. o \in DownloadJob /\ o.file = f /\ o.dir = d /\ o.status = "queued"
  BY DEF DownloadJob, Status
<1> HIDE DEF o
<1>3. jobs \in Seq(Jobs) /\ IsInjective(jobs) /\ ~Listed(j)
  BY <1>1 DEF IInv, TypeOK, Unused
<1>4. /\ jobs' \in Seq(Jobs) /\ IsInjective(jobs')
      /\ \A k \in Jobs : Listed(k)' <=> Listed(k) \/ k = j
  BY <1>1, <1>3, AppendListed DEF Listed
<1>5. /\ job' \in [Jobs -> DownloadJob] /\ row' \in [Jobs -> Row]
      /\ job'[j] = o /\ row'[j] = RowOf(o)
      /\ \A k \in Jobs : k # j => job'[k] = job[k] /\ row'[k] = row[k]
  BY <1>1, <1>2, SaveType DEF IInv
<1>6. /\ work' \in [Jobs -> Work] /\ work'[j].at = "scheduled"
      /\ \A k \in Jobs : k # j => work'[k] = work[k]
  BY <1>1, GoesType DEF IInv, Places
<1>7. TypeOK'
  BY <1>1, <1>4, <1>5, <1>6 DEF IInv, TypeOK
<1>8. NoLimbo'
  BY <1>2, <1>4, <1>5, <1>6 DEF IInv, NoLimbo, At, Active
<1>9. RowIsJob'
  BY <1>4, <1>5 DEF IInv, RowIsJob
<1>10. ASSUME NEW k \in Jobs, Listed(k), Unfinished(k) PROVE ~(job[k].file = f /\ job[k].dir = d)
  <2>1. PICK i \in DOMAIN jobs : jobs[i] = k
    BY <1>3, <1>10 DEF Listed, Contains
  <2>2. ~Matches(k, f, d)
    BY <2>1
  <2>3. job[k].status \in Status
    BY DEF IInv, TypeOK, DownloadJob
  <2> QED BY <1>10, <2>2, <2>3 DEF Matches, Unfinished, Active, Resumable, Status, Settled
<1>11. UniqueUnfinished'
  BY <1>2, <1>4, <1>5, <1>10 DEF IInv, UniqueUnfinished, Unfinished, SameTarget
<1> QED BY <1>7, <1>8, <1>9, <1>11 DEF IInv

\* enqueue() makes a new job only then.
LEMMA EnqueueKeeps ==
    ASSUME IInv, NEW f \in Files, NEW d \in Dirs, Enqueue(f, d) PROVE IInv'
<1> DEFINE found == {i \in DOMAIN jobs : Matches(jobs[i], f, d)}
<1>1. CASE found = {} /\ NewJob(f, d)
  BY <1>1, NewJobKeeps
<1>2. ASSUME NEW i \in found, Resume(jobs[i]) PROVE IInv'
  <2>1. jobs[i] \in Jobs
    BY DEF IInv, TypeOK
  <2> QED BY <1>2, <2>1, ResumeKeeps
<1> QED BY <1>1, <1>2 DEF Enqueue

-----------------------------------------------------------------------------

(* The clients *)

\* What only touches queues and streams keeps the invariant.
LEMMA ClientStepKeeps ==
    ASSUME IInv, UNCHANGED <<jobs, job, row, work, disk>>,
           queues' \in [Jobs -> Streams \union {NoStream}],
           stream' \in [Streams -> [on : Jobs \union {NoJob}, news : BOOLEAN]]
    PROVE  IInv'
<1>1. TypeOK'
  BY DEF IInv, TypeOK
<1>2. NoLimbo' /\ RowIsJob' /\ UniqueUnfinished'
  BY DEF IInv, NoLimbo, RowIsJob, UniqueUnfinished, Listed, At, Active,
         Unfinished, SameTarget
<1> QED BY <1>1, <1>2 DEF IInv

\* So do the clients' calls.
LEMMA StreamsKeep ==
    ASSUME IInv, NEW s \in Streams,
           StreamReads(s) \/ ClientLeaves(s) \/ \E j \in Jobs : Subscribe(s, j)
    PROVE  IInv'
<1>1. /\ UNCHANGED <<jobs, job, row, work, disk>>
      /\ queues \in [Jobs -> Streams \union {NoStream}]
      /\ stream \in [Streams -> [on : Jobs \union {NoJob}, news : BOOLEAN]]
  BY DEF StreamReads, ClientLeaves, Subscribe, IInv, TypeOK
<1>2. queues' \in [Jobs -> Streams \union {NoStream}]
  BY <1>1 DEF StreamReads, ClientLeaves, Subscribe, Close
<1>3. stream' \in [Streams -> [on : Jobs \union {NoJob}, news : BOOLEAN]]
  <2>1. PICK o \in [on : Jobs \union {NoJob}, news : BOOLEAN] :
           stream' = [stream EXCEPT ![s] = o]
    <3>1. CASE StreamReads(s) /\ Active(stream[s].on)
      <4>1. [stream[s] EXCEPT !.news = FALSE] \in [on : Jobs \union {NoJob}, news : BOOLEAN]
        BY <1>1
      <4> QED BY <3>1, <4>1 DEF StreamReads
    <3>2. CASE ClientLeaves(s) \/ (StreamReads(s) /\ ~Active(stream[s].on))
      BY <3>2 DEF StreamReads, ClientLeaves, Close
    <3>3. CASE \E j \in Jobs : Subscribe(s, j)
      BY <3>3 DEF Subscribe
    <3> QED BY <3>1, <3>2, <3>3
  <2> QED BY <1>1, <2>1
<1> QED BY <1>1, <1>2, <1>3, ClientStepKeeps

-----------------------------------------------------------------------------

(* The coroutine and the thread *)

\* A coroutine that ends its job keeps the invariant.
LEMMA SettleKeeps ==
    ASSUME IInv, NEW j \in Jobs, ~At(j, "none"), NEW status \in Settled,
           Settle(j, status), UNCHANGED <<jobs, disk, queues>>
    PROVE  IInv'
<1> DEFINE o == [job[j] EXCEPT !.status = status]
<1>1. o \in DownloadJob /\ o.file = job[j].file /\ o.dir = job[j].dir /\ o.status = status
  BY DEF IInv, TypeOK, DownloadJob, Status
<1>2. job' = [job EXCEPT ![j] = o] /\ row' = Persisted(j, o)
  BY DEF Settle
<1> HIDE DEF o
<1>3. /\ job' \in [Jobs -> DownloadJob] /\ row' \in [Jobs -> Row]
      /\ job'[j] = o /\ row'[j] = RowOf(o)
      /\ \A k \in Jobs : k # j => job'[k] = job[k] /\ row'[k] = row[k]
  BY <1>1, <1>2, SaveType DEF IInv
<1>4. /\ work' \in [Jobs -> Work] /\ work'[j].at = "none"
      /\ \A k \in Jobs : k # j => work'[k] = work[k]
  BY GoesType DEF Settle, IInv, Places
<1>5. stream' \in [Streams -> [on : Jobs \union {NoJob}, news : BOOLEAN]]
  BY PublishedType DEF Settle, IInv
<1>6. TypeOK'
  BY <1>3, <1>4, <1>5 DEF IInv, TypeOK
<1>7. Listed(j) /\ Active(j)
  BY WorkingJobs
<1>8. JobStep(j)
  BY <1>1, <1>3, <1>4, <1>7 DEF JobStep, Active, Settled
<1> QED BY <1>6, <1>7, <1>8, JobStepKeeps

\* So does _run_job() up to the thread.
LEMMA RunStartsKeeps == ASSUME IInv, NEW j \in Jobs, RunStarts(j) PROVE IInv'
<1> DEFINE o == [job[j] EXCEPT !.status = "in_progress"]
<1>0. ~At(j, "none") /\ UNCHANGED <<jobs, disk, queues>>
  BY DEF RunStarts, At
<1>1. CASE job[j].signal
  <2>1. Settle(j, "paused")
    BY <1>1 DEF RunStarts
  <2> QED BY <1>0, <2>1, SettleKeeps DEF Settled
<1>2. CASE ~job[j].signal
  <2>1. o \in DownloadJob /\ o.file = job[j].file /\ o.dir = job[j].dir
        /\ o.status = "in_progress"
    BY DEF IInv, TypeOK, DownloadJob, Status
  <2>2. job' = [job EXCEPT ![j] = o] /\ row' = Persisted(j, o)
        /\ stream' = Published(j) /\ Goes(j, "starting")
    BY <1>2 DEF RunStarts
  <2> HIDE DEF o
  <2>3. /\ job' \in [Jobs -> DownloadJob] /\ row' \in [Jobs -> Row]
        /\ job'[j] = o /\ row'[j] = RowOf(o)
        /\ \A k \in Jobs : k # j => job'[k] = job[k] /\ row'[k] = row[k]
    BY <2>1, <2>2, SaveType DEF IInv
  <2>4. /\ work' \in [Jobs -> Work] /\ work'[j].at = "starting"
        /\ \A k \in Jobs : k # j => work'[k] = work[k]
    BY <2>2, GoesType DEF IInv, Places
  <2>5. TypeOK'
    BY <1>0, <2>2, <2>3, <2>4, PublishedType DEF IInv, TypeOK
  <2>6. Listed(j) /\ Active(j)
    BY <1>0, WorkingJobs
  <2>7. JobStep(j)
    BY <1>0, <2>1, <2>3, <2>4, <2>6 DEF JobStep, Active, Settled
  <2> QED BY <2>5, <2>6, <2>7, JobStepKeeps
<1> QED BY <1>1, <1>2

\* And after it.
LEMMA RunEndsKeeps == ASSUME IInv, NEW j \in Jobs, RunEnds(j) PROVE IInv'
<1>1. ~At(j, "none") /\ UNCHANGED <<jobs, disk, queues>>
  BY DEF RunEnds, At
<1>2. PICK status \in Settled : Settle(j, status)
  BY DEF RunEnds, Settled
<1> QED BY <1>1, <1>2, SettleKeeps

-----------------------------------------------------------------------------

\* The first attempt, which deletes partial files, keeps it.
LEMMA DownloadStartsKeeps == ASSUME IInv, NEW j \in Jobs, DownloadStarts(j) PROVE IInv'
<1> DEFINE o == [job[j] EXCEPT !.http = TRUE]
<1>0. /\ ~At(j, "none") /\ UNCHANGED <<jobs, queues, stream>>
      /\ Listed(j) /\ Active(j) /\ row[j] = RowOf(job[j])
  BY WorkingJobs DEF DownloadStarts, At
<1>1. CASE job[j].http
  <2>1. Goes(j, "probing") /\ UNCHANGED <<job, row, disk>>
    BY <1>1 DEF DownloadStarts
  <2>2. /\ work' \in [Jobs -> Work] /\ work'[j].at = "probing"
        /\ \A k \in Jobs : k # j => work'[k] = work[k]
    BY <2>1, GoesType DEF IInv, Places
  <2>3. TypeOK'
    BY <1>0, <2>1, <2>2 DEF IInv, TypeOK
  <2>4. JobStep(j)
    BY <1>0, <2>1, <2>2 DEF JobStep, Active, Settled
  <2> QED BY <1>0, <2>3, <2>4, JobStepKeeps
<1>2. CASE ~job[j].http
  <2>0. Purges(j)
    BY <1>2 DEF DownloadStarts
  <2>1. /\ o \in DownloadJob /\ o.file = job[j].file /\ o.dir = job[j].dir
        /\ o.status = job[j].status
    BY DEF IInv, TypeOK, DownloadJob
  <2>2. job' = [job EXCEPT ![j] = o] /\ row' = Persisted(j, o)
    BY <2>0 DEF Purges
  <2> HIDE DEF o
  <2>3. /\ job' \in [Jobs -> DownloadJob] /\ row' \in [Jobs -> Row]
        /\ job'[j] = o /\ row'[j] = RowOf(o)
        /\ \A k \in Jobs : k # j => job'[k] = job[k] /\ row'[k] = row[k]
    BY <2>1, <2>2, SaveType DEF IInv
  <2>4. /\ work' \in [Jobs -> Work] /\ work'[j].at = "probing"
        /\ \A k \in Jobs : k # j => work'[k].at = work[k].at
    BY <2>0 DEF Purges, IInv, TypeOK, Work, Places
  <2>5. disk' \in [Dirs -> [Files -> {"none", "partial", "complete"}]]
    BY <2>0 DEF Purges, IInv, TypeOK, DownloadJob
  <2>6. TypeOK'
    BY <1>0, <2>3, <2>4, <2>5 DEF IInv, TypeOK
  <2>7. JobStep(j)
    BY <1>0, <2>1, <2>3, <2>4 DEF JobStep, Active, Settled
  <2> QED BY <1>0, <2>6, <2>7, JobStepKeeps
<1> QED BY <1>1, <1>2

\* A thread that goes on from one place to another keeps it.
LEMMA ThreadMoves ==
    ASSUME IInv, NEW j \in Jobs, ~At(j, "none"),
           NEW place \in Places \ {"none"}, Goes(j, place),
           UNCHANGED <<jobs, job, row, queues, stream>>,
           disk' \in [Dirs -> [Files -> {"none", "partial", "complete"}]]
    PROVE  IInv'
<1>1. Listed(j) /\ Active(j) /\ row[j] = RowOf(job[j])
  BY WorkingJobs
<1>2. /\ work' \in [Jobs -> Work] /\ work'[j].at # "none"
      /\ \A k \in Jobs : k # j => work'[k] = work[k]
  BY GoesType DEF IInv
<1>3. TypeOK'
  BY <1>2 DEF IInv, TypeOK
<1>4. JobStep(j)
  BY <1>1, <1>2 DEF JobStep, Active, Settled
<1> QED BY <1>1, <1>3, <1>4, JobStepKeeps

\* Every step of a thread does.
LEMMA ThreadKeeps == ASSUME IInv, NEW j \in Jobs, Thread(j) PROVE IInv'
<1>0. disk \in [Dirs -> [Files -> {"none", "partial", "complete"}]]
  BY DEF IInv, TypeOK
<1>1. CASE DownloadStarts(j)
  BY <1>1, DownloadStartsKeeps
<1>2. CASE DownloadOpens(j)
  <2>1. disk' \in [Dirs -> [Files -> {"none", "partial", "complete"}]]
    BY <1>0, <1>2 DEF DownloadOpens
  <2> QED BY <1>2, <2>1, ThreadMoves DEF DownloadOpens, At, Places
<1>3. CASE DownloadStops(j)
  BY <1>0, <1>3, ThreadMoves DEF DownloadStops, At, Places
<1>4. CASE DownloadProgresses(j)
  <2>1. Listed(j) /\ Active(j) /\ row[j] = RowOf(job[j]) /\ ~At(j, "none")
    BY <1>4, WorkingJobs DEF DownloadProgresses, At
  <2>2. row' = row
    BY <1>4, <2>1 DEF DownloadProgresses, Persisted, RowOf, IInv, TypeOK
  <2>3. TypeOK'
    BY <1>4, <2>2, PublishedType DEF DownloadProgresses, IInv, TypeOK
  <2>4. JobStep(j)
    BY <1>4, <2>1, <2>2 DEF DownloadProgresses, JobStep, Active, At, Settled
  <2> QED BY <2>1, <2>3, <2>4, JobStepKeeps
<1>5. CASE DownloadEnds(j)
  <2>1. disk' \in [Dirs -> [Files -> {"none", "partial", "complete"}]]
    BY <1>0, <1>5 DEF DownloadEnds
  <2>2. Goes(j, "broken") \/ Goes(j, "finished")
    BY <1>5 DEF DownloadEnds
  <2> QED BY <1>5, <2>1, <2>2, ThreadMoves DEF DownloadEnds, At, Places
<1>6. CASE DownloadFails(j)
  BY <1>0, <1>6, ThreadMoves DEF DownloadFails, At, Places
<1> QED BY <1>1, <1>2, <1>3, <1>4, <1>5, <1>6 DEF Thread

-----------------------------------------------------------------------------

(* Restarts *)

\* What a job is after a restart, by its row and so by what it was.
LEMMA RestoredJobs ==
    ASSUME IInv, Restart
    PROVE  /\ jobs' \in Seq(Jobs) /\ IsInjective(jobs')
           /\ \A j \in Jobs : Listed(j)' =>
                 /\ Listed(j) /\ row[j] = RowOf(job[j])
                 /\ job'[j] = [job[j] EXCEPT !.status = Restored(row[j]),
                                             !.http = row[j].http, !.signal = FALSE]
                 /\ row'[j] = [row[j] EXCEPT !.status = Restored(row[j])]
           /\ \A j \in Jobs : ~Listed(j)' => job'[j] = NoDownload /\ row'[j] = NoRow
<1>1. PICK max \in Limits : jobs' = Kept(max)
  BY DEF Restart
<1>2. max \in Nat \ {0}
  BY HfAssumption
<1>3. /\ jobs' \in Seq(Jobs) /\ IsInjective(jobs')
      /\ \A k \in Jobs : Contains(jobs', k) => Listed(k)
  BY <1>1, <1>2, KeptListed DEF IInv, TypeOK
<1> QED BY <1>3 DEF Restart, IInv, RowIsJob, Listed

\* A restart keeps the invariant.
LEMMA RestartKeeps == ASSUME IInv, Restart PROVE IInv'
<1>1. ASSUME NEW j \in Jobs, Listed(j)'
      PROVE  /\ job'[j] \in DownloadJob /\ row'[j] \in Row
             /\ job'[j].file = job[j].file /\ job'[j].dir = job[j].dir
             /\ job'[j].status \in Settled
             /\ job'[j].status = "done" <=> job[j].status = "done"
             /\ row'[j] = RowOf(job'[j])
  <2>1. /\ job[j] \in DownloadJob /\ row[j] = RowOf(job[j])
        /\ job'[j] = [job[j] EXCEPT !.status = Restored(row[j]),
                                    !.http = row[j].http, !.signal = FALSE]
        /\ row'[j] = [row[j] EXCEPT !.status = Restored(row[j])]
    BY <1>1, RestoredJobs DEF IInv, TypeOK
  <2>2. row[j].status = job[j].status /\ row[j].http = job[j].http
    BY <2>1 DEF RowOf
  <2>3. /\ Restored(row[j]) \in Settled
        /\ Restored(row[j]) = "done" <=> job[j].status = "done"
    BY <2>1, <2>2 DEF Restored, Settled, DownloadJob, Status
  <2> QED BY <2>1, <2>2, <2>3 DEF DownloadJob, Row, RowOf, Settled, Status
<1>2. NoDownload \in DownloadJob /\ NoDownload.status = "done" /\ NoRow \in Row
  BY HfAssumption DEF NoDownload, DownloadJob, Status, Settled, NoRow, Row
<1>3. job' \in [Jobs -> DownloadJob]
  <2>1. \A j \in Jobs : job'[j] \in DownloadJob
    BY <1>1, <1>2, RestoredJobs
  <2> QED BY <2>1 DEF Restart
<1>4. row' \in [Jobs -> Row]
  <2>1. \A j \in Jobs : row'[j] \in Row
    BY <1>1, <1>2, RestoredJobs
  <2> QED BY <2>1 DEF Restart
<1>5. TypeOK'
  BY <1>3, <1>4, RestoredJobs DEF Restart, IInv, TypeOK, Work, Idle, Places
<1>6. NoLimbo'
  <2>1. \A j \in Jobs : At(j, "none")'
    BY DEF Restart, At, Idle
  <2>2. \A j \in Jobs : ~Active(j)' \/ ~Listed(j)'
    BY <1>1 DEF Active, Settled
  <2> QED BY <2>1, <2>2 DEF NoLimbo
<1>7. RowIsJob'
  BY <1>1 DEF RowIsJob
<1>8. UniqueUnfinished'
  BY <1>1, RestoredJobs DEF IInv, UniqueUnfinished, Unfinished, SameTarget
<1> QED BY <1>5, <1>6, <1>7, <1>8 DEF IInv

-----------------------------------------------------------------------------

(* The theorems *)

\* The invariant holds when the backend starts with an empty table.
LEMMA InitIInv == Init => IInv
<1> SUFFICES ASSUME Init PROVE IInv
  OBVIOUS
<1>1. NoDownload \in DownloadJob /\ NoDownload.status = "done" /\ NoRow \in Row
  BY HfAssumption DEF NoDownload, DownloadJob, Status, Settled, NoRow, Row
<1>2. jobs \in Seq(Jobs) /\ IsInjective(jobs) /\ \A j \in Jobs : ~Listed(j)
  BY DEF Init, IsInjective, Listed, Contains
<1>3. TypeOK
  BY <1>1, <1>2 DEF Init, TypeOK, Work, Idle, Places
<1>4. NoLimbo /\ RowIsJob /\ UniqueUnfinished
  BY <1>2 DEF Init, NoLimbo, RowIsJob, UniqueUnfinished, At, Idle
<1> QED BY <1>3, <1>4 DEF IInv

\* Every step keeps it.
LEMMA NextIInv == IInv /\ [Next]_vars => IInv'
<1> SUFFICES ASSUME IInv, [Next]_vars PROVE IInv'
  OBVIOUS
<1>1. ASSUME NEW f \in Files, NEW d \in Dirs, Enqueue(f, d) PROVE IInv'
  BY <1>1, EnqueueKeeps
<1>2. ASSUME NEW j \in Jobs, Resume(j) PROVE IInv'
  BY <1>2, ResumeKeeps
<1>3. ASSUME NEW j \in Jobs, Pause(j) PROVE IInv'
  BY <1>3, PauseKeeps
<1>4. ASSUME NEW j \in Jobs, RemoveJob(j) PROVE IInv'
  BY <1>4, RemoveJobKeeps
<1>5. ASSUME NEW j \in Jobs, Runs(j) PROVE IInv'
  BY <1>5, RunStartsKeeps, RunEndsKeeps, ThreadKeeps DEF Runs
<1>6. ASSUME NEW s \in Streams,
             StreamReads(s) \/ ClientLeaves(s) \/ \E j \in Jobs : Subscribe(s, j)
      PROVE  IInv'
  BY <1>6, StreamsKeep
<1>7. CASE Restart
  BY <1>7, RestartKeeps
<1>8. CASE UNCHANGED vars
  BY <1>8 DEF vars, IInv, TypeOK, NoLimbo, RowIsJob, UniqueUnfinished, Listed, At,
              Active, Unfinished, SameTarget
<1> QED BY <1>1, <1>2, <1>3, <1>4, <1>5, <1>6, <1>7, <1>8 DEF Next

\* So it holds always.
THEOREM Invariance == Spec => []IInv
BY InitIInv, NextIInv, PTL DEF Spec

\* Every variable stays in its range, and a job is in the table once.
THEOREM TypeCorrect == Spec => []TypeOK
<1>1. IInv => TypeOK
  BY DEF IInv
<1> QED BY <1>1, Invariance, PTL

\* The jobs with a coroutine are the active jobs of the table.
THEOREM NoJobInLimbo == Spec => []NoLimbo
<1>1. IInv => NoLimbo
  BY DEF IInv
<1> QED BY <1>1, Invariance, PTL

\* No two jobs load the same file into the same directory.
THEOREM OneWriterPerFile == Spec => []OneWriter
<1>1. ASSUME IInv PROVE OneWriter
  <2> SUFFICES ASSUME NEW j \in Jobs, NEW k \in Jobs,
                      ~At(j, "none"), ~At(k, "none"), SameTarget(j, k)
               PROVE  j = k
    BY DEF OneWriter, SameTarget
  <2>1. Listed(j) /\ Unfinished(j) /\ Listed(k) /\ Unfinished(k)
    BY <1>1, WorkingJobs DEF Active, Unfinished
  <2> QED BY <1>1, <2>1 DEF IInv, UniqueUnfinished
<1> QED BY <1>1, Invariance, PTL

\* A restart pauses what was unfinished and keeps every outcome.
THEOREM OutcomesSurviveRestart == Spec => RestartKeepsOutcomes
<1> DEFINE Outcomes ==
      Restart => \A j \in Jobs : Contains(jobs', j) =>
                    job'[j].status = IF Active(j) THEN "paused" ELSE job[j].status
<1>1. ASSUME IInv PROVE Outcomes
  <2> SUFFICES ASSUME Restart, NEW j \in Jobs, Contains(jobs', j)
               PROVE  job'[j].status = IF Active(j) THEN "paused" ELSE job[j].status
    OBVIOUS
  <2>1. /\ job[j] \in DownloadJob /\ row[j] = RowOf(job[j])
        /\ job'[j] = [job[j] EXCEPT !.status = Restored(row[j]),
                                    !.http = row[j].http, !.signal = FALSE]
    BY <1>1, RestoredJobs DEF IInv, TypeOK, Listed
  <2>2. job'[j].status = Restored(row[j]) /\ row[j].status = job[j].status
    BY <2>1 DEF DownloadJob, RowOf
  <2> QED BY <2>2 DEF Restored, Active
<1> QED BY <1>1, Invariance, PTL DEF RestartKeepsOutcomes
=============================================================================
