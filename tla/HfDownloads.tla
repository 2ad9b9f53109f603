---------------------------- MODULE HfDownloads ----------------------------
(***************************************************************************)
(* The download jobs of src/backend/lld/hf.py (HFDownloader): a table of   *)
(* jobs, a coroutine and a worker thread for each active one, a database   *)
(* row for each, partial files on disk, and clients that follow a job.     *)
(*                                                                         *)
(* The event loop's code between two awaits is one step; a worker thread   *)
(* runs in between.  _persist() swallows database errors: here it works.   *)
(***************************************************************************)
EXTENDS Naturals, Sequences, SequencesExt

CONSTANTS
    Jobs,          \* identities of DownloadJob objects
    Files,         \* <<repo_id, filename>>
    Dirs,          \* target directories
    Streams,       \* clients of stream_job()
    NoJob, NoStream,
    Limits,        \* values of MAX_PERSISTED_JOBS; a restart may meet any of them
    Events         \* what may happen, beyond the users' calls

(* error      a download fails
   restart    the backend ends, by a crash or a restart, and starts again
   reconnect  a client follows a job that another stream follows already     *)
EventKinds == {"error", "restart", "reconnect"}

ASSUME HfAssumption ==
    /\ NoJob \notin Jobs /\ NoStream \notin Streams
    /\ Files # {} /\ Dirs # {}
    /\ Limits \subseteq Nat \ {0}
    /\ Events \subseteq EventKinds

VARIABLES
    jobs,    \* _jobs, a dict, in the order of its insertions
    job,     \* the DownloadJob objects
    row,     \* the table hf_jobs
    work,    \* where _run_job() is, with the thread of _download_sync()
    disk,    \* the file of each job, in its directory
    queues,  \* _queues: the stream that is told of a job's updates
    stream   \* the job each stream follows, and whether its queue has an update

vars == <<jobs, job, row, work, disk, queues, stream>>

-----------------------------------------------------------------------------

Settled == {"paused", "done", "failed"}
Status == {"queued", "in_progress"} \union Settled

\* http: a first attempt over HTTP was made (xfer); signal: cancel_event is set.
DownloadJob == [file : Files, dir : Dirs, status : Status,
                http : BOOLEAN, signal : BOOLEAN]

\* What of a job is persisted, if it is.
Row == [status : Status \union {"none"}, http : BOOLEAN]
NoRow == [status |-> "none", http |-> FALSE]

(* scheduled  _run_job() has not begun
   starting   the thread has not begun
   probing    it looks up the file's size and the space on the disk
   loading    it writes the partial file, which somebody may have deleted
   finished, stopped, broken
              it returned, or raised _DownloadPaused or something else, and
              _run_job() has not resumed                                     *)
Places == {"none", "scheduled", "starting", "probing", "loading",
           "finished", "stopped", "broken"}
Work == [at : Places, lost : BOOLEAN]
Idle == [at |-> "none", lost |-> FALSE]

\* What an identity that is not in use stands for.
NoDownload == [file |-> CHOOSE f \in Files : TRUE, dir |-> CHOOSE d \in Dirs : TRUE,
               status |-> "done", http |-> FALSE, signal |-> FALSE]

Init ==
    /\ jobs = <<>>
    /\ job = [j \in Jobs |-> NoDownload]
    /\ row = [j \in Jobs |-> NoRow]
    /\ work = [j \in Jobs |-> Idle]
    /\ disk = [d \in Dirs |-> [f \in Files |-> "none"]]
    /\ queues = [j \in Jobs |-> NoStream]
    /\ stream = [s \in Streams |-> [on |-> NoJob, news |-> FALSE]]

Listed(j) == Contains(jobs, j)
Active(j) == job[j].status \in {"queued", "in_progress"}
At(j, place) == work[j].at = place

\* Mutant: nothing is persisted.
PersistedNever(j, o) == row

\* _persist(): the row of j, once the job is o.
Persisted(j, o) == [row EXCEPT ![j] = [status |-> o.status, http |-> o.http]]

\* _publish(): the queue of j's stream, if there is one, gets an update.
Published(j) == [s \in Streams |-> [stream[s] EXCEPT !.news = @ \/ queues[j] = s]]

Goes(j, place) == work' = [work EXCEPT ![j] = [at |-> place, lost |-> FALSE]]

-----------------------------------------------------------------------------
(* The users' calls *)

\* Objects nobody refers to any more; a new job is one of them.
Unused(j) == ~Listed(j) /\ At(j, "none") /\ \A s \in Streams : stream[s].on # j

NewJob(f, d) ==
    \E j \in Jobs :
        LET o == [file |-> f, dir |-> d, status |-> "queued",
                  http |-> FALSE, signal |-> FALSE] IN
        /\ Unused(j)
        /\ jobs' = Append(jobs, j)
        /\ job' = [job EXCEPT ![j] = o]
        /\ row' = Persisted(j, o)
        /\ Goes(j, "scheduled")
        /\ UNCHANGED <<disk, queues, stream>>

\* resume(), also when enqueue() calls it.
Resumable(j) == job[j].status \in {"paused", "failed"}

Resume(j) ==
    LET o == [job[j] EXCEPT !.status = "queued", !.signal = FALSE] IN
    /\ Listed(j) /\ Resumable(j)
    /\ job' = [job EXCEPT ![j] = o]
    /\ row' = Persisted(j, o)
    /\ Goes(j, "scheduled")
    /\ UNCHANGED <<jobs, disk, queues, stream>>

\* Mutant: a failed job does not stand in the way of a new one.
MatchesActive(j, f, d) ==
    /\ job[j].file = f
    /\ Active(j) \/ (job[j].status = "paused" /\ job[j].dir = d)

\* A job that answers a request for file f in directory d.
Matches(j, f, d) ==
    /\ job[j].file = f
    /\ Active(j) \/ (Resumable(j) /\ job[j].dir = d)

\* enqueue(): the first match is returned as it is, or resumed.
Enqueue(f, d) ==
    LET found == {i \in DOMAIN jobs : Matches(jobs[i], f, d)} IN
    \/ found = {} /\ NewJob(f, d)
    \/ \E i \in found :
          /\ \A k \in found : i <= k
          /\ ~Active(jobs[i]) /\ Resume(jobs[i])

Pause(j) ==
    /\ Listed(j) /\ Active(j)
    /\ job' = [job EXCEPT ![j].signal = TRUE]
    /\ UNCHANGED <<jobs, row, work, disk, queues, stream>>

RemoveJob(j) ==
    /\ ~Active(j)
    /\ \E i \in DOMAIN jobs : jobs[i] = j /\ jobs' = RemoveAt(jobs, i)
    /\ row' = [row EXCEPT ![j] = NoRow]
    /\ UNCHANGED <<job, work, disk, queues, stream>>

\* stream_job(); the stream of a settled job is over at once.
Subscribe(s, j) ==
    /\ stream[s].on = NoJob /\ Listed(j) /\ Active(j)
    /\ queues[j] = NoStream \/ "reconnect" \in Events
    /\ stream' = [stream EXCEPT ![s] = [on |-> j, news |-> FALSE]]
    /\ queues' = [queues EXCEPT ![j] = s]
    /\ UNCHANGED <<jobs, job, row, work, disk>>

\* The finally block of stream_job(): it drops whatever queue the job has.
Close(s) ==
    /\ stream' = [stream EXCEPT ![s] = [on |-> NoJob, news |-> FALSE]]
    /\ queues' = [queues EXCEPT ![stream[s].on] = NoStream]

\* An update, which is the job object itself, is read when it is taken.
StreamReads(s) ==
    /\ stream[s].news
    /\ IF Active(stream[s].on)
       THEN stream' = [stream EXCEPT ![s].news = FALSE] /\ queues' = queues
       ELSE Close(s)
    /\ UNCHANGED <<jobs, job, row, work, disk>>

ClientLeaves(s) ==
    /\ stream[s].on # NoJob
    /\ Close(s)
    /\ UNCHANGED <<jobs, job, row, work, disk>>

-----------------------------------------------------------------------------
(* _run_job(), on the event loop *)

\* Mutant: a job that settles is not published.
SettleUntold(j, status) ==
    LET o == [job[j] EXCEPT !.status = status] IN
    /\ job' = [job EXCEPT ![j] = o]
    /\ row' = Persisted(j, o)
    /\ stream' = stream
    /\ Goes(j, "none")

\* Mutant: a job that settles is not persisted.
SettleUnsaved(j, status) ==
    /\ job' = [job EXCEPT ![j].status = status]
    /\ row' = row
    /\ stream' = Published(j)
    /\ Goes(j, "none")

Settle(j, status) ==
    LET o == [job[j] EXCEPT !.status = status] IN
    /\ job' = [job EXCEPT ![j] = o]
    /\ row' = Persisted(j, o)
    /\ stream' = Published(j)
    /\ Goes(j, "none")

\* Up to the call of the thread, unless the job was paused before it started.
RunStarts(j) ==
    LET o == [job[j] EXCEPT !.status = "in_progress"] IN
    /\ At(j, "scheduled")
    /\ IF job[j].signal
       THEN Settle(j, "paused")
       ELSE /\ job' = [job EXCEPT ![j] = o]
            /\ row' = Persisted(j, o)
            /\ stream' = Published(j)
            /\ Goes(j, "starting")
    /\ UNCHANGED <<jobs, disk, queues>>

\* After the thread: an error under a pause signal is the pause.
RunEnds(j) ==
    /\ \/ At(j, "finished") /\ Settle(j, "done")
       \/ At(j, "stopped") /\ Settle(j, "paused")
       \/ At(j, "broken") /\ Settle(j, IF job[j].signal THEN "paused" ELSE "failed")
    /\ UNCHANGED <<jobs, disk, queues>>

-----------------------------------------------------------------------------
(* _download_sync(), in a worker thread *)

\* The first attempt of a job deletes every partial file of its directory.
Purges(j) ==
    /\ disk' = [disk EXCEPT ![job[j].dir] =
                   [f \in Files |-> IF @[f] = "partial" THEN "none" ELSE @[f]]]
    /\ work' = [k \in Jobs |->
                   IF k = j THEN [at |-> "probing", lost |-> FALSE]
                   ELSE IF At(k, "loading") /\ job[k].dir = job[j].dir
                        THEN [work[k] EXCEPT !.lost = TRUE] ELSE work[k]]
    /\ job' = [job EXCEPT ![j].http = TRUE]
    /\ row' = Persisted(j, [job[j] EXCEPT !.http = TRUE])

DownloadStarts(j) ==
    /\ At(j, "starting")
    /\ IF job[j].http
       THEN Goes(j, "probing") /\ UNCHANGED <<job, row, disk>>
       ELSE Purges(j)
    /\ UNCHANGED <<jobs, queues, stream>>

\* hf_hub_download() opens the partial file, unless the file is complete.
DownloadOpens(j) ==
    /\ At(j, "probing")
    /\ Goes(j, "loading")
    /\ disk' = [disk EXCEPT ![job[j].dir][job[j].file] =
                   IF @ = "none" THEN "partial" ELSE @]
    /\ UNCHANGED <<jobs, job, row, queues, stream>>

\* Mutant: the progress callback ignores the signal.
SeesSignalNever(j) == FALSE

\* The progress callback, update(), finds the pause signal, or reports.
SeesSignal(j) == job[j].signal

DownloadStops(j) ==
    /\ At(j, "loading") /\ SeesSignal(j)
    /\ Goes(j, "stopped")
    /\ UNCHANGED <<jobs, job, row, disk, queues, stream>>

DownloadProgresses(j) ==
    /\ At(j, "loading") /\ ~SeesSignal(j)
    /\ row' = Persisted(j, job[j])
    /\ stream' = Published(j)
    /\ UNCHANGED <<jobs, job, work, disk, queues>>

\* The last chunk is there; a partial file that was deleted cannot be moved.
DownloadEnds(j) ==
    /\ At(j, "loading")
    /\ IF work[j].lost
       THEN Goes(j, "broken") /\ disk' = disk
       ELSE /\ Goes(j, "finished")
            /\ disk' = [disk EXCEPT ![job[j].dir][job[j].file] = "complete"]
    /\ UNCHANGED <<jobs, job, row, queues, stream>>

\* The network, the disk space check, the file system.
DownloadFails(j) ==
    /\ "error" \in Events
    /\ work[j].at \in {"starting", "probing", "loading"}
    /\ Goes(j, "broken")
    /\ UNCHANGED <<jobs, job, row, disk, queues, stream>>

-----------------------------------------------------------------------------

\* Mutant: unfinished jobs are restored as they were.
RestoredAsIs(r) == r.status

Restored(r) == IF r.status \in {"queued", "in_progress"} THEN "paused" ELSE r.status

\* The newest rows of the table.
Kept(max) ==
    SubSeq(jobs, IF Len(jobs) > max THEN Len(jobs) - max + 1 ELSE 1, Len(jobs))

\* _load_persisted_jobs(): unfinished jobs of the kept rows are paused.
Restart ==
    /\ "restart" \in Events
    /\ \E max \in Limits : jobs' = Kept(max)
    /\ job' = [j \in Jobs |->
                  IF Contains(jobs', j)
                  THEN [job[j] EXCEPT !.status = Restored(row[j]),
                                      !.http = row[j].http, !.signal = FALSE]
                  ELSE NoDownload]
    /\ row' = [j \in Jobs |->
                  IF Contains(jobs', j)
                  THEN [row[j] EXCEPT !.status = Restored(row[j])] ELSE NoRow]
    /\ work' = [j \in Jobs |-> Idle]
    /\ queues' = [j \in Jobs |-> NoStream]
    /\ stream' = [s \in Streams |-> [on |-> NoJob, news |-> FALSE]]
    /\ disk' = disk

Thread(j) ==
    \/ DownloadStarts(j) \/ DownloadOpens(j) \/ DownloadStops(j)
    \/ DownloadProgresses(j) \/ DownloadEnds(j) \/ DownloadFails(j)

Runs(j) == RunStarts(j) \/ RunEnds(j) \/ Thread(j)

Next ==
    \/ \E f \in Files, d \in Dirs : Enqueue(f, d)
    \/ \E j \in Jobs : Resume(j) \/ Pause(j) \/ RemoveJob(j) \/ Runs(j)
    \/ \E s \in Streams : StreamReads(s) \/ ClientLeaves(s)
    \/ \E s \in Streams, j \in Jobs : Subscribe(s, j)
    \/ Restart

Spec == Init /\ [][Next]_vars

-----------------------------------------------------------------------------
(* Safety *)

\* Every variable stays in its range, and a job is in the table once.
TypeOK ==
    /\ jobs \in Seq(Jobs) /\ IsInjective(jobs)
    /\ job \in [Jobs -> DownloadJob]
    /\ row \in [Jobs -> Row]
    /\ work \in [Jobs -> Work]
    /\ disk \in [Dirs -> [Files -> {"none", "partial", "complete"}]]
    /\ queues \in [Jobs -> Streams \union {NoStream}]
    /\ stream \in [Streams -> [on : Jobs \union {NoJob}, news : BOOLEAN]]

\* However requests, resumes and restarts follow each other, two jobs never
\* load the same file into the same directory (enqueue(): "a repeat click must
\* not open a new download").
OneWriter ==
    \A j, k \in Jobs :
        /\ ~At(j, "none") /\ ~At(k, "none")
        /\ job[j].file = job[k].file /\ job[j].dir = job[k].dir
        => j = k

\* A job that says it is queued or in progress has a coroutine that will end
\* it, and no other job has one: it would be stuck, neither enqueue() nor
\* resume() nor remove() touch an active job.
NoLimbo == \A j \in Jobs : ~At(j, "none") <=> (Listed(j) /\ Active(j))

\* A restart at any moment pauses what was unfinished and forgets no outcome.
RestartKeepsOutcomes ==
    [][Restart =>
          \A j \in Jobs : Contains(jobs', j) =>
              job'[j].status = IF Active(j) THEN "paused" ELSE job[j].status]_vars

\* pause(): ".incomplete stays on disk and can be resumed": while a job is
\* paused, its partial file is not deleted.
PartialSurvives ==
    [][\A j \in Jobs :
          /\ Listed(j) /\ job[j].status = "paused"
          /\ disk[job[j].dir][job[j].file] = "partial"
          /\ job'[j] = job[j]
          => disk'[job[j].dir][job[j].file] # "none"]_vars

-----------------------------------------------------------------------------
(* Liveness *)

(* Coroutines and threads that can run do run; a thread that loads makes
   progress, ends or fails; a stream takes what its queue has. *)
Fairness ==
    /\ \A j \in Jobs : WF_vars(Runs(j))
    /\ \A s \in Streams : WF_vars(StreamReads(s))

FairSpec == Spec /\ Fairness

\* A pause, wherever it meets the job's coroutine and thread, ends the job.
PauseTakesEffect == \A j \in Jobs : Active(j) /\ job[j].signal ~> ~Active(j)

\* A client that follows a job is told when it settles ("Yield job updates
\* until done/failed").
StreamEnds ==
    \A s \in Streams, j \in Jobs :
        stream[s].on = j /\ ~Active(j) ~> stream[s].on # j \/ Active(j)

=============================================================================
