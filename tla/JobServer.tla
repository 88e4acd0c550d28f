----------------------------- MODULE JobServer -----------------------------
(***************************************************************************)
(* The job core of yt-dlp-server: the HTTP handlers that submit, cancel    *)
(* and delete jobs, the bounded in-process queue, the worker pool that     *)
(* downloads them, the cancellation registry, the in-memory job map, the   *)
(* two JSONL metadata files and the server's shutdown and restart.         *)
(*                                                                         *)
(* Covered: every await point and every lock at which a worker and a       *)
(* request handler can interleave; handlers whose future is dropped (the   *)
(* timeout layer, a client that hangs up); failing appends; removals that  *)
(* fail, before the first file or half-way; Ctrl-C; a crash at any point;  *)
(* the restart that reloads the metadata.                                  *)
(*                                                                         *)
(* Abstracted: which records are the most recent ones (any choice of the   *)
(* right size is allowed where the code compares updated_at) and how many  *)
(* bytes a download holds (any subset of the succeeded downloads may be    *)
(* over the storage limit).  What one download does inside its attempts    *)
(* is reduced to its outcomes.  The append of a line is atomic here, and   *)
(* the removal of a directory is one step with three ends: all of it went, *)
(* none of it, or a part.  (A crash does not come in the middle of one.)   *)
(***************************************************************************)
EXTENDS Naturals, Sequences, FiniteSets

CONSTANTS
  Jobs,            \* the uuids requests draw from, each at most once
  Workers,         \* download workers, config.workers of them
  Clients,         \* requests in flight at the same time
  NoJob,           \* what an idle worker or handler holds
  QueueSize,       \* config.queue_size
  RetentionLimit,  \* config.job_retention_limit
  MetadataLimit,   \* config.metadata_retention_limit, 0 turns compaction off
  Platforms,       \* platforms with a download policy
  PlatformOf,      \* the platform a job's URL belongs to
  MaxConcurrent,   \* policy.max_concurrent; no limit is a limit >= |Workers|
  PruneDownloads,  \* config.max_download_storage_bytes > 0
  ObjectStorage,   \* config.object_storage uploads what was downloaded
  Endpoints,       \* the requests clients make, see Endpoint
  Disturbances     \* what the environment may do, see Disturbance

\* The requests that change the state of a job.
Endpoint == {"submit", "retry", "cancel", "delete"}

\* Ways in which the environment may disturb the server: a metadata append
\* fails, a directory operation fails, a request's future is dropped, the
\* process dies, the operator presses Ctrl-C or starts the server again.
Disturbance == {"append", "files", "abandon", "crash", "signal", "restart"}

ASSUME JobAssumption == NoJob \notin Jobs /\ IsFiniteSet(Jobs)
ASSUME WorkersAssumption == IsFiniteSet(Workers)
ASSUME LimitAssumption ==
  /\ QueueSize \in Nat \ {0}   \* async_channel::bounded panics on 0
  /\ RetentionLimit \in Nat
  /\ MetadataLimit \in Nat
ASSUME PlatformAssumption ==
  /\ PlatformOf \in [Jobs -> Platforms]
  /\ MaxConcurrent \in [Platforms -> Nat \ {0}]
ASSUME SwitchAssumption ==
  /\ PruneDownloads \in BOOLEAN /\ ObjectStorage \in BOOLEAN
  /\ Endpoints \subseteq Endpoint
  /\ Disturbances \subseteq Disturbance

VARIABLES
  status,     \* the job map: status of each record, "absent" when there is none
  hasResult,  \* whether the record carries a result (the path of its media)
  queue,      \* the async channel of accepted requests
  flags,      \* the cancellation registry: no entry, a clear or a set flag
  submitted,  \* jobs with a line in download_submissions.jsonl
  logged,     \* status on the job's last line in download_results.jsonl
  dir,        \* the job's download directory: missing, without or with all
              \* its media, or what a removal that failed half-way left of it
  wpc,        \* where a worker is in handle_worker_request
  wjob,       \* the request it holds
  outcome,    \* how its download ended
  victims,    \* downloads it still has to prune
  target,     \* the download it is pruning
  hpc,        \* where a request handler is
  hjob,       \* the job the request is about
  phase,      \* life cycle of the process, see Phase
  issued,     \* uuids drawn so far
  notified    \* history: jobs whose webhook delivery was attempted

memoryVars == <<status, hasResult, queue, flags>>
diskVars == <<submitted, logged, dir>>
workerVars == <<wpc, wjob, outcome, victims, target>>
handlerVars == <<hpc, hjob>>
vars == <<memoryVars, diskVars, workerVars, handlerVars, phase, issued, notified>>

Terminal == {"succeeded", "failed", "canceled", "deleted"}
Pending == {"queued", "running"}
Status == {"absent"} \cup Pending \cup Terminal
Phase == {"up", "draining", "cancelling", "closing", "waiting", "down"}

\* A worker's request goes through these places in order; "receive" is idle.
BeforeStart == {"check", "register", "skip", "acquire", "gate", "recheck", "mark"}
\* "fetch" is yt-dlp and the post-processing commands.
Downloading == {"prepare", "attempt", "fetch", "upload"}
Finishing == {"finish", "append", "webhook", "prune", "tomb", "tombappend",
              "retain", "release"}
Busy == BeforeStart \cup Downloading \cup Finishing
WorkerPlace == Busy \cup {"receive", "stopped"}
\* Places at which a worker holds its job's cancellation flag and its permit.
HoldsFlag == Busy \ {"check", "register"}
HoldsPermit == HoldsFlag \ {"skip", "acquire"}

Offering == {"insert", "submitappend", "send"}
HandlerPlace == {"idle", "rollback", "rollbackappend", "flag", "cancelinsert",
                 "cancelappend", "rmdir", "deleteinsert", "deleteappend"} \cup Offering

\* WorkerRuntime.shutdown and the closed state of the queue, both set for good
\* by stop_workers.
ShutdownRequested == phase \in {"cancelling", "closing", "waiting"}
QueueClosed == phase = "waiting"
Running == phase # "down"

------------------------------------------------------------------------------
All(S, value) == [x \in S |-> value]

\* build_runtime on an empty data directory: an empty map, queue and registry,
\* and idle workers.
Init ==
  /\ status = All(Jobs, "absent") /\ hasResult = All(Jobs, FALSE)
  /\ queue = <<>> /\ flags = All(Jobs, "none")
  /\ submitted = {} /\ logged = All(Jobs, "none") /\ dir = All(Jobs, "none")
  /\ wpc = All(Workers, "receive") /\ wjob = All(Workers, NoJob)
  /\ outcome = All(Workers, "none")
  /\ victims = All(Workers, {}) /\ target = All(Workers, NoJob)
  /\ hpc = All(Clients, "idle") /\ hjob = All(Clients, NoJob)
  /\ phase = "up" /\ issued = {} /\ notified = {}

------------------------------------------------------------------------------
\* The steps of a worker.

Advance(w, from, to) ==
  /\ wpc[w] = from
  /\ wpc' = [wpc EXCEPT ![w] = to]

\* The worker drops the request it holds.
DropRequest(w) == wjob' = [wjob EXCEPT ![w] = NoJob]

\* Mutant: the request is looked at and stays in the channel.
ReceiveLeavesRequest(w) ==
  /\ queue # <<>>
  /\ Advance(w, "receive", "check")
  /\ wjob' = [wjob EXCEPT ![w] = Head(queue)]
  /\ UNCHANGED <<memoryVars, diskVars, outcome, victims, target, handlerVars,
                 phase, issued, notified>>

\* queue_rx.recv() answers a buffered request, also after close().
Receive(w) ==
  /\ queue # <<>>
  /\ Advance(w, "receive", "check")
  /\ wjob' = [wjob EXCEPT ![w] = Head(queue)]
  /\ queue' = Tail(queue)
  /\ UNCHANGED <<status, hasResult, flags, diskVars, outcome, victims, target,
                 handlerVars, phase, issued, notified>>

\* recv() fails: the queue is closed and nothing is buffered.
ReceiveClosed(w) ==
  /\ QueueClosed /\ queue = <<>>
  /\ Advance(w, "receive", "stopped")
  /\ UNCHANGED <<memoryVars, diskVars, wjob, outcome, victims, target,
                 handlerVars, phase, issued, notified>>

\* handle_worker_request reads the shutdown flag before it starts, and again
\* after the wait for a platform permit; a worker that sees it leaves the loop.
StopOnShutdown(w, from) ==
  /\ ShutdownRequested
  /\ Advance(w, from, "stopped")
  /\ DropRequest(w)
  /\ UNCHANGED <<memoryVars, diskVars, outcome, victims, target, handlerVars,
                 phase, issued, notified>>

ContinueUnlessShutdown(w, from, to) ==
  /\ ~ShutdownRequested
  /\ Advance(w, from, to)
  /\ UNCHANGED <<memoryVars, diskVars, wjob, outcome, victims, target,
                 handlerVars, phase, issued, notified>>

CheckShutdown(w) ==
  \/ StopOnShutdown(w, "check")
  \/ ContinueUnlessShutdown(w, "check", "register")

\* Mutant: no second look at the shutdown flag after the wait for a permit.
CheckShutdownOnce(w) ==
  /\ Advance(w, "gate", "recheck")
  /\ UNCHANGED <<memoryVars, diskVars, wjob, outcome, victims, target,
                 handlerVars, phase, issued, notified>>

CheckShutdownAgain(w) ==
  \/ StopOnShutdown(w, "gate")
  \/ ContinueUnlessShutdown(w, "gate", "recheck")

\* Mutant: insert a new flag instead of entry().or_insert_with().
FreshFlagFor(j) == "clear"

\* cancellations.flag_for: the entry of the job, a clear one when it has none.
FlagFor(j) == IF flags[j] = "none" THEN "clear" ELSE flags[j]

\* Mutant: the flag is looked up and not inserted.
LookUpFlag(w) ==
  /\ Advance(w, "register", "skip")
  /\ UNCHANGED <<memoryVars, diskVars, wjob, outcome, victims, target,
                 handlerVars, phase, issued, notified>>

RegisterFlag(w) ==
  /\ Advance(w, "register", "skip")
  /\ flags' = [flags EXCEPT ![wjob[w]] = FlagFor(wjob[w])]
  /\ UNCHANGED <<status, hasResult, queue, diskVars, wjob, outcome, victims,
                 target, handlerVars, phase, issued, notified>>

\* should_skip_canceled_job.  The load of the flag and the read of the record
\* are one step: a cancel sets the flag before it writes the record.
CanceledBeforeStart(w) ==
  flags[wjob[w]] = "set" \/ status[wjob[w]] = "canceled"

SkipCanceled(w) ==
  /\ Advance(w, "skip", "receive") \/ Advance(w, "recheck", "receive")
  /\ CanceledBeforeStart(w)
  /\ flags' = [flags EXCEPT ![wjob[w]] = "none"]
  /\ DropRequest(w)
  /\ UNCHANGED <<status, hasResult, queue, diskVars, outcome, victims, target,
                 handlerVars, phase, issued, notified>>

KeepRequest(w) ==
  /\ Advance(w, "skip", "acquire") \/ Advance(w, "recheck", "mark")
  /\ ~CanceledBeforeStart(w)
  /\ UNCHANGED <<memoryVars, diskVars, wjob, outcome, victims, target,
                 handlerVars, phase, issued, notified>>

\* Mutant: a worker that waits for a permit already counts as a holder.
PermitWaiters(p) ==
  {v \in Workers : wpc[v] \in HoldsPermit \cup {"acquire"} /\ PlatformOf[wjob[v]] = p}

\* The permit of a platform semaphore is released when the request is dropped.
PermitHolders(p) ==
  {v \in Workers : wpc[v] \in HoldsPermit /\ PlatformOf[wjob[v]] = p}

\* Mutant: one permit too many.
AcquireExtraPermit(w) ==
  /\ Advance(w, "acquire", "gate")
  /\ LET p == PlatformOf[wjob[w]]
     IN  Cardinality(PermitHolders(p)) <= MaxConcurrent[p]
  /\ UNCHANGED <<memoryVars, diskVars, wjob, outcome, victims, target,
                 handlerVars, phase, issued, notified>>

AcquirePermit(w) ==
  /\ Advance(w, "acquire", "gate")
  /\ LET p == PlatformOf[wjob[w]]
     IN  Cardinality(PermitHolders(p)) < MaxConcurrent[p]
  /\ UNCHANGED <<memoryVars, diskVars, wjob, outcome, victims, target,
                 handlerVars, phase, issued, notified>>

\* mark_running: no check of what the record says now.
MarkRunning(w) ==
  /\ Advance(w, "mark", "prepare")
  /\ status' = IF status[wjob[w]] = "absent" THEN status
               ELSE [status EXCEPT ![wjob[w]] = "running"]
  /\ UNCHANGED <<hasResult, queue, flags, diskVars, wjob, outcome, victims,
                 target, handlerVars, phase, issued, notified>>

\* The download ended with outcome o and left its directory as d.
EndDownload(w, from, o, d) ==
  /\ Advance(w, from, "finish")
  /\ outcome' = [outcome EXCEPT ![w] = o]
  /\ dir' = [dir EXCEPT ![wjob[w]] = d]
  /\ UNCHANGED <<memoryVars, submitted, logged, wjob, victims, target,
                 handlerVars, phase, issued, notified>>

\* prepare_download_dir: an empty directory, whatever was there before.
PrepareDir(w) ==
  /\ Advance(w, "prepare", "attempt")
  /\ dir' = [dir EXCEPT ![wjob[w]] = "partial"]
  /\ UNCHANGED <<memoryVars, submitted, logged, wjob, outcome, victims, target,
                 handlerVars, phase, issued, notified>>

\* cleanup_partial_download: best effort.
AfterCleanup == {"none"} \cup (IF "files" \in Disturbances THEN {"partial"} ELSE {})

\* is_canceled_error reads the text of the error, which may quote yt-dlp or a
\* path: a failure that mentions "job canceled" is recorded as canceled.
FailedAs == {"failed", "canceled"}

\* The directory cannot be cleared or created, or the disk is too full and the
\* directory made for the download is cleaned up again.
PrepareFails(w) ==
  /\ "files" \in Disturbances
  /\ \E o \in FailedAs, d \in AfterCleanup : EndDownload(w, "prepare", o, d)

StartAttempt(w) ==
  /\ Advance(w, "attempt", "fetch")
  /\ flags[wjob[w]] # "set"
  /\ UNCHANGED <<memoryVars, diskVars, wjob, outcome, victims, target,
                 handlerVars, phase, issued, notified>>

AttemptCanceled(w) ==
  /\ wpc[w] = "attempt" /\ flags[wjob[w]] = "set"
  /\ \E d \in AfterCleanup : EndDownload(w, "attempt", "canceled", d)

\* The command exits with or without a cancellation in the meantime: the poll
\* looks at the exit status first.
FetchSucceeds(w) ==
  /\ ~ObjectStorage
  /\ EndDownload(w, "fetch", "succeeded", "complete")

StartUpload(w) ==
  /\ ObjectStorage
  /\ Advance(w, "fetch", "upload")
  /\ UNCHANGED <<memoryVars, diskVars, wjob, outcome, victims, target,
                 handlerVars, phase, issued, notified>>

\* store_download_artifacts: no timeout, and no look at the flag.
UploadSucceeds(w) == EndDownload(w, "upload", "succeeded", "complete")

\* The last attempt failed.
DownloadFails(w) ==
  \E from \in {"fetch", "upload"}, o \in FailedAs, d \in AfterCleanup :
    EndDownload(w, from, o, d)

\* Mutant: the poll loop waits for the exit or the timeout only.
FetchIgnoresFlag(w) ==
  /\ wpc[w] = "attempt" /\ flags[wjob[w]] = "set"
  /\ EndDownload(w, "attempt", "canceled", "none")

\* The poll sees the flag, kills the command and waits until its output pipes
\* close.  An error raised inside finalize_download_metadata hides the
\* cancellation, so the job may also fail.
FetchCanceled(w) ==
  /\ wpc[w] = "fetch" /\ flags[wjob[w]] = "set"
  /\ \E o \in {"canceled", "failed"}, d \in AfterCleanup :
       EndDownload(w, "fetch", o, d)

\* An attempt failed and another one is allowed: back to a clean directory.
RetryAttempt(w) ==
  /\ Advance(w, "fetch", "prepare") \/ Advance(w, "upload", "prepare")
  /\ \E d \in AfterCleanup : dir' = [dir EXCEPT ![wjob[w]] = d]
  /\ UNCHANGED <<memoryVars, submitted, logged, wjob, outcome, victims, target,
                 handlerVars, phase, issued, notified>>

\* Mutant: a canceled job's record is left to the handler that canceled it.
FinishTrustsCancel(w) ==
  LET j == wjob[w] IN
  /\ Advance(w, "finish", "append")
  /\ status[j] # "absent"
  /\ status' = IF outcome[w] = "canceled" THEN status
               ELSE [status EXCEPT ![j] = outcome[w]]
  /\ hasResult' = IF outcome[w] = "succeeded" THEN [hasResult EXCEPT ![j] = TRUE]
                  ELSE hasResult
  /\ UNCHANGED <<queue, flags, diskVars, wjob, outcome, victims, target,
                 handlerVars, phase, issued, notified>>

\* finish_job, under the write lock: the outcome replaces whatever the record
\* says.  When the record was evicted nothing is logged and nobody is told.
FinishJob(w) ==
  LET j == wjob[w] IN
  /\ Advance(w, "finish", "append")
  /\ status[j] # "absent"
  /\ status' = [status EXCEPT ![j] = outcome[w]]
  /\ hasResult' = IF outcome[w] = "succeeded" THEN [hasResult EXCEPT ![j] = TRUE]
                  ELSE hasResult
  /\ UNCHANGED <<queue, flags, diskVars, wjob, outcome, victims, target,
                 handlerVars, phase, issued, notified>>

FinishMissingJob(w) ==
  /\ Advance(w, "finish", "release")
  /\ status[wjob[w]] = "absent"
  /\ UNCHANGED <<memoryVars, diskVars, wjob, outcome, victims, target,
                 handlerVars, phase, issued, notified>>

\* append_jsonl to the results file; a worker only reports a failure.
LogResult(j, s) ==
  \/ logged' = [logged EXCEPT ![j] = s]
  \/ "append" \in Disturbances /\ logged' = logged

AppendResult(w) ==
  /\ Advance(w, "append", "webhook")
  /\ LogResult(wjob[w], outcome[w])
  /\ UNCHANGED <<memoryVars, submitted, dir, wjob, outcome, victims, target,
                 handlerVars, phase, issued, notified>>

\* download_storage_candidates: the succeeded records at this moment.
PruneCandidates == {j \in Jobs : status[j] = "succeeded" /\ hasResult[j]}

\* send_webhook returns, delivered or not; then the storage limit is applied to
\* the candidates read now, the oldest first.
SendWebhook(w) ==
  /\ Advance(w, "webhook", "prune")
  /\ notified' = notified \cup {wjob[w]}
  /\ \E S \in SUBSET PruneCandidates :
       /\ S # {} => PruneDownloads
       /\ victims' = [victims EXCEPT ![w] = S]
  /\ UNCHANGED <<memoryVars, diskVars, wjob, outcome, target, handlerVars,
                 phase, issued>>

\* Mutant: the directory goes, the record is not marked deleted.
PruneWithoutTombstone(w) ==
  \E v \in victims[w] :
    /\ Advance(w, "prune", "prune")
    /\ dir' = [dir EXCEPT ![v] = "none"]
    /\ victims' = [victims EXCEPT ![w] = @ \ {v}]
    /\ UNCHANGED <<memoryVars, submitted, logged, wjob, outcome, target,
                   handlerVars, phase, issued, notified>>

\* remove_dir_all removes entry by entry: when it fails, nothing or a part of
\* the directory is gone, the media perhaps with it.
AfterFailedRemoval(d) == IF d = "none" THEN {"none"} ELSE {d, "torn"}

\* remove_storage_candidate, one candidate at a time; a removal that fails
\* leaves its record alone, whatever it has removed.
PruneDirectory(w) ==
  \E v \in victims[w] :
    /\ Advance(w, "prune", "tomb")
    /\ dir' = [dir EXCEPT ![v] = "none"]
    /\ target' = [target EXCEPT ![w] = v]
    /\ victims' = [victims EXCEPT ![w] = @ \ {v}]
    /\ UNCHANGED <<memoryVars, submitted, logged, wjob, outcome, handlerVars,
                   phase, issued, notified>>

PruneFails(w) ==
  /\ "files" \in Disturbances
  /\ \E v \in victims[w] :
       /\ Advance(w, "prune", "prune")
       /\ victims' = [victims EXCEPT ![w] = @ \ {v}]
       /\ \E d \in AfterFailedRemoval(dir[v]) : dir' = [dir EXCEPT ![v] = d]
  /\ UNCHANGED <<memoryVars, submitted, logged, wjob, outcome, target,
                 handlerVars, phase, issued, notified>>

\* mark_job_deleted writes the record as it is now, and logs what it wrote.
MarkJobDeleted(w) ==
  LET v == target[w] IN
  /\ Advance(w, "tomb", "tombappend")
  /\ status[v] # "absent"
  /\ status' = [status EXCEPT ![v] = "deleted"]
  /\ hasResult' = [hasResult EXCEPT ![v] = FALSE]
  /\ UNCHANGED <<queue, flags, diskVars, wjob, outcome, victims, target,
                 handlerVars, phase, issued, notified>>

MarkMissingJobDeleted(w) ==
  /\ Advance(w, "tomb", "prune")
  /\ status[target[w]] = "absent"
  /\ target' = [target EXCEPT ![w] = NoJob]
  /\ UNCHANGED <<memoryVars, diskVars, wjob, outcome, victims, handlerVars,
                 phase, issued, notified>>

AppendTombstone(w) ==
  /\ Advance(w, "tombappend", "prune")
  /\ LogResult(target[w], "deleted")
  /\ target' = [target EXCEPT ![w] = NoJob]
  /\ UNCHANGED <<memoryVars, submitted, dir, wjob, outcome, victims,
                 handlerVars, phase, issued, notified>>

\* The victims are a snapshot and may be gone; the loop ends with the list.
PruneDone(w) ==
  /\ victims[w] = {}
  /\ Advance(w, "prune", "retain")
  /\ UNCHANGED <<memoryVars, diskVars, wjob, outcome, victims, target,
                 handlerVars, phase, issued, notified>>

\* retain_recent_jobs: the records kept when at most limit of S may stay.
Retainable(S, limit) ==
  {K \in SUBSET S : Cardinality(K) =
     IF Cardinality(S) <= limit THEN Cardinality(S) ELSE limit}

Present == {j \in Jobs : status[j] # "absent"}

RetainRecentJobs(w) ==
  /\ Advance(w, "retain", "release")
  /\ \E K \in Retainable(Present, RetentionLimit) :
       /\ status' = [j \in Jobs |-> IF j \in K THEN status[j] ELSE "absent"]
       /\ hasResult' = [j \in Jobs |-> j \in K /\ hasResult[j]]
  /\ UNCHANGED <<queue, flags, diskVars, wjob, outcome, victims, target,
                 handlerVars, phase, issued, notified>>

\* cancellations.remove, and the permit drops with the request.
Release(w) ==
  /\ Advance(w, "release", "receive")
  /\ flags' = [flags EXCEPT ![wjob[w]] = "none"]
  /\ outcome' = [outcome EXCEPT ![w] = "none"]
  /\ DropRequest(w)
  /\ UNCHANGED <<status, hasResult, queue, diskVars, victims, target,
                 handlerVars, phase, issued, notified>>

StartStep(w) ==
  \/ Receive(w) \/ ReceiveClosed(w) \/ CheckShutdown(w) \/ RegisterFlag(w)
  \/ SkipCanceled(w) \/ KeepRequest(w) \/ CheckShutdownAgain(w)
  \/ MarkRunning(w)

DownloadStep(w) ==
  \/ PrepareDir(w) \/ PrepareFails(w) \/ StartAttempt(w) \/ AttemptCanceled(w)

\* What yt-dlp, its children and the object store decide, and when.
FetchStep(w) ==
  \/ FetchCanceled(w) \/ FetchSucceeds(w) \/ StartUpload(w)
  \/ UploadSucceeds(w) \/ DownloadFails(w) \/ RetryAttempt(w)

FinishStep(w) ==
  \/ FinishJob(w) \/ FinishMissingJob(w) \/ AppendResult(w) \/ SendWebhook(w)
  \/ PruneDirectory(w) \/ PruneFails(w) \/ MarkJobDeleted(w)
  \/ MarkMissingJobDeleted(w) \/ AppendTombstone(w) \/ PruneDone(w)
  \/ RetainRecentJobs(w) \/ Release(w)

\* What a worker does by itself, without a permit, yt-dlp or the object store.
OwnStep(w) == StartStep(w) \/ DownloadStep(w) \/ FinishStep(w)

WorkerStep(w) == OwnStep(w) \/ AcquirePermit(w) \/ FetchStep(w)

------------------------------------------------------------------------------
\* The steps of a request handler.  A handler moves to its next place or ends.

Proceed(c, from, to) ==
  /\ hpc[c] = from
  /\ hpc' = [hpc EXCEPT ![c] = to]
  /\ UNCHANGED hjob

Respond(c, from) ==
  /\ hpc[c] = from
  /\ hpc' = [hpc EXCEPT ![c] = "idle"]
  /\ hjob' = [hjob EXCEPT ![c] = NoJob]

Accept(c, j, to) ==
  /\ phase = "up"
  /\ hpc[c] = "idle"
  /\ hpc' = [hpc EXCEPT ![c] = to]
  /\ hjob' = [hjob EXCEPT ![c] = j]

WorkersReady == \E w \in Workers : wpc[w] # "stopped"
\* Mutant: off by one.
QueueOverfull == Len(queue) > QueueSize

QueueFull == Len(queue) >= QueueSize

\* submit_download_jobs with one URL, up to the first await of enqueue_record:
\* the workers are ready, the queue has room, the job gets a fresh uuid.
Submit(c, j) ==
  /\ WorkersReady /\ ~QueueFull
  /\ j \notin issued
  /\ Accept(c, j, "insert")
  /\ issued' = issued \cup {j}
  /\ UNCHANGED <<memoryVars, diskVars, workerVars, phase, notified>>

\* retry_job_record: the same for the URL of a finished job, under a new uuid.
RetryJob(c, original, j) ==
  /\ status[original] \in Terminal \ {"deleted"}
  /\ Submit(c, j)

\* persist_queued_record: first the map, then the submissions file.
InsertQueued(c) ==
  /\ Proceed(c, "insert", "submitappend")
  /\ status' = [status EXCEPT ![hjob[c]] = "queued"]
  /\ UNCHANGED <<hasResult, queue, flags, diskVars, workerVars, phase, issued,
                 notified>>

AppendSubmission(c) ==
  /\ Proceed(c, "submitappend", "send")
  /\ submitted' = submitted \cup {hjob[c]}
  /\ UNCHANGED <<memoryVars, logged, dir, workerVars, phase, issued, notified>>

\* Mutant: the failed append is reported and the request sent all the same.
AppendSubmissionIgnored(c) ==
  /\ "append" \in Disturbances
  /\ Proceed(c, "submitappend", "send")
  /\ UNCHANGED <<memoryVars, diskVars, workerVars, phase, issued, notified>>

\* EnqueueError::Persist leaves the inserted record behind.
AppendSubmissionFails(c) ==
  /\ "append" \in Disturbances
  /\ Respond(c, "submitappend")
  /\ UNCHANGED <<memoryVars, diskVars, workerVars, phase, issued, notified>>

\* send_queued_request
TrySend(c) ==
  /\ ~QueueFull /\ ~QueueClosed
  /\ Respond(c, "send")
  /\ queue' = Append(queue, hjob[c])
  /\ UNCHANGED <<status, hasResult, flags, diskVars, workerVars, phase, issued,
                 notified>>

TrySendFails(c) ==
  /\ QueueFull \/ QueueClosed
  /\ Proceed(c, "send", "rollback")
  /\ UNCHANGED <<memoryVars, diskVars, workerVars, phase, issued, notified>>

\* rollback_failed_enqueue: out of the map, and a failed line in the results.
RollbackRemove(c) ==
  /\ Proceed(c, "rollback", "rollbackappend")
  /\ status' = [status EXCEPT ![hjob[c]] = "absent"]
  /\ hasResult' = [hasResult EXCEPT ![hjob[c]] = FALSE]
  /\ UNCHANGED <<queue, flags, diskVars, workerVars, phase, issued, notified>>

RollbackAppend(c) ==
  /\ Respond(c, "rollbackappend")
  /\ LogResult(hjob[c], "failed")
  /\ UNCHANGED <<memoryVars, submitted, dir, workerVars, phase, issued, notified>>

\* cancel_job_record reads the record, ...
CancelRead(c, j) ==
  /\ status[j] \in Pending
  /\ Accept(c, j, "flag")
  /\ UNCHANGED <<memoryVars, diskVars, workerVars, phase, issued, notified>>

\* ... sets the flag in the registry (no await between the two), ...
CancelFlag(c) ==
  /\ Proceed(c, "flag", "cancelinsert")
  /\ flags' = [flags EXCEPT ![hjob[c]] = "set"]
  /\ UNCHANGED <<status, hasResult, queue, diskVars, workerVars, phase, issued,
                 notified>>

\* ... writes the copy it read, canceled and without a result, over whatever
\* the map holds by now, ...
CancelInsert(c) ==
  /\ Proceed(c, "cancelinsert", "cancelappend")
  /\ status' = [status EXCEPT ![hjob[c]] = "canceled"]
  /\ hasResult' = [hasResult EXCEPT ![hjob[c]] = FALSE]
  /\ UNCHANGED <<queue, flags, diskVars, workerVars, phase, issued, notified>>

\* Mutant: the worker is trusted to log the cancellation.
CancelAppendLeftToWorker(c) ==
  /\ Respond(c, "cancelappend")
  /\ UNCHANGED <<memoryVars, diskVars, workerVars, phase, issued, notified>>

\* ... and logs it.
CancelAppend(c) ==
  /\ Respond(c, "cancelappend")
  /\ LogResult(hjob[c], "canceled")
  /\ UNCHANGED <<memoryVars, submitted, dir, workerVars, phase, issued, notified>>

\* Mutant: the directory is found by the job's id, with or without a result.
DeleteReadById(c, j) ==
  /\ status[j] \in Terminal
  /\ Accept(c, j, "rmdir")
  /\ UNCHANGED <<memoryVars, diskVars, workerVars, phase, issued, notified>>

\* delete_job_record reads a terminal record, removes the directory its result
\* names, and then writes and logs the deleted record.
DeleteRead(c, j) ==
  /\ status[j] \in Terminal
  /\ Accept(c, j, IF hasResult[j] THEN "rmdir" ELSE "deleteinsert")
  /\ UNCHANGED <<memoryVars, diskVars, workerVars, phase, issued, notified>>

DeleteArtifacts(c) ==
  /\ Proceed(c, "rmdir", "deleteinsert")
  /\ dir' = [dir EXCEPT ![hjob[c]] = "none"]
  /\ UNCHANGED <<memoryVars, submitted, logged, workerVars, phase, issued, notified>>

\* The delete is answered with an error, and the record keeps its result.
DeleteArtifactsFails(c) ==
  /\ "files" \in Disturbances
  /\ Respond(c, "rmdir")
  /\ \E d \in AfterFailedRemoval(dir[hjob[c]]) :
       dir' = [dir EXCEPT ![hjob[c]] = d]
  /\ UNCHANGED <<memoryVars, submitted, logged, workerVars, phase, issued, notified>>

DeleteInsert(c) ==
  /\ Proceed(c, "deleteinsert", "deleteappend")
  /\ status' = [status EXCEPT ![hjob[c]] = "deleted"]
  /\ hasResult' = [hasResult EXCEPT ![hjob[c]] = FALSE]
  /\ UNCHANGED <<queue, flags, diskVars, workerVars, phase, issued, notified>>

DeleteAppend(c) ==
  /\ Respond(c, "deleteappend")
  /\ LogResult(hjob[c], "deleted")
  /\ UNCHANGED <<memoryVars, submitted, dir, workerVars, phase, issued, notified>>

\* The future of the handler is dropped at an await: the timeout layer answered
\* for it or the client is gone.  Nothing undoes what it has done.
Abandon(c) ==
  /\ "abandon" \in Disturbances
  /\ hpc[c] \notin {"idle", "flag"}
  /\ Respond(c, hpc[c])
  /\ UNCHANGED <<memoryVars, diskVars, workerVars, phase, issued, notified>>

HandlerStep(c) ==
  \/ InsertQueued(c) \/ AppendSubmission(c) \/ AppendSubmissionFails(c)
  \/ TrySend(c) \/ TrySendFails(c) \/ RollbackRemove(c) \/ RollbackAppend(c)
  \/ CancelFlag(c) \/ CancelInsert(c) \/ CancelAppend(c)
  \/ DeleteArtifacts(c) \/ DeleteArtifactsFails(c) \/ DeleteInsert(c)
  \/ DeleteAppend(c)

Request(c) ==
  \/ "submit" \in Endpoints /\ \E j \in Jobs : Submit(c, j)
  \/ "retry" \in Endpoints /\ \E original, j \in Jobs : RetryJob(c, original, j)
  \/ "cancel" \in Endpoints /\ \E j \in Jobs : CancelRead(c, j)
  \/ "delete" \in Endpoints /\ \E j \in Jobs : DeleteRead(c, j)

------------------------------------------------------------------------------
\* The life cycle of the process.

\* shutdown_signal: no new request is accepted.
Signal ==
  /\ "signal" \in Disturbances
  /\ phase = "up"
  /\ phase' = "draining"
  /\ UNCHANGED <<memoryVars, diskVars, workerVars, handlerVars, issued, notified>>

\* axum::serve returns once the requests in flight are answered; stop_workers
\* then sets the shutdown flag ...
RequestShutdown ==
  /\ phase = "draining"
  /\ \A c \in Clients : hpc[c] = "idle"
  /\ phase' = "cancelling"
  /\ UNCHANGED <<memoryVars, diskVars, workerVars, handlerVars, issued, notified>>

\* Mutant: the registry is emptied before the flags are set.
CancelAllForgets ==
  /\ phase = "cancelling"
  /\ phase' = "closing"
  /\ flags' = [j \in Jobs |-> "none"]
  /\ UNCHANGED <<status, hasResult, queue, diskVars, workerVars, handlerVars,
                 issued, notified>>

\* ... sets every flag that is registered, ...
CancelAll ==
  /\ phase = "cancelling"
  /\ phase' = "closing"
  /\ flags' = [j \in Jobs |-> IF flags[j] = "none" THEN "none" ELSE "set"]
  /\ UNCHANGED <<status, hasResult, queue, diskVars, workerVars, handlerVars,
                 issued, notified>>

\* ... closes the queue ...
CloseQueue ==
  /\ phase = "closing"
  /\ phase' = "waiting"
  /\ UNCHANGED <<memoryVars, diskVars, workerVars, handlerVars, issued, notified>>

\* The process is gone, and with it all that is not on disk.
Stop ==
  /\ phase' = "down"
  /\ status' = All(Jobs, "absent") /\ hasResult' = All(Jobs, FALSE)
  /\ queue' = <<>> /\ flags' = All(Jobs, "none")
  /\ wpc' = All(Workers, "receive") /\ wjob' = All(Workers, NoJob)
  /\ outcome' = All(Workers, "none")
  /\ victims' = All(Workers, {}) /\ target' = All(Workers, NoJob)
  /\ hpc' = All(Clients, "idle") /\ hjob' = All(Clients, NoJob)
  /\ UNCHANGED <<diskVars, issued, notified>>

\* ... and waits for every worker.
Exit ==
  /\ phase = "waiting"
  /\ \A w \in Workers : wpc[w] = "stopped"
  /\ Stop

Crash ==
  /\ "crash" \in Disturbances
  /\ Running
  /\ Stop

\* load_jobs: a result line outweighs the submission line, a job without a
\* terminal result becomes failed, and is logged as such; compaction rewrites
\* both files with the most recent records, all of them terminal by now; the
\* map keeps the most recent ones, and nothing is queued again.
Known == {j \in Jobs : j \in submitted \/ logged[j] # "none"}
Recovered(j) == IF logged[j] = "none" THEN "failed" ELSE logged[j]

Restart ==
  /\ "restart" \in Disturbances
  /\ phase = "down"
  /\ phase' = "up"
  /\ \E onDisk \in (IF MetadataLimit = 0 THEN {Known}
                    ELSE Retainable(Known, MetadataLimit)) :
       logged' = [j \in Jobs |-> IF j \in onDisk THEN Recovered(j) ELSE "none"]
  /\ submitted' = IF MetadataLimit = 0 THEN submitted ELSE {}
  /\ \E inMemory \in Retainable(Known, RetentionLimit) :
       /\ status' = [j \in Jobs |->
            IF j \in inMemory THEN Recovered(j) ELSE "absent"]
       /\ hasResult' = [j \in Jobs |->
            j \in inMemory /\ Recovered(j) = "succeeded"]
  /\ UNCHANGED <<queue, flags, dir, workerVars, handlerVars, issued, notified>>

LifeCycle == RequestShutdown \/ CancelAll \/ CloseQueue \/ Exit

Next ==
  \/ \E w \in Workers : WorkerStep(w)
  \/ \E c \in Clients : Request(c) \/ HandlerStep(c) \/ Abandon(c)
  \/ Signal \/ LifeCycle \/ Crash \/ Restart

Spec == Init /\ [][Next]_vars

\* The runtime polls every task that can make progress; a tokio semaphore is
\* fair.
Fairness ==
  /\ \A w \in Workers : WF_vars(OwnStep(w)) /\ SF_vars(AcquirePermit(w))
  /\ \A c \in Clients : WF_vars(HandlerStep(c))
  /\ WF_vars(LifeCycle)

\* The outside world does what the code waits for without a limit: the children
\* of a killed command close its pipes, and the object store answers.
Answers ==
  \A w \in Workers :
    /\ WF_vars(FetchCanceled(w))
    /\ WF_vars(wpc[w] = "upload" /\ (UploadSucceeds(w) \/ DownloadFails(w)))

\* job_timeout_seconds ends every command, and the attempts are bounded.
DownloadsEnd ==
  \A w \in Workers :
    SF_vars(FetchSucceeds(w) \/ UploadSucceeds(w) \/ DownloadFails(w))

FairSpec == Spec /\ Fairness /\ Answers

------------------------------------------------------------------------------
\* Properties.

\* Every variable holds a value the code's types and protocol allow.
TypeOK ==
  /\ status \in [Jobs -> Status]
  /\ hasResult \in [Jobs -> BOOLEAN]
  /\ queue \in Seq(Jobs) /\ Len(queue) <= QueueSize
  /\ flags \in [Jobs -> {"none", "clear", "set"}]
  /\ submitted \in SUBSET Jobs
  /\ logged \in [Jobs -> {"none"} \cup Terminal]
  /\ dir \in [Jobs -> {"none", "partial", "complete", "torn"}]
  /\ wpc \in [Workers -> WorkerPlace]
  /\ wjob \in [Workers -> Jobs \cup {NoJob}]
  /\ outcome \in [Workers -> {"none", "succeeded", "failed", "canceled"}]
  /\ victims \in [Workers -> SUBSET Jobs]
  /\ target \in [Workers -> Jobs \cup {NoJob}]
  /\ hpc \in [Clients -> HandlerPlace]
  /\ hjob \in [Clients -> Jobs \cup {NoJob}]
  /\ phase \in Phase
  /\ issued \in SUBSET Jobs
  /\ notified \in SUBSET Jobs

InQueue(j) == \E i \in 1 .. Len(queue) : queue[i] = j
HeldBy(w, j) == wpc[w] \in Busy /\ wjob[w] = j
OfferedBy(c, j) == hpc[c] \in Offering /\ hjob[c] = j

\* A request for a job sits in one place at most: one slot of the queue, one
\* worker, or one handler about to send it.  Directories, flags and records
\* are named by the job alone, so two owners would work on each other's files.
SingleOwner ==
  /\ \A i, k \in 1 .. Len(queue) : queue[i] = queue[k] => i = k
  /\ \A v, w \in Workers : \A j \in Jobs : HeldBy(v, j) /\ HeldBy(w, j) => v = w
  /\ \A c, d \in Clients : \A j \in Jobs :
       OfferedBy(c, j) /\ OfferedBy(d, j) => c = d
  /\ \A j \in Jobs :
       /\ InQueue(j) => \A w \in Workers : ~HeldBy(w, j)
       /\ \A c \in Clients : OfferedBy(c, j) =>
            ~InQueue(j) /\ \A w \in Workers : ~HeldBy(w, j)

\* While yt-dlp or the upload runs its directory is there: no delete, no storage
\* pruning and no other worker's cleanup removes it underneath.
FetchHasDir ==
  \A w \in Workers : wpc[w] \in {"fetch", "upload"} => dir[wjob[w]] = "partial"

\* Once stop_workers has called cancel_all, a worker that still downloads has
\* its flag set, including one that registered it after the call: otherwise
\* wait() would last as long as the download.
ShutdownReaches ==
  phase \in {"closing", "waiting"} =>
    \A w \in Workers : wpc[w] \in Downloading => flags[wjob[w]] = "set"

\* A cancellation is not lost: a set flag stays set until the worker that holds
\* the job lets go of it.  Registering the flag again, cancel_all and the
\* removal of another job's flag do not clear it.
CancelSticks ==
  [][\A j \in Jobs :
       flags[j] = "set" /\ flags'[j] # "set" =>
         \/ phase' = "down"
         \/ \E w \in Workers : HeldBy(w, j) /\ wjob'[w] = NoJob]_vars

\* What the queue or a worker holds has a submission line, so that a crash
\* turns it into a failed job and not into an unknown one.
QueuedIsDurable ==
  \A j \in Jobs :
    InQueue(j) \/ (\E w \in Workers : HeldBy(w, j)) => j \in submitted

\* A record that says queued or running has somebody who will end it: its
\* request is on its way, or a handler is about to overwrite it.  (The server
\* drops requests at shutdown only; a dropped handler is not among the
\* disturbances under which this holds.)
PendingHasOwner ==
  phase = "up" =>
    \A j \in Jobs : status[j] \in Pending =>
      \/ InQueue(j)
      \/ \E w \in Workers : HeldBy(w, j)
      \/ \E c \in Clients :
           hjob[c] = j /\ hpc[c] \in {"rollback", "cancelinsert"} \cup Offering

\* A succeeded record names a directory with all its media, unless somebody is
\* between its removal and the write of the deleted record, or a delete or a
\* prune failed half-way (which may well have taken the media): then the rest
\* of the directory is there and the record still has the result by which the
\* next delete or prune finds it.  No race leaves a succeeded record without
\* its directory, or with an unfinished one.
MediaPresent ==
  \A j \in Jobs : status[j] = "succeeded" =>
    \/ dir[j] = "complete"
    \/ dir[j] = "torn" /\ hasResult[j]
    \/ \E c \in Clients : hpc[c] = "deleteinsert" /\ hjob[c] = j
    \/ \E w \in Workers : wpc[w] = "tomb" /\ target[w] = j

\* Nobody is between a write to the record of j and the line for it.
Quiet(j) ==
  /\ \A w \in Workers : ~HeldBy(w, j) /\ target[w] # j
  /\ \A c \in Clients : hjob[c] # j

\* A record reached its terminal status through some line of the results file:
\* no path writes the map alone, so a restart cannot call the job interrupted.
TerminalIsLogged ==
  \A j \in Jobs : status[j] \in Terminal /\ Quiet(j) => logged[j] # "none"

\* The life of a job behind its record.
LifeOf(j) ==
  IF j \notin issued THEN "new"
  ELSE IF \E w \in Workers : HeldBy(w, j) /\ wpc[w] \notin BeforeStart THEN "running"
  ELSE IF InQueue(j) \/ \E w \in Workers : HeldBy(w, j) THEN "pending"
  ELSE IF \E c \in Clients : OfferedBy(c, j) THEN "offered"
  ELSE "settled"

Ledger == INSTANCE JobLedger WITH
  life <- [j \in Jobs |-> LifeOf(j)],
  Capacity <- Cardinality(Workers)

\* The core implements the ledger: no retry, restart or race starts a job a
\* second time, and the bounds on parallel downloads hold.
ImplementsLedger == Ledger!Spec

\* Ctrl-C ends the process, even when no download would ever end by itself
\* (given Answers: an upload that hangs keeps the process).
ShutdownCompletes == phase = "draining" ~> phase = "down"

\* A canceled download ends, even when yt-dlp would never exit by itself.  (A
\* canceled job that waits for a platform permit is let go only when another
\* download gives its permit back: the wait itself is not canceled.)
CancelStops ==
  \A w \in Workers :
    (wpc[w] \in Downloading /\ flags[wjob[w]] = "set") ~> (wpc[w] = "receive")

\* A job that reached the queue is settled: downloaded, failed, skipped as
\* canceled, or dropped at shutdown.
AcceptedSettles ==
  DownloadsEnd => \A j \in Jobs : InQueue(j) ~> (LifeOf(j) = "settled")

\* docs/http-api.md:159, "After each job reaches a terminal state such as
\* succeeded, failed, or canceled, the server sends a POST request".
TerminalIsNotified ==
  \A j \in Jobs :
    (status[j] \in {"succeeded", "failed", "canceled"}) ~> (j \in notified)

\* docs/http-api.md:398, "Delete a terminal job's downloaded files and mark the
\* job as deleted": when nobody works on the job any more, the files are gone.
DeletedHasNoFiles ==
  \A j \in Jobs : status[j] = "deleted" /\ Quiet(j) => dir[j] = "none"

\* docs/metadata-and-cleanup.md:9, the JSONL files are reloaded so that
\* completed records remain available: the last line says what the record says.
LogAgreesWithRecord ==
  \A j \in Jobs :
    status[j] \in Terminal /\ Quiet(j) => logged[j] = status[j]

------------------------------------------------------------------------------
\* The inductive invariant behind the safety properties.

\* A place says whether a job is held.  A process that is down holds nothing.
Places ==
  /\ \A w \in Workers :
       /\ wpc[w] \in Busy <=> wjob[w] \in Jobs
       /\ wpc[w] \in {"finish", "append"} => outcome[w] # "none"
       /\ wpc[w] \in {"tomb", "tombappend"} => target[w] \in Jobs
  /\ \A c \in Clients : hpc[c] # "idle" <=> hjob[c] \in Jobs
  /\ phase = "down" =>
       /\ queue = <<>>
       /\ \A w \in Workers : wpc[w] = "receive"
       /\ \A c \in Clients : hpc[c] = "idle"

\* Owned jobs carry a uuid that was drawn, and so do jobs with a result.
Owned(j) ==
  \/ InQueue(j)
  \/ \E w \in Workers : HeldBy(w, j)
  \/ \E c \in Clients : OfferedBy(c, j)

OnlyIssued ==
  \A j \in Jobs :
    Owned(j) \/ hasResult[j] \/ logged[j] = "succeeded" => j \in issued

\* A handler sends a request only after its submission line is on disk.
SendIsDurable ==
  \A c \in Clients : hpc[c] = "send" => hjob[c] \in submitted

\* A worker past flag_for finds its flag in the registry, where cancel and
\* cancel_all look for it.
FlagRegistered ==
  \A w \in Workers : wpc[w] \in HoldsFlag => flags[wjob[w]] # "none"

\* Behind the second look at the shutdown flag, cancel_all has reached it.
PastGate == {"recheck", "mark"} \cup Downloading
CancelAllReached ==
  phase \in {"closing", "waiting"} =>
    \A w \in Workers : wpc[w] \in PastGate => flags[wjob[w]] = "set"

\* The directory stands from prepare_download_dir to the end of the download.
NeedsDir == {"attempt", "fetch", "upload"}
DirStands ==
  \A w \in Workers : wpc[w] \in NeedsDir => dir[wjob[w]] = "partial"

\* A job without a final record yet.
Undone(w, j) ==
  HeldBy(w, j) /\ wpc[w] \in BeforeStart \cup Downloading \cup {"finish"}
Early(j) ==
  \/ InQueue(j)
  \/ \E w \in Workers : Undone(w, j)
  \/ \E c \in Clients : OfferedBy(c, j)

\* Whoever is about to remove a directory, by a result it has read, means a job
\* whose download is over.
RemovalsAreLate ==
  /\ \A j \in Jobs : hasResult[j] => ~Early(j)
  /\ \A c \in Clients, j \in Jobs :
       hpc[c] = "rmdir" /\ hjob[c] = j => j \in issued /\ ~Early(j)
  /\ \A w \in Workers : \A v \in victims[w] : v \in issued /\ ~Early(v)

IInv ==
  /\ TypeOK /\ Places
  /\ OnlyIssued /\ SingleOwner
  /\ SendIsDurable /\ QueuedIsDurable
  /\ FlagRegistered /\ CancelAllReached
  /\ DirStands /\ RemovalsAreLate
============================================================================
