# yt-dlp-server in TLA+

yt-dlp-server is an HTTP service that queues URLs, downloads them with yt-dlp
in a pool of workers, keeps a record of every job in memory and in two JSONL
files, and tells webhooks how jobs ended. This directory holds TLA+ models of
its behaviour, TLC configurations that check them on small instances, and
proofs, checked by TLAPS, that hold for every value of the constants. Paths
below are relative to the repository; `jobs.rs` stands for `src/jobs.rs`, and
so on.

## The parts, their state, and how they meet

| part | state | operations | code | model |
|---|---|---|---|---|
| Front door | a counter and a window per bucket | CORS, timeout, API key, `RateLimiter::check` | `api.rs` `router_with_state`; `state.rs` | `FrontDoor` |
| Validation | none | validate a request or submit it | `api.rs`, `platforms.rs` | `Validation`, `Platforms` |
| Submission, retry, batches | uuid of each job, its record, its line, its place in the queue | reuse, room, insert, append, `try_send`, roll back; batch actions | `api.rs`, `jobs.rs` `enqueue_record` | `JobServer` (one job), `JobBoard` (many) |
| Worker pool | what each worker does, platform permits, the shutdown flag | receive, two shutdown checks, flag registration, two skip checks, permit, mark, download, finish | `jobs.rs` `run_worker_loop` .. `finish_job` | `JobServer` |
| Cancellation registry | one atomic flag per job | `flag_for`, `cancel`, `cancel_all`, `remove` | `state.rs` | `JobServer` |
| Job map | `RwLock<HashMap<Uuid, JobRecord>>` | read, insert, update in place, evict | `api.rs`, `jobs.rs` | `JobServer` |
| Metadata files | two JSONL files | append, load, recover, compact | `util.rs`, `jobs.rs` | `MetadataLog` |
| Downloader | the attempts of one download | prepare, version, run yt-dlp, post-process, upload, clean up, back off, report | `downloader.rs` | `DownloadJob`, `ErrorKinds` |
| Storage | download directories | prune after a job, the cleanup endpoint, delete | `jobs.rs`, `api.rs` | `StorageCleanup`; its races in `JobServer` |
| Webhooks, dead letters | `webhooks_dead_letter.jsonl` | deliver with retries, record a dead letter, replay, dismiss, redeliver | `jobs.rs`, `api.rs` | `WebhookDelivery` |
| Media, info, archive | none | GET and HEAD with ranges and ETags, tar | `api.rs` | `ArtifactReads` |
| Lists and pages | none | filter, search, page, offer buttons | `api.rs`, `templates.rs`, `types.rs` | `JobQueries`, `JobBoard` |
| Configuration | none after the start | environment, file, defaults | `config.rs` | `Settings` |
| Life cycle | the phase of the process | start, serve, drain, `stop_workers`, exit | `main.rs` | `JobServer` |

Handlers and workers are tokio tasks. They meet in six places: the bounded
channel, the job map behind its lock, the registry behind its mutex, the
metadata files and the dead-letter file (each append its own open, write and
close, under no lock), and the download directories, which are named by the
job's id and protected by nothing. The map is never locked across an await, so
each handler is a sequence of short atomic steps with everybody else in
between: read the record, decide, set the flag, overwrite the record, append
the line.

### What is hard here

* A handler works on a *copy* of the record and writes it back later.
* The map and the files are written one after the other, never together.
* The cancellation flag, the record and the shutdown flag all say "stop", and a
  worker looks at them at different moments.
* The timeout layer, or a client that hangs up, drops a handler at any await.
* Directories are removed by the delete handler, by every worker's storage
  pruning and by the downloader itself, while workers download into theirs and
  readers read.
* Waiting for a platform permit cannot be canceled; an upload has no timeout; a
  killed command is waited for until its output pipes close.
* Retention evicts records that may still be queued or running.
* An append may be cut short, and the next line is glued to what is left of it.
* Compaction replaces two files, one after the other.
* Removing a dead letter rewrites the whole file while workers append to it.
* A batch decides everything first and enqueues one URL at a time afterwards.
* The same rule is often coded twice: validating and submitting, offering a
  button and accepting what it sends, the length of an archive and its bytes.

`PROJECT.json` lists these under "hazards", each at its line, with the
properties that would catch it going wrong.

## Modules

| module | what it is |
|---|---|
| `JobServer` | the job core: submission, retry, cancel, delete, queue, workers, registry, map, files, pruning, retention, shutdown, crash, restart |
| `JobLedger` | the promise of the core, one life per job; `JobServer` implements it |
| `DownloadJob` | one download, from `prepare_download_dir` to the record `finish_job` makes of it |
| `ErrorKinds` | how an error text is classified |
| `MetadataLog` | the two metadata files line by line, startup and compaction step by step |
| `DurableJobs` | the promise of the files; `MetadataLog` implements it |
| `WebhookDelivery` | attempts, dead letters, replay, dismissal, redelivery |
| `JobBoard` | requests about many jobs while jobs move on: batches, and paging |
| `StorageCleanup` | sizes, ages, the two kinds of sweep |
| `ArtifactReads` | ranges, archives, reads beside a delete |
| `FrontDoor` | the layers before a handler, and the rate limiter |
| `Validation`, `Platforms` | what is accepted as a request, twice |
| `JobQueries` | what a page shows and offers |
| `Settings` | how the configuration is put together |
| `Lists` | filter, enumerate and sum, as the iterator chains of the code compute them |
| `MC*` | instances for TLC |
| `JobServerProofs`, `DownloadJobProofs`, `MetadataLogProofs`, `WebhookDeliveryProofs` | theorems and proofs about the module of that name (`JobServer` with its ledger) |
| `JobBoardProofs` | about `JobBoard` and `JobQueries` |
| `StoredFilesProofs` | about `ArtifactReads` and `StorageCleanup` |
| `ApiProofs` | about `FrontDoor`, `Validation`, `Settings`, and all components of `MCApi` |
| `ListsProofs` | lemmas about `Lists` |

One module is one component. What several of them share is a step of one and a
subject of another: finishing a job is a dozen steps of `JobServer`, one step
of `JobBoard` and of `StorageCleanup`; a download is four places of `JobServer`
and everything of `DownloadJob`; an append succeeds or fails in `JobServer` and
is cut in pieces in `MetadataLog`. Each module says in its header what it leaves
to another.

### `JobServer`

Every action is the code between two points at which another task can run: an
await, or the release of a lock. `wpc[w]` is where a worker is.

| `wpc` | code that comes next |
|---|---|
| `receive` | `queue_rx.recv()` |
| `check`, `register`, `skip`, `acquire`, `gate`, `recheck` | the steps of `handle_worker_request`, in order |
| `mark` | `mark_running` |
| `prepare`, `attempt` | `prepare_download_dir`, and the look at the flag after it |
| `fetch` | yt-dlp and the post-processing commands |
| `upload` | `store_download_artifacts` |
| `finish`, `append`, `webhook` | `finish_job`: the map, the line, the webhook |
| `prune`, `tomb`, `tombappend` | `remove_storage_candidate` and `mark_job_deleted` |
| `retain`, `release` | `retain_recent_loaded_jobs`; `cancellations.remove` and the drop of the permit |

A handler's `hpc[c]` reads the same way: `insert`, `submitappend`, `send`,
`rollback`, `rollbackappend` are `enqueue_record`; `flag`, `cancelinsert`,
`cancelappend` are `cancel_job_record`; `rmdir`, `deleteinsert`,
`deleteappend` are `delete_job_record`. `Abandon` drops a handler at any of its
awaits (`flag` is not one: between reading the record and setting the flag
`cancel_job_record` does not await).

`status` and `hasResult` are the two fields of a record that anything depends
on. `logged[j]` is the status on the job's last line in the results file, which
is all a restart looks at. `notified` is a history variable: nothing reads it.
`phase` follows `main`: `draining` is axum's graceful shutdown, `cancelling`,
`closing`, `waiting` are the calls of `stop_workers`; `ShutdownRequested` and
`QueueClosed` are functions of it, because both are set once and for good.

A worker holds an `Arc` to its flag and the model reads the registry entry
instead. They are the same flag as long as the entry stays while the worker
holds the job, which is the conjunct `FlagRegistered` of the invariant: it is
proved, not assumed.

What is abstracted, and in which direction:

* `updated_at`: where the code keeps the most recent records, the model keeps
  any set of the right size; where the code prunes the oldest downloads until
  the total fits, the model prunes any subset, in any order. Every behaviour of
  the code is one of the model's. `StorageCleanup` and `JobBoard` have the order.
* A download is reduced to its outcomes and to what they leave in the
  directory. `RetryAttempt` may happen any number of times. A canceled attempt
  ends the job at once, while the code, when the backoff is zero, runs through
  its remaining attempts, which all see the flag. `DownloadJob` has the rest.
* The load of the flag and the read of the record in `should_skip_canceled_job`
  are one step.
* An append writes its line or fails; `load_jobs` is one step; a server that
  cannot start is one that stays down. `MetadataLog` has the rest.
* uuids are never drawn twice.
* A directory is `none`, `partial`, `complete` or `torn`. A removal is one step
  with three ends: all gone, nothing gone, or failed half-way (`torn`: the media
  may be gone, the directory is not). `remove_dir_all` may fail at any entry,
  and neither the pruning nor the delete handler looks at what is left
  (`AfterFailedRemoval`).
* Why a download failed is left to `DownloadJob`. What `JobServer` keeps of it is
  that a failure may be recorded as failed or as canceled (`FailedAs`), because
  `is_canceled_error` reads a text that may quote anything.
* A handler that overwrites the record (`CancelInsert`, `DeleteInsert`) writes
  the copy it has read. The model's copy is the status it sets, which is all
  the copy decides.

`JobLedger` gives each job one of the lives new, offered, pending, running,
settled; lives only go forward, and starting one is bounded by the workers and
by the platform's limit. `LifeOf` maps the core to it: what counts is not the
record but who holds the request. `ImplementsLedger` says that every step of
the core is a step of the ledger or none, crash and restart included.

### `DownloadJob`

`pc` follows `DownloadJob::run`: `prepare`, `disk` (`ensure_min_free_disk_space`),
`version` (`yt_dlp_version`), then per attempt `attempt`
(`prepare_download_dir`), `check` (the look at the flag), `poll` and `drain`
(`run_command_with_timeout`: the loop, and the pipes after it), `finalize`,
`post`, `rescan`, `upload` (`finalize_download_metadata`), `failed`
(`handle_attempt_error`), `backoff` (`sleep_or_cancel`), and `ended`, `done`
(`finish_job`). `Look` is one round of the poll loop with its three looks in
their order: has the process ended, has the deadline passed, is the flag set.
The environment ends processes, lets deadlines pass and sets the flag between
any two steps. An error is the reason behind it (`cause`, which the code
forgets) and the needles its text contains (`says`, which is all the code
keeps); `ErrorKinds` reads the latter, so `KindTellsWhy` compares what is
reported with what happened. The text of an error quotes others: yt-dlp's output
(up to 2000 characters of it), `df`'s, a command's name, the path of the
directory. `QuotedTexts` are those quotes, and they may contain any needle, "job
canceled" included. So `KindTellsWhy` has two directions: a cancellation or a
deadline that ended the job is recorded as such whatever was quoted before, and
a job recorded as canceled was canceled, or its error quotes somebody
(`Quoting`). The version command ignores the flag and the post-processing hides
every error behind one context that names only the job's id: both are modelled
as they are, which is why `LateStartsBounded` allows the version command and the
post-processing commands, and why a job that failed there is recorded neither
as canceled nor as timed out.

### `MetadataLog`

A file is its lines and how it ends: an append may write nothing (`none`), a
part of the line (`part`), all but the newline (`bare`) or the line (`whole`), and
what follows an unterminated line is glued to it (`util.rs` opens the file anew
and writes without looking). `LoadJobs`, `AppendRecovered`, `Compact`,
`ReplaceFirst`, `ReplaceSecond`, `RetainRecentJobs` are `load_jobs` and the
calls after it, with `Crash` in between. A bad line makes the server refuse to
start. `DurableJobs` is what the pair of files promises; the refinement mapping
is what a restart would find, evaluated in every state.

### `WebhookDelivery`

`Send`, `Retry`, `EndBackoff` are `replay_event`, shared by workers and
requests; `WorkerDone` is the rest of `deliver`; `LoadLetters`, `WriteTemp`,
`RenameTemp` are `remove_webhook_dead_letter` with `write_webhook_dead_letters`.
`temp` is the one temporary path all requests share: two removals at a time
may rename each other's file, which the model shows as it is. A write that fails
may leave a part of the file there. `Abandon` leaves a write under way to the
blocking pool (`orphan`). Histories tell what a replacement does to letters
that are not its own: `gone` has every letter any replacement dropped, `late`
those appended while one was under way, `crossed` that two were under way at a
time. Two abstractions: an append that lost only its newline counts as torn at
once and not only when the next one is glued to it, and the temporary file is
written in one step, so that what two crossed removals can make of it is a
choice of `RenameTemp` (`broken`).

### The modules of `MCApi`

`FrontDoor`: one step from the arrival of a request to its handler, as the
layers do not await. `Check` is `RateLimiter::check`; `KeyThenLimit` the order
of the two middlewares. Time is ticks, so the fraction of a second that
`retry_after` drops is there.
`JobBoard`: `Submit`, `Decide`, `CheckCapacity`, `InsertNext`, `AppendNext`,
`SendNext` are `submit_download_jobs`; each append may fail and ends the request
where it is, and `DropRequest` is the timeout layer, which may answer for it
anywhere in between. `BatchAction`, `ActOnNext` are `batch_job_action`, one
action on one job per step;
`StartPaging`, `ReadPage` a client of `list_job_records`.
`StorageCleanup`: `Snapshot`, `RemoveNext`, `RetainRecent` are the end of
`finish_job`; `RequestCleanup`, `DeleteNext` the endpoint and its plan.
`ArtifactReads`: `Plan` lists the file operations of each kind of request in
their order, `Touch` does the next one; `Tar` is the archive, block by block.
`Validation`: `Validate` collects errors, `SubmitForm` stops at the first. The
look at the workers before it (`ensure_workers_ready`) is about the server and
not the request; it is in `JobServer` and `JobQueries`.
`JobQueries`: `ListPage`, `DetailPage` are what the templates get; `CancelAnswer`,
`RetryAnswer`, `DeleteAnswer`, `RedeliverAnswer` are what the handlers answer,
early return by early return. What they meet besides the job is `Servers`: a
retry looks at the workers and at the queue before it looks at the job.
`OffersWork` tells the two apart: no button on an up-to-date page meets a
complaint about its job, and what still fails is the server's.
`Settings`: `Load` is `Config::load`; `StartJob` is `effective_download_policy`.

These components share no state that matters to their properties, so `MCApi`
checks them in one run: a behaviour picks a scene and plays that component,
the others rest in one state. The run is the disjoint union of their state
spaces.

What these components do with lists is `filter`, `enumerate` and `sum`. `Lists`
writes them as recursive functions over the length of a list: the operators of
the libraries that do the same take a predicate or an operator as an argument,
and nothing can be proved about those here.

## Runs

| run | instance | what holds |
|---|---|---|
| `records` | 2 jobs, 2 workers, 1 client, queue of 1, retention 1, pruning and object storage, directory operations that fail (removals half-way, too), no platform limit | `PendingHasOwner`, `MediaPresent`, `TerminalIsLogged`: map, queue, directories and results file agree; `IInv`, the invariant of the proofs |
| `disturbed` | 2 jobs, 2 workers, 1 client, platform limit 1, retention and compaction to 1 record, failing appends, dropped handlers, Ctrl-C, crash, restart | `TypeOK`, `SingleOwner`, `FetchHasDir`, `ShutdownReaches`, `QueuedIsDurable`, `CancelSticks` |
| `ledger` | 2 jobs, 2 workers, 2 clients racing for a queue of 1, failing appends, dropped handlers, Ctrl-C, crash, restart | `ImplementsLedger` |
| `live` | 2 jobs, 2 workers, 1 client, submit and cancel, Ctrl-C, under `FairSpec` | `ShutdownCompletes`, `CancelStops`, `AcceptedSettles` |
| `download` | 1 or 3 attempts, 0 or 2 commands, backoff 0 or 3 of at most 5, with and without each timeout, an unlucky uuid, errors that quote a timeout or "job canceled", under `FairSpec` | `ReportFits`, `FilesMatchOutcome`, `KindTellsWhy`, `LateStartsBounded`, `CancelEnds`, `TimeoutsEndIt` |
| `metadata` | 3 jobs, 4 writes, 3 starts, retention 1, compaction to 2, appends cut short, crashes everywhere | `KeptSurvive`, `ImplementsDurable` |
| `deliveries` | 2 events, 1 worker, 2 clients, 2 attempts, lost requests and answers, failing appends, half-written files, dropped requests, crash, under `FairSpec` with ids drawn in one order (`OrderedSpec`) | `LettersExact`, `RemovedForReason`, `NoFailureUnnoticed`, `DeliveriesEnd` |
| `api` | the eight scenes of `MCApi`: seven components, `JobBoard` in two of them (submissions and batches; paging) | `NoKeyNoEntry`, `RateBounded`, `RetryIsHonest`, `FullOnlyByRace`, `PagingMissesNothing`, `AnswersExact`, `CleanupFrees`, `ValidateAgrees`, `OffersWork`, `SettingsUsable` |
| `webhook`, `delete`, `reload`, `storage` | one worker; the storage scene | nothing: each refutes a sentence of the documentation, see Findings |

Every run of a module also checks its type invariant.

Why these bounds suffice. A race in the core is between two parties over one
job, or between one job's worker and another job's pruning or retention: two
jobs, two workers and one handler give every such pair, and `ledger` adds the
race of two handlers for the last queue slot (a delete touches nothing the
ledger is about, so that run does without). A queue of one and a retention of
one make both limits bind with two jobs. Handlers take any number of turns; the
only thing that runs out is uuids. Permutations of jobs, workers and clients
are a symmetry of the safety runs. Elsewhere:

* `download`: three attempts have a first, a middle and a last one; two commands
  a first and a last one; a backoff of 3 doubled saturates at 5.
* `metadata`: `MaxWrites` and `MaxStarts` let a job be written, settled and
  forgotten, and let a crash hit a recovery and a compaction that a later start
  finds; three jobs with compaction to two make it drop one.
* `deliveries`: two events suffice for one removal to lose the other's letter;
  two clients and a worker are all pairs that meet over the file. Which of the
  unused ids is drawn makes no difference, so one of them always comes first.
* `api`: `MaxTime` of 7 ticks is two windows of 3 and more; a limit of 2 makes
  the boundary visible. Two clients with two URLs compete for two slots; one of
  them only submits, the other one submits or sends batches
  (`OneClientSubmits`). Blocks of 2 bytes with sizes 0, 2, 3 and 5 are an empty, a full, a padded and a too
  large file; ranges are from the values before, in and beyond it. Three
  downloads of one or two bytes with a limit of 2 need one or two removals. Three
  jobs make three pages of one; an offset of 15 with 4-bit integers overflows.
  The lists of `Settings` vary one setting, list or group at a time, because
  `Config::load` reads them independently of each other.

Deadlock is not checked where the system may legitimately stop: nobody calls
any more, a download is over, a server refuses to start. `deliveries` checks it.

Why each restriction is there. `PendingHasOwner` is false once a handler may be
dropped between the insert and `try_send`, or once an append may fail: the
record then stays queued with nobody to run it. That is why `records` has
neither; the same holds for `MediaPresent` and `TerminalIsLogged`. The runs with
those disturbances check what does survive them. A removal that fails half-way
may take the media of a succeeded record and leave the rest (`torn`):
`MediaPresent` then asks for the result by which the next delete or prune finds
that rest. `LettersExact` is about times without `crossed` and `late`: a letter
that a worker appends between a request's load and its rename (`late`) is lost,
and two replacements at a time (`crossed`) undo each other. `RemovedForReason`
lets `late` happen and says that nothing else is lost with them; while two
replacements cross it speaks of the requests' own letters only. `FullOnlyByRace`
is about what a submission is told: a failed append or the timeout layer also
end one half-way, with some of its jobs accepted, and answer 500 or 408; that
the *queue* is blamed takes the race the property names. `PagingMissesNothing`
excepts readers under
whom a failed enqueue took its record back (`shifted`). `RetryIsHonest` counts
one second more than announced, because the fraction is dropped; exactly at the
announced second a client may be refused once more.

### Fairness

`JobServer`: every worker's own steps and every handler's steps are weakly fair,
because the runtime polls each woken task; `AcquirePermit` is strongly fair,
because tokio's semaphore queues its waiters; `LifeCycle` is weakly fair,
because `main` awaits one call after the other. What yt-dlp does is *not* fair:
`ShutdownCompletes` and `CancelStops` hold even if no download would ever end by
itself. `Answers` names what the code waits for without a limit: after a kill,
`drain_pipe` waits until the output pipes close, and an upload waits for the
object store, with neither a timeout nor a look at the flag. Without the second
assumption an upload that hangs keeps a canceled worker, and with it the
process. `DownloadsEnd`, a premise of `AcceptedSettles` only, says that downloads
that are not canceled end as well: `job_timeout_seconds` bounds a command and
`download_max_attempts` the attempts. With a timeout of zero the code makes no
such promise.

`DownloadJob` checks that premise on its own level: `Step` (the worker's task)
and `DeadlinePasses` (time) are weakly fair, `ChildEnds` is not. `TimeoutsEndIt`
needs both timeouts to be set, `CancelEnds` none. Draining and uploading are
steps of the task, which is the same assumption as `Answers`.

`WebhookDelivery`: each task is weakly fair, and an attempt ends because
`webhook_timeout_seconds` is a timeout of the HTTP client; with zero an attempt
may wait for ever.

`MetadataLog` and the components of `MCApi` are checked for safety only: what
they do is driven by requests nobody is bound to send.

## Findings

* **`webhook`, `TerminalIsNotified`.** docs/http-api.md:159 promises a webhook
  "After each job reaches a terminal state such as `succeeded`, `failed`, or
  `canceled`". A job canceled before its worker starts it becomes canceled in
  the handler; the worker skips it (jobs.rs:726) and never reaches
  `finish_job`, the only caller of `send_webhook`.
* **`delete`, `DeletedHasNoFiles`.** docs/http-api.md:398: "Delete a terminal
  job's downloaded files and mark the job as deleted". A cancel reads a running
  record; the download ends and the record becomes succeeded with a result; the
  cancel writes its copy back, canceled and without a result (api.rs:1657). A
  later delete finds no result and removes nothing: the files stay for good.
* **`reload`, `LogAgreesWithRecord`.** docs/metadata-and-cleanup.md:9 promises
  that a restart reloads the completed records. `finish_job` writes the map and
  appends its line later (jobs.rs:864); a delete in between logs "deleted"
  first, so that the job's last line says "succeeded" and a restart brings the
  deleted job back.
* **`storage`, `DiskWithinLimit`.** docs/metadata-and-cleanup.md:23: "the worker
  prunes the oldest succeeded download directories after jobs complete until
  retained media is under the configured byte limit". Retention evicts records
  from the map without their directories (jobs.rs:880), and the sweep counts the
  map only (jobs.rs:1047): the media of evicted jobs is outside of the limit
  and stays for good.

### Smaller observations

Met while reading, and either modelled as they are or outside of the models:

* The list page's form sends `status=` for "All" (templates.rs:473), which
  `parse_job_status` (api.rs:2788) refuses, while a blank platform or query is
  no filter. `JobQueries` has both.
* `offset + limit` of the pages is not checked for overflow (api.rs:3678);
  `JobQueries` wraps, as a release build does.
* `QUEUE_SIZE` is not raised to one (config.rs:200), and a bounded channel of
  size zero panics (main.rs:70). `JobServer` assumes a queue of one slot.
* A variable that is set but blank beats the file: `API_KEYS=""` turns
  authentication off; `api_keys` of the file are not trimmed, so `[""]` locks
  everybody out (config.rs:533). `Settings` has both.
* `remove_dir_all` may fail after it has removed the media (jobs.rs:1099,
  api.rs:3387): the record stays succeeded, its media may be gone, and the next
  delete finds the rest. `records` has it.
* yt-dlp's error output is quoted in the error of the job (downloader.rs:361),
  and a text that contains "job canceled" makes a failed job a canceled one
  (jobs.rs:956). `download` includes such a text.
* A submission whose append fails half-way through its URLs answers 500; the
  jobs before it are accepted, its own record stays queued with nobody to run it
  (jobs.rs:623, api.rs:1072), and the answer names none of them. `JobBoard` has it.
* A dead letter appended between a request's load and its rename is lost
  (jobs.rs:410), and all requests share one temporary path (jobs.rs:429).
* The kind of an error is guessed from its text (jobs.rs:960): a uuid with the
  digits 429 turns a failed post-processing into `rate_limited`. `download`
  includes such a uuid.
* A host `tiktok.com` with the documented path `/v/123` (platforms.rs:15) is
  refused; `Platforms` has the rule as coded.
* With a filter on the status, jobs that change leave the list and pull the
  others up a page: a reader may skip one (api.rs:1399).
* Of two entries of one platform or cookie profile in different spellings the
  last one counts, silently.

## Proofs

Every safety property of a passing run, the type invariants and the two
refinements included, is also a theorem: it holds for every value of the
constants that the assumptions admit, not only for the instance TLC checks.
Each proof follows the same path: a strengthening that is inductive, one lemma
per action (or one per part of the invariant), and the property as a
consequence.

### `JobServerProofs`

For all constants that satisfy the assumptions in `JobServer` (finitely many
jobs and workers, a queue of at least one slot, limits and switches of their
types; clients may be any set), with every disturbance switched on:

| theorem | says |
|---|---|
| `Inductive` | `Spec => []IInv` |
| `TypeCorrect` | `Spec => []TypeOK`; in particular the channel never holds more than `queue_size` |
| `JobsHaveOneOwner` | `Spec => []SingleOwner` |
| `QueuedJobsAreDurable` | `Spec => []QueuedIsDurable` |
| `FetchesKeepTheirDir` | `Spec => []FetchHasDir` |
| `ShutdownReachesWorkers` | `Spec => []ShutdownReaches` |
| `CancellationsStick` | `Spec => CancelSticks` |

None of the safety properties is inductive as it stands, and `IInv` is their
common strengthening:

* `Places` ties program counters to what they carry: a worker holds a job
  exactly when it is busy, and a process that is down holds nothing.
* `OnlyIssued` is what makes `SingleOwner` inductive: a fresh uuid has no owner,
  and everything that has an owner, a result or a succeeded line was drawn.
* `SendIsDurable` carries the submission line from the handler to the queue.
* `FlagRegistered` says the flag a worker polls is the one `cancel` and
  `cancel_all` find. It needs `SingleOwner`: `remove` drops the entry of a job,
  and only its single owner may do so.
* `CancelAllReached` covers the places between the second look at the shutdown
  flag and the download. A worker registers its flag *before* that look: either
  `cancel_all` came after the registration and set the flag, or it came before
  it, and then so did `request_shutdown`, and the look sees it.
* `DirStands` and `RemovalsAreLate` go together: whoever is about to remove a
  directory got there through a result, a result appears only when the download
  is over, and an id is never downloaded twice. So no removal, however late,
  hits a directory in use.

`NextIInv` is assembled from lemmas, one per part. `FootprintStep` states once
which actions touch which variables, and the lemmas `KeepsOwners`,
`ResultsAppear`, `LinesStay`, `FlagsStay`, `GateCloses`, `DirsStay` and
`RemovalsAim` define what a step may do to the variable a part talks about, so
that most of the actions need no argument of their own there.

#### The refinement of `JobLedger`

`ServerImplementsLedger` is `Spec => ImplementsLedger`: the job core implements
`JobLedger` for every value of the constants, with every disturbance.
`LedgerInductive` is `Spec => []LInv`, where `LInv` adds to `IInv` that the
workers holding a permit of a platform are within its limit.

A job's life is read off whose hands its request is in. `HandsStep` sorts the
steps of the core: most of them leave every hand as it is (`Still`) and map to
a stutter; the others (`Moves`) are a submission, a send, a withdrawn offer, a
receive, a start and a worker that lets go, and each maps to the ledger's step
of that name. Shutdown, crash and restart settle several jobs at a time. The
bounds of the ledger on what runs follow from the cardinalities: each running
job has its own worker, and its worker holds a permit of its platform. That the
workers are finitely many is assumed (`WorkersAssumption`; `config.workers` is
a number).

#### Records, lines and media

| theorem | excluded disturbances | says |
|---|---|---|
| `PendingRecordsAreOwned` | `append`, `abandon` | `Spec => []PendingHasOwner` |
| `SucceededRecordsHaveMedia` | `abandon`, `restart` | `Spec => []MediaPresent` |
| `TerminalRecordsAreLogged` | `append`, `abandon`; `restart` if metadata is compacted | `Spec => []TerminalIsLogged` |

Everything else may happen, crashes, shutdowns and removals that fail half-way
included. The exclusions are
those of the `records` run, and each is a way in which the code does lose the
property: a failed append of the submission line leaves its record behind; a
handler dropped between the flag and the record, or between the directory and
the record, leaves a record that is wrong; a restart trusts the last line, which
may be the "succeeded" of a job deleted since; a compaction drops lines.

`RecordFootprint` says, once for all steps, who may change a record, a flag, a
line, a directory, and where he goes next; the arguments after it are about
footprints only. `CancelPursued` is the part of the argument a reviewer would
ask for: a job whose flag is set and whose record is still pending has a cancel
handler on its way to the record, or a worker that is past its last look at the
flag and will end the job itself, so that the worker who skips it drops nothing.

### `DownloadJobProofs`

For any set of policies (any numbers of attempts and commands, any backoffs) and
any texts that errors may quote, "job canceled" included (`TextAssumption` asks
only that a uuid contains no needle but digits):

| theorem | says |
|---|---|
| `DownloadInductive` | `Spec => []DownloadInv` |
| `DownloadTypes` | `Spec => []TypeOK` |
| `ReportsFit` | `Spec => []ReportFits` |
| `FilesMatch` | `Spec => []FilesMatchOutcome` |
| `KindsTellWhy` | `Spec => []KindTellsWhy` |
| `LateStarts` | `Spec => []LateStartsBounded` |

The properties speak of the end of a download. `DownloadInv` says what each
place on the way has settled: `Stages` to which command and attempt it belongs,
`Counted` which errors were noted, with which backoffs, `FilesLeft` what is in
the directory, `Causes` what a text must contain given its cause, and `Late`
how many commands of the attempt were started after the flag was set. The proof
corrected two properties that the small instance could not tell apart from the
right ones: `retry_backoff` stops doubling at an exponent of 20, so that
`ReportFits` promises doubling for the first 21 attempts only; and the bound of
`LateStartsBounded` is one command or all post-processing commands, not one more.

### `MetadataLogProofs`

For any jobs, limits, numbers of writes and of starts:

| theorem | says |
|---|---|
| `LogInductive` | `Spec => []LogInv` |
| `LogTypes` | `Spec => []TypeOK` |
| `WrittenSurvives` | `Spec => []KeptSurvive` |
| `FilesAreDurable` | `Spec => ImplementsDurable`: the refinement of `DurableJobs` |

While the server runs, the files are the truth and the map follows. During a
startup it is the other way round: pending jobs are turned into failed in the
map first, then logged, and a compaction replaces one file and then the other.
`Recovering` relates the two job by job: a job is still in `todo`, and the files
have it queued; or the map has its last complete line (or none, because
`MetadataLimit` records at least as new displaced it), and what the files would
give is what the map has. `Compacting` says what is kept, and that the
submissions are empty before the results are replaced: whatever a crash leaves,
each job is found with the last of its records or not at all. The first
replacement is therefore a stutter of the promise (`ReplaceFirstEffect`) and the
second one its `Forget`, all jobs at a time; `LastOfLonger` and its like are the
lemmas on what one line more does.
`Recent` picks any set of newest records, ties in any order, and the
written file is any list of them sorted by age: the proof uses no more.

### `WebhookDeliveryProofs`

For all constants that satisfy `WebhookAssumption` (finitely many events, at
least one attempt, workers and clients apart):

| theorem | says |
|---|---|
| `DeliveryInductive` | `Spec => []DeliveryInv` |
| `DeliveryTypes` | `Spec => []TypeOK`; in particular no attempt beyond the last |
| `LettersAreExact` | `Spec => []LettersExact` |
| `RemovalsHaveReasons` | `Spec => []RemovedForReason` |
| `FailuresAreNoticed` | `Spec => []NoFailureUnnoticed` |

A letter leaves the file in three steps (load, temporary file, rename) with
others in between. `Grounds` carries the reason from the load to the rename,
and says that every copy of the file, the temporary one included, holds final
failures only: whichever file ends up in place, no letter in it was invented.
`Held` is about the letters nobody may lose (`Due`: final failures that were
neither dismissed nor acknowledged nor appended beside a replacement): as long as
replacements have not crossed, the file has them all, and so have the one copy
that may be under way and its temporary file. What a rename drops is therefore
never due. `Exact` adds that, if nothing was appended beside it either, that
copy is the file without its letter. It needs `OwnEvents`, which says that an
event is with one worker at a time and fails once: a letter that was taken out
is never appended again.

### `JobBoardProofs`

#### `JobBoard`

For any clients, URLs, sizes of queue, retention and pages
(`BoardAssumption`: sizes and limits are naturals, a page and a clock have room
for one, a request carries a list of URLs or of ids):

| theorem | says |
|---|---|
| `BoardInductive` | `BoardSpec => []BoardInv` |
| `FullOnlyAfterRace` | `BoardSpec => []FullOnlyByRace` |
| `PagingSeesAll` | `BoardSpec => []PagingMissesNothing` |
| `BoardTypes` | `BoardSpec => []BoardTypeOK` |

`Room` is what the capacity check leaves true until somebody else enqueues: the
URLs still to be enqueued, plus the record whose line is about to be appended or
that is about to be sent, plus the queue fit its size. A failed append and a
dropped request end the submission, workers only make it truer, and each step of the submission
itself takes as much from one side as it puts on the other (`NeededTail`).
`Pages` is about positions: a job that has not changed since the paging began
was seen, or at least as many records as were passed are in front of it. New
and changed records go to the front and push it down, evicted ones come from the
end behind it (`LaterRetained`), and a page takes exactly the next positions. At
the end of the list there is no position left for a job not seen. A record that
a failed enqueue takes back is the one change that pulls others up, and the
property excepts it.

`BoardTypes` needs to know what a request still has to do: `Submission` says for
each kind of request which decisions, records and ids its list holds, and
`DistinctIds` that a batch acts on each of its ids once.

#### `JobQueries`

For any jobs, filters, offsets and limits (`QueriesAssumption`: there are
finitely many jobs in memory, parameters are naturals, and the number of jobs
plus the longest page fits a machine word):

| theorem | says |
|---|---|
| `QueriesInvariant` | `QueriesSpec => []QueriesInv` |
| `QueriesTypes` | `QueriesSpec => []QueriesTypeOK` |
| `OfferedWorks` | `QueriesSpec => []OffersWork` |

`MapOK` says that the order by `updated_at` lists each job of the map once:
`FilterShorter` and `FilteredList` are why a job that changes does not appear
twice. `PageOK` is about the page somebody looks at. A detail page that is still
up to date offers what `Offered` gives for the present record; what the handlers
answer about that record, on any server, is compared with it button by button.
`Walks` is about the list: who came from offset 0 by the links has seen exactly
the records before the present position, then those of the page; at the end of
the list these are all (`CutInTwo`). It is here that `offset + limit` must not
wrap: who came by the links is at an offset below the number of jobs, so the
sum is below the bound of the assumption. The next page of an offset somebody
typed may wrap, and nothing is claimed of what he sees.

### `StoredFilesProofs`

#### `ArtifactReads`

For files of any size, any ranges and any block of the archive
(`ArtifactsAssumption`: sizes and numbers in ranges are naturals, a block is not
empty, a bound that is absent or garbled is no number):

| theorem | says |
|---|---|
| `ReadsInvariant` | `ArtifactsSpec => []ReadsInv` |
| `ReadsTypes` | `ArtifactsSpec => []ArtifactsTypeOK` |
| `ReadsExact` | `ArtifactsSpec => []AnswersExact` |

`AnswersExact` is mostly a fact about what a whole answer is. `RangeExact`
shows, for every header and every length, that `parse_range` selects the
positions the header asks for, and that it answers 416 only if there is none.
`TarReadable` shows that somebody who reads the archive by the format (a header
with the size, the bytes, zeros up to the next block, two empty blocks) finds
both files; it needs the arithmetic of the padding. `ServedExactly` puts the two
together for GET and HEAD. What the state adds is that files are removed while
they are read: `ReadsInv` says that an answer is the whole answer to some
request, or an error without a body, whatever came between two file operations.

#### `StorageCleanup`

For any number of jobs and sweepers, any sizes, limits and directories that
cannot be removed (`StorageAssumption`: finitely many jobs, numbered from 1;
sizes and limits are naturals):

| theorem | says |
|---|---|
| `StorageInvariant` | `StorageSpec => []StorageInv` |
| `StorageTypes` | `StorageSpec => []StorageTypeOK` |
| `CleanupFreesJobs` | `StorageSpec => []CleanupFrees` |

A sweep works on numbers it computed once, while downloads end, users delete
and other sweeps remove. `Balanced` is what it can rely on: `left` is the weight
of the jobs it counted without those it removed, and what it removed, what it
failed to remove and what it has yet to look at are different jobs of those it
counted. Others only make what is really left smaller (`StateGrows`: a job that
is gone does not come back), so `left` stays an upper bound. `AsWorker` adds that
a worker stops only at the end of its list or under the limit, `AsRequest` that a
request spares what its limit has room for and that its plan is no longer than
needed. `Weight` is the sum the code computes; `SumChanged` and `SumMonotone`
say what it does when one job leaves.

### `ApiProofs`

#### `FrontDoor`

For all constants that satisfy `DoorAssumption` (a window and a second of at
least one tick, limits that are naturals, lists of known keys; any requests and
slots, and a clock with any bound):

| theorem | says |
|---|---|
| `DoorInductive` | `DoorSpec => []DoorInv` |
| `KeysGuardTheDoor` | `DoorSpec => []NoKeyNoEntry` |
| `RateIsBounded` | `DoorSpec => []RateBounded`: twice the limit in any stretch of a window's length |
| `RetriesAreHonest` | `DoorSpec => []RetryIsHonest` |

`RateBounded` speaks of any stretch of time, the limiter only of its present
window. `DoorInv` connects them with `WindowKnows`, for each bucket: the window
started in the past; it has counted every admission since; those before it were
not later than its start; and those that are more than a full limit back lie a
whole window before it. When a window begins, the last two follow from the fact
that the old window held no more than the limit and is over; when it counts,
the admission two limits back is one that the last part speaks of.
`PromiseKept` says that a promise to a refused client reaches at least to the
end of the window; `Rounded` is the arithmetic of the dropped fraction.

#### `Validation`

For any lists of URLs, webhooks, formats, profiles and policies
(`ValidationAssumption`: the lists are lists, the bound on their length is a
natural, and `Missing` is not a request that was accepted):

| theorem | says |
|---|---|
| `ValidationInvariant` | `ValidationSpec => []ValidationInv` |
| `ValidationTypes` | `ValidationSpec => []ValidationTypeOK` |
| `ValidationAgrees` | `ValidationSpec => []ValidateAgrees` |

The code checks a request twice, in two ways. The invariant only says that both
answers are about the same request; `ErrorsAgree` is the theorem's content: the
list of all errors is empty exactly if the first one is none, and otherwise
contains it. That no URL is accepted twice comes from `FilterInjective` and from
the rule that drops the later of two that parse to the same.

#### `Settings`

For any environment and any file (`SettingsAssumption`: the defaults are
naturals; what is read of a number is a natural, absent, blank or garbled; the
lists of a file are lists):

| theorem | says |
|---|---|
| `SettingsInvariant` | `SettingsSpec => []SettingsInv` |
| `SettingsTypes` | `SettingsSpec => []SettingsTypeOK` |
| `SettingsWork` | `SettingsSpec => []SettingsUsable` |

`LoadedUsable` is about `Config::load`, `EffectiveUsable` about what a job of any
platform with any profile is started with. Where two entries have one name, the
last one counts: `LastPassed` is why it is one of those with the name.

#### All components

`ApiTypes` is `ApiSpec => []ApiTypeOK`: the invariants of the components hold
next to each other in every scene.

### `ListsProofs`

What a recursive function computes has to be proved by induction, and the
library's induction theorems take a predicate as a parameter, which the
provers cannot instantiate. `Counting` avoids the parameter: it speaks of a *set*
of numbers that contains 0 and with each number the next one. It follows from
`LeastNumber`, and that from `SmallestSet`, which rests on the library's theorem
that the strict subsets of a finite set are well-founded. `PassesDefined` and `SumsDefined` show with it that the
two recursions have solutions; the other lemmas say what they compute:
`FilteredList` (the elements of the set, each as often as before),
`FilterInjective`, `FilterShorter`, `CutInTwo`; `SumType`, `SumZero`,
`SumMonotone`, `SumChanged`.

### What is only model-checked

* Liveness: `ShutdownCompletes`, `CancelStops`, `AcceptedSettles`, `CancelEnds`,
  `TimeoutsEndIt`, `DeliveriesEnd`. Fairness is about ENABLED, which the provers
  do not handle.
* The four sentences of the documentation under Findings are refuted by a
  counterexample each; there is nothing to prove.

## Not modelled, and why

* Object storage, beyond the upload as a step: keys, URLs and the signature of
  a request are data computed from the configuration, and nothing here depends
  on them.
* CORS origins and security headers: constants of the answers.
* The wait endpoint is a loop over one read with a deadline; the queue position
  is documented as an estimate (it orders by `created_at`, not by the channel);
  the summary and the export format what a query collects.
* Metrics are counters nothing decides on, except the timeout metric, which
  `DownloadJob` has. `worker failed` and `worker_restarts` are never incremented.
* HTML and the OpenAPI description are rendering; what pages offer is in
  `JobQueries`.
* The Python client calls the API like any client.

## Plan

What is left:

1. `DownloadJob` as the refinement of the worker's places in `JobServer`
   (one outcome, a directory that is clean or complete). Both are proved, the
   step between them is an argument in prose.
2. The wait endpoint, if it ever does more than read.
