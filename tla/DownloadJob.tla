---------------------------- MODULE DownloadJob ----------------------------
(***************************************************************************)
(* One download, from prepare_download_dir to the record finish_job makes  *)
(* of it: the free-space check, the version command, the attempts with     *)
(* their external commands, post-processing, upload, clean-up, backoff,    *)
(* and how the error of the last attempt is reported.                      *)
(*                                                                         *)
(* An external command is polled: a process that has ended wins over the   *)
(* deadline, and the deadline over the cancellation flag.  The environment *)
(* decides when a command ends and how, when its deadline passes, when the *)
(* flag is set, and which directory operations fail.                       *)
(***************************************************************************)
EXTENDS Naturals, Sequences, ErrorKinds

CONSTANTS
  AttemptLimits, \* values of download_max_attempts in the policies
  CommandCounts, \* numbers of post-processing commands
  InitialBackoffs,  \* values of download_initial_backoff_ms
  MaxMillis,     \* u64::MAX, where a backoff saturates
  QuotedTexts,   \* what an error text may quote, as sets of needles: the
                 \* output of yt-dlp or df, a path, a command's name
  IdText,        \* needles the job's uuid contains by chance
  NoBackoff, NoError, NoRecord

ASSUME BoundAssumption ==
  /\ AttemptLimits \subseteq Nat \ {0} /\ CommandCounts \subseteq Nat
  /\ InitialBackoffs \subseteq Nat /\ MaxMillis \in Nat
\* A uuid has digits, the letters a to f and hyphens; what is quoted is any text.
ASSUME TextAssumption ==
  QuotedTexts \subseteq SUBSET Needles /\ IdText \subseteq {"429"}
\* No backoff is not a backoff of some length.
ASSUME NoneAssumption == NoBackoff \notin Nat

VARIABLES
  policy,      \* effective policy and the parts of the configuration it meets
  canceled,    \* the job's cancellation flag
  pc,          \* where the download is
  attempt,     \* number of the attempt
  errors,      \* attempt_errors
  dir,         \* the download directory
  command,     \* the external command that runs or comes next
  step,        \* number of the post-processing command
  child,       \* its process
  expired,     \* its deadline has passed
  verdict,     \* what the poll loop ended with
  failure,     \* the error of the attempt that just failed
  outcome,     \* the DownloadResult
  record,      \* what finish_job writes into the job record, and the metric
  stuck,       \* history: a clean-up failed
  lateStarts   \* history: commands started while the flag was set

vars == <<policy, canceled, pc, attempt, errors, dir, command, step, child, expired,
          verdict, failure, outcome, record, stuck, lateStarts>>
settled == <<outcome, record>>

Policies == [attempts: AttemptLimits, backoff: InitialBackoffs,
             fetchLimit: BOOLEAN, postLimit: BOOLEAN, commands: CommandCounts,
             failOnError: BOOLEAN]
\* "complete": an info JSON that parses and a media file are there.
Dir == {"absent", "empty", "partial", "complete"}
Command == {"none", "version", "fetch", "post"}
Place == {"prepare", "disk", "version", "attempt", "check", "poll", "drain",
          "finalize", "post", "rescan", "upload", "failed", "backoff", "ended", "done"}
Cause == {"dir", "disk", "spawn", "exit", "timeout", "canceled", "finalize"}
Error == [cause: Cause, says: SUBSET Needles]
Attempt == [attempt: Nat, error: Error, backoff: Nat \cup {NoBackoff}]

\* Mutant: the message says "timed out", but not "timed out after".
RewordedTimeout == {"timed out"}
\* The needles in "job timed out after .. seconds".
TimeoutText == {"timed out", "timed out after"}

\* Errors whose text has parts the server did not write: the path of the
\* directory, df's output, the command's name, yt-dlp's output.
Quoting == {"dir", "disk", "spawn", "exit"}

\* What the text of an error may contain.  Whatever goes wrong in
\* finalize_download_metadata is shown as its context, "failed to finalize
\* download metadata job_id=..": the reason is hidden.
TextsOf(cause) ==
  CASE cause = "canceled" -> {{"job canceled"}}
    [] cause = "timeout" -> {TimeoutText}
    [] cause = "finalize" -> {IdText}
    [] cause = "exit" -> {{"yt-dlp failed"} \cup t : t \in QuotedTexts}
    [] cause = "dir" -> {IdText \cup t : t \in QuotedTexts}
    [] OTHER -> QuotedTexts
Errors(cause) == {[cause |-> cause, says |-> t] : t \in TextsOf(cause)}

------------------------------------------------------------------------------
Init ==
  /\ policy \in Policies /\ canceled = FALSE
  /\ pc = "prepare" /\ attempt = 0 /\ errors = <<>> /\ dir = "absent"
  /\ command = "none" /\ step = 0 /\ child = "none" /\ expired = FALSE /\ verdict = "none"
  /\ failure = NoError /\ outcome = NoRecord /\ record = NoRecord
  /\ stuck = FALSE /\ lateStarts = 0

\* prepare_download_dir: remove whatever is there, create an empty directory.
DirPrepared == dir' = "empty"
DirRefused == dir' \in {dir, "absent"}

\* cleanup_partial_download: a failing removal is only logged.
CleanUp ==
  \/ dir' = "absent" /\ UNCHANGED stuck
  \/ dir # "absent" /\ UNCHANGED dir /\ stuck' = TRUE

\* A DownloadError leaves download_url.
Give(attempts, list, causes) ==
  /\ \E error \in causes :
       outcome' = [ok |-> FALSE, attempts |-> attempts, errors |-> list, error |-> error]
  /\ pc' = "ended"

\* run_attempt returns an error.
Fail(cause) == failure' \in Errors(cause) /\ pc' = "failed"
FailFinalize == Fail("finalize")

------------------------------------------------------------------------------
(* DownloadJob::prepare *)

Prepare ==
  /\ pc = "prepare"
  /\ \/ DirPrepared /\ pc' = "disk" /\ UNCHANGED outcome
     \/ DirRefused /\ Give(0, <<>>, Errors("dir"))
  /\ UNCHANGED <<policy, step, canceled, attempt, errors, command, child, expired,
                 verdict, failure, record, stuck, lateStarts>>

\* ensure_min_free_disk_space with a limit; df itself may fail as well.
CheckDisk ==
  /\ pc = "disk"
  /\ \/ pc' = "version" /\ UNCHANGED <<dir, stuck, outcome>>
     \/ CleanUp /\ Give(0, <<>>, Errors("disk"))
  /\ UNCHANGED <<policy, step, canceled, attempt, errors, command, child, expired,
                 verdict, failure, record, lateStarts>>

------------------------------------------------------------------------------
(* run_command_with_timeout *)

Spawn(cmd) ==
  /\ command' = cmd /\ child' = "running" /\ expired' = FALSE /\ pc' = "poll"
  /\ lateStarts' = IF canceled THEN lateStarts + 1 ELSE lateStarts

\* Mutant: post-processing commands run without their timeout.
LimitOfYtDlpOnly == CASE command = "version" -> TRUE
                      [] command = "fetch" -> policy.fetchLimit
                      [] OTHER -> FALSE
\* Mutant: post-processing commands do not poll the flag.
WatchedFetchOnly == command = "fetch"

\* yt_dlp_version runs with a deadline of its own and a flag nobody sets.
HasLimit == CASE command = "version" -> TRUE
              [] command = "fetch" -> policy.fetchLimit
              [] OTHER -> policy.postLimit
Watched == command # "version"

\* One round of the poll loop, in the order of the code.
Look == IF child # "running" THEN child
        ELSE IF HasLimit /\ expired THEN "timeout"
        ELSE IF Watched /\ canceled THEN "canceled"
        ELSE "running"

\* Files a command leaves behind, however it ended.
Written == IF command = "version" THEN {dir} ELSE {"partial", "complete"}

\* The loop ends: the process was reaped, or is killed and reaped here.
Poll ==
  /\ pc = "poll" /\ Look # "running"
  /\ verdict' = Look /\ child' = "none" /\ expired' = FALSE /\ pc' = "drain"
  /\ IF child = "running" THEN dir' \in Written ELSE UNCHANGED dir
  /\ UNCHANGED <<policy, step, canceled, attempt, errors, command, failure,
                 settled, stuck, lateStarts>>

ChildEnds ==
  /\ child = "running" /\ child' \in {"ok", "failed"} /\ dir' \in Written
  /\ UNCHANGED <<policy, step, canceled, pc, attempt, errors, command, expired,
                 verdict, failure, settled, stuck, lateStarts>>

DeadlinePasses ==
  /\ child = "running" /\ HasLimit /\ ~expired /\ expired' = TRUE
  /\ UNCHANGED <<policy, step, canceled, pc, attempt, errors, dir, command, child,
                 verdict, failure, settled, stuck, lateStarts>>

\* cancel or cancel_all sets the flag while the job is in the downloader.
Cancel ==
  /\ ~canceled /\ pc \notin {"ended", "done"} /\ canceled' = TRUE
  /\ UNCHANGED <<policy, step, pc, attempt, errors, dir, command, child, expired,
                 verdict, failure, settled, stuck, lateStarts>>

------------------------------------------------------------------------------
(* The version command, whose result is only reported. *)

StartVersion ==
  /\ pc = "version"
  /\ \/ Spawn("version") /\ UNCHANGED attempt
     \/ /\ pc' = "attempt" /\ attempt' = 1
        /\ UNCHANGED <<command, child, expired, lateStarts>>
  /\ UNCHANGED <<policy, step, canceled, errors, dir, verdict, failure, settled, stuck>>

VersionDone ==
  /\ pc = "drain" /\ verdict' = "none" /\ command = "version" /\ pc' = "attempt" /\ attempt' = 1
  /\ UNCHANGED <<policy, step, canceled, errors, dir, command, child, expired,
                 failure, settled, stuck, lateStarts>>

------------------------------------------------------------------------------
(* DownloadJob::run_attempt *)

PrepareAttempt ==
  /\ pc = "attempt"
  /\ \/ DirPrepared /\ pc' = "check" /\ UNCHANGED failure
     \/ DirRefused /\ Fail("dir")
  /\ UNCHANGED <<policy, step, canceled, attempt, errors, command, child, expired,
                 verdict, settled, stuck, lateStarts>>

\* Mutant: an attempt starts without a look at the flag.
StartFetchUnchecked ==
  /\ pc = "check" /\ Spawn("fetch")
  /\ UNCHANGED <<policy, step, canceled, attempt, errors, dir, verdict, failure,
                 settled, stuck>>

\* The look at the flag; run_yt_dlp spawns without awaiting in between.
StartFetch ==
  /\ pc = "check"
  /\ IF canceled
       THEN Fail("canceled")
            /\ UNCHANGED <<command, child, expired, lateStarts>>
       ELSE \/ Spawn("fetch") /\ UNCHANGED failure
            \/ Fail("spawn") /\ UNCHANGED <<command, child, expired, lateStarts>>
  /\ UNCHANGED <<policy, step, canceled, attempt, errors, dir, verdict, settled, stuck>>

\* run_yt_dlp returns.
FetchDone ==
  /\ pc = "drain" /\ verdict' = "none" /\ command = "fetch"
  /\ CASE verdict = "ok" -> pc' = "finalize" /\ UNCHANGED failure
       [] verdict = "failed" -> Fail("exit")
       [] verdict = "timeout" -> Fail("timeout")
       [] OTHER -> Fail("canceled")
  /\ UNCHANGED <<policy, step, canceled, attempt, errors, dir, command, child, expired,
                 settled, stuck, lateStarts>>

------------------------------------------------------------------------------
(* finalize_download_metadata *)

\* metadata_from_download_dir before the post-processing.
Finalize ==
  /\ pc = "finalize"
  /\ IF dir # "complete" THEN FailFinalize /\ UNCHANGED step
     ELSE IF policy.commands = 0 THEN pc' = "upload" /\ UNCHANGED <<failure, step>>
     ELSE pc' = "post" /\ step' = 1 /\ UNCHANGED failure
  /\ UNCHANGED <<policy, canceled, attempt, errors, dir, command, child, expired,
                 verdict, settled, stuck, lateStarts>>

\* A command that fails, times out, is canceled or cannot be started is a
\* failed step: the job fails or the commands stop there and it goes on.
StepFailed ==
  IF policy.failOnError THEN FailFinalize ELSE pc' = "rescan" /\ UNCHANGED failure

StartPost ==
  /\ pc = "post"
  /\ \/ Spawn("post") /\ UNCHANGED failure
     \/ StepFailed /\ UNCHANGED <<command, child, expired, lateStarts>>
  /\ UNCHANGED <<policy, step, canceled, attempt, errors, dir, verdict, settled, stuck>>

PostDone ==
  /\ pc = "drain" /\ verdict' = "none" /\ command = "post"
  /\ IF verdict # "ok" THEN StepFailed /\ UNCHANGED step
     ELSE IF step < policy.commands
            THEN pc' = "post" /\ step' = step + 1 /\ UNCHANGED failure
            ELSE pc' = "rescan" /\ UNCHANGED <<step, failure>>
  /\ UNCHANGED <<policy, canceled, attempt, errors, dir, command, child, expired,
                 settled, stuck, lateStarts>>

\* Mutant: the files found before the commands ran are trusted.
RescanSkipped ==
  /\ pc = "rescan" /\ pc' = "upload"
  /\ UNCHANGED <<policy, step, canceled, attempt, errors, dir, command, child,
                 expired, verdict, failure, settled, stuck, lateStarts>>

\* The commands may have changed the files: look again.
Rescan ==
  /\ pc = "rescan"
  /\ IF dir = "complete" THEN pc' = "upload" /\ UNCHANGED failure ELSE FailFinalize
  /\ UNCHANGED <<policy, step, canceled, attempt, errors, dir, command, child, expired,
                 verdict, settled, stuck, lateStarts>>

\* store_download_artifacts, with object storage: neither PUT has a timeout
\* or looks at the flag.
Upload ==
  /\ pc = "upload"
  /\ \/ /\ outcome' = [ok |-> TRUE, attempts |-> attempt, errors |-> errors,
                       error |-> NoError]
        /\ pc' = "ended" /\ UNCHANGED failure
     \/ FailFinalize /\ UNCHANGED outcome
  /\ UNCHANGED <<policy, step, canceled, attempt, errors, dir, command, child, expired,
                 verdict, record, stuck, lateStarts>>

------------------------------------------------------------------------------
(* handle_attempt_error and the loop of DownloadJob::run *)

\* Mutant: the first retry waits twice the initial backoff.
BackoffDoubledAtOnce(initial, failed) ==
  Min({initial * 2 ^ Min({failed, 20}), MaxMillis})

\* retry_backoff: doubles with every attempt, saturates at u64::MAX.
RetryBackoff(initial, failed) ==
  LET doublings == Min({failed - 1, 20})
  IN  Min({initial * 2 ^ doublings, MaxMillis})

\* Mutant: one attempt more than the policy has.
BackoffOneMore == IF attempt <= policy.attempts THEN RetryBackoff(policy.backoff, attempt)
                                                ELSE NoBackoff
\* The last attempt has no backoff.
Backoff == IF attempt < policy.attempts THEN RetryBackoff(policy.backoff, attempt)
                                        ELSE NoBackoff

HandleAttemptError ==
  /\ pc = "failed" /\ CleanUp /\ failure' = NoError
  /\ errors' = Append(errors, [attempt |-> attempt, error |-> failure,
                               backoff |-> Backoff])
  /\ CASE Backoff = NoBackoff -> Give(policy.attempts, errors', {failure})
                                 /\ UNCHANGED attempt
       [] Backoff = 0 -> pc' = "attempt" /\ attempt' = attempt + 1 /\ UNCHANGED outcome
       [] OTHER -> pc' = "backoff" /\ UNCHANGED <<attempt, outcome>>
  /\ UNCHANGED <<policy, step, canceled, command, child, expired, verdict,
                 record, lateStarts>>

\* sleep_or_cancel looks at the flag on its way and once more at its end.
EndBackoff ==
  /\ pc = "backoff"
  /\ IF canceled
       THEN Give(attempt, errors, Errors("canceled"))
            /\ UNCHANGED attempt
       ELSE pc' = "attempt" /\ attempt' = attempt + 1 /\ UNCHANGED outcome
  /\ UNCHANGED <<policy, step, canceled, errors, dir, command, child, expired, verdict,
                 failure, record, stuck, lateStarts>>

\* record_download_metrics and the record of finish_job.
Finish ==
  /\ pc = "ended" /\ pc' = "done"
  /\ record' =
       IF outcome.ok
         THEN [status |-> "succeeded", kind |-> "none", attempts |-> outcome.attempts,
               errors |-> outcome.errors, timedOut |-> FALSE]
         ELSE [status |-> IF IsCanceledError(outcome.error.says) THEN "canceled"
                                                                 ELSE "failed",
               kind |-> ClassifyError(outcome.error.says), attempts |-> outcome.attempts,
               errors |-> outcome.errors, timedOut |-> IsTimeoutError(outcome.error.says)]
  /\ UNCHANGED <<policy, step, canceled, attempt, errors, dir, command, child, expired,
                 verdict, failure, outcome, stuck, lateStarts>>

------------------------------------------------------------------------------
Drained == VersionDone \/ FetchDone \/ PostDone
Step ==
  \/ Prepare \/ CheckDisk \/ StartVersion \/ PrepareAttempt \/ StartFetch \/ Poll
  \/ Drained \/ Finalize \/ StartPost \/ Rescan \/ Upload
  \/ HandleAttemptError \/ EndBackoff \/ Finish
Next == Step \/ ChildEnds \/ DeadlinePasses \/ Cancel

\* The worker's task is polled and time passes.  A command need not end, but
\* after it the pipes are drained (Drained) and an upload is answered (Upload):
\* the code waits for both without a limit.
FairSpec == Init /\ [][Next]_vars /\ WF_vars(Step) /\ WF_vars(DeadlinePasses)
Spec == Init /\ [][Next]_vars

------------------------------------------------------------------------------
(* Properties *)

IsOutcome(o) ==
  o = NoRecord \/ /\ o.ok \in BOOLEAN /\ o.attempts \in 0 .. policy.attempts
                  /\ o.errors \in Seq(Attempt) /\ o.error \in Error \cup {NoError}

\* Types of the variables.
TypeOK ==
  /\ policy \in Policies /\ canceled \in BOOLEAN /\ pc \in Place
  /\ attempt \in 0 .. policy.attempts /\ errors \in Seq(Attempt) /\ dir \in Dir
  /\ command \in Command /\ step \in 0 .. policy.commands
  /\ child \in {"none", "running", "ok", "failed"}
  /\ expired \in BOOLEAN
  /\ verdict \in {"none", "ok", "failed", "timeout", "canceled"}
  /\ failure \in Error \cup {NoError} /\ IsOutcome(outcome)
  /\ stuck \in BOOLEAN /\ lateStarts \in Nat

\* The report of a job (attempts and attempt_errors of the record) counts
\* right: one error per failed attempt, numbered in order, each but the last
\* with twice the backoff of the one before (the same from the 21st on), up
\* from the policy's; a success has one attempt more than errors; and unless
\* the backoff was interrupted, the job's error is the one of its last attempt.
ReportFits ==
  pc = "done" =>
    /\ record.attempts = Len(record.errors) + (IF outcome.ok THEN 1 ELSE 0)
    /\ \A i \in DOMAIN record.errors :
         LET e == record.errors[i] IN
         /\ e.attempt = i
         /\ i = policy.attempts <=> e.backoff = NoBackoff
         /\ e.backoff # NoBackoff =>
              e.backoff = IF i = 1 THEN Min({policy.backoff, MaxMillis})
                          ELSE Min({(IF i <= 21 THEN 2 ELSE 1)
                                      * record.errors[i - 1].backoff, MaxMillis})
    /\ ~outcome.ok /\ record.attempts = policy.attempts =>
         outcome.error = record.errors[record.attempts].error

\* A job that succeeded left its media and its info JSON, also after the
\* post-processing; one that did not left nothing, unless a removal failed.
FilesMatchOutcome ==
  pc = "done" =>
    /\ outcome.ok => dir = "complete"
    /\ ~outcome.ok => dir = "absent" \/ stuck

\* Status, error_kind and the timeout metric are read off the text of the last
\* error.  A cancellation or a deadline that ended the job is told apart from
\* everything else, whatever earlier attempts printed, and one that hit the
\* post-processing never shows.  The other way around it takes a text from
\* outside: a job nobody canceled is recorded as canceled only when the text
\* quotes something that says "job canceled" (yt-dlp's own output may).
KindTellsWhy ==
  pc = "done" /\ ~outcome.ok =>
    LET cause == outcome.error.cause IN
    /\ cause = "canceled" =>
         canceled /\ record.status = "canceled" /\ record.kind = "canceled"
    /\ cause = "timeout" =>
         record.status = "failed" /\ record.kind = "timeout" /\ record.timedOut
    /\ cause = "finalize" =>
         /\ record.status = "failed" /\ ~record.timedOut
         /\ record.kind \notin {"canceled", "timeout"}
    /\ record.status = "canceled" =>
         /\ record.kind = "canceled"
         /\ cause = "canceled" \/ cause \in Quoting

\* Once the flag is set, the version command or the post-processing commands
\* of the attempt under way are all that is still started: no attempt runs
\* yt-dlp any more.
LateStartsBounded == lateStarts <= 1 \/ lateStarts <= policy.commands

\* A cancellation ends the job, even if the command would run for ever.
CancelEnds == canceled ~> pc = "done"

\* With a timeout for yt-dlp and for the commands every download ends, even if
\* no process ever ended by itself.
TimeoutsEndIt == (policy.fetchLimit /\ policy.postLimit) ~> pc = "done"
=============================================================================
