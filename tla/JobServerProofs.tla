-------------------------- MODULE JobServerProofs --------------------------
(***************************************************************************)
(* Proofs about JobServer, for every value of its constants, in three      *)
(* parts: who holds a job, its results and its directory; that JobServer   *)
(* implements JobLedger; what the records may be trusted for.              *)
(***************************************************************************)
EXTENDS JobServer, SequenceTheorems, FiniteSetTheorems, TLAPS

(***************************************************************************)
(* Ownership.  IInv is inductive.  Footprint says what any one step may do *)
(* to the owners of a job, to results, lines, flags and directories; it is *)
(* proved once, action by action.  The lemmas after it speak of footprints *)
(* and no longer of actions, and put the parts of IInv together.           *)
(***************************************************************************)

------------------------------------------------------------------------------
\* Type correctness and places.

\* However a download ends (prepare_download_dir, run_attempt and its error
\* paths), every variable stays well typed.
LEMMA EndDownloadType ==
  ASSUME TypeOK, NEW w \in Workers, NEW from,
         NEW o \in {"succeeded", "failed", "canceled"},
         NEW d \in {"none", "partial", "complete"},
         EndDownload(w, from, o, d)
  PROVE  TypeOK'
BY DEF TypeOK, EndDownload, Advance, memoryVars, handlerVars, WorkerPlace, Busy,
   Finishing

\* Every step of a worker, a handler or the process keeps the types; Places is
\* what says that a busy worker or handler has a job to name.
LEMMA TypeStep ==
  ASSUME TypeOK, Places, [Next]_vars
  PROVE  TypeOK'
<1> USE JobAssumption, LimitAssumption DEF TypeOK, vars, memoryVars, diskVars,
    workerVars, handlerVars, Advance, DropRequest, Proceed, Respond, Accept,
    Status, Pending, Terminal, WorkerPlace, Busy, BeforeStart, Downloading,
    Finishing, HandlerPlace, Offering, Phase
<1>1. ASSUME NEW w \in Workers, Receive(w) PROVE TypeOK'
  BY <1>1 DEF Receive
<1>2. ASSUME NEW w \in Workers, ReceiveClosed(w) PROVE TypeOK'
  BY <1>2 DEF ReceiveClosed
<1>3. ASSUME NEW w \in Workers, CheckShutdown(w) PROVE TypeOK'
  <2>1. CASE StopOnShutdown(w, "check")
    BY <2>1 DEF StopOnShutdown
  <2>2. CASE ContinueUnlessShutdown(w, "check", "register")
    BY <2>2 DEF ContinueUnlessShutdown
  <2> QED BY <1>3, <2>1, <2>2 DEF CheckShutdown
<1>4. ASSUME NEW w \in Workers, RegisterFlag(w) PROVE TypeOK'
  BY <1>4 DEF RegisterFlag, FlagFor
<1>5. ASSUME NEW w \in Workers, SkipCanceled(w) PROVE TypeOK'
  <2>1. CASE Advance(w, "skip", "receive")
    BY <1>5, <2>1 DEF SkipCanceled
  <2>2. CASE Advance(w, "recheck", "receive")
    BY <1>5, <2>2 DEF SkipCanceled
  <2> QED BY <1>5, <2>1, <2>2 DEF SkipCanceled
<1>6. ASSUME NEW w \in Workers, KeepRequest(w) PROVE TypeOK'
  BY <1>6 DEF KeepRequest
<1>7. ASSUME NEW w \in Workers, CheckShutdownAgain(w) PROVE TypeOK'
  <2>1. CASE StopOnShutdown(w, "gate")
    BY <2>1 DEF StopOnShutdown
  <2>2. CASE ContinueUnlessShutdown(w, "gate", "recheck")
    BY <2>2 DEF ContinueUnlessShutdown
  <2> QED BY <1>7, <2>1, <2>2 DEF CheckShutdownAgain
<1>8. ASSUME NEW w \in Workers, MarkRunning(w) PROVE TypeOK'
  BY <1>8 DEF MarkRunning
<1>9. ASSUME NEW w \in Workers, AcquirePermit(w) PROVE TypeOK'
  BY <1>9 DEF AcquirePermit
<1>10. ASSUME NEW w \in Workers, PrepareDir(w) PROVE TypeOK'
  BY <1>10 DEF PrepareDir
<1>11. ASSUME NEW w \in Workers, PrepareFails(w) PROVE TypeOK'
  <2>1. PICK o \in {"succeeded", "failed", "canceled"},
             d \in {"none", "partial", "complete"} :
               EndDownload(w, "prepare", o, d)
    BY <1>11 DEF PrepareFails, AfterCleanup, FailedAs
  <2> QED BY <2>1, EndDownloadType
<1>12. ASSUME NEW w \in Workers, StartAttempt(w) PROVE TypeOK'
  BY <1>12 DEF StartAttempt
<1>13. ASSUME NEW w \in Workers, AttemptCanceled(w) PROVE TypeOK'
  <2>1. PICK o \in {"succeeded", "failed", "canceled"},
             d \in {"none", "partial", "complete"} :
               EndDownload(w, "attempt", o, d)
    BY <1>13 DEF AttemptCanceled, AfterCleanup
  <2> QED BY <2>1, EndDownloadType
<1>14. ASSUME NEW w \in Workers, FetchCanceled(w) PROVE TypeOK'
  <2>1. PICK o \in {"succeeded", "failed", "canceled"},
             d \in {"none", "partial", "complete"} :
               EndDownload(w, "fetch", o, d)
    BY <1>14 DEF FetchCanceled, AfterCleanup
  <2> QED BY <2>1, EndDownloadType
<1>15. ASSUME NEW w \in Workers, FetchSucceeds(w) PROVE TypeOK'
  <2>1. PICK o \in {"succeeded", "failed", "canceled"},
             d \in {"none", "partial", "complete"} :
               EndDownload(w, "fetch", o, d)
    BY <1>15 DEF FetchSucceeds
  <2> QED BY <2>1, EndDownloadType
<1>16. ASSUME NEW w \in Workers, StartUpload(w) PROVE TypeOK'
  BY <1>16 DEF StartUpload
<1>17. ASSUME NEW w \in Workers, UploadSucceeds(w) PROVE TypeOK'
  <2>1. PICK o \in {"succeeded", "failed", "canceled"},
             d \in {"none", "partial", "complete"} :
               EndDownload(w, "upload", o, d)
    BY <1>17 DEF UploadSucceeds
  <2> QED BY <2>1, EndDownloadType
<1>18. ASSUME NEW w \in Workers, DownloadFails(w) PROVE TypeOK'
  <2>1. PICK from \in {"fetch", "upload"}, o \in {"failed", "canceled"},
             d \in {"none", "partial"} : EndDownload(w, from, o, d)
    BY <1>18 DEF DownloadFails, FailedAs, AfterCleanup
  <2> QED BY <2>1, EndDownloadType
<1>19. ASSUME NEW w \in Workers, RetryAttempt(w) PROVE TypeOK'
  <2>1. PICK d \in {"none", "partial"} :
          dir' = [dir EXCEPT ![wjob[w]] = d]
    BY <1>19 DEF RetryAttempt, AfterCleanup
  <2>2. CASE Advance(w, "fetch", "prepare")
    BY <1>19, <2>1, <2>2 DEF RetryAttempt
  <2>3. CASE Advance(w, "upload", "prepare")
    BY <1>19, <2>1, <2>3 DEF RetryAttempt
  <2> QED BY <1>19, <2>2, <2>3 DEF RetryAttempt
<1>20. ASSUME NEW w \in Workers, FinishJob(w) PROVE TypeOK'
  <2>1. wjob[w] \in Jobs /\ outcome[w] \in {"succeeded", "failed", "canceled"}
    BY <1>20 DEF FinishJob, Places
  <2> QED BY <1>20, <2>1 DEF FinishJob
<1>21. ASSUME NEW w \in Workers, FinishMissingJob(w) PROVE TypeOK'
  BY <1>21 DEF FinishMissingJob
<1>22. ASSUME NEW w \in Workers, AppendResult(w) PROVE TypeOK'
  BY <1>22 DEF AppendResult, LogResult
<1>23. ASSUME NEW w \in Workers, SendWebhook(w) PROVE TypeOK'
  <2>1. wjob[w] \in Jobs
    BY <1>23 DEF SendWebhook, Places
  <2>2. PICK S \in SUBSET Jobs : victims' = [victims EXCEPT ![w] = S]
    BY <1>23 DEF SendWebhook, PruneCandidates
  <2> QED BY <1>23, <2>1, <2>2 DEF SendWebhook
<1>24. ASSUME NEW w \in Workers, PruneDirectory(w) PROVE TypeOK'
  BY <1>24 DEF PruneDirectory
<1>25. ASSUME NEW w \in Workers, PruneFails(w) PROVE TypeOK'
  BY <1>25 DEF PruneFails, AfterFailedRemoval
<1>26. ASSUME NEW w \in Workers, MarkJobDeleted(w) PROVE TypeOK'
  BY <1>26 DEF MarkJobDeleted
<1>27. ASSUME NEW w \in Workers, MarkMissingJobDeleted(w) PROVE TypeOK'
  BY <1>27 DEF MarkMissingJobDeleted
<1>28. ASSUME NEW w \in Workers, AppendTombstone(w) PROVE TypeOK'
  BY <1>28 DEF AppendTombstone, LogResult
<1>29. ASSUME NEW w \in Workers, PruneDone(w) PROVE TypeOK'
  BY <1>29 DEF PruneDone
<1>30. ASSUME NEW w \in Workers, RetainRecentJobs(w) PROVE TypeOK'
  BY <1>30 DEF RetainRecentJobs, Retainable, Present
<1>31. ASSUME NEW w \in Workers, Release(w) PROVE TypeOK'
  BY <1>31 DEF Release
<1>32. ASSUME NEW c \in Clients, InsertQueued(c) PROVE TypeOK'
  BY <1>32 DEF InsertQueued
<1>33. ASSUME NEW c \in Clients, AppendSubmission(c) PROVE TypeOK'
  <2>1. hjob[c] \in Jobs
    BY <1>33 DEF AppendSubmission, Places
  <2> QED BY <1>33, <2>1 DEF AppendSubmission
<1>34. ASSUME NEW c \in Clients, AppendSubmissionFails(c) PROVE TypeOK'
  BY <1>34 DEF AppendSubmissionFails
<1>35. ASSUME NEW c \in Clients, TrySend(c) PROVE TypeOK'
  <2>1. hjob[c] \in Jobs
    BY <1>35 DEF TrySend, Places
  <2>2. queue' \in Seq(Jobs) /\ Len(queue') = Len(queue) + 1
    BY <1>35, <2>1, AppendProperties DEF TrySend
  <2>3. Len(queue') <= QueueSize
    BY <1>35, <2>2 DEF TrySend, QueueFull
  <2> QED BY <1>35, <2>2, <2>3 DEF TrySend
<1>36. ASSUME NEW c \in Clients, TrySendFails(c) PROVE TypeOK'
  BY <1>36 DEF TrySendFails
<1>37. ASSUME NEW c \in Clients, RollbackRemove(c) PROVE TypeOK'
  BY <1>37 DEF RollbackRemove
<1>38. ASSUME NEW c \in Clients, RollbackAppend(c) PROVE TypeOK'
  BY <1>38 DEF RollbackAppend, LogResult
<1>39. ASSUME NEW c \in Clients, CancelFlag(c) PROVE TypeOK'
  BY <1>39 DEF CancelFlag
<1>40. ASSUME NEW c \in Clients, CancelInsert(c) PROVE TypeOK'
  BY <1>40 DEF CancelInsert
<1>41. ASSUME NEW c \in Clients, CancelAppend(c) PROVE TypeOK'
  BY <1>41 DEF CancelAppend, LogResult
<1>42. ASSUME NEW c \in Clients, DeleteArtifacts(c) PROVE TypeOK'
  BY <1>42 DEF DeleteArtifacts
<1>43. ASSUME NEW c \in Clients, DeleteArtifactsFails(c) PROVE TypeOK'
  <2>1. hjob[c] \in Jobs
    BY <1>43 DEF DeleteArtifactsFails, Places
  <2>2. PICK d \in {"none", "partial", "complete", "torn"} :
          dir' = [dir EXCEPT ![hjob[c]] = d]
    BY <1>43, <2>1 DEF DeleteArtifactsFails, AfterFailedRemoval
  <2> QED BY <1>43, <2>1, <2>2 DEF DeleteArtifactsFails
<1>44. ASSUME NEW c \in Clients, DeleteInsert(c) PROVE TypeOK'
  BY <1>44 DEF DeleteInsert
<1>45. ASSUME NEW c \in Clients, DeleteAppend(c) PROVE TypeOK'
  BY <1>45 DEF DeleteAppend, LogResult
<1>46. ASSUME NEW c \in Clients, Abandon(c) PROVE TypeOK'
  BY <1>46 DEF Abandon
<1>47. ASSUME NEW c \in Clients, NEW j \in Jobs, Submit(c, j) PROVE TypeOK'
  BY <1>47 DEF Submit
<1>48. ASSUME NEW c \in Clients, NEW j \in Jobs, CancelRead(c, j) PROVE TypeOK'
  BY <1>48 DEF CancelRead
<1>49. ASSUME NEW c \in Clients, NEW j \in Jobs, DeleteRead(c, j) PROVE TypeOK'
  BY <1>49 DEF DeleteRead
<1>50. ASSUME Signal PROVE TypeOK'
  BY <1>50 DEF Signal
<1>51. ASSUME RequestShutdown PROVE TypeOK'
  BY <1>51 DEF RequestShutdown
<1>52. ASSUME CancelAll PROVE TypeOK'
  BY <1>52 DEF CancelAll
<1>53. ASSUME CloseQueue PROVE TypeOK'
  BY <1>53 DEF CloseQueue
<1>54. ASSUME Exit PROVE TypeOK'
  BY <1>54 DEF Exit, Stop, All
<1>55. ASSUME Crash PROVE TypeOK'
  BY <1>55 DEF Crash, Stop, All
<1>56. ASSUME Restart PROVE TypeOK'
  BY <1>56 DEF Restart, Retainable, Known, Recovered
<1>57. CASE UNCHANGED vars
  BY <1>57
<1> HIDE DEF TypeOK
<1> QED BY <1>1, <1>2, <1>3, <1>4, <1>5, <1>6, <1>7, <1>8, <1>9, <1>10, <1>11,
     <1>12, <1>13, <1>14, <1>15, <1>16, <1>17, <1>18, <1>19, <1>20, <1>21,
     <1>22, <1>23, <1>24, <1>25, <1>26, <1>27, <1>28, <1>29, <1>30, <1>31,
     <1>32, <1>33, <1>34, <1>35, <1>36, <1>37, <1>38, <1>39, <1>40, <1>41,
     <1>42, <1>43, <1>44, <1>45, <1>46, <1>47, <1>48, <1>49, <1>50, <1>51,
     <1>52, <1>53, <1>54, <1>55, <1>56, <1>57 DEF Next, WorkerStep, OwnStep,
     StartStep, DownloadStep, FetchStep, FinishStep, HandlerStep, Request,
     RetryJob, LifeCycle

------------------------------------------------------------------------------
\* What one step may do.

\* What one step may do to the requests and the uuids, apart from the three
\* actions that move a request: nobody gets hold of a job.
KeepsOwners ==
  /\ queue' \in {queue, <<>>}
  /\ issued' = issued
  /\ \A w \in Workers, j \in Jobs :
       /\ HeldBy(w, j)' => HeldBy(w, j)
       /\ Undone(w, j)' => Undone(w, j)
  /\ \A c \in Clients, j \in Jobs : OfferedBy(c, j)' => OfferedBy(c, j)

\* A result appears when its owner finishes the download, or is reloaded.
ResultsAppear ==
  \A j \in Jobs :
    /\ hasResult'[j] =>
         \/ hasResult[j]
         \/ phase = "down" /\ logged[j] = "succeeded"
         \/ \E w \in Workers :
              HeldBy(w, j) /\ wpc[w] = "finish" /\ wpc'[w] = "append"
    /\ logged'[j] = "succeeded" =>
         logged[j] = "succeeded" \/ \E w \in Workers : HeldBy(w, j)

\* Submission lines go in a compaction at startup only.
LinesStay ==
  /\ submitted \subseteq submitted' \/ phase = "down"
  /\ \A c \in Clients : hpc'[c] = "send" =>
       \/ hpc[c] = "send" /\ hjob'[c] = hjob[c]
       \/ hjob'[c] \in submitted'

\* A flag is lost or cleared when its worker lets go of the job.
FlagsStay ==
  /\ \A j \in Jobs :
       \/ flags[j] = "none" \/ flags'[j] \in {flags[j], "set"}
       \/ phase' = "down"
       \/ \E w \in Workers : HeldBy(w, j) /\ wjob'[w] = NoJob
  /\ \A w \in Workers : wpc'[w] \in HoldsFlag =>
       /\ wjob'[w] = wjob[w]
       /\ wpc[w] \in HoldsFlag \/ flags'[wjob[w]] # "none"

\* The closing phase begins with cancel_all and no worker passes the gate in it.
GateCloses ==
  LET Closing == {"closing", "waiting"} IN
  phase' \in Closing =>
    \/ /\ phase \in Closing
       /\ \A w \in Workers : wpc'[w] \in PastGate => wpc[w] \in PastGate
    \/ /\ UNCHANGED workerVars
       /\ \A j \in Jobs : flags[j] = "none" \/ flags'[j] = "set"

\* A directory in use goes through its owner, or through a removal.
DirsStay ==
  /\ \A j \in Jobs : dir[j] = "partial" =>
       \/ dir'[j] = "partial"
       \/ \E w \in Workers :
            /\ HeldBy(w, j) /\ wpc[w] \in Downloading
            /\ wpc'[w] \notin NeedsDir
       \/ \E c \in Clients : hpc[c] = "rmdir" /\ hjob[c] = j
       \/ \E w \in Workers : j \in victims[w]
  /\ \A w \in Workers : wpc'[w] \in NeedsDir =>
       /\ wjob'[w] = wjob[w]
       /\ wpc[w] \in NeedsDir \/ dir'[wjob[w]] = "partial"

\* A removal is aimed at a job that has a result.
RemovalsAim ==
  /\ \A c \in Clients : hpc'[c] = "rmdir" =>
       \/ hpc[c] = "rmdir" /\ hjob'[c] = hjob[c]
       \/ hasResult[hjob'[c]]
  /\ \A w \in Workers : \A v \in victims'[w] : v \in victims[w] \/ hasResult[v]

\* What a step may do, all in all: the places stay in order, at most one request
\* changes hands, and the rest is as said above.
Footprint ==
  /\ Places'
  /\ \/ KeepsOwners
     \/ \E w \in Workers : Receive(w)
     \/ \E c \in Clients : TrySend(c)
     \/ \E c \in Clients, j \in Jobs : Submit(c, j)
  /\ issued \subseteq issued'
  /\ ResultsAppear /\ LinesStay /\ FlagsStay /\ GateCloses /\ DirsStay
  /\ RemovalsAim

\* No step does more than its footprint, whoever takes it: worker, handler,
\* shutdown, crash or restart.  In particular a job changes hands in recv,
\* try_send and the first step of a submission only.
LEMMA FootprintStep ==
  ASSUME TypeOK, Places, [Next]_vars
  PROVE  Footprint
<1> USE JobAssumption DEF TypeOK, Places, Footprint, KeepsOwners,
    ResultsAppear, LinesStay, FlagsStay, GateCloses, DirsStay, RemovalsAim,
    HeldBy, OfferedBy, Undone, HoldsFlag, PastGate, NeedsDir,
    ShutdownRequested, QueueClosed, vars, memoryVars, diskVars, workerVars,
    handlerVars, Advance, DropRequest, Proceed, Respond, Accept, WorkerPlace,
    Busy, BeforeStart, Downloading, Finishing, HandlerPlace, Offering, Phase
<1>1. ASSUME NEW w \in Workers, Receive(w) PROVE Footprint
  <2>1. /\ Places' /\ issued \subseteq issued' /\ ResultsAppear /\ LinesStay
        /\ FlagsStay /\ GateCloses /\ DirsStay /\ RemovalsAim
    BY <1>1 DEF Receive
  <2>2. \E v \in Workers : Receive(v)
    BY <1>1
  <2> QED BY <2>1, <2>2
<1>2. ASSUME NEW w \in Workers, ReceiveClosed(w) PROVE Footprint
  BY <1>2 DEF ReceiveClosed
<1>3. ASSUME NEW w \in Workers, CheckShutdown(w) PROVE Footprint
  BY <1>3 DEF CheckShutdown, StopOnShutdown, ContinueUnlessShutdown
<1>4. ASSUME NEW w \in Workers, RegisterFlag(w) PROVE Footprint
  BY <1>4 DEF RegisterFlag, FlagFor
<1>5. ASSUME NEW w \in Workers, SkipCanceled(w) PROVE Footprint
  BY <1>5 DEF SkipCanceled
<1>6. ASSUME NEW w \in Workers, KeepRequest(w) PROVE Footprint
  <2>1. CASE Advance(w, "skip", "acquire")
    BY <1>6, <2>1 DEF KeepRequest
  <2>2. CASE Advance(w, "recheck", "mark")
    BY <1>6, <2>2 DEF KeepRequest
  <2> QED BY <1>6, <2>1, <2>2 DEF KeepRequest
<1>7. ASSUME NEW w \in Workers, CheckShutdownAgain(w) PROVE Footprint
  <2>1. CASE StopOnShutdown(w, "gate")
    BY <2>1 DEF StopOnShutdown
  <2>2. CASE ContinueUnlessShutdown(w, "gate", "recheck")
    BY <2>2 DEF ContinueUnlessShutdown
  <2> QED BY <1>7, <2>1, <2>2 DEF CheckShutdownAgain
<1>8. ASSUME NEW w \in Workers, MarkRunning(w) PROVE Footprint
  BY <1>8 DEF MarkRunning
<1>9. ASSUME NEW w \in Workers, AcquirePermit(w) PROVE Footprint
  BY <1>9 DEF AcquirePermit
<1>10. ASSUME NEW w \in Workers, PrepareDir(w) PROVE Footprint
  BY <1>10 DEF PrepareDir
<1>11. ASSUME NEW w \in Workers, PrepareFails(w) PROVE Footprint
  BY <1>11 DEF PrepareFails, EndDownload, AfterCleanup, FailedAs
<1>12. ASSUME NEW w \in Workers, StartAttempt(w) PROVE Footprint
  BY <1>12 DEF StartAttempt
<1>13. ASSUME NEW w \in Workers, AttemptCanceled(w) PROVE Footprint
  BY <1>13 DEF AttemptCanceled, EndDownload, AfterCleanup
<1>14. ASSUME NEW w \in Workers, FetchCanceled(w) PROVE Footprint
  BY <1>14 DEF FetchCanceled, EndDownload, AfterCleanup
<1>15. ASSUME NEW w \in Workers, FetchSucceeds(w) PROVE Footprint
  BY <1>15 DEF FetchSucceeds, EndDownload
<1>16. ASSUME NEW w \in Workers, StartUpload(w) PROVE Footprint
  BY <1>16 DEF StartUpload
<1>17. ASSUME NEW w \in Workers, UploadSucceeds(w) PROVE Footprint
  BY <1>17 DEF UploadSucceeds, EndDownload
<1>18. ASSUME NEW w \in Workers, DownloadFails(w) PROVE Footprint
  BY <1>18 DEF DownloadFails, EndDownload, AfterCleanup, FailedAs
<1>19. ASSUME NEW w \in Workers, RetryAttempt(w) PROVE Footprint
  BY <1>19 DEF RetryAttempt, AfterCleanup
<1>20. ASSUME NEW w \in Workers, FinishJob(w) PROVE Footprint
  BY <1>20 DEF FinishJob
<1>21. ASSUME NEW w \in Workers, FinishMissingJob(w) PROVE Footprint
  BY <1>21 DEF FinishMissingJob
<1>22. ASSUME NEW w \in Workers, AppendResult(w) PROVE Footprint
  BY <1>22 DEF AppendResult, LogResult
<1>23. ASSUME NEW w \in Workers, SendWebhook(w) PROVE Footprint
  BY <1>23 DEF SendWebhook, PruneCandidates
<1>24. ASSUME NEW w \in Workers, PruneDirectory(w) PROVE Footprint
  BY <1>24 DEF PruneDirectory
<1>25. ASSUME NEW w \in Workers, PruneFails(w) PROVE Footprint
  BY <1>25 DEF PruneFails, AfterFailedRemoval
<1>26. ASSUME NEW w \in Workers, MarkJobDeleted(w) PROVE Footprint
  BY <1>26 DEF MarkJobDeleted
<1>27. ASSUME NEW w \in Workers, MarkMissingJobDeleted(w) PROVE Footprint
  BY <1>27 DEF MarkMissingJobDeleted
<1>28. ASSUME NEW w \in Workers, AppendTombstone(w) PROVE Footprint
  BY <1>28 DEF AppendTombstone, LogResult
<1>29. ASSUME NEW w \in Workers, PruneDone(w) PROVE Footprint
  BY <1>29 DEF PruneDone
<1>30. ASSUME NEW w \in Workers, RetainRecentJobs(w) PROVE Footprint
  BY <1>30 DEF RetainRecentJobs, Retainable, Present
<1>31. ASSUME NEW w \in Workers, Release(w) PROVE Footprint
  BY <1>31 DEF Release
<1>32. ASSUME NEW c \in Clients, InsertQueued(c) PROVE Footprint
  BY <1>32 DEF InsertQueued
<1>33. ASSUME NEW c \in Clients, AppendSubmission(c) PROVE Footprint
  BY <1>33 DEF AppendSubmission
<1>34. ASSUME NEW c \in Clients, AppendSubmissionFails(c) PROVE Footprint
  BY <1>34 DEF AppendSubmissionFails
<1>35. ASSUME NEW c \in Clients, TrySend(c) PROVE Footprint
  <2>1. /\ Places' /\ issued \subseteq issued' /\ ResultsAppear /\ LinesStay
        /\ FlagsStay /\ GateCloses /\ DirsStay /\ RemovalsAim
    BY <1>35 DEF TrySend, QueueFull
  <2>2. \E d \in Clients : TrySend(d)
    BY <1>35
  <2> QED BY <2>1, <2>2
<1>36. ASSUME NEW c \in Clients, TrySendFails(c) PROVE Footprint
  BY <1>36 DEF TrySendFails
<1>37. ASSUME NEW c \in Clients, RollbackRemove(c) PROVE Footprint
  BY <1>37 DEF RollbackRemove
<1>38. ASSUME NEW c \in Clients, RollbackAppend(c) PROVE Footprint
  BY <1>38 DEF RollbackAppend, LogResult
<1>39. ASSUME NEW c \in Clients, CancelFlag(c) PROVE Footprint
  BY <1>39 DEF CancelFlag
<1>40. ASSUME NEW c \in Clients, CancelInsert(c) PROVE Footprint
  BY <1>40 DEF CancelInsert
<1>41. ASSUME NEW c \in Clients, CancelAppend(c) PROVE Footprint
  BY <1>41 DEF CancelAppend, LogResult
<1>42. ASSUME NEW c \in Clients, DeleteArtifacts(c) PROVE Footprint
  BY <1>42 DEF DeleteArtifacts
<1>43. ASSUME NEW c \in Clients, DeleteArtifactsFails(c) PROVE Footprint
  BY <1>43 DEF DeleteArtifactsFails, AfterFailedRemoval
<1>44. ASSUME NEW c \in Clients, DeleteInsert(c) PROVE Footprint
  BY <1>44 DEF DeleteInsert
<1>45. ASSUME NEW c \in Clients, DeleteAppend(c) PROVE Footprint
  BY <1>45 DEF DeleteAppend, LogResult
<1>46. ASSUME NEW c \in Clients, Abandon(c) PROVE Footprint
  BY <1>46 DEF Abandon
<1>47. ASSUME NEW c \in Clients, NEW j \in Jobs, Submit(c, j) PROVE Footprint
  <2>1. /\ Places' /\ issued \subseteq issued' /\ ResultsAppear /\ LinesStay
        /\ FlagsStay /\ GateCloses /\ DirsStay /\ RemovalsAim
    BY <1>47 DEF Submit
  <2>2. \E d \in Clients, i \in Jobs : Submit(d, i)
    BY <1>47
  <2> QED BY <2>1, <2>2
<1>48. ASSUME NEW c \in Clients, NEW j \in Jobs, CancelRead(c, j) PROVE
     Footprint
  BY <1>48 DEF CancelRead
<1>49. ASSUME NEW c \in Clients, NEW j \in Jobs, DeleteRead(c, j) PROVE
     Footprint
  BY <1>49 DEF DeleteRead
<1>50. ASSUME Signal PROVE Footprint
  BY <1>50 DEF Signal
<1>51. ASSUME RequestShutdown PROVE Footprint
  BY <1>51 DEF RequestShutdown
<1>52. ASSUME CancelAll PROVE Footprint
  BY <1>52 DEF CancelAll
<1>53. ASSUME CloseQueue PROVE Footprint
  BY <1>53 DEF CloseQueue
<1>54. ASSUME Exit PROVE Footprint
  BY <1>54 DEF Exit, Stop, All
<1>55. ASSUME Crash PROVE Footprint
  BY <1>55 DEF Crash, Stop, All
<1>56. ASSUME Restart PROVE Footprint
  BY <1>56 DEF Restart, Retainable, Known, Recovered
<1>57. CASE UNCHANGED vars
  BY <1>57
<1> HIDE DEF Footprint, Places, TypeOK
<1> QED BY <1>1, <1>2, <1>3, <1>4, <1>5, <1>6, <1>7, <1>8, <1>9, <1>10, <1>11,
     <1>12, <1>13, <1>14, <1>15, <1>16, <1>17, <1>18, <1>19, <1>20, <1>21,
     <1>22, <1>23, <1>24, <1>25, <1>26, <1>27, <1>28, <1>29, <1>30, <1>31,
     <1>32, <1>33, <1>34, <1>35, <1>36, <1>37, <1>38, <1>39, <1>40, <1>41,
     <1>42, <1>43, <1>44, <1>45, <1>46, <1>47, <1>48, <1>49, <1>50, <1>51,
     <1>52, <1>53, <1>54, <1>55, <1>56, <1>57 DEF Next, WorkerStep, OwnStep,
     StartStep, DownloadStep, FetchStep, FinishStep, HandlerStep, Request,
     RetryJob, LifeCycle

\* recv hands the request at the head of the channel to one worker.
LEMMA ReceiveMoves ==
  ASSUME TypeOK, Places, SingleOwner, NEW w \in Workers, Receive(w)
  PROVE  /\ InQueue(Head(queue)) /\ Head(queue) \in Jobs
         /\ \A i, k \in 1 .. Len(queue') : queue'[i] = queue'[k] => i = k
         /\ \A j \in Jobs : InQueue(j)' <=> InQueue(j) /\ j # Head(queue)
         /\ \A v \in Workers, j \in Jobs :
              HeldBy(v, j)' <=> HeldBy(v, j) \/ (v = w /\ j = Head(queue))
         /\ \A v \in Workers, j \in Jobs :
              Undone(v, j)' => Undone(v, j) \/ j = Head(queue)
         /\ \A c \in Clients, j \in Jobs : OfferedBy(c, j)' <=> OfferedBy(c, j)
         /\ issued' = issued
<1>1. /\ queue \in Seq(Jobs) /\ queue # <<>> /\ queue' = Tail(queue)
      /\ wpc[w] = "receive" /\ wpc' = [wpc EXCEPT ![w] = "check"]
      /\ wjob' = [wjob EXCEPT ![w] = Head(queue)]
      /\ UNCHANGED <<hpc, hjob, issued>>
  BY DEF TypeOK, Receive, Advance, handlerVars
<1>2. /\ Len(queue) \in Nat \ {0} /\ Len(queue') = Len(queue) - 1
      /\ Head(queue) = queue[1] /\ Head(queue) \in Jobs
      /\ \A i \in 1 .. Len(queue') : queue'[i] = queue[i + 1]
  BY <1>1, HeadTailProperties, EmptySeq, LenProperties
<1>3. /\ InQueue(Head(queue))
      /\ \A i, k \in 1 .. Len(queue') : queue'[i] = queue'[k] => i = k
  BY <1>2 DEF InQueue, SingleOwner
<1>4. ASSUME NEW j \in Jobs
      PROVE  InQueue(j)' <=> InQueue(j) /\ j # Head(queue)
  <2>1. ASSUME InQueue(j)' PROVE InQueue(j) /\ j # Head(queue)
    <3>1. PICK i \in 1 .. Len(queue') : queue'[i] = j
      BY <2>1 DEF InQueue
    <3>2. /\ i + 1 \in 1 .. Len(queue) /\ 1 \in 1 .. Len(queue)
          /\ queue[i + 1] = j /\ i + 1 # 1
      BY <1>2, <3>1
    <3> QED BY <1>2, <3>2 DEF InQueue, SingleOwner
  <2>2. ASSUME InQueue(j), j # Head(queue) PROVE InQueue(j)'
    <3>1. PICK i \in 1 .. Len(queue) : queue[i] = j
      BY <2>2 DEF InQueue
    <3>2. i - 1 \in 1 .. Len(queue') /\ queue'[i - 1] = j
      BY <1>2, <2>2, <3>1
    <3> QED BY <3>2 DEF InQueue
  <2> QED BY <2>1, <2>2
<1>5. \A v \in Workers, j \in Jobs :
        HeldBy(v, j)' <=> HeldBy(v, j) \/ (v = w /\ j = Head(queue))
  BY <1>1 DEF HeldBy, TypeOK, Busy, BeforeStart, Downloading, Finishing
<1>6. \A v \in Workers, j \in Jobs :
        Undone(v, j)' => Undone(v, j) \/ j = Head(queue)
  BY <1>1 DEF Undone, HeldBy, TypeOK, Busy, BeforeStart, Downloading, Finishing
<1>7. \A c \in Clients, j \in Jobs : OfferedBy(c, j)' <=> OfferedBy(c, j)
  BY <1>1 DEF OfferedBy
<1> QED BY <1>1, <1>2, <1>3, <1>4, <1>5, <1>6, <1>7

\* try_send hands the handler's request to the channel.
LEMMA TrySendMoves ==
  ASSUME TypeOK, Places, SingleOwner, NEW c \in Clients, TrySend(c)
  PROVE  /\ OfferedBy(c, hjob[c]) /\ hjob[c] \in Jobs /\ hpc[c] = "send"
         /\ \A i, k \in 1 .. Len(queue') : queue'[i] = queue'[k] => i = k
         /\ \A j \in Jobs : InQueue(j)' <=> InQueue(j) \/ j = hjob[c]
         /\ \A w \in Workers, j \in Jobs :
              /\ HeldBy(w, j)' <=> HeldBy(w, j)
              /\ Undone(w, j)' <=> Undone(w, j)
         /\ \A d \in Clients, j \in Jobs :
              OfferedBy(d, j)' <=> OfferedBy(d, j) /\ d # c
         /\ issued' = issued /\ submitted' = submitted
<1>1. /\ queue \in Seq(Jobs) /\ queue' = Append(queue, hjob[c])
      /\ hjob[c] \in Jobs /\ hpc[c] = "send"
      /\ hpc' = [hpc EXCEPT ![c] = "idle"] /\ hjob' = [hjob EXCEPT ![c] = NoJob]
      /\ UNCHANGED <<wpc, wjob, issued, submitted>>
  BY DEF TypeOK, Places, TrySend, Respond, workerVars, diskVars
<1>2. /\ Len(queue) \in Nat /\ Len(queue') = Len(queue) + 1
      /\ \A i \in 1 .. Len(queue) : queue'[i] = queue[i]
      /\ queue'[Len(queue) + 1] = hjob[c]
  BY <1>1, AppendProperties, LenProperties
<1>3. OfferedBy(c, hjob[c]) /\ ~InQueue(hjob[c])
  BY <1>1 DEF OfferedBy, Offering, SingleOwner
<1>4. \A i, k \in 1 .. Len(queue') : queue'[i] = queue'[k] => i = k
  <2> TAKE i, k \in 1 .. Len(queue')
  <2> HAVE queue'[i] = queue'[k]
  <2>1. CASE i \in 1 .. Len(queue) /\ k \in 1 .. Len(queue)
    BY <1>2, <2>1 DEF SingleOwner
  <2>2. CASE i = Len(queue) + 1 /\ k = Len(queue) + 1
    BY <2>2
  <2>3. CASE i = Len(queue) + 1 /\ k \in 1 .. Len(queue)
    BY <1>2, <1>3, <2>3 DEF InQueue
  <2>4. CASE k = Len(queue) + 1 /\ i \in 1 .. Len(queue)
    BY <1>2, <1>3, <2>4 DEF InQueue
  <2> QED BY <1>2, <2>1, <2>2, <2>3, <2>4
<1>5. ASSUME NEW j \in Jobs PROVE InQueue(j)' <=> InQueue(j) \/ j = hjob[c]
  <2>1. ASSUME InQueue(j)' PROVE InQueue(j) \/ j = hjob[c]
    <3>1. PICK i \in 1 .. Len(queue') : queue'[i] = j
      BY <2>1 DEF InQueue
    <3> QED BY <1>2, <3>1 DEF InQueue
  <2>2. ASSUME InQueue(j) PROVE InQueue(j)'
    <3>1. PICK i \in 1 .. Len(queue) : queue[i] = j
      BY <2>2 DEF InQueue
    <3>2. i \in 1 .. Len(queue') /\ queue'[i] = j
      BY <1>2, <3>1
    <3> QED BY <3>2 DEF InQueue
  <2>3. ASSUME j = hjob[c] PROVE InQueue(j)'
    <3>1. Len(queue) + 1 \in 1 .. Len(queue')
      BY <1>2
    <3> QED BY <1>2, <2>3, <3>1 DEF InQueue
  <2> QED BY <2>1, <2>2, <2>3
<1>6. \A w \in Workers, j \in Jobs :
        (HeldBy(w, j)' <=> HeldBy(w, j)) /\ (Undone(w, j)' <=> Undone(w, j))
  BY <1>1 DEF HeldBy, Undone
<1>7. \A d \in Clients, j \in Jobs :
        OfferedBy(d, j)' <=> OfferedBy(d, j) /\ d # c
  BY <1>1, JobAssumption DEF OfferedBy, TypeOK
<1> QED BY <1>1, <1>3, <1>4, <1>5, <1>6, <1>7

\* A submission draws a uuid nobody has and starts to offer it.
LEMMA SubmitMoves ==
  ASSUME TypeOK, NEW c \in Clients, NEW j \in Jobs, Submit(c, j)
  PROVE  /\ j \notin issued /\ issued' = issued \cup {j}
         /\ queue' = queue /\ submitted' = submitted
         /\ \A w \in Workers, i \in Jobs :
              /\ HeldBy(w, i)' <=> HeldBy(w, i)
              /\ Undone(w, i)' <=> Undone(w, i)
         /\ \A d \in Clients, i \in Jobs :
              OfferedBy(d, i)' <=> OfferedBy(d, i) \/ (d = c /\ i = j)
<1>1. /\ j \notin issued /\ issued' = issued \cup {j}
      /\ UNCHANGED <<queue, submitted, wpc, wjob>>
      /\ hpc[c] = "idle" /\ hpc' = [hpc EXCEPT ![c] = "insert"]
      /\ hjob' = [hjob EXCEPT ![c] = j]
  BY DEF Submit, Accept, memoryVars, diskVars, workerVars
<1> QED BY <1>1 DEF TypeOK, HeldBy, Undone, OfferedBy, Offering

\* finish_job does not move a request.
LEMMA FinishIsNoMove ==
  ASSUME TypeOK, NEW w \in Workers, wpc[w] = "finish", wpc'[w] = "append"
  PROVE  /\ ~ \E v \in Workers : Receive(v)
         /\ ~ \E c \in Clients : TrySend(c)
         /\ ~ \E c \in Clients, j \in Jobs : Submit(c, j)
BY DEF TypeOK, Receive, Advance, TrySend, Submit, workerVars

------------------------------------------------------------------------------
\* Each part of the inductive invariant is kept by every step.

\* No step gives a job a second owner: a uuid is drawn once, a request is in the
\* channel once, and the channel gives it to one worker.
LEMMA SingleOwnerStep ==
  ASSUME TypeOK, Places, OnlyIssued, SingleOwner, [Next]_vars
  PROVE  SingleOwner'
<1>1. CASE KeepsOwners
  <2>1. Len(<<>>) = 0
    BY EmptySeq
  <2> QED BY <1>1, <2>1 DEF KeepsOwners, SingleOwner, InQueue
<1>2. ASSUME NEW w \in Workers, Receive(w) PROVE SingleOwner'
  BY <1>2, ReceiveMoves DEF SingleOwner
<1>3. ASSUME NEW c \in Clients, TrySend(c) PROVE SingleOwner'
  BY <1>3, TrySendMoves DEF SingleOwner
<1>4. ASSUME NEW c \in Clients, NEW j \in Jobs, Submit(c, j)
      PROVE  SingleOwner'
  <2>1. ~Owned(j)
    BY <1>4, SubmitMoves DEF OnlyIssued
  <2> QED BY <1>4, <2>1, SubmitMoves DEF SingleOwner, Owned, InQueue
<1> QED BY <1>1, <1>2, <1>3, <1>4, FootprintStep DEF Footprint

\* A job gets an owner only by a submission that draws its uuid, and a job whose
\* download is over is not taken up again.
LEMMA OwnedStep ==
  ASSUME TypeOK, Places, SingleOwner, [Next]_vars, NEW j \in Jobs
  PROVE  /\ Owned(j)' => Owned(j) \/ j \in issued' \ issued
         /\ j \in issued /\ Early(j)' => Early(j)
<1> USE DEF Owned, Early
<1>1. CASE KeepsOwners
  <2>1. InQueue(j)' => InQueue(j)
    BY <1>1, EmptySeq DEF KeepsOwners, InQueue
  <2> QED BY <1>1, <2>1 DEF KeepsOwners
<1>2. ASSUME NEW w \in Workers, Receive(w)
      PROVE  (Owned(j)' => Owned(j)) /\ (Early(j)' => Early(j))
  BY <1>2, ReceiveMoves
<1>3. ASSUME NEW c \in Clients, TrySend(c)
      PROVE  (Owned(j)' => Owned(j)) /\ (Early(j)' => Early(j))
  BY <1>3, TrySendMoves
<1>4. ASSUME NEW c \in Clients, NEW i \in Jobs, Submit(c, i)
      PROVE  /\ Owned(j)' => Owned(j) \/ j \in issued' \ issued
             /\ j \in issued /\ Early(j)' => Early(j)
  BY <1>4, SubmitMoves DEF InQueue
<1> QED BY <1>1, <1>2, <1>3, <1>4, FootprintStep DEF Footprint

\* Requests, results and succeeded lines belong to uuids that were drawn.
LEMMA OnlyIssuedStep ==
  ASSUME TypeOK, Places, OnlyIssued, SingleOwner, [Next]_vars
  PROVE  OnlyIssued'
<1> SUFFICES ASSUME NEW j \in Jobs,
                    Owned(j)' \/ hasResult'[j] \/ logged'[j] = "succeeded"
             PROVE  j \in issued'
  BY DEF OnlyIssued
<1>1. issued \subseteq issued' /\ ResultsAppear
  BY FootprintStep DEF Footprint
<1>2. CASE Owned(j)'
  BY <1>1, <1>2, OwnedStep DEF OnlyIssued
<1>3. CASE hasResult'[j] \/ logged'[j] = "succeeded"
  BY <1>1, <1>3 DEF OnlyIssued, ResultsAppear, Owned
<1> QED BY <1>2, <1>3

\* persist_queued_record appends the submission line before try_send, and
\* compaction removes lines only while nothing is queued.
LEMMA DurableStep ==
  ASSUME TypeOK, Places, SingleOwner, SendIsDurable, QueuedIsDurable,
         [Next]_vars
  PROVE  SendIsDurable' /\ QueuedIsDurable'
<1> DEFINE Accepted(j) == InQueue(j) \/ \E w \in Workers : HeldBy(w, j)
<1>1. LinesStay
  BY FootprintStep DEF Footprint
<1>2. phase = "down" =>
        /\ queue = <<>>
        /\ \A w \in Workers : wpc[w] = "receive"
        /\ \A c \in Clients : hpc[c] = "idle"
  BY DEF Places
<1>3. SendIsDurable'
  <2> SUFFICES ASSUME NEW c \in Clients, hpc'[c] = "send"
               PROVE  hjob'[c] \in submitted'
    BY DEF SendIsDurable
  <2> QED BY <1>1, <1>2 DEF LinesStay, SendIsDurable
<1>4. ASSUME NEW j \in Jobs, Accepted(j)'
      PROVE  phase # "down" /\ (Accepted(j) \/ j \in submitted)
  <2>1. CASE KeepsOwners
    <3>1. InQueue(j)' => InQueue(j)
      BY <2>1, EmptySeq DEF KeepsOwners, InQueue
    <3>2. Accepted(j)
      BY <1>4, <2>1, <3>1 DEF KeepsOwners
    <3> QED BY <1>2, <3>2, EmptySeq DEF InQueue, HeldBy, Busy, BeforeStart,
       Downloading, Finishing
  <2>2. ASSUME NEW w \in Workers, Receive(w)
        PROVE  phase # "down" /\ Accepted(j)
    <3>1. Accepted(j)
      BY <1>4, <2>2, ReceiveMoves
    <3> QED BY <1>2, <3>1, EmptySeq DEF InQueue, HeldBy, Busy, BeforeStart,
       Downloading, Finishing
  <2>3. ASSUME NEW c \in Clients, TrySend(c)
        PROVE  phase # "down" /\ (Accepted(j) \/ j \in submitted)
    BY <1>2, <1>4, <2>3, TrySendMoves DEF SendIsDurable
  <2>4. ASSUME NEW c \in Clients, NEW i \in Jobs, Submit(c, i)
        PROVE  phase # "down" /\ Accepted(j)
    BY <1>4, <2>4, SubmitMoves DEF InQueue, Submit, Accept
  <2> QED BY <2>1, <2>2, <2>3, <2>4, FootprintStep DEF Footprint
<1>5. QueuedIsDurable'
  BY <1>1, <1>4 DEF QueuedIsDurable, LinesStay
<1> QED BY <1>3, <1>5

\* The registry keeps the flag of every job a worker works on, and cancel_all
\* has set the flag of every worker that is past the second shutdown check.
LEMMA FlagsStep ==
  ASSUME TypeOK, Places, SingleOwner, FlagRegistered, CancelAllReached,
         [Next]_vars
  PROVE  FlagRegistered' /\ CancelAllReached'
<1>1. FlagsStay /\ GateCloses /\ Places'
  BY FootprintStep DEF Footprint
<1>2. ASSUME NEW w \in Workers, wpc[w] \in HoldsFlag, wpc'[w] \in HoldsFlag
      PROVE  /\ wjob'[w] = wjob[w] /\ wjob[w] \in Jobs
             /\ flags'[wjob[w]] \in {flags[wjob[w]], "set"}
  <2>1. wjob'[w] = wjob[w] /\ wjob[w] \in Jobs /\ HeldBy(w, wjob[w])
    BY <1>1, <1>2 DEF FlagsStay, HoldsFlag, Places, HeldBy
  <2>2. flags[wjob[w]] # "none"
    BY <1>2 DEF FlagRegistered
  <2>3. phase' # "down"
    BY <1>1, <1>2 DEF Places, HoldsFlag, Busy, BeforeStart, Downloading,
       Finishing
  <2>4. ~ \E v \in Workers : HeldBy(v, wjob[w]) /\ wjob'[v] = NoJob
    BY <2>1, JobAssumption DEF SingleOwner
  <2> QED BY <1>1, <2>1, <2>2, <2>3, <2>4 DEF FlagsStay
<1>3. FlagRegistered'
  <2> SUFFICES ASSUME NEW w \in Workers, wpc'[w] \in HoldsFlag
               PROVE  flags'[wjob'[w]] # "none"
    BY DEF FlagRegistered, HoldsFlag, Busy, BeforeStart, Downloading, Finishing
  <2>1. CASE wpc[w] \in HoldsFlag
    BY <1>2, <2>1 DEF FlagRegistered
  <2>2. CASE wpc[w] \notin HoldsFlag
    BY <1>1, <2>2 DEF FlagsStay
  <2> QED BY <2>1, <2>2
<1>4. PastGate \subseteq HoldsFlag
  BY DEF PastGate, HoldsFlag, Busy, BeforeStart, Downloading
<1>5. CancelAllReached'
  <2> SUFFICES ASSUME phase' \in {"closing", "waiting"},
                      NEW w \in Workers, wpc'[w] \in PastGate
               PROVE  flags'[wjob'[w]] = "set"
    BY DEF CancelAllReached, PastGate, Downloading
  <2>1. CASE /\ phase \in {"closing", "waiting"}
             /\ \A v \in Workers : wpc'[v] \in PastGate => wpc[v] \in PastGate
    BY <1>2, <1>4, <2>1 DEF CancelAllReached
  <2>2. CASE /\ UNCHANGED workerVars
             /\ \A j \in Jobs : flags[j] = "none" \/ flags'[j] = "set"
    BY <1>2, <1>4, <2>2 DEF workerVars, FlagRegistered
  <2> QED BY <1>1, <2>1, <2>2 DEF GateCloses
<1> QED BY <1>3, <1>5

\* Deletes and prunes are aimed at jobs whose download is over, and stay so.
LEMMA RemovalsStep ==
  ASSUME TypeOK, Places, OnlyIssued, SingleOwner, RemovalsAreLate, [Next]_vars
  PROVE  RemovalsAreLate'
<1>1. ResultsAppear /\ RemovalsAim /\ issued \subseteq issued' /\ TypeOK'
      /\ Places' /\ OnlyIssued'
  BY FootprintStep, TypeStep, OnlyIssuedStep DEF Footprint
<1>2. \A j \in Jobs : hasResult[j] => j \in issued /\ ~Early(j)
  BY DEF OnlyIssued, RemovalsAreLate
<1>3. \A j \in Jobs : j \in issued /\ ~Early(j) => j \in issued' /\ ~Early(j)'
  BY <1>1, OwnedStep
<1>4. ASSUME NEW j \in Jobs, hasResult'[j] PROVE ~Early(j)'
  <2>1. CASE hasResult[j]
    BY <1>2, <1>3, <2>1
  <2>2. CASE phase = "down" /\ logged[j] = "succeeded"
    <3>1. ~Early(j)
      BY <2>2, EmptySeq DEF Places, Early, InQueue, Undone, HeldBy, OfferedBy,
         Busy, BeforeStart, Downloading, Finishing, Offering
    <3> QED BY <1>3, <2>2, <3>1 DEF OnlyIssued
  <2>3. ASSUME NEW w \in Workers,
               HeldBy(w, j), wpc[w] = "finish", wpc'[w] = "append"
        PROVE  ~Early(j)'
    <3>1. j \in issued
      BY <2>3 DEF OnlyIssued, Owned
    <3>2. /\ ~InQueue(j) /\ \A c \in Clients : ~OfferedBy(c, j)
          /\ \A v \in Workers : HeldBy(v, j) => v = w
      BY <2>3 DEF SingleOwner
    <3>3. KeepsOwners
      BY <2>3, FootprintStep, FinishIsNoMove DEF Footprint
    <3>4. ~InQueue(j)' /\ ~ \E c \in Clients : OfferedBy(c, j)'
      BY <3>2, <3>3, EmptySeq DEF KeepsOwners, InQueue
    <3>5. ~ \E v \in Workers : Undone(v, j)'
      BY <2>3, <3>2, <3>3 DEF KeepsOwners, Undone, BeforeStart, Downloading
    <3> QED BY <3>4, <3>5 DEF Early
  <2> QED BY <1>1, <1>4, <2>1, <2>2, <2>3 DEF ResultsAppear
<1>5. ASSUME NEW c \in Clients, NEW j \in Jobs, hpc'[c] = "rmdir", hjob'[c] = j
      PROVE  j \in issued' /\ ~Early(j)'
  <2>1. j \in issued /\ ~Early(j)
    BY <1>1, <1>2, <1>5 DEF RemovalsAim, RemovalsAreLate
  <2> QED BY <1>3, <2>1
<1>6. ASSUME NEW w \in Workers, NEW v \in victims'[w]
      PROVE  v \in issued' /\ ~Early(v)'
  <2>1. v \in Jobs
    BY <1>1 DEF TypeOK
  <2>2. v \in issued /\ ~Early(v)
    BY <1>1, <1>2, <2>1 DEF RemovalsAim, RemovalsAreLate
  <2> QED BY <1>3, <2>1, <2>2
<1> QED BY <1>4, <1>5, <1>6 DEF RemovalsAreLate

\* Nobody but its worker touches the directory of a running download.
LEMMA DirStandsStep ==
  ASSUME TypeOK, Places, SingleOwner, DirStands, RemovalsAreLate, [Next]_vars
  PROVE  DirStands'
<1> SUFFICES ASSUME NEW w \in Workers, wpc'[w] \in NeedsDir
             PROVE  dir'[wjob'[w]] = "partial"
  BY DEF DirStands
<1>1. DirsStay
  BY FootprintStep DEF Footprint
<1>2. wjob'[w] = wjob[w]
  BY <1>1 DEF DirsStay
<1>3. CASE wpc[w] \in NeedsDir
  <2>1. dir[wjob[w]] = "partial" /\ wjob[w] \in Jobs
    BY <1>3 DEF DirStands, Places, NeedsDir, Busy, Downloading
  <2>2. HeldBy(w, wjob[w]) /\ Early(wjob[w])
    BY <1>3 DEF HeldBy, Early, Undone, NeedsDir, Busy, Downloading
  <2>3. \A v \in Workers : HeldBy(v, wjob[w]) => v = w
    BY <2>1, <2>2 DEF SingleOwner
  <2>4. /\ ~ \E c \in Clients : hpc[c] = "rmdir" /\ hjob[c] = wjob[w]
        /\ ~ \E v \in Workers : wjob[w] \in victims[v]
    BY <2>1, <2>2 DEF RemovalsAreLate
  <2> QED BY <1>1, <1>2, <2>1, <2>3, <2>4 DEF DirsStay
<1>4. CASE wpc[w] \notin NeedsDir
  BY <1>1, <1>2, <1>4 DEF DirsStay
<1> QED BY <1>3, <1>4

------------------------------------------------------------------------------
\* The theorems.

\* An empty server satisfies the inductive invariant.
LEMMA InitIInv == Init => IInv
<1> SUFFICES ASSUME Init PROVE IInv
  OBVIOUS
<1> USE JobAssumption, LimitAssumption DEF Init, All
<1>1. queue \in Seq(Jobs) /\ Len(queue) = 0
  BY EmptySeq
<1>2. TypeOK
  BY <1>1 DEF TypeOK, Status, WorkerPlace, HandlerPlace, Phase
<1>3. Places
  BY DEF Places, Busy, BeforeStart, Downloading, Finishing
<1>4. \A j \in Jobs : ~Owned(j) /\ ~Early(j)
  BY <1>1 DEF Owned, Early, InQueue, Undone, HeldBy, OfferedBy, Busy,
     BeforeStart, Downloading, Finishing, Offering
<1>5. OnlyIssued /\ SingleOwner
  BY <1>1, <1>4 DEF OnlyIssued, SingleOwner, Owned
<1>6. SendIsDurable /\ QueuedIsDurable
  BY <1>4 DEF SendIsDurable, QueuedIsDurable, Owned
<1>7. FlagRegistered /\ CancelAllReached
  BY DEF FlagRegistered, CancelAllReached, HoldsFlag, PastGate, Busy,
     BeforeStart, Downloading, Finishing
<1>8. DirStands /\ RemovalsAreLate
  BY DEF DirStands, RemovalsAreLate, NeedsDir
<1> QED BY <1>2, <1>3, <1>5, <1>6, <1>7, <1>8 DEF IInv

\* Every step of the system keeps the inductive invariant.
LEMMA NextIInv == IInv /\ [Next]_vars => IInv'
<1> SUFFICES ASSUME IInv, [Next]_vars PROVE IInv'
  OBVIOUS
<1>1. TypeOK' /\ Places'
  BY TypeStep, FootprintStep DEF IInv, Footprint
<1>2. OnlyIssued' /\ SingleOwner'
  BY OnlyIssuedStep, SingleOwnerStep DEF IInv
<1>3. SendIsDurable' /\ QueuedIsDurable'
  BY DurableStep DEF IInv
<1>4. FlagRegistered' /\ CancelAllReached'
  BY FlagsStep DEF IInv
<1>5. DirStands' /\ RemovalsAreLate'
  BY DirStandsStep, RemovalsStep DEF IInv
<1> QED BY <1>1, <1>2, <1>3, <1>4, <1>5 DEF IInv

\* The inductive invariant holds in every reachable state of the server.
THEOREM Inductive == Spec => []IInv
BY InitIInv, NextIInv, PTL DEF Spec

\* Every variable keeps its type, whatever workers, handlers, crashes and
\* restarts do: the channel never exceeds its bound.
THEOREM TypeCorrect == Spec => []TypeOK
<1>1. IInv => TypeOK
  BY DEF IInv
<1> QED BY <1>1, Inductive, PTL

\* No job is ever worked on, queued or offered twice at the same time.
THEOREM JobsHaveOneOwner == Spec => []SingleOwner
<1>1. IInv => SingleOwner
  BY DEF IInv
<1> QED BY <1>1, Inductive, PTL

\* What the queue or a worker holds survives a crash as a submission line, with
\* failing appends and dropped handlers included.
THEOREM QueuedJobsAreDurable == Spec => []QueuedIsDurable
<1>1. IInv => QueuedIsDurable
  BY DEF IInv
<1> QED BY <1>1, Inductive, PTL

\* No delete, prune, cleanup or restart removes the directory under yt-dlp.
THEOREM FetchesKeepTheirDir == Spec => []FetchHasDir
<1>1. IInv => FetchHasDir
  BY DEF IInv, DirStands, FetchHasDir, NeedsDir
<1> QED BY <1>1, Inductive, PTL

\* cancel_all reaches every worker that downloads or is about to, also the one
\* that was waiting for a permit when it was called.
THEOREM ShutdownReachesWorkers == Spec => []ShutdownReaches
<1>1. IInv => ShutdownReaches
  BY DEF IInv, CancelAllReached, ShutdownReaches, PastGate
<1> QED BY <1>1, Inductive, PTL

\* A cancellation that was requested is cleared only by the worker of the job
\* letting go of it, or with the process.
THEOREM CancellationsStick == Spec => CancelSticks
<1>1. IInv /\ [Next]_vars =>
        [\A j \in Jobs :
           flags[j] = "set" /\ flags'[j] # "set" =>
             \/ phase' = "down"
             \/ \E w \in Workers : HeldBy(w, j) /\ wjob'[w] = NoJob]_vars
  BY FootprintStep DEF IInv, Footprint, FlagsStay
<1> QED BY <1>1, Inductive, PTL DEF Spec, CancelSticks

------------------------------------------------------------------------------
(***************************************************************************)
(* The ledger: JobServer implements JobLedger.  A job's life is read off   *)
(* its owner: the request is in the hands of a handler, of the channel or  *)
(* of a worker.  Most steps leave all hands as they are and map to a       *)
(* stutter; Hands names the others.  What the bounds of the ledger need    *)
(* beyond IInv is PermitsBounded.                                          *)
(***************************************************************************)

------------------------------------------------------------------------------
\* The inductive invariant of the refinement.

\* At most max_concurrent workers hold a permit of a platform's semaphore.
PermitsBounded ==
  \A p \in Platforms : Cardinality(PermitHolders(p)) <= MaxConcurrent[p]

LInv == IInv /\ PermitsBounded

\* Worker w is past mark_running with job j.
Downloads(w, j) == HeldBy(w, j) /\ wpc[w] \notin BeforeStart

------------------------------------------------------------------------------
\* What a step may do to the hands a job is in.

\* No request changes hands and no download starts.
LifeStays ==
  /\ queue' = queue /\ issued' = issued
  /\ \A w \in Workers, j \in Jobs :
       /\ HeldBy(w, j)' <=> HeldBy(w, j)
       /\ Downloads(w, j)' <=> Downloads(w, j)
  /\ \A c \in Clients, j \in Jobs : OfferedBy(c, j)' <=> OfferedBy(c, j)

\* Nobody obtains a permit, and its holders keep their jobs.
PermitsKept ==
  \A w \in Workers : wpc'[w] \in HoldsPermit =>
    wpc[w] \in HoldsPermit /\ wjob'[w] = wjob[w]

Still == LifeStays /\ PermitsKept

\* A worker drops its request: finished, skipped, or dropped at shutdown.
LetsGo(w) ==
  /\ wpc[w] \in Busy
  /\ \E to \in {"receive", "stopped"} : wpc' = [wpc EXCEPT ![w] = to]
  /\ wjob' = [wjob EXCEPT ![w] = NoJob]
  /\ UNCHANGED <<queue, issued, hpc, hjob>>

\* A handler gives up the request it was about to send.
Withdraws(c) ==
  /\ hpc[c] \in Offering
  /\ \E to \in {"idle", "rollback"} : hpc' = [hpc EXCEPT ![c] = to]
  /\ hjob' \in {hjob, [hjob EXCEPT ![c] = NoJob]}
  /\ UNCHANGED <<queue, issued, wpc, wjob>>

\* The steps that move a request or start a download.
Moves ==
  \/ \E w \in Workers : Receive(w) \/ MarkRunning(w) \/ LetsGo(w)
  \/ \E c \in Clients : TrySend(c) \/ Withdraws(c)
  \/ \E c \in Clients, j \in Jobs : Submit(c, j)
  \/ Exit \/ Crash

\* Every step leaves all hands alone or is one of the moves, and permits are
\* obtained in acquire_for_job only.
LEMMA HandsStep ==
  ASSUME TypeOK, Places, [Next]_vars
  PROVE  /\ LifeStays \/ Moves
         /\ PermitsKept \/ \E w \in Workers : AcquirePermit(w)
<1> USE JobAssumption DEF TypeOK, Places, HeldBy, Downloads, OfferedBy,
    LifeStays, PermitsKept, Still, LetsGo, Withdraws, HoldsPermit, HoldsFlag,
    vars, memoryVars, diskVars, workerVars, handlerVars, Advance, DropRequest,
    Proceed, Respond, Accept, WorkerPlace, Busy, BeforeStart, Downloading,
    Finishing, HandlerPlace, Offering
<1>1. ASSUME NEW w \in Workers, ReceiveClosed(w) PROVE Still
  BY <1>1 DEF ReceiveClosed
<1>2. ASSUME NEW w \in Workers, RegisterFlag(w) PROVE Still
  BY <1>2 DEF RegisterFlag
<1>3. ASSUME NEW w \in Workers, KeepRequest(w) PROVE Still
  <2>1. CASE Advance(w, "skip", "acquire")
    BY <1>3, <2>1 DEF KeepRequest
  <2>2. CASE Advance(w, "recheck", "mark")
    BY <1>3, <2>2 DEF KeepRequest
  <2> QED BY <1>3, <2>1, <2>2 DEF KeepRequest
<1>4. ASSUME NEW w \in Workers, PrepareDir(w) PROVE Still
  BY <1>4 DEF PrepareDir
<1>5. ASSUME NEW w \in Workers, PrepareFails(w) PROVE Still
  BY <1>5 DEF PrepareFails, EndDownload, FailedAs
<1>6. ASSUME NEW w \in Workers, StartAttempt(w) PROVE Still
  BY <1>6 DEF StartAttempt
<1>7. ASSUME NEW w \in Workers, AttemptCanceled(w) PROVE Still
  BY <1>7 DEF AttemptCanceled, EndDownload
<1>8. ASSUME NEW w \in Workers, FetchCanceled(w) PROVE Still
  BY <1>8 DEF FetchCanceled, EndDownload
<1>9. ASSUME NEW w \in Workers, FetchSucceeds(w) PROVE Still
  BY <1>9 DEF FetchSucceeds, EndDownload
<1>10. ASSUME NEW w \in Workers, StartUpload(w) PROVE Still
  BY <1>10 DEF StartUpload
<1>11. ASSUME NEW w \in Workers, UploadSucceeds(w) PROVE Still
  BY <1>11 DEF UploadSucceeds, EndDownload
<1>12. ASSUME NEW w \in Workers, DownloadFails(w) PROVE Still
  BY <1>12 DEF DownloadFails, EndDownload, FailedAs
<1>13. ASSUME NEW w \in Workers, RetryAttempt(w) PROVE Still
  <2>1. CASE Advance(w, "fetch", "prepare")
    BY <1>13, <2>1 DEF RetryAttempt
  <2>2. CASE Advance(w, "upload", "prepare")
    BY <1>13, <2>2 DEF RetryAttempt
  <2> QED BY <1>13, <2>1, <2>2 DEF RetryAttempt
<1>14. ASSUME NEW w \in Workers, FinishJob(w) PROVE Still
  BY <1>14 DEF FinishJob
<1>15. ASSUME NEW w \in Workers, FinishMissingJob(w) PROVE Still
  BY <1>15 DEF FinishMissingJob
<1>16. ASSUME NEW w \in Workers, AppendResult(w) PROVE Still
  BY <1>16 DEF AppendResult
<1>17. ASSUME NEW w \in Workers, SendWebhook(w) PROVE Still
  BY <1>17 DEF SendWebhook
<1>18. ASSUME NEW w \in Workers, PruneDirectory(w) PROVE Still
  BY <1>18 DEF PruneDirectory
<1>19. ASSUME NEW w \in Workers, PruneFails(w) PROVE Still
  BY <1>19 DEF PruneFails
<1>20. ASSUME NEW w \in Workers, MarkJobDeleted(w) PROVE Still
  BY <1>20 DEF MarkJobDeleted
<1>21. ASSUME NEW w \in Workers, MarkMissingJobDeleted(w) PROVE Still
  BY <1>21 DEF MarkMissingJobDeleted
<1>22. ASSUME NEW w \in Workers, AppendTombstone(w) PROVE Still
  BY <1>22 DEF AppendTombstone
<1>23. ASSUME NEW w \in Workers, PruneDone(w) PROVE Still
  BY <1>23 DEF PruneDone
<1>24. ASSUME NEW w \in Workers, RetainRecentJobs(w) PROVE Still
  BY <1>24 DEF RetainRecentJobs
<1>25. ASSUME NEW w \in Workers, ContinueUnlessShutdown(w, "check", "register")
       PROVE  Still
  BY <1>25 DEF ContinueUnlessShutdown
<1>26. ASSUME NEW w \in Workers, ContinueUnlessShutdown(w, "gate", "recheck")
       PROVE  Still
  BY <1>26 DEF ContinueUnlessShutdown
<1>27. ASSUME NEW c \in Clients, InsertQueued(c) PROVE Still
  BY <1>27 DEF InsertQueued
<1>28. ASSUME NEW c \in Clients, AppendSubmission(c) PROVE Still
  BY <1>28 DEF AppendSubmission
<1>29. ASSUME NEW c \in Clients, RollbackRemove(c) PROVE Still
  BY <1>29 DEF RollbackRemove
<1>30. ASSUME NEW c \in Clients, RollbackAppend(c) PROVE Still
  BY <1>30 DEF RollbackAppend
<1>31. ASSUME NEW c \in Clients, CancelFlag(c) PROVE Still
  BY <1>31 DEF CancelFlag
<1>32. ASSUME NEW c \in Clients, CancelInsert(c) PROVE Still
  BY <1>32 DEF CancelInsert
<1>33. ASSUME NEW c \in Clients, CancelAppend(c) PROVE Still
  BY <1>33 DEF CancelAppend
<1>34. ASSUME NEW c \in Clients, DeleteArtifacts(c) PROVE Still
  BY <1>34 DEF DeleteArtifacts
<1>35. ASSUME NEW c \in Clients, DeleteArtifactsFails(c) PROVE Still
  BY <1>35 DEF DeleteArtifactsFails
<1>36. ASSUME NEW c \in Clients, DeleteInsert(c) PROVE Still
  BY <1>36 DEF DeleteInsert
<1>37. ASSUME NEW c \in Clients, DeleteAppend(c) PROVE Still
  BY <1>37 DEF DeleteAppend
<1>38. ASSUME NEW c \in Clients, NEW j \in Jobs, CancelRead(c, j) PROVE Still
  BY <1>38 DEF CancelRead
<1>39. ASSUME NEW c \in Clients, NEW j \in Jobs, DeleteRead(c, j) PROVE Still
  BY <1>39 DEF DeleteRead
<1>40. ASSUME Signal PROVE Still
  BY <1>40 DEF Signal
<1>41. ASSUME RequestShutdown PROVE Still
  BY <1>41 DEF RequestShutdown
<1>42. ASSUME CancelAll PROVE Still
  BY <1>42 DEF CancelAll
<1>43. ASSUME CloseQueue PROVE Still
  BY <1>43 DEF CloseQueue
<1>44. ASSUME Restart PROVE Still
  BY <1>44 DEF Restart
<1>45. ASSUME UNCHANGED vars PROVE Still
  BY <1>45
<1>46. ASSUME NEW w \in Workers, StopOnShutdown(w, "check")
       PROVE  PermitsKept /\ LetsGo(w)
  BY <1>46 DEF StopOnShutdown
<1>47. ASSUME NEW w \in Workers, StopOnShutdown(w, "gate")
       PROVE  PermitsKept /\ LetsGo(w)
  BY <1>47 DEF StopOnShutdown
<1>48. ASSUME NEW w \in Workers, SkipCanceled(w) PROVE PermitsKept /\ LetsGo(w)
  <2>1. CASE Advance(w, "skip", "receive")
    BY <1>48, <2>1 DEF SkipCanceled
  <2>2. CASE Advance(w, "recheck", "receive")
    BY <1>48, <2>2 DEF SkipCanceled
  <2> QED BY <1>48, <2>1, <2>2 DEF SkipCanceled
<1>49. ASSUME NEW w \in Workers, Release(w) PROVE PermitsKept /\ LetsGo(w)
  BY <1>49 DEF Release
<1>50. ASSUME NEW w \in Workers, AcquirePermit(w) PROVE LifeStays
  BY <1>50 DEF AcquirePermit
<1>51. ASSUME NEW w \in Workers, Receive(w) PROVE PermitsKept
  BY <1>51 DEF Receive
<1>52. ASSUME NEW w \in Workers, MarkRunning(w) PROVE PermitsKept
  BY <1>52 DEF MarkRunning
<1>53. ASSUME NEW c \in Clients, AppendSubmissionFails(c)
       PROVE  PermitsKept /\ Withdraws(c)
  BY <1>53 DEF AppendSubmissionFails
<1>54. ASSUME NEW c \in Clients, TrySendFails(c)
       PROVE  PermitsKept /\ Withdraws(c)
  BY <1>54 DEF TrySendFails
<1>55. ASSUME NEW c \in Clients, Abandon(c)
       PROVE  PermitsKept /\ (LifeStays \/ Withdraws(c))
  BY <1>55 DEF Abandon
<1>56. ASSUME NEW c \in Clients, TrySend(c) PROVE PermitsKept
  BY <1>56 DEF TrySend
<1>57. ASSUME NEW c \in Clients, NEW j \in Jobs, Submit(c, j) PROVE PermitsKept
  BY <1>57 DEF Submit
<1>58. ASSUME Exit PROVE PermitsKept
  BY <1>58 DEF Exit, Stop, All
<1>59. ASSUME Crash PROVE PermitsKept
  BY <1>59 DEF Crash, Stop, All
<1> HIDE DEF TypeOK, Places, HeldBy, Downloads, OfferedBy, LifeStays,
   PermitsKept,
    LetsGo, Withdraws, HoldsPermit, Advance
<1> QED BY <1>1, <1>2, <1>3, <1>4, <1>5, <1>6, <1>7, <1>8, <1>9, <1>10, <1>11,
     <1>12, <1>13, <1>14, <1>15, <1>16, <1>17, <1>18, <1>19, <1>20, <1>21,
     <1>22, <1>23, <1>24, <1>25, <1>26, <1>27, <1>28, <1>29, <1>30, <1>31,
     <1>32, <1>33, <1>34, <1>35, <1>36, <1>37, <1>38, <1>39, <1>40, <1>41,
     <1>42, <1>43, <1>44, <1>45, <1>46, <1>47, <1>48, <1>49, <1>50, <1>51,
     <1>52, <1>53, <1>54, <1>55, <1>56, <1>57, <1>58, <1>59 DEF Next, Moves,
     Still, WorkerStep, OwnStep, StartStep, DownloadStep, FetchStep, FinishStep,
     HandlerStep, Request, RetryJob, LifeCycle, CheckShutdown,
     CheckShutdownAgain

------------------------------------------------------------------------------
\* Permits.

\* acquire_for_job lets a worker through only while a permit is left, and a
\* permit does not change its job or platform until it is given back.
LEMMA PermitsStep ==
  ASSUME LInv, [Next]_vars
  PROVE  PermitsBounded'
<1> SUFFICES ASSUME NEW p \in Platforms
             PROVE  Cardinality(PermitHolders(p)') <= MaxConcurrent[p]
  BY DEF PermitsBounded
<1>1. /\ IsFiniteSet(PermitHolders(p)) /\ Cardinality(PermitHolders(p)) \in Nat
      /\ Cardinality(PermitHolders(p)) <= MaxConcurrent[p]
      /\ MaxConcurrent[p] \in Nat
  <2>1. PermitHolders(p) \in SUBSET Workers
    BY DEF PermitHolders
  <2> QED BY <2>1, WorkersAssumption, PlatformAssumption, FS_Subset,
     FS_CardinalityType DEF LInv, PermitsBounded
<1>2. ASSUME PermitHolders(p)' \subseteq PermitHolders(p)
      PROVE  Cardinality(PermitHolders(p)') <= MaxConcurrent[p]
  <2>1. /\ Cardinality(PermitHolders(p)') <= Cardinality(PermitHolders(p))
        /\ Cardinality(PermitHolders(p)') \in Nat
    BY <1>1, <1>2, FS_Subset, FS_CardinalityType
  <2> QED BY <1>1, <2>1
<1>3. CASE PermitsKept
  BY <1>2, <1>3 DEF PermitsKept, PermitHolders
<1>4. ASSUME NEW w \in Workers, AcquirePermit(w)
      PROVE  Cardinality(PermitHolders(p)') <= MaxConcurrent[p]
  <2>1. /\ wpc[w] = "acquire" /\ wpc' = [wpc EXCEPT ![w] = "gate"]
        /\ wjob' = wjob /\ wpc \in [Workers -> WorkerPlace]
    BY <1>4 DEF AcquirePermit, Advance, LInv, IInv, TypeOK
  <2>2. CASE PlatformOf[wjob[w]] = p
    <3>1. /\ PermitHolders(p)' = PermitHolders(p) \cup {w}
          /\ w \notin PermitHolders(p)
      BY <2>1, <2>2 DEF PermitHolders, HoldsPermit, HoldsFlag, Busy,
         BeforeStart
    <3>2. Cardinality(PermitHolders(p)') = Cardinality(PermitHolders(p)) + 1
      BY <1>1, <3>1, FS_AddElement
    <3>3. Cardinality(PermitHolders(p)) < MaxConcurrent[p]
      BY <1>4, <2>2 DEF AcquirePermit
    <3> QED BY <1>1, <3>2, <3>3
  <2>3. CASE PlatformOf[wjob[w]] # p
    <3>1. PermitHolders(p)' \subseteq PermitHolders(p)
      BY <2>1, <2>3 DEF PermitHolders
    <3> QED BY <1>2, <3>1
  <2> QED BY <2>2, <2>3
<1> QED BY <1>3, <1>4, HandsStep DEF LInv, IInv

\* LInv is inductive.
THEOREM LedgerInductive == Spec => []LInv
<1>1. Init => LInv
  <2> SUFFICES ASSUME Init PROVE PermitsBounded
    BY InitIInv DEF LInv
  <2>1. \A p \in Platforms : PermitHolders(p) = {}
    BY DEF Init, All, PermitHolders, HoldsPermit, HoldsFlag, Busy, BeforeStart,
       Downloading, Finishing
  <2> QED BY <2>1, FS_EmptySet, PlatformAssumption DEF PermitsBounded
<1>2. LInv /\ [Next]_vars => LInv'
  BY NextIInv, PermitsStep DEF LInv
<1> QED BY <1>1, <1>2, PTL DEF Spec

------------------------------------------------------------------------------
\* The life of a job, step by step.

\* Where no hands change, no life does.
LEMMA LifeStutters ==
  ASSUME LifeStays, NEW j \in Jobs
  PROVE  LifeOf(j)' = LifeOf(j)
<1>1. InQueue(j)' <=> InQueue(j)
  BY DEF LifeStays, InQueue
<1>2. /\ (\E w \in Workers : HeldBy(w, j))' <=> \E w \in Workers : HeldBy(w, j)
      /\ (\E w \in Workers : HeldBy(w, j) /\ wpc[w] \notin BeforeStart)'
           <=> \E w \in Workers : HeldBy(w, j) /\ wpc[w] \notin BeforeStart
      /\ (\E c \in Clients : OfferedBy(c, j))'
           <=> \E c \in Clients : OfferedBy(c, j)
  BY DEF LifeStays, Downloads
<1>3. issued' = issued
  BY DEF LifeStays
<1> QED BY <1>1, <1>2, <1>3 DEF LifeOf

\* One life that moves while the others stay is a move of the ledger.
LEMMA OneLifeMoves ==
  ASSUME NEW j \in Jobs, NEW from, NEW to,
         LifeOf(j) = from, LifeOf(j)' = to,
         \A i \in Jobs \ {j} : LifeOf(i)' = LifeOf(i)
  PROVE  Ledger!Move(j, from, to)
BY DEF Ledger!Move

\* Submit offers the job whose uuid it draws.
LEMMA SubmitOffers ==
  ASSUME LInv, NEW c \in Clients, NEW j \in Jobs, Submit(c, j)
  PROVE  Ledger!Offer(j)
<1>1. j \notin issued /\ ~Owned(j)
  BY SubmitMoves DEF LInv, IInv, OnlyIssued
<1>2. wpc' = wpc /\ wjob' = wjob
  BY DEF Submit, workerVars
<1>3. LifeOf(j) = "new"
  BY <1>1 DEF LifeOf
<1>4. \A i \in Jobs :
        /\ (\E w \in Workers : HeldBy(w, i))' <=> \E w \in Workers : HeldBy(w, i)
        /\ InQueue(i)' <=> InQueue(i)
  BY SubmitMoves DEF LInv, IInv, InQueue
<1>5. LifeOf(j)' = "offered"
  BY <1>1, <1>4, SubmitMoves DEF LifeOf, Owned, LInv, IInv
<1>6. ASSUME NEW i \in Jobs \ {j} PROVE LifeOf(i)' = LifeOf(i)
  BY <1>2, <1>4, SubmitMoves DEF LifeOf, HeldBy, LInv, IInv
<1> QED BY <1>3, <1>5, <1>6, OneLifeMoves DEF Ledger!Offer

\* try_send admits the job its handler offers.
LEMMA TrySendAdmits ==
  ASSUME LInv, NEW c \in Clients, TrySend(c)
  PROVE  \E j \in Jobs : Ledger!Admit(j)
<1>. PICK j \in Jobs : j = hjob[c]
  BY TrySendMoves DEF LInv, IInv
<1>1. j \in Jobs /\ OfferedBy(c, j) /\ j \in issued
  BY TrySendMoves DEF LInv, IInv, OnlyIssued, Owned
<1>2. wpc' = wpc /\ wjob' = wjob /\ issued' = issued
  BY TrySendMoves DEF TrySend, workerVars, LInv, IInv
<1>3. /\ ~InQueue(j) /\ \A w \in Workers : ~HeldBy(w, j)
      /\ \A d \in Clients : OfferedBy(d, j) => d = c
  BY <1>1 DEF LInv, IInv, SingleOwner
<1>4. LifeOf(j) = "offered"
  BY <1>1, <1>3 DEF LifeOf
<1>5. LifeOf(j)' = "pending"
  BY <1>1, <1>2, <1>3, TrySendMoves DEF LifeOf, HeldBy, LInv, IInv
<1>6. ASSUME NEW i \in Jobs \ {j} PROVE LifeOf(i)' = LifeOf(i)
  <2>1. InQueue(i)' <=> InQueue(i)
    BY TrySendMoves DEF LInv, IInv
  <2>2. \A d \in Clients : OfferedBy(d, i)' <=> OfferedBy(d, i)
    BY TrySendMoves DEF LInv, IInv, OfferedBy
  <2> QED BY <1>2, <2>1, <2>2 DEF LifeOf, HeldBy
<1> QED BY <1>1, <1>4, <1>5, <1>6, OneLifeMoves DEF Ledger!Admit

\* recv hands a pending job over: it stays pending.
LEMMA ReceiveStutters ==
  ASSUME LInv, NEW w \in Workers, Receive(w), NEW j \in Jobs
  PROVE  LifeOf(j)' = LifeOf(j)
<1>1. /\ wpc[w] = "receive" /\ wpc' = [wpc EXCEPT ![w] = "check"]
      /\ wpc \in [Workers -> WorkerPlace]
  BY DEF Receive, Advance, LInv, IInv, TypeOK
<1>2. \A v \in Workers : Downloads(v, j)' <=> Downloads(v, j)
  BY <1>1, ReceiveMoves DEF Downloads, HeldBy, BeforeStart, Busy, Receive,
     Downloading, Finishing, LInv, IInv, TypeOK
<1>3. /\ InQueue(j) \/ (\E v \in Workers : HeldBy(v, j))
           <=> InQueue(j)' \/ (\E v \in Workers : HeldBy(v, j))'
      /\ (\E c \in Clients : OfferedBy(c, j))'
           <=> \E c \in Clients : OfferedBy(c, j)
      /\ issued' = issued
  BY ReceiveMoves DEF LInv, IInv
<1> QED BY <1>2, <1>3 DEF LifeOf, Downloads

------------------------------------------------------------------------------
\* Starting a job: the bounds of the ledger.

\* The ledger counts with the same Cardinality (it extends FiniteSets itself).
LEMMA LedgerCardinality ==
  ASSUME NEW S
  PROVE  Ledger!Cardinality(S) = Cardinality(S)
BY DEF Ledger!Cardinality, Cardinality

\* Jobs that download are no more than the workers they occupy.
LEMMA RunningBounded ==
  ASSUME NEW S \in SUBSET Jobs, NEW T \in SUBSET Workers,
         \A j \in S : \E v \in T : Downloads(v, j)
  PROVE  Cardinality(S) <= Cardinality(T)
<1> DEFINE f == [j \in S |-> CHOOSE v \in T : Downloads(v, j)]
<1>1. \A j \in S : f[j] \in T /\ wjob[f[j]] = j
  BY DEF Downloads, HeldBy
<1>2. f \in Injection(S, T)
  BY <1>1 DEF Injection, IsInjective
<1>3. IsFiniteSet(T)
  BY WorkersAssumption, FS_Subset
<1> QED BY <1>2, <1>3, FS_Injection

\* mark_running starts a job, under both bounds.
LEMMA MarkRunningStarts ==
  ASSUME LInv, NEW w \in Workers, MarkRunning(w)
  PROVE  \E j \in Jobs : Ledger!Start(j)
<1>. PICK j \in Jobs : j = wjob[w]
  BY DEF MarkRunning, Advance, LInv, IInv, Places, Busy, BeforeStart
<1> DEFINE p == PlatformOf[j]
<1>1. /\ wpc[w] = "mark" /\ wpc' = [wpc EXCEPT ![w] = "prepare"]
      /\ wpc \in [Workers -> WorkerPlace]
      /\ UNCHANGED <<queue, wjob, hpc, hjob, issued>>
  BY DEF MarkRunning, Advance, LInv, IInv, TypeOK, handlerVars
<1>2. j \in Jobs /\ HeldBy(w, j) /\ j \in issued
  BY <1>1 DEF LInv, IInv, Places, HeldBy, Busy, BeforeStart, OnlyIssued, Owned
<1>3. \A v \in Workers : HeldBy(v, j) => v = w
  BY <1>2 DEF LInv, IInv, SingleOwner
<1>4. LifeOf(j) = "pending"
  BY <1>1, <1>2, <1>3 DEF LifeOf, BeforeStart
<1>5. LifeOf(j)' = "running"
  BY <1>1, <1>2 DEF LifeOf, HeldBy, BeforeStart, Busy, Downloading
<1>6. ASSUME NEW i \in Jobs \ {j} PROVE LifeOf(i)' = LifeOf(i)
  <2>1. \A v \in Workers : (HeldBy(v, i)' <=> HeldBy(v, i))
                           /\ (Downloads(v, i)' <=> Downloads(v, i))
    BY <1>1 DEF HeldBy, Downloads, Busy, BeforeStart, Downloading
  <2>2. \A c \in Clients : OfferedBy(c, i)' <=> OfferedBy(c, i)
    BY <1>1 DEF OfferedBy
  <2> QED BY <1>1, <2>1, <2>2, LifeStutters DEF LifeOf, Downloads, InQueue
<1>7. \A i \in Ledger!RunningJobs : \E v \in Workers \ {w} : Downloads(v, i)
  <2> SUFFICES ASSUME NEW i \in Jobs, LifeOf(i) = "running"
               PROVE  \E v \in Workers \ {w} : Downloads(v, i)
    BY DEF Ledger!RunningJobs
  <2> QED BY <1>1 DEF LifeOf, Downloads, BeforeStart
<1>8. Cardinality(Ledger!RunningJobs) < Cardinality(Workers)
  <2>1. Cardinality(Ledger!RunningJobs) <= Cardinality(Workers \ {w})
    BY <1>7, RunningBounded DEF Ledger!RunningJobs
  <2>2. /\ Cardinality(Workers \ {w}) = Cardinality(Workers) - 1
        /\ Cardinality(Workers) \in Nat
        /\ IsFiniteSet(Workers \ {w})
    BY WorkersAssumption, FS_RemoveElement, FS_CardinalityType
  <2>3. Cardinality(Ledger!RunningJobs) \in Nat
    <3>1. Ledger!RunningJobs \in SUBSET Jobs
      BY DEF Ledger!RunningJobs
    <3> QED BY <3>1, JobAssumption, FS_Subset, FS_CardinalityType
  <2> QED BY <2>1, <2>2, <2>3
<1>9. Cardinality(Ledger!RunningJobs \cap Ledger!OfPlatform(p))
        < MaxConcurrent[p]
  <2> DEFINE R == Ledger!RunningJobs \cap Ledger!OfPlatform(p)
             H == PermitHolders(p)
  <2>1. /\ H \in SUBSET Workers /\ w \in H /\ p \in Platforms
    BY <1>1, <1>2, PlatformAssumption DEF PermitHolders, HoldsPermit,
       HoldsFlag,
       Busy, BeforeStart
  <2>2. R \in SUBSET Jobs
    BY DEF Ledger!RunningJobs
  <2>3. \A i \in R : \E v \in H \ {w} : Downloads(v, i)
    <3> SUFFICES ASSUME NEW i \in R PROVE \E v \in H \ {w} : Downloads(v, i)
      OBVIOUS
    <3>1. PICK v \in Workers \ {w} : Downloads(v, i)
      BY <1>7
    <3>2. PlatformOf[i] = p
      BY DEF Ledger!OfPlatform
    <3> QED BY <3>1, <3>2 DEF Downloads, HeldBy, PermitHolders, HoldsPermit,
       HoldsFlag, BeforeStart
  <2>4. Cardinality(R) <= Cardinality(H \ {w})
    BY <2>1, <2>2, <2>3, RunningBounded
  <2>5. /\ Cardinality(H \ {w}) = Cardinality(H) - 1
        /\ Cardinality(H) \in Nat
    BY <2>1, WorkersAssumption, FS_Subset, FS_RemoveElement, FS_CardinalityType
  <2>6. Cardinality(H) <= MaxConcurrent[p] /\ MaxConcurrent[p] \in Nat
    BY <2>1, PlatformAssumption DEF LInv, PermitsBounded
  <2>7. Cardinality(R) \in Nat
    BY <2>2, JobAssumption, FS_Subset, FS_CardinalityType
  <2> QED BY <2>4, <2>5, <2>6, <2>7
<1>10. Ledger!Move(j, "pending", "running")
  BY <1>4, <1>5, <1>6, OneLifeMoves
<1>11. Ledger!Start(j)
  BY <1>8, <1>9, <1>10, LedgerCardinality DEF Ledger!Start
<1> QED BY <1>11

------------------------------------------------------------------------------
\* The end of a job.

\* A worker that lets go of its request settles the job.
LEMMA LetsGoSettles ==
  ASSUME LInv, NEW w \in Workers, LetsGo(w)
  PROVE  \E j \in Jobs : Ledger!Settle(j)
<1>. PICK j \in Jobs : j = wjob[w]
  BY DEF LetsGo, LInv, IInv, Places
<1>1. PICK to \in {"receive", "stopped"} : wpc' = [wpc EXCEPT ![w] = to]
  BY DEF LetsGo
<1>2. /\ wpc[w] \in Busy /\ wpc \in [Workers -> WorkerPlace]
      /\ wjob' = [wjob EXCEPT ![w] = NoJob]
      /\ wjob \in [Workers -> Jobs \cup {NoJob}]
      /\ UNCHANGED <<queue, hpc, hjob, issued>>
      /\ to \notin Busy
  BY DEF LetsGo, LInv, IInv, TypeOK, Busy, BeforeStart, Downloading, Finishing
<1>3. j \in Jobs /\ HeldBy(w, j) /\ j \in issued
  BY <1>2 DEF LInv, IInv, Places, HeldBy, OnlyIssued, Owned
<1>4. /\ ~InQueue(j) /\ \A v \in Workers : HeldBy(v, j) => v = w
      /\ \A c \in Clients : ~OfferedBy(c, j)
  BY <1>3 DEF LInv, IInv, SingleOwner
<1>5. LifeOf(j) \in Ledger!Live
  BY <1>3 DEF LifeOf, Ledger!Live
<1>6. \A v \in Workers : ~HeldBy(v, j)'
  BY <1>1, <1>2, <1>4 DEF HeldBy
<1>7. LifeOf(j)' = "settled"
  BY <1>2, <1>3, <1>4, <1>6 DEF LifeOf, InQueue, OfferedBy
<1>8. ASSUME NEW i \in Jobs \ {j} PROVE LifeOf(i)' = LifeOf(i)
  <2>1. \A v \in Workers : (HeldBy(v, i)' <=> HeldBy(v, i))
                           /\ (Downloads(v, i)' <=> Downloads(v, i))
    BY <1>1, <1>2, <1>3, JobAssumption DEF HeldBy, Downloads
  <2>2. \A c \in Clients : OfferedBy(c, i)' <=> OfferedBy(c, i)
    BY <1>2 DEF OfferedBy
  <2> QED BY <1>2, <2>1, <2>2 DEF LifeOf, Downloads, InQueue
<1> QED BY <1>3, <1>5, <1>7, <1>8, OneLifeMoves DEF Ledger!Settle

\* A handler that fails, or is dropped, before try_send settles the job.
LEMMA WithdrawSettles ==
  ASSUME LInv, NEW c \in Clients, Withdraws(c)
  PROVE  \E j \in Jobs : Ledger!Settle(j)
<1>. PICK j \in Jobs : j = hjob[c]
  BY DEF Withdraws, LInv, IInv, Places, Offering
<1>1. PICK to \in {"idle", "rollback"} : hpc' = [hpc EXCEPT ![c] = to]
  BY DEF Withdraws
<1>2. /\ hpc[c] \in Offering /\ hpc \in [Clients -> HandlerPlace]
      /\ hjob' \in {hjob, [hjob EXCEPT ![c] = NoJob]}
      /\ hjob \in [Clients -> Jobs \cup {NoJob}]
      /\ UNCHANGED <<queue, wpc, wjob, issued>>
      /\ to \notin Offering
  BY DEF Withdraws, LInv, IInv, TypeOK, Offering
<1>3. j \in Jobs /\ OfferedBy(c, j) /\ j \in issued
  BY <1>2 DEF LInv, IInv, Places, OfferedBy, Offering, OnlyIssued, Owned
<1>4. /\ ~InQueue(j) /\ \A w \in Workers : ~HeldBy(w, j)
      /\ \A d \in Clients : OfferedBy(d, j) => d = c
  BY <1>3 DEF LInv, IInv, SingleOwner
<1>5. LifeOf(j) \in Ledger!Live
  BY <1>3 DEF LifeOf, Ledger!Live
<1>6. \A d \in Clients : ~OfferedBy(d, j)'
  BY <1>1, <1>2, <1>4 DEF OfferedBy
<1>7. LifeOf(j)' = "settled"
  BY <1>2, <1>3, <1>4, <1>6 DEF LifeOf, InQueue, HeldBy
<1>8. ASSUME NEW i \in Jobs \ {j} PROVE LifeOf(i)' = LifeOf(i)
  <2>1. \A d \in Clients : OfferedBy(d, i)' <=> OfferedBy(d, i)
    BY <1>1, <1>2, <1>3, JobAssumption DEF OfferedBy
  <2>2. \A w \in Workers : HeldBy(w, i)' <=> HeldBy(w, i)
    BY <1>2 DEF HeldBy
  <2> QED BY <1>2, <2>1, <2>2 DEF LifeOf, InQueue
<1> QED BY <1>3, <1>5, <1>7, <1>8, OneLifeMoves DEF Ledger!Settle

\* Nothing is held once the process is gone.
LEMMA StopInterrupts ==
  ASSUME Exit \/ Crash
  PROVE  Ledger!Interrupt
<1>1. Stop
  BY DEF Exit, Crash
<1>2. /\ queue' = <<>> /\ wpc' = All(Workers, "receive")
      /\ hpc' = All(Clients, "idle") /\ issued' = issued
  BY <1>1 DEF Stop
<1>3. \A j \in Jobs : LifeOf(j)' = IF j \in issued THEN "settled" ELSE "new"
  BY <1>2, EmptySeq DEF LifeOf, InQueue, HeldBy, OfferedBy, All, Busy,
     BeforeStart, Downloading, Finishing, Offering
<1>4. \A j \in Jobs : /\ LifeOf(j) \in Ledger!Live \cup {"new", "settled"}
                      /\ LifeOf(j) = "new" <=> j \notin issued
  BY DEF LifeOf, Ledger!Live
<1>5. \A j \in Jobs :
        LifeOf(j)' = IF LifeOf(j) \in Ledger!Live THEN "settled" ELSE LifeOf(j)
  BY <1>3, <1>4 DEF Ledger!Live
<1> QED BY <1>5 DEF Ledger!Interrupt

------------------------------------------------------------------------------
\* The refinement.

\* Every step of the server is a step of the ledger or leaves it alone.
LEMMA LedgerStep ==
  ASSUME LInv, [Next]_vars
  PROVE  [Ledger!Next]_[j \in Jobs |-> LifeOf(j)]
<1>1. LifeStays \/ Moves
  BY HandsStep DEF LInv, IInv
<1>2. CASE LifeStays
  BY <1>2, LifeStutters
<1>3. ASSUME NEW w \in Workers, Receive(w)
      PROVE  UNCHANGED [j \in Jobs |-> LifeOf(j)]
  BY <1>3, ReceiveStutters
<1>4. ASSUME NEW w \in Workers, MarkRunning(w) PROVE Ledger!Next
  BY <1>4, MarkRunningStarts DEF Ledger!Next
<1>5. ASSUME NEW w \in Workers, LetsGo(w) PROVE Ledger!Next
  BY <1>5, LetsGoSettles DEF Ledger!Next
<1>6. ASSUME NEW c \in Clients, TrySend(c) PROVE Ledger!Next
  BY <1>6, TrySendAdmits DEF Ledger!Next
<1>7. ASSUME NEW c \in Clients, Withdraws(c) PROVE Ledger!Next
  BY <1>7, WithdrawSettles DEF Ledger!Next
<1>8. ASSUME NEW c \in Clients, NEW j \in Jobs, Submit(c, j) PROVE Ledger!Next
  BY <1>8, SubmitOffers DEF Ledger!Next
<1>9. ASSUME Exit \/ Crash PROVE Ledger!Next
  BY <1>9, StopInterrupts DEF Ledger!Next
<1> QED BY <1>1, <1>2, <1>3, <1>4, <1>5, <1>6, <1>7, <1>8, <1>9 DEF Moves

\* An empty server is an empty ledger.
LEMMA LedgerInit == Init => Ledger!Init
BY DEF Init, Ledger!Init, LifeOf

\* The core implements the ledger: a job is offered, admitted and started at
\* most once and settled for good, and the downloads that run at a time are
\* within the number of workers and the limit of their platform, whatever
\* retries, cancels, deletes, shutdowns, crashes and restarts happen.
THEOREM ServerImplementsLedger == Spec => ImplementsLedger
BY LedgerInit, LedgerStep, LedgerInductive, PTL
   DEF Spec, ImplementsLedger, Ledger!Spec

------------------------------------------------------------------------------
(***************************************************************************)
(* The records: a pending record has somebody who will end it, a succeeded *)
(* one has its media, a terminal one was logged.                           *)
(*                                                                         *)
(* None of the three holds under every disturbance (the theorems name the  *)
(* ones they exclude, and each exclusion is a way in which the code does   *)
(* lose the property).  RecordFootprint says what any one step may do to a *)
(* record, its flag, its line and its directory; the lemmas after it speak *)
(* of footprints only.                                                     *)
(***************************************************************************)

------------------------------------------------------------------------------
\* The parts of the inductive invariants.

\* Whatever names a job names a uuid that was drawn.
Refers(j) ==
  \/ status[j] # "absent" \/ flags[j] # "none"
  \/ j \in submitted \/ logged[j] # "none"
  \/ \E c \in Clients : hjob[c] = j
  \/ \E w \in Workers : target[w] = j
OnlyIssuedKnown == \A j \in Jobs : Refers(j) => j \in issued

\* A process that is down has no records.
DownIsEmpty == phase = "down" => \A j \in Jobs : status[j] = "absent"

\* Nobody else knows the uuid of a submission before its record is inserted.
FreshAtInsert ==
  \A c \in Clients : hpc[c] = "insert" =>
    /\ status[hjob[c]] = "absent" /\ flags[hjob[c]] = "none"
    /\ \A d \in Clients : hjob[d] = hjob[c] => d = c

\* A pending job whose flag is set is about to be canceled in the map, unless
\* its worker is past the last look at the flag before mark_running.
PastMark == {"mark"} \cup Downloading \cup {"finish"}
CancelPursued ==
  phase = "up" =>
    \A j \in Jobs : flags[j] = "set" /\ status[j] \in Pending =>
      \/ \E c \in Clients : hpc[c] = "cancelinsert" /\ hjob[c] = j
      \/ \E w \in Workers : HeldBy(w, j) /\ wpc[w] \in PastMark

\* A record whose worker has finished is not pending again.
AfterFinish == Finishing \ {"finish"}
DoneIsFinal ==
  \A w \in Workers : wpc[w] \in AfterFinish => status[wjob[w]] \notin Pending

\* A succeeded record names its media, and they are there when it is written.
SucceededHasResult == \A j \in Jobs : status[j] = "succeeded" => hasResult[j]
MediaAtFinish ==
  \A w \in Workers :
    wpc[w] = "finish" /\ outcome[w] = "succeeded" => dir[wjob[w]] = "complete"

\* Whoever wrote a terminal status has logged it or is about to.
LogPursued ==
  \A j \in Jobs : status[j] \in Terminal =>
    \/ logged[j] # "none"
    \/ \E w \in Workers : \/ wpc[w] = "append" /\ wjob[w] = j
                          \/ wpc[w] = "tombappend" /\ target[w] = j
    \/ \E c \in Clients : hpc[c] \in {"cancelappend", "deleteappend"} /\ hjob[c] = j

------------------------------------------------------------------------------
\* What one step may do.

\* The writers of a record, and what they write.
StatusMoves ==
  \A j \in Jobs :
    \/ status'[j] \in {status[j], "absent"}
    \/ \E c \in Clients :
         /\ hjob[c] = j /\ hjob'[c] = j
         /\ \/ hpc[c] = "insert" /\ hpc'[c] = "submitappend" /\ status'[j] = "queued"
            \/ /\ hpc[c] = "cancelinsert" /\ hpc'[c] = "cancelappend"
               /\ status'[j] = "canceled"
            \/ /\ hpc[c] = "deleteinsert" /\ hpc'[c] = "deleteappend"
               /\ status'[j] = "deleted"
    \/ \E w \in Workers :
         /\ HeldBy(w, j) /\ HeldBy(w, j)'
         /\ \/ wpc[w] = "mark" /\ wpc'[w] = "prepare" /\ status'[j] = "running"
            \/ wpc[w] = "finish" /\ wpc'[w] = "append" /\ status'[j] = outcome[w]
    \/ \E w \in Workers :
         /\ wpc[w] = "tomb" /\ wpc'[w] = "tombappend"
         /\ target[w] = j /\ target'[w] = j
         /\ status[j] # "absent" /\ status'[j] = "deleted"
    \/ /\ phase = "down" /\ phase' = "up" /\ "restart" \in Disturbances
       /\ status'[j] \in Terminal

\* The writers of a flag; cancel_all is called at shutdown.
FlagMoves ==
  \A j \in Jobs :
    \/ flags'[j] \in {flags[j], "none"}
    \/ flags'[j] = "clear" /\ \E w \in Workers : HeldBy(w, j)
    \/ \E c \in Clients :
         /\ hjob[c] = j /\ hjob'[c] = j
         /\ hpc[c] = "flag" /\ hpc'[c] = "cancelinsert"
    \/ flags[j] # "none" /\ phase' = "closing"

\* Who begins to refer to a job.
Referrers ==
  /\ \A j \in Jobs : Refers(j)' =>
       \/ Refers(j) \/ (\E w \in Workers : HeldBy(w, j) \/ j \in victims[w])
       \/ j \in issued'
  /\ \A c \in Clients :
       \/ hjob'[c] \in {hjob[c], NoJob}
       \/ status[hjob'[c]] # "absent"
       \/ hjob'[c] \notin issued
  /\ \A c \in Clients : hpc'[c] = "insert" =>
       \/ hpc[c] = "insert" /\ hjob'[c] = hjob[c]
       \/ Submit(c, hjob'[c])

\* Who stops caring for a pending record.
OwnersLeave ==
  /\ phase' = "up" => phase \in {"up", "down"}
  /\ phase' = "down" => phase = "down" \/ \A j \in Jobs : status'[j] = "absent"
  /\ \A j \in Jobs, w \in Workers : HeldBy(w, j) =>
       \/ HeldBy(w, j)' /\ (wpc[w] \in PastMark => wpc'[w] \in PastMark)
       \/ HeldBy(w, j)' /\ status'[j] \notin Pending
       \/ phase # "up" \/ phase' # "up" \/ wpc[w] = "release"
       \/ wpc[w] \in {"skip", "recheck"} /\ CanceledBeforeStart(w)
  /\ \A j \in Jobs, c \in Clients :
       hjob[c] = j /\ hpc[c] \in {"rollback", "cancelinsert"} \cup Offering =>
         \/ /\ hjob'[c] = j
            /\ hpc'[c] \in {"rollback", "cancelinsert"} \cup Offering
            /\ hpc[c] = "cancelinsert" => hpc'[c] = "cancelinsert"
         \/ status'[j] \notin Pending
         \/ hpc[c] # "cancelinsert" /\ TrySend(c)
         \/ phase' # "up" \/ Disturbances \cap {"append", "abandon"} # {}
  /\ \A w \in Workers : wpc'[w] \in AfterFinish =>
       /\ wjob'[w] = wjob[w]
       /\ \/ wpc[w] \in AfterFinish
          \/ wpc[w] = "finish" /\ status'[wjob[w]] \notin Pending

\* Somebody is about to remove a directory.
RemovalOf(j) ==
  \/ \E c \in Clients : hpc[c] = "rmdir" /\ hjob[c] = j
  \/ \E w \in Workers : j \in victims[w]

\* Who changes a directory, and who stops accounting for a missing one.
MediaMoves ==
  /\ \A j \in Jobs : status'[j] = "succeeded" =>
       hasResult'[j] \/ (status[j] = "succeeded" /\ ~hasResult[j])
  /\ \A j \in Jobs :
       \/ dir'[j] = dir[j]
       \/ \E c \in Clients :
            /\ hpc[c] = "rmdir" /\ hpc'[c] = "deleteinsert"
            /\ hjob[c] = j /\ hjob'[c] = j
       \/ \E w \in Workers : HeldBy(w, j) /\ wpc[w] \in Downloading
       \/ \E w \in Workers : j \in victims[w] /\ wpc'[w] = "tomb" /\ target'[w] = j
       \/ dir'[j] = "torn" /\ RemovalOf(j)
  /\ \A w \in Workers : wpc'[w] = "finish" /\ outcome'[w] = "succeeded" =>
       /\ wjob'[w] = wjob[w]
       /\ \/ wpc[w] = "finish" /\ outcome[w] = "succeeded"
          \/ dir'[wjob[w]] = "complete"
  /\ \A c \in Clients : hpc[c] = "deleteinsert" =>
       \/ hpc'[c] = "deleteinsert" /\ hjob'[c] = hjob[c]
       \/ status'[hjob[c]] # "succeeded"
       \/ "abandon" \in Disturbances
  /\ \A w \in Workers : wpc[w] = "tomb" =>
       \/ wpc'[w] = "tomb" /\ target'[w] = target[w]
       \/ status'[target[w]] # "succeeded"

\* Who logs, and who stops being about to.
LogMoves ==
  /\ \A j \in Jobs : logged[j] # "none" \/ (phase = "down" /\ phase' = "up") =>
       \/ logged'[j] # "none" \/ status'[j] = "absent"
       \/ "restart" \in Disturbances /\ MetadataLimit # 0
  /\ \A w \in Workers :
       \/ wpc[w] # "append" \/ "append" \in Disturbances
       \/ wpc'[w] = "append" /\ wjob'[w] = wjob[w]
       \/ logged'[wjob[w]] # "none" \/ status'[wjob[w]] \notin Terminal
  /\ \A w \in Workers :
       \/ wpc[w] # "tombappend" \/ "append" \in Disturbances
       \/ wpc'[w] = "tombappend" /\ target'[w] = target[w]
       \/ logged'[target[w]] # "none" \/ status'[target[w]] \notin Terminal
  /\ \A c \in Clients :
       \/ hpc[c] \notin {"cancelappend", "deleteappend"}
       \/ "append" \in Disturbances \/ "abandon" \in Disturbances
       \/ hpc'[c] = hpc[c] /\ hjob'[c] = hjob[c]
       \/ logged'[hjob[c]] # "none" \/ status'[hjob[c]] \notin Terminal

RecordFootprint ==
  StatusMoves /\ FlagMoves /\ Referrers /\ OwnersLeave /\ MediaMoves /\ LogMoves

\* No step does more to a record than its footprint says.
LEMMA RecordStep ==
  ASSUME TypeOK, Places, [Next]_vars
  PROVE  RecordFootprint
<1> USE JobAssumption DEF TypeOK, Places, RecordFootprint, StatusMoves,
    FlagMoves, Referrers, OwnersLeave, MediaMoves, LogMoves, Refers, PastMark,
    RemovalOf,
    AfterFinish, HeldBy, CanceledBeforeStart, vars, memoryVars, diskVars,
    workerVars, handlerVars, Advance, DropRequest, Proceed, Respond, Accept,
    ShutdownRequested, Terminal, Pending, Status, WorkerPlace, Busy,
    BeforeStart, Downloading, Finishing, HandlerPlace, Offering, Phase
<1>1. ASSUME NEW w \in Workers, Receive(w) PROVE RecordFootprint
  BY <1>1 DEF Receive
<1>2. ASSUME NEW w \in Workers, ReceiveClosed(w) PROVE RecordFootprint
  <2>1. StatusMoves
    BY <1>2 DEF ReceiveClosed, QueueClosed
  <2>2. FlagMoves
    BY <1>2 DEF ReceiveClosed, QueueClosed
  <2>3. Referrers
    BY <1>2 DEF ReceiveClosed, QueueClosed
  <2>4. OwnersLeave
    BY <1>2 DEF ReceiveClosed, QueueClosed
  <2>5. MediaMoves
    BY <1>2 DEF ReceiveClosed, QueueClosed
  <2>6. LogMoves
    BY <1>2 DEF ReceiveClosed, QueueClosed
  <2> HIDE DEF StatusMoves, FlagMoves, Referrers, OwnersLeave, MediaMoves, LogMoves
  <2> QED BY <2>1, <2>2, <2>3, <2>4, <2>5, <2>6
<1>3. ASSUME NEW w \in Workers, RegisterFlag(w) PROVE RecordFootprint
  BY <1>3 DEF RegisterFlag, FlagFor
<1>4. ASSUME NEW w \in Workers, SkipCanceled(w) PROVE RecordFootprint
  <2>1. CASE Advance(w, "skip", "receive")
    BY <1>4, <2>1 DEF SkipCanceled
  <2>2. CASE Advance(w, "recheck", "receive")
    BY <1>4, <2>2 DEF SkipCanceled
  <2> QED BY <1>4, <2>1, <2>2 DEF SkipCanceled
<1>5. ASSUME NEW w \in Workers, KeepRequest(w) PROVE RecordFootprint
  <2>1. CASE Advance(w, "skip", "acquire")
    BY <1>5, <2>1 DEF KeepRequest
  <2>2. CASE Advance(w, "recheck", "mark")
    BY <1>5, <2>2 DEF KeepRequest
  <2> QED BY <1>5, <2>1, <2>2 DEF KeepRequest
<1>6. ASSUME NEW w \in Workers, MarkRunning(w) PROVE RecordFootprint
  BY <1>6 DEF MarkRunning
<1>7. ASSUME NEW w \in Workers, AcquirePermit(w) PROVE RecordFootprint
  BY <1>7 DEF AcquirePermit
<1>8. ASSUME NEW w \in Workers, PrepareDir(w) PROVE RecordFootprint
  BY <1>8 DEF PrepareDir
<1>9. ASSUME NEW w \in Workers, PrepareFails(w) PROVE RecordFootprint
  BY <1>9 DEF PrepareFails, EndDownload, AfterCleanup, FailedAs
<1>10. ASSUME NEW w \in Workers, StartAttempt(w) PROVE RecordFootprint
  BY <1>10 DEF StartAttempt
<1>11. ASSUME NEW w \in Workers, AttemptCanceled(w) PROVE RecordFootprint
  BY <1>11 DEF AttemptCanceled, EndDownload, AfterCleanup
<1>12. ASSUME NEW w \in Workers, FetchCanceled(w) PROVE RecordFootprint
  BY <1>12 DEF FetchCanceled, EndDownload, AfterCleanup
<1>13. ASSUME NEW w \in Workers, FetchSucceeds(w) PROVE RecordFootprint
  BY <1>13 DEF FetchSucceeds, EndDownload, AfterCleanup
<1>14. ASSUME NEW w \in Workers, StartUpload(w) PROVE RecordFootprint
  BY <1>14 DEF StartUpload
<1>15. ASSUME NEW w \in Workers, UploadSucceeds(w) PROVE RecordFootprint
  BY <1>15 DEF UploadSucceeds, EndDownload, AfterCleanup
<1>16. ASSUME NEW w \in Workers, DownloadFails(w) PROVE RecordFootprint
  BY <1>16 DEF DownloadFails, EndDownload, AfterCleanup, FailedAs
<1>17. ASSUME NEW w \in Workers, RetryAttempt(w) PROVE RecordFootprint
  <2>1. CASE Advance(w, "fetch", "prepare")
    BY <1>17, <2>1 DEF RetryAttempt, AfterCleanup
  <2>2. CASE Advance(w, "upload", "prepare")
    BY <1>17, <2>2 DEF RetryAttempt, AfterCleanup
  <2> QED BY <1>17, <2>1, <2>2 DEF RetryAttempt
<1>18. ASSUME NEW w \in Workers, FinishJob(w) PROVE RecordFootprint
  BY <1>18 DEF FinishJob
<1>19. ASSUME NEW w \in Workers, FinishMissingJob(w) PROVE RecordFootprint
  BY <1>19 DEF FinishMissingJob
<1>20. ASSUME NEW w \in Workers, AppendResult(w) PROVE RecordFootprint
  BY <1>20 DEF AppendResult, LogResult
<1>21. ASSUME NEW w \in Workers, SendWebhook(w) PROVE RecordFootprint
  BY <1>21 DEF SendWebhook
<1>22. ASSUME NEW w \in Workers, PruneDirectory(w) PROVE RecordFootprint
  BY <1>22 DEF PruneDirectory
<1>23. ASSUME NEW w \in Workers, PruneFails(w) PROVE RecordFootprint
  BY <1>23 DEF PruneFails, AfterFailedRemoval
<1>24. ASSUME NEW w \in Workers, MarkJobDeleted(w) PROVE RecordFootprint
  BY <1>24 DEF MarkJobDeleted
<1>25. ASSUME NEW w \in Workers, MarkMissingJobDeleted(w) PROVE RecordFootprint
  BY <1>25 DEF MarkMissingJobDeleted
<1>26. ASSUME NEW w \in Workers, AppendTombstone(w) PROVE RecordFootprint
  BY <1>26 DEF AppendTombstone, LogResult
<1>27. ASSUME NEW w \in Workers, PruneDone(w) PROVE RecordFootprint
  BY <1>27 DEF PruneDone
<1>28. ASSUME NEW w \in Workers, RetainRecentJobs(w) PROVE RecordFootprint
  BY <1>28 DEF RetainRecentJobs
<1>29. ASSUME NEW w \in Workers, Release(w) PROVE RecordFootprint
  BY <1>29 DEF Release
<1>30. ASSUME NEW w \in Workers, CheckShutdown(w) PROVE RecordFootprint
  BY <1>30 DEF CheckShutdown, StopOnShutdown,
     ContinueUnlessShutdown
<1>31. ASSUME NEW w \in Workers, CheckShutdownAgain(w) PROVE RecordFootprint
  BY <1>31 DEF CheckShutdownAgain, StopOnShutdown,
     ContinueUnlessShutdown
<1>32. ASSUME NEW c \in Clients, InsertQueued(c) PROVE RecordFootprint
  BY <1>32 DEF InsertQueued
<1>33. ASSUME NEW c \in Clients, AppendSubmission(c) PROVE RecordFootprint
  BY <1>33 DEF AppendSubmission
<1>34. ASSUME NEW c \in Clients, AppendSubmissionFails(c) PROVE RecordFootprint
  BY <1>34 DEF AppendSubmissionFails
<1>35. ASSUME NEW c \in Clients, TrySend(c) PROVE RecordFootprint
  <2>1. StatusMoves
    BY <1>35 DEF TrySend
  <2>2. FlagMoves
    BY <1>35 DEF TrySend
  <2>3. Referrers
    BY <1>35 DEF TrySend
  <2>4. OwnersLeave
    <3>1. /\ hpc[c] = "send" /\ UNCHANGED <<status, wpc, wjob, phase>>
          /\ hpc' = [hpc EXCEPT ![c] = "idle"] /\ hjob' = [hjob EXCEPT ![c] = NoJob]
      BY <1>35 DEF TrySend
    <3> QED BY <1>35, <3>1
  <2>5. MediaMoves
    BY <1>35 DEF TrySend
  <2>6. LogMoves
    BY <1>35 DEF TrySend
  <2> HIDE DEF StatusMoves, FlagMoves, Referrers, OwnersLeave, MediaMoves, LogMoves
  <2> QED BY <2>1, <2>2, <2>3, <2>4, <2>5, <2>6
<1>36. ASSUME NEW c \in Clients, TrySendFails(c) PROVE RecordFootprint
  BY <1>36 DEF TrySendFails
<1>37. ASSUME NEW c \in Clients, RollbackRemove(c) PROVE RecordFootprint
  BY <1>37 DEF RollbackRemove
<1>38. ASSUME NEW c \in Clients, RollbackAppend(c) PROVE RecordFootprint
  BY <1>38 DEF RollbackAppend, LogResult
<1>39. ASSUME NEW c \in Clients, CancelFlag(c) PROVE RecordFootprint
  BY <1>39 DEF CancelFlag
<1>40. ASSUME NEW c \in Clients, CancelInsert(c) PROVE RecordFootprint
  BY <1>40 DEF CancelInsert
<1>41. ASSUME NEW c \in Clients, CancelAppend(c) PROVE RecordFootprint
  BY <1>41 DEF CancelAppend, LogResult
<1>42. ASSUME NEW c \in Clients, DeleteArtifacts(c) PROVE RecordFootprint
  BY <1>42 DEF DeleteArtifacts
<1>43. ASSUME NEW c \in Clients, DeleteArtifactsFails(c) PROVE RecordFootprint
  BY <1>43 DEF DeleteArtifactsFails, AfterFailedRemoval
<1>44. ASSUME NEW c \in Clients, DeleteInsert(c) PROVE RecordFootprint
  BY <1>44 DEF DeleteInsert
<1>45. ASSUME NEW c \in Clients, DeleteAppend(c) PROVE RecordFootprint
  BY <1>45 DEF DeleteAppend, LogResult
<1>46. ASSUME NEW c \in Clients, Abandon(c) PROVE RecordFootprint
  BY <1>46 DEF Abandon
<1>47. ASSUME NEW c \in Clients, NEW j \in Jobs, Submit(c, j)
       PROVE  RecordFootprint
  <2>1. StatusMoves
    BY <1>47 DEF Submit
  <2>2. FlagMoves
    BY <1>47 DEF Submit
  <2>3. Referrers
    <3>1. /\ hjob' = [hjob EXCEPT ![c] = j] /\ hpc' = [hpc EXCEPT ![c] = "insert"]
          /\ j \notin issued /\ issued' = issued \cup {j}
          /\ UNCHANGED <<status, flags, submitted, logged, target>>
      BY <1>47 DEF Submit
    <3>2. Submit(c, hjob'[c])
      BY <1>47, <3>1
    <3>3. \A d \in Clients : d # c => hjob'[d] = hjob[d] /\ hpc'[d] = hpc[d]
      BY <3>1
    <3> QED BY <3>1, <3>2, <3>3
  <2>4. OwnersLeave
    BY <1>47 DEF Submit
  <2>5. MediaMoves
    BY <1>47 DEF Submit
  <2>6. LogMoves
    BY <1>47 DEF Submit
  <2> HIDE DEF StatusMoves, FlagMoves, Referrers, OwnersLeave, MediaMoves, LogMoves
  <2> QED BY <2>1, <2>2, <2>3, <2>4, <2>5, <2>6
<1>48. ASSUME NEW c \in Clients, NEW j \in Jobs, CancelRead(c, j)
       PROVE  RecordFootprint
  BY <1>48 DEF CancelRead
<1>49. ASSUME NEW c \in Clients, NEW j \in Jobs, DeleteRead(c, j)
       PROVE  RecordFootprint
  BY <1>49 DEF DeleteRead
<1>50. ASSUME Signal PROVE RecordFootprint
  BY <1>50 DEF Signal
<1>51. ASSUME RequestShutdown PROVE RecordFootprint
  BY <1>51 DEF RequestShutdown
<1>52. ASSUME CancelAll PROVE RecordFootprint
  BY <1>52 DEF CancelAll
<1>53. ASSUME CloseQueue PROVE RecordFootprint
  BY <1>53 DEF CloseQueue
<1>54. ASSUME Exit PROVE RecordFootprint
  BY <1>54 DEF Exit, Stop, All
<1>55. ASSUME Crash PROVE RecordFootprint
  BY <1>55 DEF Crash, Stop, All
<1>56. ASSUME Restart PROVE RecordFootprint
  <2>1. StatusMoves
    BY <1>56 DEF Restart, Retainable, Known, Recovered
  <2>2. FlagMoves
    BY <1>56 DEF Restart, Retainable, Known, Recovered
  <2>3. Referrers
    BY <1>56 DEF Restart, Retainable, Known, Recovered
  <2>4. OwnersLeave
    BY <1>56 DEF Restart, Retainable, Known, Recovered
  <2>5. MediaMoves
    <3>1. PICK K \in Retainable(Known, RetentionLimit) :
            /\ status' = [j \in Jobs |-> IF j \in K THEN Recovered(j) ELSE "absent"]
            /\ hasResult' = [j \in Jobs |-> j \in K /\ Recovered(j) = "succeeded"]
      BY <1>56 DEF Restart
    <3>2. phase = "down" /\ dir' = dir /\ wpc' = wpc
      BY <1>56 DEF Restart
    <3> QED BY <3>1, <3>2
  <2>6. LogMoves
    BY <1>56 DEF Restart, Retainable, Known, Recovered
  <2> HIDE DEF StatusMoves, FlagMoves, Referrers, OwnersLeave, MediaMoves, LogMoves
  <2> QED BY <2>1, <2>2, <2>3, <2>4, <2>5, <2>6
<1>57. ASSUME UNCHANGED vars PROVE RecordFootprint
  <2>1. StatusMoves
    BY <1>57
  <2>2. FlagMoves
    BY <1>57
  <2>3. Referrers
    BY <1>57
  <2>4. OwnersLeave
    BY <1>57
  <2>5. MediaMoves
    BY <1>57
  <2>6. LogMoves
    BY <1>57
  <2> HIDE DEF StatusMoves, FlagMoves, Referrers, OwnersLeave, MediaMoves, LogMoves
  <2> QED BY <2>1, <2>2, <2>3, <2>4, <2>5, <2>6
<1> HIDE DEF RecordFootprint
<1> QED BY <1>1, <1>2, <1>3, <1>4, <1>5, <1>6, <1>7, <1>8, <1>9, <1>10, <1>11,
     <1>12, <1>13, <1>14, <1>15, <1>16, <1>17, <1>18, <1>19, <1>20, <1>21,
     <1>22, <1>23, <1>24, <1>25, <1>26, <1>27, <1>28, <1>29, <1>30, <1>31,
     <1>32, <1>33, <1>34, <1>35, <1>36, <1>37, <1>38, <1>39, <1>40, <1>41,
     <1>42, <1>43, <1>44, <1>45, <1>46, <1>47, <1>48, <1>49, <1>50, <1>51,
     <1>52, <1>53, <1>54, <1>55, <1>56, <1>57 DEF Next, WorkerStep,
     OwnStep, StartStep, DownloadStep, FetchStep, FinishStep, HandlerStep,
     Request, RetryJob, LifeCycle

------------------------------------------------------------------------------
\* Who refers to a job.

\* Only uuids that were drawn are ever referred to.
LEMMA KnownStep ==
  ASSUME IInv, OnlyIssuedKnown, [Next]_vars
  PROVE  OnlyIssuedKnown'
<1>1. Referrers /\ issued \subseteq issued'
  BY RecordStep, FootprintStep DEF IInv, RecordFootprint, Footprint
<1>2. \A j \in Jobs, w \in Workers : HeldBy(w, j) \/ j \in victims[w] => j \in issued
  BY DEF IInv, OnlyIssued, Owned, RemovalsAreLate
<1> QED BY <1>1, <1>2 DEF OnlyIssuedKnown, Referrers

\* Nothing happens to a fresh uuid until its own handler inserts the record.
LEMMA FreshStep ==
  ASSUME IInv, OnlyIssuedKnown, FreshAtInsert, [Next]_vars
  PROVE  FreshAtInsert'
<1> SUFFICES ASSUME NEW c \in Clients, hpc'[c] = "insert"
             PROVE  /\ status'[hjob'[c]] = "absent" /\ flags'[hjob'[c]] = "none"
                    /\ \A d \in Clients : hjob'[d] = hjob'[c] => d = c
  BY DEF FreshAtInsert
<1>1. StatusMoves /\ FlagMoves /\ Referrers
  BY RecordStep DEF IInv, RecordFootprint
<1>2. CASE hpc[c] = "insert" /\ hjob'[c] = hjob[c]
  <2>. DEFINE j == hjob[c]
  <2>1. j \in Jobs /\ OfferedBy(c, j) /\ phase # "down" /\ j \in issued
    BY <1>2 DEF IInv, Places, OfferedBy, Offering, OnlyIssued, Owned
  <2>2. \A w \in Workers : ~HeldBy(w, j)
    BY <2>1 DEF IInv, SingleOwner
  <2>3. /\ status[j] = "absent" /\ flags[j] = "none"
        /\ \A d \in Clients : hjob[d] = j => d = c
    BY <1>2 DEF FreshAtInsert
  <2>4. status'[j] = "absent"
    BY <1>1, <1>2, <2>1, <2>2, <2>3 DEF StatusMoves
  <2>5. flags'[j] = "none"
    BY <1>1, <1>2, <2>1, <2>2, <2>3 DEF FlagMoves
  <2>6. \A d \in Clients : hjob'[d] = j => d = c
    BY <1>1, <2>1, <2>3, JobAssumption DEF Referrers
  <2> QED BY <1>2, <2>4, <2>5, <2>6
<1>3. CASE Submit(c, hjob'[c])
  <2>. DEFINE j == hjob'[c]
  <2>1. /\ j \notin issued /\ hjob' = [hjob EXCEPT ![c] = j]
        /\ UNCHANGED <<status, flags>>
    BY <1>3 DEF Submit, Accept, memoryVars
  <2>2. j \in Jobs
    BY <1>3, TypeStep, FootprintStep DEF IInv, Footprint, Places
  <2>3. ~Refers(j)
    BY <2>1, <2>2 DEF OnlyIssuedKnown
  <2>4. \A d \in Clients : d # c => hjob'[d] = hjob[d]
    BY <2>1 DEF IInv, TypeOK
  <2> QED BY <2>1, <2>3, <2>4 DEF Refers
<1> QED BY <1>1, <1>2, <1>3 DEF Referrers

\* Records come back with the process.
LEMMA DownStep ==
  ASSUME IInv, DownIsEmpty, [Next]_vars
  PROVE  DownIsEmpty'
<1> SUFFICES ASSUME phase' = "down", NEW j \in Jobs PROVE status'[j] = "absent"
  BY DEF DownIsEmpty
<1>1. StatusMoves /\ OwnersLeave
  BY RecordStep DEF IInv, RecordFootprint
<1>2. CASE phase = "down"
  <2>1. /\ \A w \in Workers : wpc[w] = "receive"
        /\ \A c \in Clients : hpc[c] = "idle"
        /\ status[j] = "absent"
    BY <1>2 DEF IInv, Places, DownIsEmpty
  <2> QED BY <1>1, <2>1 DEF StatusMoves
<1> QED BY <1>1, <1>2 DEF OwnersLeave

------------------------------------------------------------------------------
\* Pending records have an owner.

\* A set flag and a pending record stay with the handler that set the flag, or
\* with a worker that looks at the flag again.
LEMMA CancelPursuedStep ==
  ASSUME IInv, DownIsEmpty, FreshAtInsert, CancelPursued, [Next]_vars,
         Disturbances \cap {"append", "abandon"} = {}
  PROVE  CancelPursued'
<1> SUFFICES ASSUME phase' = "up", NEW j \in Jobs,
                    flags'[j] = "set", status'[j] \in Pending
             PROVE  \/ \E c \in Clients : hpc'[c] = "cancelinsert" /\ hjob'[c] = j
                    \/ \E w \in Workers : HeldBy(w, j)' /\ wpc'[w] \in PastMark
  BY DEF CancelPursued, PastMark, Downloading
<1>1. StatusMoves /\ FlagMoves /\ OwnersLeave /\ TypeOK' /\ Places'
  BY RecordStep, TypeStep, FootprintStep DEF IInv, RecordFootprint, Footprint
<1>2. \A c \in Clients : hpc[c] = "insert" => flags[hjob[c]] = "none"
  BY DEF FreshAtInsert
<1>3. CASE flags[j] = "set" /\ status[j] \in Pending
  <2>1. phase = "up"
    BY <1>1, <1>3 DEF OwnersLeave, DownIsEmpty, Pending
  <2>2. CASE \E c \in Clients : hpc[c] = "cancelinsert" /\ hjob[c] = j
    BY <1>1, <2>2 DEF OwnersLeave
  <2>3. ASSUME NEW w \in Workers, HeldBy(w, j), wpc[w] \in PastMark
        PROVE  HeldBy(w, j)' /\ wpc'[w] \in PastMark
    BY <1>1, <2>1, <2>3 DEF OwnersLeave, PastMark, Downloading
  <2> QED BY <1>3, <2>1, <2>2, <2>3 DEF CancelPursued
<1>4. CASE flags[j] = "set" /\ status[j] \notin Pending
  BY <1>1, <1>2, <1>4 DEF StatusMoves, Pending, Terminal, PastMark,
     Downloading,
     IInv, TypeOK
<1>5. CASE flags[j] # "set"
  BY <1>1, <1>5 DEF FlagMoves
<1> QED BY <1>3, <1>4, <1>5

\* Nothing but its own worker, before the end, makes a record pending.
LEMMA DoneStep ==
  ASSUME IInv, DoneIsFinal, [Next]_vars
  PROVE  DoneIsFinal'
<1> SUFFICES ASSUME NEW w \in Workers, wpc'[w] \in AfterFinish
             PROVE  status'[wjob'[w]] \notin Pending
  BY DEF DoneIsFinal, AfterFinish, Finishing
<1>1. StatusMoves /\ OwnersLeave
  BY RecordStep DEF IInv, RecordFootprint
<1>2. wjob'[w] = wjob[w]
  BY <1>1 DEF OwnersLeave
<1>3. CASE wpc[w] \in AfterFinish
  <2>. DEFINE j == wjob[w]
  <2>1. j \in Jobs /\ HeldBy(w, j) /\ phase # "down" /\ status[j] \notin Pending
    BY <1>3 DEF IInv, Places, HeldBy, AfterFinish, Busy, BeforeStart,
       Downloading, Finishing, DoneIsFinal
  <2>2. /\ \A v \in Workers : HeldBy(v, j) => v = w
        /\ \A c \in Clients : ~(hpc[c] = "insert" /\ hjob[c] = j)
    BY <2>1 DEF IInv, SingleOwner, OfferedBy, Offering
  <2>3. wpc[w] # "mark" /\ (wpc[w] = "finish" => outcome[w] \notin Pending)
    BY <1>3 DEF AfterFinish, Finishing
  <2> QED BY <1>1, <1>2, <2>1, <2>2, <2>3 DEF StatusMoves, Pending, Terminal
<1>4. CASE wpc[w] \notin AfterFinish
  BY <1>1, <1>4 DEF OwnersLeave
<1> QED BY <1>3, <1>4

\* The channel gives a request away to a worker only.
LEMMA QueueStep ==
  ASSUME IInv, [Next]_vars, NEW j \in Jobs, InQueue(j), phase' # "down"
  PROVE  InQueue(j)' \/ \E w \in Workers : HeldBy(w, j)'
<1>1. LifeStays \/ Moves
  BY HandsStep DEF IInv
<1>2. CASE queue' = queue
  BY <1>2 DEF InQueue
<1>3. ASSUME NEW w \in Workers, Receive(w)
      PROVE  InQueue(j)' \/ \E v \in Workers : HeldBy(v, j)'
  BY <1>3, ReceiveMoves DEF IInv
<1>4. ASSUME NEW c \in Clients, TrySend(c) PROVE InQueue(j)'
  BY <1>4, TrySendMoves DEF IInv
<1>5. ASSUME NEW w \in Workers, MarkRunning(w) \/ LetsGo(w)
      PROVE  queue' = queue
  BY <1>5 DEF MarkRunning, LetsGo
<1>6. ASSUME NEW c \in Clients, NEW i \in Jobs, Withdraws(c) \/ Submit(c, i)
      PROVE  queue' = queue
  BY <1>6 DEF Withdraws, Submit, memoryVars
<1>7. ~Exit /\ ~Crash
  BY DEF Exit, Crash, Stop
<1> QED BY <1>1, <1>2, <1>3, <1>4, <1>5, <1>6, <1>7 DEF Moves, LifeStays

\* Whoever lets go of a pending record has passed it on or has ended it.
LEMMA PendingStep ==
  ASSUME IInv, IInv', DownIsEmpty, CancelPursued, DoneIsFinal, PendingHasOwner,
         [Next]_vars, Disturbances \cap {"append", "abandon"} = {}
  PROVE  PendingHasOwner'
<1> SUFFICES ASSUME phase' = "up", NEW j \in Jobs, status'[j] \in Pending
             PROVE  \/ InQueue(j)'
                    \/ \E w \in Workers : HeldBy(w, j)'
                    \/ \E c \in Clients :
                         /\ hjob'[c] = j
                         /\ hpc'[c] \in {"rollback", "cancelinsert"} \cup Offering
  BY DEF PendingHasOwner, Offering
<1>1. StatusMoves /\ OwnersLeave
  BY RecordStep DEF IInv, RecordFootprint
<1>2. CASE status[j] \notin Pending
  BY <1>1, <1>2 DEF StatusMoves, Pending, Terminal, Offering
<1>3. CASE status[j] \in Pending
  <2>1. phase = "up"
    BY <1>1, <1>3 DEF OwnersLeave, DownIsEmpty, Pending
  <2>2. CASE InQueue(j)
    BY <2>2, QueueStep
  <2>3. ASSUME NEW c \in Clients, hjob[c] = j,
               hpc[c] \in {"rollback", "cancelinsert"} \cup Offering
        PROVE  \/ InQueue(j)'
               \/ /\ hjob'[c] = j
                  /\ hpc'[c] \in {"rollback", "cancelinsert"} \cup Offering
    <3>1. TrySend(c) => InQueue(j)'
      BY <2>3, TrySendMoves DEF IInv
    <3> QED BY <1>1, <2>3, <3>1 DEF OwnersLeave
  <2>4. ASSUME NEW w \in Workers, HeldBy(w, j), ~HeldBy(w, j)'
        PROVE  \E c \in Clients : hpc[c] = "cancelinsert" /\ hjob[c] = j
    <3>1. wjob[w] = j /\ wpc[w] # "release"
      BY <1>3, <2>4 DEF HeldBy, DoneIsFinal, AfterFinish, Finishing
    <3>2. wpc[w] \in {"skip", "recheck"} /\ flags[j] = "set"
      BY <1>1, <1>3, <2>1, <2>4, <3>1 DEF OwnersLeave, CanceledBeforeStart,
         Pending
    <3>3. \A v \in Workers : HeldBy(v, j) => wpc[v] \notin PastMark
      BY <2>4, <3>2 DEF IInv, SingleOwner, PastMark, Downloading
    <3> QED BY <1>3, <2>1, <3>2, <3>3 DEF CancelPursued
  <2> QED BY <1>3, <2>1, <2>2, <2>3, <2>4 DEF PendingHasOwner
<1> QED BY <1>2, <1>3

PendingInv ==
  /\ IInv /\ OnlyIssuedKnown /\ DownIsEmpty /\ FreshAtInsert
  /\ CancelPursued /\ DoneIsFinal /\ PendingHasOwner

\* A record that says queued or running has somebody who will end it: a request
\* on its way, a worker, or the handler about to roll it back or to cancel it.
\* Excluded: a failed append of a submission line leaves its record behind, and
\* so does a cancel handler dropped between the flag and the record.
THEOREM PendingRecordsAreOwned ==
  ASSUME Disturbances \cap {"append", "abandon"} = {}
  PROVE  Spec => []PendingHasOwner
<1>1. Init => PendingInv
  <2> SUFFICES ASSUME Init PROVE PendingInv
    OBVIOUS
  <2>1. \A j \in Jobs : /\ status[j] = "absent" /\ ~Refers(j)
    BY JobAssumption DEF Init, All, Refers
  <2>2. /\ \A w \in Workers : wpc[w] = "receive"
        /\ \A c \in Clients : hpc[c] = "idle"
    BY DEF Init, All
  <2> QED BY InitIInv, <2>1, <2>2 DEF PendingInv, OnlyIssuedKnown, DownIsEmpty,
     FreshAtInsert, CancelPursued, DoneIsFinal, PendingHasOwner, Pending,
     AfterFinish, Finishing
<1>2. PendingInv /\ [Next]_vars => PendingInv'
  BY NextIInv, KnownStep, DownStep, FreshStep, CancelPursuedStep, DoneStep,
     PendingStep DEF PendingInv
<1>3. PendingInv => PendingHasOwner
  BY DEF PendingInv
<1> QED BY <1>1, <1>2, <1>3, PTL DEF Spec

------------------------------------------------------------------------------
\* Succeeded records have their media.

\* Nobody but its worker changes the directory of a job whose download is not
\* over, and nobody at all once it stands at "finish".
LEMMA FinishedDirStays ==
  ASSUME IInv, [Next]_vars, NEW w \in Workers, wpc[w] = "finish"
  PROVE  dir'[wjob[w]] = dir[wjob[w]]
<1> DEFINE j == wjob[w]
<1>1. MediaMoves
  BY RecordStep DEF IInv, RecordFootprint
<1>2. j \in Jobs /\ HeldBy(w, j) /\ Early(j)
  BY DEF IInv, Places, HeldBy, Early, Undone, Busy, Finishing
<1>3. /\ \A c \in Clients : ~(hpc[c] = "rmdir" /\ hjob[c] = j)
      /\ \A v \in Workers : j \notin victims[v]
  BY <1>2 DEF IInv, RemovalsAreLate
<1>4. \A v \in Workers : HeldBy(v, j) => wpc[v] \notin Downloading
  BY <1>2 DEF IInv, SingleOwner, Downloading
<1> QED BY <1>1, <1>2, <1>3, <1>4 DEF MediaMoves, RemovalOf

MediaInv == IInv /\ SucceededHasResult /\ MediaAtFinish /\ MediaPresent

\* A removal is accounted for until the record says deleted.
LEMMA MediaStep ==
  ASSUME MediaInv, [Next]_vars, Disturbances \cap {"abandon", "restart"} = {}
  PROVE  SucceededHasResult' /\ MediaAtFinish' /\ MediaPresent'
<1> USE DEF MediaInv
<1>1. StatusMoves /\ MediaMoves
  BY RecordStep DEF IInv, RecordFootprint
<1>2. SucceededHasResult'
  BY <1>1 DEF SucceededHasResult, MediaMoves
<1>3. MediaAtFinish'
  <2> SUFFICES ASSUME NEW w \in Workers,
                      wpc'[w] = "finish", outcome'[w] = "succeeded"
               PROVE  dir'[wjob'[w]] = "complete"
    BY DEF MediaAtFinish
  <2> QED BY <1>1, FinishedDirStays DEF MediaMoves, MediaAtFinish
<1>4. MediaPresent'
  <2> SUFFICES ASSUME NEW j \in Jobs, status'[j] = "succeeded"
               PROVE  \/ dir'[j] = "complete"
                      \/ dir'[j] = "torn" /\ hasResult'[j]
                      \/ \E c \in Clients : hpc'[c] = "deleteinsert" /\ hjob'[c] = j
                      \/ \E w \in Workers : wpc'[w] = "tomb" /\ target'[w] = j
    BY DEF MediaPresent
  <2>1. ASSUME NEW w \in Workers, HeldBy(w, j), wpc[w] = "finish",
               outcome[w] = "succeeded"
        PROVE  dir'[j] = "complete"
    BY <2>1, FinishedDirStays DEF MediaAtFinish, HeldBy
  <2>2. CASE status[j] # "succeeded"
    BY <1>1, <2>1, <2>2 DEF StatusMoves
  <2>3. CASE status[j] = "succeeded"
    <3>1. \A w \in Workers : HeldBy(w, j) => wpc[w] \notin Downloading
      <4>1. ~Early(j)
        BY <2>3 DEF SucceededHasResult, IInv, RemovalsAreLate
      <4> QED BY <4>1 DEF Early, Undone
    <3>2. CASE dir[j] = "complete" \/ dir[j] = "torn"
      BY <1>1, <1>2, <3>1, <3>2 DEF MediaMoves, SucceededHasResult
    <3>3. ASSUME NEW c \in Clients, hpc[c] = "deleteinsert", hjob[c] = j
          PROVE  hpc'[c] = "deleteinsert" /\ hjob'[c] = j
      BY <1>1, <3>3 DEF MediaMoves
    <3>4. ASSUME NEW w \in Workers, wpc[w] = "tomb", target[w] = j
          PROVE  wpc'[w] = "tomb" /\ target'[w] = j
      BY <1>1, <3>4 DEF MediaMoves
    <3> QED BY <2>3, <3>2, <3>3, <3>4 DEF MediaPresent
  <2> QED BY <2>2, <2>3
<1> QED BY <1>2, <1>3, <1>4

\* A succeeded record names media that is there, unless a delete or a prune is
\* between the removal and the record, or failed half-way: then the record still
\* names what is left, for the next one to remove.  Excluded: a delete dropped there, and a
\* restart, which trusts the last line (a worker's "succeeded" may be logged
\* after the "deleted" of a delete, see LogAgreesWithRecord).
THEOREM SucceededRecordsHaveMedia ==
  ASSUME Disturbances \cap {"abandon", "restart"} = {}
  PROVE  Spec => []MediaPresent
<1>1. Init => MediaInv
  BY InitIInv DEF Init, All, MediaInv, SucceededHasResult, MediaAtFinish,
     MediaPresent
<1>2. MediaInv /\ [Next]_vars => MediaInv'
  BY NextIInv, MediaStep DEF MediaInv
<1>3. MediaInv => MediaPresent
  BY DEF MediaInv
<1> QED BY <1>1, <1>2, <1>3, PTL DEF Spec

------------------------------------------------------------------------------
\* Terminal records are logged.

LogInv == IInv /\ DownIsEmpty /\ LogPursued

\* Whoever writes a terminal status goes on to append its line.
LEMMA LogStep ==
  ASSUME LogInv, [Next]_vars, Disturbances \cap {"append", "abandon"} = {},
         MetadataLimit = 0 \/ "restart" \notin Disturbances
  PROVE  LogPursued'
<1> SUFFICES ASSUME NEW j \in Jobs, status'[j] \in Terminal
             PROVE  \/ logged'[j] # "none"
                    \/ \E w \in Workers :
                         \/ wpc'[w] = "append" /\ wjob'[w] = j
                         \/ wpc'[w] = "tombappend" /\ target'[w] = j
                    \/ \E c \in Clients :
                         hpc'[c] \in {"cancelappend", "deleteappend"} /\ hjob'[c] = j
  BY DEF LogPursued
<1>1. StatusMoves /\ LogMoves
  BY RecordStep DEF LogInv, IInv, RecordFootprint
<1>2. CASE status[j] \notin Terminal
  BY <1>1, <1>2 DEF StatusMoves, LogMoves, Terminal, HeldBy
<1>3. CASE status[j] \in Terminal
  BY <1>1, <1>3 DEF LogMoves, LogInv, LogPursued, Terminal
<1> QED BY <1>2, <1>3

\* A record with a terminal status that nobody works on any more has a line in
\* the results file, so a restart does not call the job interrupted.  Excluded:
\* failing appends, handlers dropped before their append, and a restart that
\* compacts the files below what the map keeps.
THEOREM TerminalRecordsAreLogged ==
  ASSUME Disturbances \cap {"append", "abandon"} = {},
         MetadataLimit = 0 \/ "restart" \notin Disturbances
  PROVE  Spec => []TerminalIsLogged
<1>1. Init => LogInv
  BY InitIInv DEF Init, All, LogInv, DownIsEmpty, LogPursued, Terminal
<1>2. LogInv /\ [Next]_vars => LogInv'
  BY NextIInv, DownStep, LogStep DEF LogInv
<1>3. LogInv => TerminalIsLogged
  BY DEF LogInv, LogPursued, TerminalIsLogged, Quiet, HeldBy, Busy, Finishing
<1> QED BY <1>1, <1>2, <1>3, PTL DEF Spec
=============================================================================
