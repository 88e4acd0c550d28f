--------------------------- MODULE StorageCleanup ---------------------------
(***************************************************************************)
(* Keeping the downloads within a number of bytes: the sweep a worker      *)
(* makes after each job, and the one a client asks for or previews at      *)
(* /v1/storage/cleanup.  Both take a snapshot of the succeeded jobs and    *)
(* remove directories, oldest job first, while other jobs finish, are      *)
(* deleted, or are evicted from the job map.                               *)
(*                                                                         *)
(* Removing one directory and marking its job is one step here; the races  *)
(* inside it are JobServer's subject, which leaves the sizes open.         *)
(***************************************************************************)
EXTENDS Integers, Sequences, SequencesExt, FiniteSetsExt, Lists

CONSTANTS
  Downloads,    \* jobs, numbered in the order in which they finish
  MediaBytes,        \* values of media_bytes
  Maxima,       \* values of max_download_storage_bytes, 0 turns sweeping off
  Overrides,    \* values of the max_bytes parameter
  NoMaximum,
  Kept,         \* job_retention_limit
  Stuck,        \* sets of directories that cannot be removed, one of them is chosen
  Sweepers,     \* workers and requests that sweep at a time
  NoSweep

VARIABLES
  maximum,   \* config.max_download_storage_bytes
  stuck,     \* directories that cannot be removed
  state,     \* what the job map says of each job
  bytes,     \* size of each download
  dirs,      \* jobs whose directory is on the disk
  order,     \* the job map by updated_at, the oldest first
  sweep      \* the sweep in progress, or just ended, of each sweeper

ASSUME StorageAssumption ==
  /\ IsFiniteSet(Downloads) /\ Downloads = 1 .. Cardinality(Downloads)
  /\ MediaBytes \subseteq Nat /\ Maxima \subseteq Nat /\ Overrides \subseteq Nat
  /\ Kept \in Nat

storage == <<maximum, stuck, state, bytes, dirs, order, sweep>>

Total(jobs) == SumOf([j \in Downloads |-> IF j \in jobs THEN bytes[j] ELSE 0])
Succeeded(j) == state[j] = "succeeded"
StorageCandidates == Filter(order, {j \in Downloads : Succeeded(j)})

\* A record is written: it becomes the youngest.
Touched(j) == Append(Filter(order, Downloads \ {j}), j)

Sweep == [kind : {"worker", "request", "preview"},
          pc : {"snapshot", "remove", "delete", "retain", "over"},
          max : Maxima \cup Overrides \cup {NoMaximum},
          todo : Seq(Downloads), counted : SUBSET Downloads, current : Nat,
          left : Nat, removed : Seq(Downloads), failed : SUBSET Downloads]
Begun(kind, pc, max) ==
  [kind |-> kind, pc |-> pc, max |-> max, todo |-> <<>>, counted |-> {}, current |-> 0,
   left |-> 0, removed |-> <<>>, failed |-> {}]

\* What a sweep makes of one candidate: whether it is gone, and what is left
\* of the total by then.
\* Mutant: a directory that could not be removed counts as removed.
LeftAnyway(t, j, gone) == t - bytes[j]
LeftAfter(t, j, gone) == IF gone THEN t - bytes[j] ELSE t
Tried(s, j, gone) ==
  [sweep EXCEPT ![s].todo = Tail(@),
                ![s].left = LeftAfter(@, j, gone),
                ![s].removed = IF gone THEN Append(@, j) ELSE @,
                ![s].failed = IF gone THEN @ ELSE @ \cup {j}]

StorageInit ==
  /\ maximum \in Maxima /\ stuck \in Stuck
  /\ state = [j \in Downloads |-> "none"] /\ bytes \in [Downloads -> MediaBytes]
  /\ dirs = {} /\ order = <<>> /\ sweep = [s \in Sweepers |-> NoSweep]

------------------------------------------------------------------------------
(* A worker *)

\* finish_job up to the sweep.
FinishDownload(s, j) ==
  /\ sweep[s] = NoSweep /\ state[j] = "none"
  /\ \A k \in Downloads : k < j => state[k] # "none"
  /\ state' = [state EXCEPT ![j] = "succeeded"] /\ order' = Append(order, j)
  /\ dirs' = dirs \cup {j}
  /\ sweep' = [sweep EXCEPT ![s] = Begun("worker", "snapshot", maximum)]
  /\ UNCHANGED <<maximum, stuck, bytes>>

\* enforce_download_storage_limit up to its loop.
Snapshot(s) ==
  /\ sweep[s] # NoSweep /\ sweep[s].pc = "snapshot"
  /\ LET total == Total(ToSet(StorageCandidates))
     IN  sweep' = [sweep EXCEPT ![s] =
           IF maximum = 0 \/ total <= maximum THEN [@ EXCEPT !.pc = "retain"]
           ELSE [@ EXCEPT !.pc = "remove", !.todo = StorageCandidates, !.current = total,
                          !.left = total, !.counted = ToSet(StorageCandidates)]]
  /\ UNCHANGED <<maximum, stuck, state, bytes, dirs, order>>

\* remove_storage_candidate; a directory that is gone already counts as removed.
RemoveNext(s) ==
  /\ sweep[s] # NoSweep /\ sweep[s].pc = "remove"
  /\ IF sweep[s].todo = <<>> \/ sweep[s].left <= maximum
       THEN sweep' = [sweep EXCEPT ![s].pc = "retain"] /\ UNCHANGED <<state, dirs, order>>
       ELSE LET j == Head(sweep[s].todo)
            IN  IF j \in stuck \cap dirs
                  THEN sweep' = Tried(s, j, FALSE) /\ UNCHANGED <<state, dirs, order>>
                  ELSE /\ sweep' = Tried(s, j, TRUE) /\ dirs' = dirs \ {j}
                       /\ IF state[j] = "evicted" THEN UNCHANGED <<state, order>>
                          ELSE /\ state' = [state EXCEPT ![j] = "deleted"]
                               /\ order' = Touched(j)
  /\ UNCHANGED <<maximum, stuck, bytes>>

\* retain_recent_jobs: the records go, their directories stay.
RetainRecent(s) ==
  /\ sweep[s] # NoSweep /\ sweep[s].pc = "retain"
  /\ LET extra == IF Len(order) > Kept THEN Len(order) - Kept ELSE 0
     IN  /\ order' = SubSeq(order, extra + 1, Len(order))
         /\ state' = [j \in Downloads |-> IF j \in ToSet(SubSeq(order, 1, extra))
                                            THEN "evicted" ELSE state[j]]
  /\ sweep' = [sweep EXCEPT ![s].pc = "over"]
  /\ UNCHANGED <<maximum, stuck, bytes, dirs>>

------------------------------------------------------------------------------
(* A request *)

\* delete_job_record succeeds for a job of the map, unless its files stay.
Deletable(j) == state[j] = "deleted" \/ (Succeeded(j) /\ j \notin stuck \cap dirs)
DeleteDownload(j) ==
  /\ Deletable(j)
  /\ state' = [state EXCEPT ![j] = "deleted"] /\ dirs' = dirs \ {j} /\ order' = Touched(j)

UserDeletes(j) ==
  /\ Succeeded(j) /\ DeleteDownload(j) /\ UNCHANGED <<maximum, stuck, bytes, sweep>>

\* storage_cleanup_plan: as few of the oldest candidates as are enough.
After(n) == Total(ToSet(SubSeq(StorageCandidates, n + 1, Len(StorageCandidates))))
Planned(max) ==
  IF max = NoMaximum THEN <<>>
  ELSE SubSeq(StorageCandidates, 1, Min({n \in 0 .. Len(StorageCandidates) : After(n) <= max}))

\* storage_cleanup_response up to the deletions; a preview ends here.
RequestCleanup(s, override, preview) ==
  /\ sweep[s] = NoSweep
  /\ LET max == IF override # NoMaximum THEN override
                ELSE IF maximum > 0 THEN maximum ELSE NoMaximum
         current == Total(ToSet(StorageCandidates))
         plan == Planned(max)
         begun == [Begun("request", "delete", max) EXCEPT !.todo = plan, !.current = current,
                     !.left = current, !.counted = ToSet(StorageCandidates)]
     IN  sweep' = [sweep EXCEPT ![s] =
           IF preview
             THEN [begun EXCEPT !.kind = "preview", !.pc = "over", !.left = After(Len(plan))]
             ELSE begun]
  /\ UNCHANGED <<maximum, stuck, state, bytes, dirs, order>>

\* execute_storage_cleanup; a failure is reported and the next one is tried.
DeleteNext(s) ==
  /\ sweep[s] # NoSweep /\ sweep[s].pc = "delete"
  /\ IF sweep[s].todo = <<>>
       THEN sweep' = [sweep EXCEPT ![s].pc = "over"] /\ UNCHANGED <<state, dirs, order>>
       ELSE LET j == Head(sweep[s].todo)
            IN  /\ sweep' = Tried(s, j, Deletable(j))
                /\ IF Deletable(j) THEN DeleteDownload(j) ELSE UNCHANGED <<state, dirs, order>>
  /\ UNCHANGED <<maximum, stuck, bytes>>

\* The worker goes on to its next job, or the request has its answer.
EndSweep(s) ==
  /\ sweep[s] # NoSweep /\ sweep[s].pc = "over" /\ sweep' = [sweep EXCEPT ![s] = NoSweep]
  /\ UNCHANGED <<maximum, stuck, state, bytes, dirs, order>>

StorageNext ==
  \/ \E s \in Sweepers :
       \/ \E j \in Downloads : FinishDownload(s, j)
       \/ Snapshot(s) \/ RemoveNext(s) \/ RetainRecent(s) \/ DeleteNext(s) \/ EndSweep(s)
       \/ \E override \in Overrides \cup {NoMaximum}, preview \in BOOLEAN :
            RequestCleanup(s, override, preview)
  \/ \E j \in Downloads : UserDeletes(j)
StorageSpec == StorageInit /\ [][StorageNext]_storage

------------------------------------------------------------------------------
(* Properties *)

\* Types of the variables.
StorageTypeOK ==
  /\ maximum \in Maxima /\ stuck \in Stuck /\ dirs \subseteq Downloads
  /\ state \in [Downloads -> {"none", "succeeded", "deleted", "evicted"}]
  /\ bytes \in [Downloads -> MediaBytes] /\ order \in Seq(Downloads)
  /\ \A s \in Sweepers : sweep[s] # NoSweep => sweep[s] \in Sweep

\* A sweep that has ended did its work on the jobs it counted.  A worker leaves
\* more than the limit only of directories that could not be removed; a
\* request, only if it reported a failure, and it never reports fewer bytes
\* left than there are.  Neither removed a job more than was needed: without
\* the last one the jobs it had counted were over the limit.
CleanupFrees ==
  \A s \in Sweepers : sweep[s] # NoSweep /\ sweep[s].pc = "over" /\ sweep[s].kind # "preview" =>
    LET w == sweep[s]
        remaining == {j \in w.counted : Succeeded(j)}
    IN  /\ w.kind = "worker" /\ Total(remaining) > w.max => remaining \subseteq w.failed
        /\ w.kind = "request" =>
             /\ w.left >= Total(remaining)
             /\ w.failed = {} /\ w.max # NoMaximum => Total(remaining) <= w.max
        /\ w.removed # <<>> => w.left + bytes[Last(w.removed)] > w.max

\* Once every worker has swept, the downloads on the disk are within the limit
\* if their directories can be removed at all.
DiskWithinLimit ==
  /\ maximum > 0 /\ stuck = {}
  /\ \A s \in Sweepers : sweep[s] # NoSweep => sweep[s].pc = "over"
  /\ \E s \in Sweepers : sweep[s] # NoSweep /\ sweep[s].kind = "worker"
  => Total(dirs) <= maximum
=============================================================================
