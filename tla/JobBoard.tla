------------------------------ MODULE JobBoard ------------------------------
(***************************************************************************)
(* Requests about many jobs at a time, while jobs move on: submissions of  *)
(* several URLs, which decide first what to reuse, check the room in the   *)
(* queue and then enqueue one URL after the other; batches of cancels,     *)
(* retries and deletes; and a client that pages through the job list.      *)
(*                                                                         *)
(* A worker's or a handler's change of one job is one step here, its       *)
(* append, which may fail, included; the races inside such a change are    *)
(* JobServer's subject.  The enqueue of a submission takes its three steps *)
(* one by one, and the timeout layer may drop a request between any two.   *)
(***************************************************************************)
EXTENDS Naturals, Sequences, FiniteSets, SequencesExt, Lists

CONSTANTS
  Urls,
  QueueSize,       \* config.queue_size
  RetentionLimit,  \* config.job_retention_limit
  Clients,         \* requests in flight
  UrlLists,        \* the URLs a submission may carry
  IdLists,         \* the job ids a batch may carry
  PageLimits,      \* values of the limit parameter
  MaxPage,         \* 500 in the code
  MaxJobs,         \* bound on the jobs issued
  NoJob,
  MaxWrites          \* bound on the clock

ASSUME BoardAssumption ==
  /\ QueueSize \in Nat /\ RetentionLimit \in Nat /\ MaxJobs \in Nat
  /\ MaxPage \in Nat \ {0} /\ MaxWrites \in Nat \ {0}
  /\ PageLimits \subseteq Nat /\ UrlLists \subseteq Seq(Urls)
  /\ IdLists \subseteq Seq(Nat)

VARIABLES
  map,      \* the job map
  queue,    \* the channel
  clock,    \* counts the writes, gives created_at and updated_at
  issued,   \* uuids drawn
  pc,       \* where each request is
  todo,     \* what it still has to decide, to enqueue or to act on
  done,     \* the decisions or the responses it has collected
  reply,    \* how it was answered last
  raced,    \* history: somebody else enqueued since its capacity check
  pager     \* the client that pages

board == <<map, queue, clock, issued, pc, todo, done, reply, raced, pager>>
request == <<pc, todo, done, reply>>

Ids == 1 .. MaxJobs
Stages == {"idle", "decide", "check", "insert", "append", "send", "cancel", "delete", "retry"}
Replies == {"none", "ok", "busy", "full", "unsaved", "timeout"}
Terminal == {"succeeded", "failed", "canceled", "deleted"}
Record == [status : Terminal \cup {"queued", "running"}, url : Urls,
           created : Nat, updated : Nat]
ASSUME NoRecordAssumption == NoJob \notin Record /\ NoJob \notin Ids
Present(m) == {j \in Ids : m[j] # NoJob}
Of(m, statuses) == {j \in Present(m) : m[j].status \in statuses}

\* The records updated after the job: those before it in a list sorted by
\* updated_at and reversed.  The clock makes the updates different.
Later(m, j) == {k \in Present(m) : m[k].updated > m[j].updated}
\* recent_records.
Newest(m, limit) == {j \in Present(m) : Cardinality(Later(m, j)) < limit}
Retain(m) == [j \in Ids |-> IF j \in Newest(m, RetentionLimit) THEN m[j] ELSE NoJob]

Stamp == clock < MaxWrites /\ clock' = clock + 1
Set(j, status) == [map EXCEPT ![j].status = status, ![j].updated = clock]
NoPager == [active |-> FALSE, limit |-> 1, offset |-> 0, seen |-> {}, since |-> 0,
            shifted |-> FALSE]

BoardInit ==
  /\ map = [j \in Ids |-> NoJob] /\ queue = <<>> /\ clock = 1 /\ issued = 0
  /\ pc = [c \in Clients |-> "idle"] /\ todo = [c \in Clients |-> <<>>]
  /\ done = [c \in Clients |-> <<>>] /\ reply = [c \in Clients |-> "none"]
  /\ raced = [c \in Clients |-> FALSE] /\ pager = NoPager

------------------------------------------------------------------------------
(* The workers *)

TakeJob ==
  /\ queue # <<>> /\ queue' = Tail(queue)
  /\ IF Head(queue) \in Of(map, {"queued"})
       THEN map' = Set(Head(queue), "running") /\ Stamp
       ELSE UNCHANGED <<map, clock>>
  /\ UNCHANGED <<issued, request, raced, pager>>

FinishJob(j) ==
  /\ j \in Of(map, {"running"}) /\ Stamp
  /\ \E s \in {"succeeded", "failed"} : map' = Retain(Set(j, s))
  /\ UNCHANGED <<queue, issued, request, raced, pager>>

------------------------------------------------------------------------------
(* submit_download_jobs *)

Answer(c, with) ==
  /\ pc' = [pc EXCEPT ![c] = "idle"] /\ reply' = [reply EXCEPT ![c] = with]
  /\ todo' = [todo EXCEPT ![c] = <<>>] /\ done' = [done EXCEPT ![c] = <<>>]
Next1(c, response) ==
  /\ todo' = [todo EXCEPT ![c] = Tail(@)] /\ done' = [done EXCEPT ![c] = Append(@, response)]

\* A request with valid URLs; force leaves nothing to be looked up.
Submit(c) ==
  /\ pc[c] = "idle"
  /\ \E urls \in UrlLists, force \in BOOLEAN :
       /\ IF force
            THEN /\ pc' = [pc EXCEPT ![c] = "check"]
                 /\ done' = [done EXCEPT ![c] = [i \in DOMAIN urls |->
                                                   [url |-> urls[i], job |-> NoJob]]]
                 /\ UNCHANGED todo
            ELSE /\ pc' = [pc EXCEPT ![c] = "decide"]
                 /\ todo' = [todo EXCEPT ![c] = urls] /\ UNCHANGED done
  /\ reply' = [reply EXCEPT ![c] = "none"]
  /\ UNCHANGED <<map, queue, clock, issued, raced, pager>>

\* reusable_successful_job: the succeeded job of the URL updated last.
Reusable(url) == {j \in Of(map, {"succeeded"}) : map[j].url = url}
Reused(url) == IF Reusable(url) = {} THEN NoJob
               ELSE CHOOSE j \in Reusable(url) :
                      \A k \in Reusable(url) : map[k].updated <= map[j].updated

\* submit_decision, under the read lock of its own.
Decide(c) ==
  /\ pc[c] = "decide"
  /\ IF todo[c] = <<>> THEN pc' = [pc EXCEPT ![c] = "check"] /\ UNCHANGED <<todo, done>>
     ELSE /\ Next1(c, [url |-> Head(todo[c]), job |-> Reused(Head(todo[c]))])
          /\ UNCHANGED pc
  /\ UNCHANGED <<map, queue, clock, issued, reply, raced, pager>>

\* queued_decision_count.
Needed(decisions) == Cardinality({i \in DOMAIN decisions : decisions[i].job = NoJob})
ToQueue(c) == Needed(done[c])
\* Mutant: a queue with any room at all is room enough.
SomeRoom(c) == ToQueue(c) > 0 => Len(queue) < QueueSize
\* ensure_queue_capacity for all the URLs that are not reused.
RoomForAll(c) == ToQueue(c) <= QueueSize - Len(queue)

CheckCapacity(c) ==
  /\ pc[c] = "check"
  /\ IF RoomForAll(c)
       THEN /\ pc' = [pc EXCEPT ![c] = "insert"] /\ todo' = [todo EXCEPT ![c] = done[c]]
            /\ done' = [done EXCEPT ![c] = <<>>] /\ UNCHANGED reply
            /\ raced' = [raced EXCEPT ![c] = FALSE]
       ELSE Answer(c, "busy") /\ UNCHANGED raced
  /\ UNCHANGED <<map, queue, clock, issued, pager>>

NewRecord(url) == [status |-> "queued", url |-> url, created |-> clock, updated |-> clock]

\* enqueue_record up to the insert; what is reused needs no more than a response.
InsertNext(c) ==
  /\ pc[c] = "insert"
  /\ IF todo[c] = <<>>
       THEN Answer(c, "ok") /\ UNCHANGED <<map, clock, issued>>
     ELSE IF Head(todo[c]).job # NoJob
       THEN Next1(c, Head(todo[c]).job) /\ UNCHANGED <<map, clock, issued, pc, reply>>
     ELSE IF Len(queue) = QueueSize
       THEN Answer(c, "full") /\ UNCHANGED <<map, clock, issued>>
     ELSE /\ issued < MaxJobs /\ issued' = issued + 1 /\ Stamp
          /\ map' = [map EXCEPT ![issued + 1] = NewRecord(Head(todo[c]).url)]
          /\ pc' = [pc EXCEPT ![c] = "append"]
          /\ Next1(c, issued + 1) /\ UNCHANGED reply
  /\ UNCHANGED <<queue, raced, pager>>

\* The line of the submission; without it the record stays in the map and the
\* job is never queued.
AppendNext(c) ==
  /\ pc[c] = "append"
  /\ \/ pc' = [pc EXCEPT ![c] = "send"] /\ UNCHANGED <<todo, done, reply>>
     \/ Answer(c, "unsaved")
  /\ UNCHANGED <<map, queue, clock, issued, raced, pager>>

\* send_queued_request; a queue that has filled up takes the record back, and
\* says so unless the line about it cannot be appended.
SendNext(c) ==
  /\ pc[c] = "send"
  /\ IF Len(queue) < QueueSize
       THEN /\ queue' = Append(queue, Last(done[c])) /\ pc' = [pc EXCEPT ![c] = "insert"]
            /\ raced' = [d \in Clients |-> d # c \/ raced[d]]
            /\ UNCHANGED <<map, todo, done, reply, pager>>
       ELSE /\ map' = [map EXCEPT ![Last(done[c])] = NoJob]
            /\ Answer(c, "full") \/ Answer(c, "unsaved")
            /\ pager' = [pager EXCEPT !.shifted = TRUE] /\ UNCHANGED <<queue, raced>>
  /\ UNCHANGED <<clock, issued>>

\* The timeout layer answers in the place of the handler, which it drops.
DropRequest(c) ==
  /\ pc[c] # "idle" /\ Answer(c, "timeout")
  /\ UNCHANGED <<map, queue, clock, issued, raced, pager>>

------------------------------------------------------------------------------
(* batch_job_action *)

\* validate_batch_job_ids keeps the first of each id.
FirstOfItsKind(ids, i) == \A k \in 1 .. (i - 1) : ids[k] # ids[i]
Distinct(ids) ==
  LET firsts == Filter(Positions(ids), {i \in DOMAIN ids : FirstOfItsKind(ids, i)})
  IN  [n \in DOMAIN firsts |-> ids[firsts[n]]]
Error == 0   \* in the place of a response

BatchAction(c) ==
  /\ pc[c] = "idle"
  /\ \E ids \in IdLists, what \in {"cancel", "delete", "retry"} :
       /\ pc' = [pc EXCEPT ![c] = what] /\ todo' = [todo EXCEPT ![c] = Distinct(ids)]
  /\ reply' = [reply EXCEPT ![c] = "none"]
  /\ UNCHANGED <<map, queue, clock, issued, done, raced, pager>>

Wanted(what) ==
  CASE what = "cancel" -> {"queued", "running"}
    [] what = "delete" -> Terminal
    [] what = "retry" -> Terminal \ {"deleted"}

\* The retry of a job that may be retried: its record is in the map also if the
\* line of the submission cannot be appended.
RetryOne(c, j) ==
  IF Len(queue) = QueueSize \/ issued = MaxJobs
    THEN Next1(c, Error) /\ UNCHANGED <<map, queue, clock, issued, raced>>
    ELSE /\ issued' = issued + 1 /\ Stamp
         /\ map' = [map EXCEPT ![issued + 1] = NewRecord(map[j].url)]
         /\ \/ /\ queue' = Append(queue, issued + 1) /\ Next1(c, issued + 1)
               /\ raced' = [d \in Clients |-> d # c \/ raced[d]]
            \/ Next1(c, Error) /\ UNCHANGED <<queue, raced>>

\* Cancel, delete or retry one job: done, or an error in the batch's answer,
\* which an append that fails after the change of the record gives as well.
ActOnNext(c) ==
  /\ pc[c] \in {"cancel", "delete", "retry"}
  /\ IF todo[c] = <<>>
       THEN Answer(c, "ok") /\ UNCHANGED <<map, queue, clock, issued, raced>>
       ELSE LET j == Head(todo[c]) IN
            /\ IF j \notin Of(map, Wanted(pc[c]))
                 THEN Next1(c, Error) /\ UNCHANGED <<map, queue, clock, issued, raced>>
               ELSE IF pc[c] = "retry" THEN RetryOne(c, j)
               ELSE /\ map' = Set(j, IF pc[c] = "cancel" THEN "canceled" ELSE "deleted")
                    /\ Stamp /\ (Next1(c, j) \/ Next1(c, Error))
                    /\ UNCHANGED <<queue, issued, raced>>
            /\ UNCHANGED <<pc, reply>>
  /\ UNCHANGED pager

------------------------------------------------------------------------------
(* list_job_records *)

Clamp(n, low, high) == IF n < low THEN low ELSE IF n > high THEN high ELSE n
\* Mutant: the list is not reversed after it was sorted.
OldestFirst(m, offset, limit) ==
  {j \in Present(m) : Cardinality({k \in Present(m) : m[k].updated < m[j].updated})
                        \in offset .. offset + limit - 1}
\* The records of the list, the last update first, that skip and take leave.
Page(m, offset, limit) ==
  {j \in Present(m) : Cardinality(Later(m, j)) \in offset .. offset + limit - 1}

StartPaging ==
  /\ ~pager.active
  /\ \E limit \in PageLimits :
       pager' = [NoPager EXCEPT !.active = TRUE, !.limit = Clamp(limit, 1, MaxPage),
                                !.since = clock]
  /\ UNCHANGED <<map, queue, clock, issued, request, raced>>

ReadPage ==
  /\ pager.active /\ pager.offset < Cardinality(Present(map))
  /\ pager' = [pager EXCEPT !.offset = @ + pager.limit,
                            !.seen = @ \cup Page(map, pager.offset, pager.limit)]
  /\ UNCHANGED <<map, queue, clock, issued, request, raced>>

EndOfList == pager.active /\ pager.offset >= Cardinality(Present(map))
StopPaging ==
  /\ EndOfList /\ pager' = NoPager
  /\ UNCHANGED <<map, queue, clock, issued, request, raced>>

Moves ==
  \/ TakeJob \/ (\E j \in Ids : FinishJob(j))
  \/ \E c \in Clients : \/ Submit(c) \/ Decide(c) \/ CheckCapacity(c) \/ InsertNext(c)
                        \/ AppendNext(c) \/ SendNext(c) \/ BatchAction(c) \/ ActOnNext(c)
                        \/ DropRequest(c)
Paging == StartPaging \/ ReadPage \/ StopPaging
BoardNext == Moves \/ Paging
BoardSpec == BoardInit /\ [][BoardNext]_board

------------------------------------------------------------------------------
(* Properties *)

\* Types of the variables.
BoardTypeOK ==
  /\ map \in [Ids -> Record \cup {NoJob}] /\ queue \in Seq(Ids) /\ Len(queue) <= QueueSize
  /\ clock \in 1 .. MaxWrites /\ issued \in 0 .. MaxJobs
  /\ pc \in [Clients -> Stages]
  /\ \A c \in Clients : DOMAIN todo[c] = 1 .. Len(todo[c]) /\ DOMAIN done[c] = 1 .. Len(done[c])
  /\ reply \in [Clients -> Replies] /\ raced \in [Clients -> BOOLEAN]
  /\ pager.active \in BOOLEAN /\ pager.seen \subseteq Ids

\* A submission whose URLs found room in the queue at its check is never told
\* half-way that the queue is full, unless another request enqueued a job since.
\* (It may still end half-way, some of its jobs accepted, when a line cannot be
\* appended or the timeout layer drops it: the answer then says that instead.)
FullOnlyByRace == \A c \in Clients : reply[c] = "full" => raced[c]

\* A client that pages to the end of the list has seen every job that did not
\* change meanwhile: new, changed and evicted jobs only ever push it further
\* down.  (A record taken back by a failed enqueue pulls the others up.)
PagingMissesNothing ==
  EndOfList /\ ~pager.shifted =>
    \A j \in Present(map) : map[j].updated < pager.since => j \in pager.seen
=============================================================================
