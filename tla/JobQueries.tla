----------------------------- MODULE JobQueries -----------------------------
(***************************************************************************)
(* The pages that show jobs: the list with its filters and its links to    *)
(* the previous and the next page, and the detail page with its buttons.   *)
(* What a page offers is computed from the record it shows; the handler    *)
(* behind a button looks at the status again.  Jobs change under an open   *)
(* page.                                                                   *)
(***************************************************************************)
EXTENDS Naturals, Sequences, FiniteSets, SequencesExt, Lists

CONSTANTS
  Shown,          \* jobs of the map
  Watching,       \* those with a webhook_url
  SiteOf,         \* platform of each job's URL
  WordsOf,        \* words found in the searched fields of each job
  StatusParams, SiteParams, WordParams,   \* values of the filters as they arrive
  OffsetParams, LimitParams,              \* values of offset and limit
  KnownSites,     \* platforms::known_platforms
  LongestPage,    \* 500 in the code
  Word,           \* values a usize can hold, 2^64 in the code
  Unset,          \* a parameter left out
  Empty,          \* a parameter that is there, but blank
  Unreadable,     \* a query with control characters, or one that is too long
  NoPage

VARIABLES
  status,    \* of each job, or "evicted"
  recency,   \* the job map by updated_at, the last one first
  screen     \* the page somebody looks at

\* The job map is in memory: its jobs and a page of them can be counted.
ASSUME QueriesAssumption ==
  /\ IsFiniteSet(Shown) /\ LongestPage \in Nat \ {0} /\ Word \in Nat
  /\ Cardinality(Shown) + LongestPage < Word
  /\ OffsetParams \subseteq Nat /\ LimitParams \subseteq Nat

queries == <<status, recency, screen>>

Statuses == {"queued", "running", "succeeded", "failed", "canceled", "deleted"}
\* Mutant: a deleted job is terminal, so it is offered another try.
IsTerminal(s) == s \in {"succeeded", "failed", "canceled", "deleted"}
\* JobStatus's predicates.
IsCancelable(s) == s \in {"queued", "running"}
IsRetryable(s) == s \in {"succeeded", "failed", "canceled"}
IsDeletable(s) == s \in {"succeeded", "failed", "canceled"}

\* JobRecordFilters::parse, one parameter each.  A blank platform or query is
\* no filter; a blank status is no status.
StatusUnderstood(p) == p = Unset \/ p \in Statuses
SiteUnderstood(p) == p \in {Unset, Empty} \/ p \in KnownSites
WordUnderstood(p) == p # Unreadable
Understood(f) == StatusUnderstood(f.status) /\ SiteUnderstood(f.site) /\ WordUnderstood(f.word)

\* JobRecordFilters::matches.
Matches(f, j) ==
  /\ f.status = Unset \/ status[j] = f.status
  /\ f.site \in {Unset, Empty} \/ SiteOf[j] = f.site
  /\ f.word \in {Unset, Empty} \/ f.word \in WordsOf[j]
\* collect_job_records, which the export returns as a whole.
Collected(f) == Filter(recency, {j \in Shown : Matches(f, j)})

Between(n, low, high) == IF n < low THEN low ELSE IF n > high THEN high ELSE n
SkipTake(list, offset, limit) ==
  SubSeq(list, offset + 1, IF offset + limit < Len(list) THEN offset + limit ELSE Len(list))
\* The release build adds offset and limit without a check for overflow.
NextOffset(offset, limit) == (offset + limit) % Word
PreviousOffset(offset, limit) == IF offset < limit THEN 0 ELSE offset - limit

\* render_job_list.  History: the offset at which a reader began to follow the
\* links, and the jobs seen since.
ListPage(f, offset, limit, from, walked) ==
  LET found == Collected(f)
      jobs == SkipTake(found, offset, limit)
  IN  [kind |-> "list", filter |-> f, offset |-> offset, limit |-> limit, jobs |-> jobs,
       hasPrevious |-> offset > 0, previous |-> PreviousOffset(offset, limit),
       hasNext |-> NextOffset(offset, limit) < Len(found), next |-> NextOffset(offset, limit),
       from |-> from, walked |-> walked \o jobs, fresh |-> TRUE]

\* job_detail_view.
Buttons == {"cancel", "retry", "delete", "redeliver"}
Offered(j) ==
  {b \in Buttons :
     CASE b = "cancel" -> IsCancelable(status[j])
       [] b = "retry" -> IsRetryable(status[j])
       [] b = "delete" -> IsDeletable(status[j])
       [] b = "redeliver" -> j \in Watching /\ status[j] \notin {"queued", "running", "deleted"}}
DetailPage(j) == [kind |-> "detail", job |-> j, offers |-> Offered(j), fresh |-> TRUE]

\* What the handlers meet besides the job: workers that are ready, a queue that
\* is full, fills up under the handler or has room, a receiver that answers, and
\* files that can be written and removed.
Servers == [ready : BOOLEAN, room : {"none", "going", "there"}, receiver : BOOLEAN,
            disk : BOOLEAN]
Works == [ready |-> TRUE, room |-> "there", receiver |-> TRUE, disk |-> TRUE]

\* What comes of a request about the job: NotFound and Conflict are about the
\* job, ServiceUnavailable and Internal about the server.
OnTheJob(j, allowed, otherwise) ==
  IF status[j] = "evicted" THEN "NotFound"
  ELSE IF status[j] \notin allowed THEN "Conflict" ELSE otherwise
CancelAnswer(j, server) ==
  OnTheJob(j, {"queued", "running"}, IF server.disk THEN "OK" ELSE "Internal")
RetryAnswer(j, server) ==
  IF ~server.ready \/ server.room = "none" THEN "ServiceUnavailable"
  ELSE OnTheJob(j, Statuses \ {"queued", "running", "deleted"},
                IF server.room = "going" THEN "ServiceUnavailable"
                ELSE IF server.disk THEN "OK" ELSE "Internal")
DeleteAnswer(j, server) ==
  OnTheJob(j, Statuses \ {"queued", "running"}, IF server.disk THEN "OK" ELSE "Internal")
RedeliverAnswer(j, server) ==
  OnTheJob(j, Statuses \ {"queued", "running", "deleted"},
           IF j \notin Watching THEN "Conflict"
           ELSE IF server.receiver THEN "OK" ELSE "ServiceUnavailable")
AnswerTo(b, j, server) ==
  CASE b = "cancel" -> CancelAnswer(j, server)
    [] b = "retry" -> RetryAnswer(j, server)
    [] b = "delete" -> DeleteAnswer(j, server)
    [] b = "redeliver" -> RedeliverAnswer(j, server)

------------------------------------------------------------------------------
QueriesInit ==
  /\ status = [j \in Shown |-> "queued"] /\ screen = NoPage
  /\ recency \in {s \in [1 .. Cardinality(Shown) -> Shown] : ToSet(s) = Shown}

\* A worker or a handler moves a job on; the open page knows nothing of it.  Both
\* write over what came after their look at the job, and a handler puts back a
\* job that was evicted meanwhile.
MayBecome(s) ==
  CASE s = "queued" -> {"running", "canceled", "failed"}
    [] s = "running" -> {"succeeded", "failed", "canceled"}
    [] s \in {"succeeded", "failed"} -> {"deleted", "canceled"}
    [] s \in {"canceled", "deleted"} -> Statuses \ {"queued"}
    [] s = "evicted" -> {"canceled", "deleted"}
Stale == IF screen = NoPage THEN NoPage ELSE [screen EXCEPT !.fresh = FALSE]
Progress(j) ==
  /\ \E s \in MayBecome(status[j]) : status' = [status EXCEPT ![j] = s]
  /\ recency' = <<j>> \o Filter(recency, Shown \ {j}) /\ screen' = Stale
\* retain_recent_jobs drops the record updated first.
Evict ==
  /\ recency # <<>> /\ recency' = Front(recency) /\ screen' = Stale
  /\ status' = [status EXCEPT ![Last(recency)] = "evicted"]

OpenDetail(j) ==
  /\ screen = NoPage /\ status[j] # "evicted" /\ screen' = DetailPage(j)
  /\ UNCHANGED <<status, recency>>

\* list_job_records; a filter that is not understood is answered with 400.
OpenList(f, offset, limit) ==
  /\ screen = NoPage
  /\ screen' = IF Understood(f)
                 THEN ListPage(f, offset, Between(limit, 1, LongestPage), offset, <<>>)
                 ELSE NoPage
  /\ UNCHANGED <<status, recency>>

\* The links carry the filters that are not blank.
FollowNext ==
  /\ screen # NoPage /\ screen.kind = "list" /\ screen.hasNext
  /\ screen' = IF screen.fresh
                 THEN ListPage(screen.filter, screen.next, screen.limit,
                               screen.from, screen.walked)
                 ELSE ListPage(screen.filter, screen.next, screen.limit, screen.next, <<>>)
  /\ UNCHANGED <<status, recency>>
FollowPrevious ==
  /\ screen # NoPage /\ screen.kind = "list" /\ screen.hasPrevious
  /\ screen' = ListPage(screen.filter, screen.previous, screen.limit, screen.previous, <<>>)
  /\ UNCHANGED <<status, recency>>

LeavePage == screen # NoPage /\ screen' = NoPage /\ UNCHANGED <<status, recency>>

QueriesNext ==
  \/ \E j \in Shown : Progress(j) \/ OpenDetail(j)
  \/ Evict \/ FollowNext \/ FollowPrevious \/ LeavePage
  \/ \E s \in StatusParams, p \in SiteParams, w \in WordParams,
        offset \in OffsetParams, limit \in LimitParams :
       OpenList([status |-> s, site |-> p, word |-> w], offset, limit)
QueriesSpec == QueriesInit /\ [][QueriesNext]_queries

------------------------------------------------------------------------------
(* Properties *)

\* Types of the variables.
QueriesTypeOK ==
  /\ status \in [Shown -> Statuses \cup {"evicted"}]
  /\ recency \in Seq(Shown) /\ ToSet(recency) = {j \in Shown : status[j] # "evicted"}
  /\ screen # NoPage => screen.kind \in {"list", "detail"} /\ screen.fresh \in BOOLEAN

\* What an open page offers works as long as nothing has changed since.  A button
\* that is there is never answered with a complaint about the job: it succeeds, or
\* fails because of the server, which happens only when something there does not
\* work.  One that is not there would not have succeeded (except that a deleted
\* job may be deleted again).  And a reader who opens the list at its start and
\* follows the links to the next page sees every matching job once.
OffersWork ==
  screen # NoPage /\ screen.fresh =>
    IF screen.kind = "detail"
      THEN \A b \in Buttons, server \in Servers :
             LET answer == AnswerTo(b, screen.job, server) IN
             IF b \in screen.offers
               THEN answer \notin {"NotFound", "Conflict"} /\ (server = Works => answer = "OK")
               ELSE answer = "OK" => b = "delete" /\ status[screen.job] = "deleted"
      ELSE screen.from = 0 /\ ~screen.hasNext => screen.walked = Collected(screen.filter)
=============================================================================
