-------------------------- MODULE WebhookDelivery --------------------------
(***************************************************************************)
(* Webhooks: the delivery of an event with its attempts and backoff, the   *)
(* dead-letter file, and the requests that replay, dismiss or redeliver.   *)
(* Workers deliver the events of finished jobs and append what failed for  *)
(* good; requests load the file, filter it and put a rewritten file in its *)
(* place, without a lock and through one temporary path they all share.    *)
(*                                                                         *)
(* The network may lose a request or its answer; an append may fail or be  *)
(* cut short; a request may be dropped at any await; the process may die.  *)
(*                                                                         *)
(* A line of the file is whole or the file does not parse: a line that     *)
(* lost only its newline, which the next append spoils, counts as torn.    *)
(* The temporary file is written in one step.  Two requests that replace   *)
(* the file at a time may also rename it half written; that is modelled by *)
(* the partial write and the torn line such a pair may leave (crossed),    *)
(* and what is said of lost letters leaves such pairs out.                 *)
(***************************************************************************)
EXTENDS Naturals, FiniteSets

CONSTANTS
  Events,       \* event ids, drawn once each
  Workers,      \* download workers, each delivers after its job
  Clients,      \* requests in flight
  MaxAttempts,  \* max(1, config.webhook_max_attempts)
  Backoff,      \* config.webhook_initial_backoff_ms > 0
  NoEvent,
  NoFile        \* no such file

ASSUME WebhookAssumption ==
  /\ MaxAttempts \in Nat \ {0} /\ Backoff \in BOOLEAN
  /\ NoEvent \notin Events /\ Workers \cap Clients = {} /\ IsFiniteSet(Events)

VARIABLES
  letters,    \* the events in the dead-letter file
  temp,       \* what the temporary file holds, NoFile when there is none
  broken,     \* a line of the dead-letter file does not parse
  origin,     \* what each event id in use was drawn for
  pc,         \* where a worker or a request is
  event,      \* its event
  request,    \* what a request wants
  attempt,    \* its number of the delivery attempt
  loaded,     \* what it read of the dead-letter file
  acked,      \* events whose delivery was acknowledged
  failed,     \* history: events appended to the dead-letter file
  unsaved,    \* history: final failures whose append failed
  removed,    \* history: events whose own request replaced the file without them
  gone,       \* history: events any replacement of the file dropped from it
  late,       \* history: events appended while a request was replacing the file
  dismissed,  \* history: events a dismissal began to take out
  cut,        \* history: events whose delivery a crash ended
  crossed     \* history: two requests were replacing the file at a time

file == <<letters, temp, broken>>
proc == <<pc, event, request, attempt, loaded>>
past == <<failed, unsaved, removed, gone, late, dismissed, cut, crossed>>
vars == <<file, proc, origin, acked, past>>

Procs == Workers \cup Clients
Idle == "idle"
Request == {"none", "deliver", "replay", "dismiss", "redeliver", "orphan"}
Origin == {"unused", "job", "redelivery"}
Drawn == {e \in Events : origin[e] # "unused"}
Draw(e, what) == origin[e] = "unused" /\ origin' = [origin EXCEPT ![e] = what]

Init ==
  /\ letters = {} /\ temp = NoFile /\ broken = FALSE
  /\ origin = [e \in Events |-> "unused"]
  /\ pc = [p \in Procs |-> Idle] /\ event = [p \in Procs |-> NoEvent]
  /\ request = [p \in Procs |-> "none"] /\ attempt = [p \in Procs |-> 0]
  /\ loaded = [p \in Procs |-> {}] /\ acked = {}
  /\ failed = {} /\ unsaved = {} /\ removed = {} /\ gone = {} /\ late = {}
  /\ dismissed = {} /\ cut = {} /\ crossed = FALSE

\* Requests between the load of the file and the end of its replacement.
Removers == {c \in Clients : pc[c] \in {"write", "rename"}}

Goto(p, place) == pc' = [pc EXCEPT ![p] = place]
\* p is done with its event.
Leave(p) ==
  /\ Goto(p, Idle) /\ event' = [event EXCEPT ![p] = NoEvent]
  /\ request' = [request EXCEPT ![p] = "none"]
  /\ attempt' = [attempt EXCEPT ![p] = 0] /\ loaded' = [loaded EXCEPT ![p] = {}]
\* A request is answered; which status and body it gets decides nothing here.
Answered(c) == Leave(c)
Begin(p, what, e, place) ==
  /\ request' = [request EXCEPT ![p] = what] /\ event' = [event EXCEPT ![p] = e]
  /\ Goto(p, place)

------------------------------------------------------------------------------
(* WebhookClient *)

\* from_job draws an event id; the worker of a finished job delivers it.
Deliver(w) ==
  /\ pc[w] = Idle
  /\ \E e \in Events : Draw(e, "job") /\ Begin(w, "deliver", e, "send")
  /\ attempt' = [attempt EXCEPT ![w] = 1]
  /\ UNCHANGED <<file, loaded, acked, past>>

\* One attempt.  The answer is 2xx; anything else, a timeout or a connection
\* that breaks before or after the receiver has read the request is a failure.
Send(p) ==
  /\ pc[p] = "send"
  /\ \/ /\ acked' = acked \cup {event[p]}
        /\ Goto(p, "delivered")
     \/ /\ Goto(p, "retry") /\ UNCHANGED acked
  /\ UNCHANGED <<file, event, request, attempt, loaded, origin, past>>

\* Mutant: attempts are counted from zero.
LastAttemptLate(p) == attempt[p] > MaxAttempts
LastAttempt(p) == attempt[p] >= MaxAttempts

\* replay_event goes on to the next attempt, after a backoff if there is one.
Retry(p) ==
  /\ pc[p] = "retry"
  /\ IF LastAttempt(p) THEN Goto(p, "failed") /\ UNCHANGED attempt
     ELSE IF Backoff THEN Goto(p, "backoff") /\ UNCHANGED attempt
     ELSE Goto(p, "send") /\ attempt' = [attempt EXCEPT ![p] = @ + 1]
  /\ UNCHANGED <<file, event, request, loaded, origin, acked, past>>

\* Mutant: the attempt is not counted.
EndBackoffSameAttempt(p) ==
  /\ pc[p] = "backoff" /\ Goto(p, "send")
  /\ UNCHANGED <<file, event, request, attempt, loaded, origin, acked, past>>
EndBackoff(p) ==
  /\ pc[p] = "backoff" /\ Goto(p, "send")
  /\ attempt' = [attempt EXCEPT ![p] = @ + 1]
  /\ UNCHANGED <<file, event, request, loaded, origin, acked, past>>

\* Mutant: the dead letter is written, not appended.
OverwriteLetters(e) == {e}
AppendLetter(e) == letters \cup {e}

\* Mutant: only a delivery that was acknowledged is looked at.
WorkerForgets(w) ==
  /\ w \in Workers /\ pc[w] \in {"delivered", "failed"} /\ Leave(w)
  /\ UNCHANGED <<file, origin, acked, past>>

\* deliver and send_webhook: what failed for good becomes a dead letter, and
\* counts as a failure whether it could be appended or not.
WorkerDone(w) ==
  /\ w \in Workers
  /\ \/ /\ pc[w] = "delivered" /\ UNCHANGED <<letters, broken, past>>
     \/ /\ pc[w] = "failed"
        /\ \/ /\ letters' = AppendLetter(event[w]) /\ UNCHANGED <<broken, unsaved>>
              /\ failed' = failed \cup {event[w]}
              /\ late' = IF Removers = {} THEN late ELSE late \cup {event[w]}
           \/ /\ broken' \in {broken, TRUE} /\ unsaved' = unsaved \cup {event[w]}
              /\ UNCHANGED <<letters, failed, late>>
        /\ UNCHANGED <<removed, gone, dismissed, cut, crossed>>
  /\ Leave(w)
  /\ UNCHANGED <<temp, origin, acked>>

------------------------------------------------------------------------------
(* The requests *)

\* load_webhook_dead_letters, and find the letter.
ReplayLetter(c) ==
  /\ pc[c] = Idle
  /\ \E e \in Drawn :
       IF broken THEN Answered(c)
       ELSE IF e \notin letters THEN Answered(c)
       ELSE /\ Begin(c, "replay", e, "send") /\ attempt' = [attempt EXCEPT ![c] = 1]
            /\ UNCHANGED loaded
  /\ UNCHANGED <<file, origin, acked, past>>

\* The job as redeliver_job_webhook_record finds it.
RedeliverJob(c) ==
  /\ pc[c] = Idle
  /\ \/ Answered(c) /\ UNCHANGED origin
     \/ \E e \in Events :
          /\ Draw(e, "redelivery") /\ Begin(c, "redeliver", e, "send")
          /\ attempt' = [attempt EXCEPT ![c] = 1] /\ UNCHANGED loaded
  /\ UNCHANGED <<file, acked, past>>

DismissLetter(c) ==
  /\ pc[c] = Idle
  /\ \E e \in Drawn : Begin(c, "dismiss", e, "load")
  /\ UNCHANGED <<file, attempt, loaded, origin, acked, past>>

\* Mutant: a letter is removed before its replay was acknowledged.
RemoveAnyway(c) == pc[c] \in {"failed", "delivered"} /\ request[c] = "replay"
RemoveAfter(c) == pc[c] = "delivered" /\ request[c] = "replay"

\* The replay or the redelivery is over.
RequestSent(c) ==
  /\ pc[c] \in {"delivered", "failed"}
  /\ IF RemoveAfter(c) THEN Goto(c, "load") /\ UNCHANGED <<event, request, attempt, loaded>>
     ELSE Answered(c)
  /\ UNCHANGED <<file, origin, acked, past>>

\* remove_webhook_dead_letter: load and filter.
LoadLetters(c) ==
  /\ pc[c] = "load"
  /\ IF broken THEN Answered(c) /\ UNCHANGED <<dismissed, crossed>>
     ELSE IF event[c] \notin letters
       THEN /\ Answered(c)
            /\ UNCHANGED <<dismissed, crossed>>
       ELSE /\ loaded' = [loaded EXCEPT ![c] = letters \ {event[c]}] /\ Goto(c, "write")
            /\ crossed' = (crossed \/ Removers # {})
            /\ dismissed' = IF request[c] = "dismiss" THEN dismissed \cup {event[c]}
                                                     ELSE dismissed
            /\ UNCHANGED <<event, request, attempt>>
  /\ UNCHANGED <<file, origin, acked, failed, unsaved, removed, gone, late, cut>>

\* write_webhook_dead_letters: the temporary file, which may fail at once or
\* half-way, ...
WriteTemp(c) ==
  /\ pc[c] = "write"
  /\ \/ /\ temp' = loaded[c]
        /\ IF request[c] = "orphan" THEN Leave(c)
           ELSE Goto(c, "rename") /\ UNCHANGED <<event, request, attempt, loaded>>
     \/ Answered(c) /\ temp' \in {temp} \cup SUBSET loaded[c]
  /\ UNCHANGED <<letters, broken, origin, acked, past>>

\* ... takes the place of the dead-letter file and of all that was appended to
\* it since the load, if another request has not moved it there already.
RenameTemp(c) ==
  /\ pc[c] = "rename" /\ Answered(c)
  /\ IF temp = NoFile
       THEN UNCHANGED <<file, removed, gone>>
       ELSE /\ letters' = temp /\ temp' = NoFile /\ broken' \in {FALSE, crossed}
            /\ removed' = removed \cup {event[c]} /\ gone' = gone \cup (letters \ temp)
  /\ UNCHANGED <<origin, acked, failed, unsaved, late, dismissed, cut, crossed>>

\* The timeout layer or the client drops the request.  A file operation that
\* is under way in the blocking pool is finished nevertheless.
Abandon(c) ==
  /\ pc[c] # Idle /\ request[c] # "orphan"
  /\ \/ Leave(c)
     \/ /\ c \in Removers /\ request' = [request EXCEPT ![c] = "orphan"]
        /\ UNCHANGED <<pc, event, attempt, loaded>>
  /\ UNCHANGED <<file, origin, acked, past>>

\* The process dies; deliveries under way are not taken up again.
Crash ==
  /\ \E p \in Procs : pc[p] # Idle
  /\ cut' = cut \cup {event[w] : w \in {w \in Workers : pc[w] # Idle}}
  /\ pc' = [p \in Procs |-> Idle] /\ event' = [p \in Procs |-> NoEvent]
  /\ request' = [p \in Procs |-> "none"] /\ attempt' = [p \in Procs |-> 0]
  /\ loaded' = [p \in Procs |-> {}]
  /\ UNCHANGED <<file, origin, acked, failed, unsaved, removed, gone, late,
                 dismissed, crossed>>

Delivery(p) == Send(p) \/ Retry(p) \/ EndBackoff(p)
ClientStep(c) ==
  \/ Delivery(c) \/ RequestSent(c) \/ LoadLetters(c) \/ WriteTemp(c) \/ RenameTemp(c)
Ask(c) == ReplayLetter(c) \/ DismissLetter(c) \/ RedeliverJob(c)
Next ==
  \/ \E w \in Workers : Deliver(w) \/ Delivery(w) \/ WorkerDone(w)
  \/ \E c \in Clients : Ask(c) \/ ClientStep(c) \/ Abandon(c)
  \/ Crash

\* The runtime polls every task, and with webhook_timeout_seconds > 0 an
\* attempt ends even if the receiver is silent.
Fairness ==
  /\ \A w \in Workers : WF_vars(Delivery(w) \/ WorkerDone(w))
  /\ \A c \in Clients : WF_vars(ClientStep(c))
Spec == Init /\ [][Next]_vars
FairSpec == Spec /\ Fairness

------------------------------------------------------------------------------
(* Properties *)

\* Types of the variables.
TypeOK ==
  /\ letters \subseteq Events /\ temp \in (SUBSET Events) \cup {NoFile}
  /\ broken \in BOOLEAN /\ origin \in [Events -> Origin]
  /\ pc \in [Procs -> {Idle, "send", "retry", "backoff", "delivered", "failed",
                       "load", "write", "rename"}]
  /\ event \in [Procs -> Events \cup {NoEvent}] /\ request \in [Procs -> Request]
  /\ attempt \in [Procs -> 0 .. MaxAttempts] /\ loaded \in [Procs -> SUBSET Events]
  /\ acked \subseteq Drawn
  /\ failed \cup unsaved \cup removed \cup dismissed \cup cut \subseteq Drawn
  /\ gone \cup late \subseteq Events /\ crossed \in BOOLEAN

\* While removals run one at a time and no worker appends beside one, the file
\* holds exactly the final failures that were not taken out, whatever was
\* dropped, cut short or answered with an error in between.
LettersExact == ~crossed /\ late = {} /\ ~broken => letters = failed \ removed

\* A request takes only its own letter out, and only when it was dismissed or
\* the receiver acknowledged it; the file never holds an event that did not
\* fail for good.  While removals run one at a time no other letter leaves the
\* file, except those workers append between a request's load and its rename:
\* these it drops, unacknowledged, and nothing else tells of them.
RemovedForReason ==
  /\ removed \subseteq acked \cup dismissed /\ letters \subseteq failed
  /\ ~crossed => gone \subseteq acked \cup dismissed \cup late

\* The end of every worker's delivery is accounted for: acknowledged, a dead
\* letter, an append that failed and was counted, or cut off by a crash.
NoFailureUnnoticed ==
  \A e \in Events :
    origin[e] = "job" /\ (\A w \in Workers : event[w] # e) =>
      e \in acked \cup failed \cup unsaved \cup cut

\* Every delivery of a worker ends, so the worker takes the next job, also if
\* the receiver never answers.
DeliveriesEnd == \A w \in Workers : pc[w] # Idle ~> pc[w] = Idle
=============================================================================
