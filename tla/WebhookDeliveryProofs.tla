----------------------- MODULE WebhookDeliveryProofs -----------------------
(***************************************************************************)
(* What the dead-letter file promises, proved for any events, workers,     *)
(* requests and number of attempts.                                        *)
(*                                                                         *)
(* A letter leaves the file in two steps that other requests may come      *)
(* between, each with a copy of the file.  So the invariant says why every *)
(* request that is about to replace the file may do so (Grounds), that a   *)
(* single one of them holds what the file should be (Exact), and that the  *)
(* file and the copy of a single one hold every letter that may not be     *)
(* lost (Held).  That no failure goes unnoticed rests on a worker being    *)
(* alone with its event.                                                   *)
(***************************************************************************)
EXTENDS WebhookDelivery, TLAPS

\* Who is busy has an event that was drawn; who is between two attempts has
\* one left; a delivery is over when the receiver acknowledged it.
Places ==
  \A p \in Procs :
    /\ pc[p] = Idle => event[p] = NoEvent
    /\ pc[p] # Idle => event[p] \in Drawn
    /\ pc[p] = "backoff" => attempt[p] < MaxAttempts
    /\ pc[p] = "delivered" => event[p] \in acked

\* An event is with one worker at a time, and it failed for good at the end only.
OwnEvents ==
  \A w \in Workers :
    /\ event[w] \notin failed
    /\ \A v \in Workers : event[w] = event[v] /\ event[w] # NoEvent => w = v

\* Why a request may take its letter out of the file.
Grounds ==
  /\ temp = NoFile \/ temp \subseteq failed
  /\ removed \subseteq failed
  /\ \A c \in Clients :
       /\ loaded[c] \subseteq failed
       /\ pc[c] = "load" => request[c] = "dismiss" \/ event[c] \in acked
       /\ pc[c] \in {"write", "rename"} =>
            event[c] \in acked \cup dismissed /\ event[c] \in failed

\* The letters nothing allows to be lost.
Due == failed \ (late \cup acked \cup dismissed)

\* While requests replace the file one at a time, the file holds all that is
\* due, and so do the copy and the temporary file of the one that replaces it.
Held ==
  ~crossed =>
    /\ Due \subseteq letters
    /\ \A c \in Removers :
         /\ Due \subseteq loaded[c]
         /\ pc[c] = "rename" => temp = loaded[c]
         /\ \A d \in Removers : c = d

\* ... and if no worker appended beside it, that copy is the file without its letter.
Exact ==
  ~crossed /\ late = {} =>
    /\ letters = failed \ removed
    /\ \A c \in Removers : loaded[c] = letters \ {event[c]}

\* The inductive invariant.
DeliveryInv ==
  /\ TypeOK /\ Places /\ OwnEvents /\ Grounds /\ Held /\ Exact
  /\ RemovedForReason /\ NoFailureUnnoticed

------------------------------------------------------------------------------
\* Types are preserved: an attempt is made only while there is one left.
LEMMA TypesKept ==
  ASSUME TypeOK, Places, Next
  PROVE  TypeOK'
  <1> USE WebhookAssumption
    DEF Idle, TypeOK, Places, Request, Origin, Drawn, Removers, Procs, file, proc,
      past
  <1>1. ASSUME NEW w \in Workers, Deliver(w)
       PROVE  TypeOK'
    BY <1>1 DEF Deliver, Draw, Begin, Goto
  <1>2. ASSUME NEW p \in Procs, Send(p)
       PROVE  TypeOK'
    BY <1>2 DEF Send, Goto
  <1>3. ASSUME NEW p \in Procs, Retry(p)
       PROVE  TypeOK'
    BY <1>3 DEF Retry, LastAttempt, Goto
  <1>4. ASSUME NEW p \in Procs, EndBackoff(p)
       PROVE  TypeOK'
    BY <1>4 DEF EndBackoff, Goto
  <1>5. ASSUME NEW w \in Workers, WorkerDone(w)
       PROVE  TypeOK'
    <2>1. event[w] \in Drawn /\ Drawn \subseteq Events
      BY <1>5 DEF WorkerDone
    <2>2. letters' \subseteq letters \cup {event[w]} /\ failed' \subseteq failed \cup {event[w]}
          /\ unsaved' \subseteq unsaved \cup {event[w]} /\ removed' = removed
          /\ dismissed' = dismissed /\ cut' = cut
          /\ gone' = gone /\ late' \subseteq late \cup {event[w]} /\ crossed' = crossed
      BY <1>5 DEF WorkerDone, AppendLetter
    <2>3. letters' \subseteq Events
      BY <2>1, <2>2
    <2>4. (failed \cup unsaved \cup removed \cup dismissed \cup cut)' \subseteq Drawn
      BY <2>1, <2>2
    <2>5. broken' \in BOOLEAN /\ crossed' \in BOOLEAN /\ (gone \cup late)' \subseteq Events
      BY <1>5, <2>1, <2>2 DEF WorkerDone
    <2>6. /\ pc' \in [Procs -> {Idle, "send", "retry", "backoff", "delivered", "failed",
                                "load", "write", "rename"}]
          /\ event' \in [Procs -> Events \cup {NoEvent}] /\ request' \in [Procs -> Request]
          /\ attempt' \in [Procs -> 0 .. MaxAttempts] /\ loaded' \in [Procs -> SUBSET Events]
      BY <1>5 DEF WorkerDone, Leave, Goto
    <2> QED BY <1>5, <2>3, <2>4, <2>5, <2>6 DEF WorkerDone
  <1>6. ASSUME NEW c \in Clients, ReplayLetter(c)
       PROVE  TypeOK'
    BY <1>6 DEF ReplayLetter, Begin, Answered, Leave, Goto
  <1>7. ASSUME NEW c \in Clients, RedeliverJob(c)
       PROVE  TypeOK'
    BY <1>7 DEF RedeliverJob, Draw, Begin, Answered, Leave, Goto
  <1>8. ASSUME NEW c \in Clients, DismissLetter(c)
       PROVE  TypeOK'
    BY <1>8 DEF DismissLetter, Begin, Goto
  <1>9. ASSUME NEW c \in Clients, RequestSent(c)
       PROVE  TypeOK'
    BY <1>9 DEF RequestSent, RemoveAfter, Answered, Leave, Goto
  <1>10. ASSUME NEW c \in Clients, LoadLetters(c)
       PROVE  TypeOK'
    <2>1. event[c] \in Drawn /\ Drawn \subseteq Events
      BY <1>10 DEF LoadLetters
    <2>2. /\ pc' \in [Procs -> {Idle, "send", "retry", "backoff", "delivered", "failed",
                                "load", "write", "rename"}]
          /\ event' \in [Procs -> Events \cup {NoEvent}] /\ request' \in [Procs -> Request]
          /\ attempt' \in [Procs -> 0 .. MaxAttempts] /\ loaded' \in [Procs -> SUBSET Events]
      BY <1>10 DEF LoadLetters, Answered, Leave, Goto
    <2>3. dismissed' \subseteq dismissed \cup {event[c]} /\ crossed' \in BOOLEAN
      BY <1>10 DEF LoadLetters
    <2> QED BY <1>10, <2>1, <2>2, <2>3 DEF LoadLetters
  <1>11. ASSUME NEW c \in Clients, WriteTemp(c)
       PROVE  TypeOK'
    <2>1. temp' \in (SUBSET Events) \cup {NoFile}
      BY <1>11 DEF WriteTemp
    <2>2. /\ pc' \in [Procs -> {Idle, "send", "retry", "backoff", "delivered", "failed",
                                "load", "write", "rename"}]
          /\ event' \in [Procs -> Events \cup {NoEvent}] /\ request' \in [Procs -> Request]
          /\ attempt' \in [Procs -> 0 .. MaxAttempts] /\ loaded' \in [Procs -> SUBSET Events]
      BY <1>11 DEF WriteTemp, Answered, Leave, Goto
    <2> QED BY <1>11, <2>1, <2>2 DEF WriteTemp
  <1>12. ASSUME NEW c \in Clients, RenameTemp(c)
       PROVE  TypeOK'
    <2>1. event[c] \in Drawn
      BY <1>12 DEF RenameTemp
    <2>2. /\ letters' \subseteq Events /\ temp' \in (SUBSET Events) \cup {NoFile}
          /\ broken' \in BOOLEAN /\ removed' \subseteq removed \cup {event[c]}
          /\ gone' \subseteq gone \cup letters
      BY <1>12 DEF RenameTemp
    <2>3. /\ pc' \in [Procs -> {Idle, "send", "retry", "backoff", "delivered", "failed",
                                "load", "write", "rename"}]
          /\ event' \in [Procs -> Events \cup {NoEvent}] /\ request' \in [Procs -> Request]
          /\ attempt' \in [Procs -> 0 .. MaxAttempts] /\ loaded' \in [Procs -> SUBSET Events]
      BY <1>12 DEF RenameTemp, Answered, Leave, Goto
    <2> QED BY <1>12, <2>1, <2>2, <2>3 DEF RenameTemp
  <1>13. ASSUME NEW c \in Clients, Abandon(c)
       PROVE  TypeOK'
    BY <1>13 DEF Abandon, Leave, Goto
  <1>14. CASE Crash
    BY <1>14 DEF Crash
  <1> QED
    BY <1>1, <1>2, <1>3, <1>4, <1>5, <1>6, <1>7, <1>8, <1>9, <1>10, <1>11, <1>12,
      <1>13, <1>14 DEF Next, Ask, ClientStep, Delivery

\* What goes with a place is preserved.
LEMMA PlacesKept ==
  ASSUME TypeOK, Places, Next
  PROVE  Places'
  <1> USE WebhookAssumption
    DEF Idle, TypeOK, Places, Drawn, Removers, Procs, file, proc, past
  <1>1. ASSUME NEW w \in Workers, Deliver(w)
       PROVE  Places'
    BY <1>1 DEF Deliver, Draw, Begin, Goto
  <1>2. ASSUME NEW p \in Procs, Send(p)
       PROVE  Places'
    BY <1>2 DEF Send, Goto
  <1>3. ASSUME NEW p \in Procs, Retry(p)
       PROVE  Places'
    BY <1>3 DEF Retry, LastAttempt, Goto
  <1>4. ASSUME NEW p \in Procs, EndBackoff(p)
       PROVE  Places'
    BY <1>4 DEF EndBackoff, Goto
  <1>5. ASSUME NEW w \in Workers, WorkerDone(w)
       PROVE  Places'
    BY <1>5 DEF WorkerDone, AppendLetter, Leave, Goto
  <1>6. ASSUME NEW c \in Clients, ReplayLetter(c)
       PROVE  Places'
    BY <1>6 DEF ReplayLetter, Begin, Answered, Leave, Goto
  <1>7. ASSUME NEW c \in Clients, RedeliverJob(c)
       PROVE  Places'
    BY <1>7 DEF RedeliverJob, Draw, Begin, Answered, Leave, Goto
  <1>8. ASSUME NEW c \in Clients, DismissLetter(c)
       PROVE  Places'
    BY <1>8 DEF DismissLetter, Begin, Goto
  <1>9. ASSUME NEW c \in Clients, RequestSent(c)
       PROVE  Places'
    BY <1>9 DEF RequestSent, RemoveAfter, Answered, Leave, Goto
  <1>10. ASSUME NEW c \in Clients, LoadLetters(c)
       PROVE  Places'
    BY <1>10 DEF LoadLetters, Answered, Leave, Goto
  <1>11. ASSUME NEW c \in Clients, WriteTemp(c)
       PROVE  Places'
    BY <1>11 DEF WriteTemp, Answered, Leave, Goto
  <1>12. ASSUME NEW c \in Clients, RenameTemp(c)
       PROVE  Places'
    BY <1>12 DEF RenameTemp, Answered, Leave, Goto
  <1>13. ASSUME NEW c \in Clients, Abandon(c)
       PROVE  Places'
    BY <1>13 DEF Abandon, Leave, Goto
  <1>14. CASE Crash
    BY <1>14 DEF Crash
  <1> QED
    BY <1>1, <1>2, <1>3, <1>4, <1>5, <1>6, <1>7, <1>8, <1>9, <1>10, <1>11, <1>12,
      <1>13, <1>14 DEF Next, Ask, ClientStep, Delivery

\* An event that is drawn is new, so no other worker has it.
LEMMA OwnersKept ==
  ASSUME TypeOK, Places, OwnEvents, Next
  PROVE  OwnEvents'
  <1> USE WebhookAssumption
    DEF Idle, TypeOK, Places, OwnEvents, Drawn, Removers, Procs, file, proc, past
  <1>1. ASSUME NEW w \in Workers, Deliver(w)
       PROVE  OwnEvents'
    BY <1>1 DEF Deliver, Draw, Begin, Goto
  <1>2. ASSUME NEW p \in Procs, Send(p)
       PROVE  OwnEvents'
    BY <1>2 DEF Send, Goto
  <1>3. ASSUME NEW p \in Procs, Retry(p)
       PROVE  OwnEvents'
    BY <1>3 DEF Retry, LastAttempt, Goto
  <1>4. ASSUME NEW p \in Procs, EndBackoff(p)
       PROVE  OwnEvents'
    BY <1>4 DEF EndBackoff, Goto
  <1>5. ASSUME NEW w \in Workers, WorkerDone(w)
       PROVE  OwnEvents'
    <2>1. failed' \subseteq failed \cup {event[w]} /\ event[w] # NoEvent /\ NoEvent \notin failed
      BY <1>5 DEF WorkerDone, AppendLetter
    <2>2. \A v \in Workers : event'[v] = IF v = w THEN NoEvent ELSE event[v]
      BY <1>5 DEF WorkerDone, Leave
    <2> QED BY <2>1, <2>2
  <1>6. ASSUME NEW c \in Clients, ReplayLetter(c)
       PROVE  OwnEvents'
    BY <1>6 DEF ReplayLetter, Begin, Answered, Leave, Goto
  <1>7. ASSUME NEW c \in Clients, RedeliverJob(c)
       PROVE  OwnEvents'
    BY <1>7 DEF RedeliverJob, Draw, Begin, Answered, Leave, Goto
  <1>8. ASSUME NEW c \in Clients, DismissLetter(c)
       PROVE  OwnEvents'
    BY <1>8 DEF DismissLetter, Begin, Goto
  <1>9. ASSUME NEW c \in Clients, RequestSent(c)
       PROVE  OwnEvents'
    BY <1>9 DEF RequestSent, RemoveAfter, Answered, Leave, Goto
  <1>10. ASSUME NEW c \in Clients, LoadLetters(c)
       PROVE  OwnEvents'
    BY <1>10 DEF LoadLetters, Answered, Leave, Goto
  <1>11. ASSUME NEW c \in Clients, WriteTemp(c)
       PROVE  OwnEvents'
    BY <1>11 DEF WriteTemp, Answered, Leave, Goto
  <1>12. ASSUME NEW c \in Clients, RenameTemp(c)
       PROVE  OwnEvents'
    BY <1>12 DEF RenameTemp, Answered, Leave, Goto
  <1>13. ASSUME NEW c \in Clients, Abandon(c)
       PROVE  OwnEvents'
    BY <1>13 DEF Abandon, Leave, Goto
  <1>14. CASE Crash
    BY <1>14 DEF Crash
  <1> QED
    BY <1>1, <1>2, <1>3, <1>4, <1>5, <1>6, <1>7, <1>8, <1>9, <1>10, <1>11, <1>12,
      <1>13, <1>14 DEF Next, Ask, ClientStep, Delivery

\* A letter is looked for, and found, before a request goes on to replace the file.
LEMMA GroundsKept ==
  ASSUME TypeOK, Places, RemovedForReason, Grounds, Next
  PROVE  Grounds'
  <1> USE WebhookAssumption
    DEF Idle, TypeOK, Places, RemovedForReason, Grounds, Removers, Procs, file,
      proc, past
  <1>1. ASSUME NEW w \in Workers, Deliver(w)
       PROVE  Grounds'
    BY <1>1 DEF Deliver, Draw, Begin, Goto
  <1>2. ASSUME NEW p \in Procs, Send(p)
       PROVE  Grounds'
    BY <1>2 DEF Send, Goto
  <1>3. ASSUME NEW p \in Procs, Retry(p)
       PROVE  Grounds'
    BY <1>3 DEF Retry, LastAttempt, Goto
  <1>4. ASSUME NEW p \in Procs, EndBackoff(p)
       PROVE  Grounds'
    BY <1>4 DEF EndBackoff, Goto
  <1>5. ASSUME NEW w \in Workers, WorkerDone(w)
       PROVE  Grounds'
    BY <1>5 DEF WorkerDone, AppendLetter, Leave, Goto
  <1>6. ASSUME NEW c \in Clients, ReplayLetter(c)
       PROVE  Grounds'
    BY <1>6 DEF ReplayLetter, Begin, Answered, Leave, Goto
  <1>7. ASSUME NEW c \in Clients, RedeliverJob(c)
       PROVE  Grounds'
    BY <1>7 DEF RedeliverJob, Draw, Begin, Answered, Leave, Goto
  <1>8. ASSUME NEW c \in Clients, DismissLetter(c)
       PROVE  Grounds'
    BY <1>8 DEF DismissLetter, Begin, Goto
  <1>9. ASSUME NEW c \in Clients, RequestSent(c)
       PROVE  Grounds'
    BY <1>9 DEF RequestSent, RemoveAfter, Answered, Leave, Goto
  <1>10. ASSUME NEW c \in Clients, LoadLetters(c)
       PROVE  Grounds'
    BY <1>10 DEF LoadLetters, Answered, Leave, Goto
  <1>11. ASSUME NEW c \in Clients, WriteTemp(c)
       PROVE  Grounds'
    BY <1>11 DEF WriteTemp, Answered, Leave, Goto
  <1>12. ASSUME NEW c \in Clients, RenameTemp(c)
       PROVE  Grounds'
    BY <1>12 DEF RenameTemp, Answered, Leave, Goto
  <1>13. ASSUME NEW c \in Clients, Abandon(c)
       PROVE  Grounds'
    BY <1>13 DEF Abandon, Leave, Goto
  <1>14. CASE Crash
    BY <1>14 DEF Crash
  <1> QED
    BY <1>1, <1>2, <1>3, <1>4, <1>5, <1>6, <1>7, <1>8, <1>9, <1>10, <1>11, <1>12,
      <1>13, <1>14 DEF Next, Ask, ClientStep, Delivery

\* What is due stays in the file: only its own letter, acknowledged or
\* dismissed, misses in the copy that replaces it, and what is appended beside
\* a copy is not due.
LEMMA HeldKept ==
  ASSUME TypeOK, Places, Grounds, Held, Next
  PROVE  Held'
  <1> USE WebhookAssumption
    DEF Idle, TypeOK, Places, Grounds, Held, Due, Removers, Procs, file, proc, past
  <1>1. ASSUME NEW w \in Workers, Deliver(w)
       PROVE  Held'
    BY <1>1 DEF Deliver, Draw, Begin, Goto
  <1>2. ASSUME NEW p \in Procs, Send(p)
       PROVE  Held'
    BY <1>2 DEF Send, Goto
  <1>3. ASSUME NEW p \in Procs, Retry(p)
       PROVE  Held'
    BY <1>3 DEF Retry, LastAttempt, Goto
  <1>4. ASSUME NEW p \in Procs, EndBackoff(p)
       PROVE  Held'
    BY <1>4 DEF EndBackoff, Goto
  <1>5. ASSUME NEW w \in Workers, WorkerDone(w)
       PROVE  Held'
    <2>1. \A c \in Clients : pc'[c] = pc[c] /\ event'[c] = event[c] /\ loaded'[c] = loaded[c]
      BY <1>5 DEF WorkerDone, Leave, Goto
    <2>2. Removers' = Removers
      BY <2>1
    <2>3. /\ temp' = temp /\ removed' = removed /\ acked' = acked
          /\ dismissed' = dismissed /\ crossed' = crossed
      BY <1>5 DEF WorkerDone
    <2>4. CASE /\ letters' = letters \cup {event[w]} /\ failed' = failed \cup {event[w]}
               /\ late' = IF Removers = {} THEN late ELSE late \cup {event[w]}
      <3>1. CASE Removers = {}
        BY <2>2, <2>3, <2>4, <3>1
      <3>2. CASE Removers # {}
        BY <2>1, <2>2, <2>3, <2>4, <3>2
      <3> QED BY <3>1, <3>2
    <2>5. CASE letters' = letters /\ failed' = failed /\ late' = late
      BY <2>1, <2>2, <2>3, <2>5
    <2> QED BY <1>5, <2>4, <2>5 DEF WorkerDone, AppendLetter
  <1>6. ASSUME NEW c \in Clients, ReplayLetter(c)
       PROVE  Held'
    BY <1>6 DEF ReplayLetter, Begin, Answered, Leave, Goto
  <1>7. ASSUME NEW c \in Clients, RedeliverJob(c)
       PROVE  Held'
    BY <1>7 DEF RedeliverJob, Draw, Begin, Answered, Leave, Goto
  <1>8. ASSUME NEW c \in Clients, DismissLetter(c)
       PROVE  Held'
    BY <1>8 DEF DismissLetter, Begin, Goto
  <1>9. ASSUME NEW c \in Clients, RequestSent(c)
       PROVE  Held'
    BY <1>9 DEF RequestSent, RemoveAfter, Answered, Leave, Goto
  <1>10. ASSUME NEW c \in Clients, LoadLetters(c)
       PROVE  Held'
    <2>1. CASE broken \/ event[c] \notin letters
      <3>1. /\ Removers' = Removers /\ crossed' = crossed
            /\ late' = late /\ dismissed' = dismissed
        BY <1>10, <2>1 DEF LoadLetters, Answered, Leave, Goto
      <3>2. \A d \in Removers :
              pc'[d] = pc[d] /\ event'[d] = event[d] /\ loaded'[d] = loaded[d]
        BY <1>10, <2>1 DEF LoadLetters, Answered, Leave, Goto
      <3> QED BY <1>10, <3>1, <3>2 DEF LoadLetters
    <2>2. CASE ~broken /\ event[c] \in letters
      <3>1. /\ crossed' = (crossed \/ Removers # {}) /\ Removers' = Removers \cup {c}
            /\ loaded'[c] = letters \ {event[c]} /\ event'[c] = event[c] /\ pc'[c] = "write"
        BY <1>10, <2>2 DEF LoadLetters, Goto
      <3>2. event[c] \in acked' \cup dismissed'
        BY <1>10, <2>2 DEF LoadLetters
      <3>3. /\ letters' = letters /\ temp' = temp /\ Due' \subseteq Due \ {event[c]}
            /\ \A d \in Removers : d # c => pc'[d] = pc[d] /\ loaded'[d] = loaded[d]
        BY <1>10, <2>2, <3>2 DEF LoadLetters, Goto
      <3>4. ~crossed' => Removers' = {c} /\ Due' \subseteq letters'
        BY <3>1, <3>3
      <3> HIDE DEF Due, Removers
      <3> QED BY <3>1, <3>3, <3>4
    <2> QED BY <2>1, <2>2
  <1>11. ASSUME NEW c \in Clients, WriteTemp(c)
       PROVE  Held'
    BY <1>11 DEF WriteTemp, Answered, Leave, Goto
  <1>12. ASSUME NEW c \in Clients, RenameTemp(c)
       PROVE  Held'
    <2>1. /\ letters' = IF temp = NoFile THEN letters ELSE temp
          /\ Due' = Due /\ crossed' = crossed
          /\ Removers' \subseteq Removers \ {c} /\ c \in Removers
      BY <1>12 DEF RenameTemp, Answered, Leave, Goto
    <2>2. ~crossed => Removers' = {} /\ Due \subseteq temp /\ Due \subseteq letters
      <3>1. ~crossed => Removers \subseteq {c}
        BY <2>1
      <3>2. ~crossed => Due \subseteq temp /\ Due \subseteq letters
        BY <1>12, <2>1 DEF RenameTemp
      <3> QED BY <2>1, <3>1, <3>2
    <2> HIDE DEF Due, Removers
    <2> QED BY <2>1, <2>2
  <1>13. ASSUME NEW c \in Clients, Abandon(c)
       PROVE  Held'
    BY <1>13 DEF Abandon, Leave, Goto
  <1>14. CASE Crash
    BY <1>14 DEF Crash
  <1> QED
    BY <1>1, <1>2, <1>3, <1>4, <1>5, <1>6, <1>7, <1>8, <1>9, <1>10, <1>11, <1>12,
      <1>13, <1>14 DEF Next, Ask, ClientStep, Delivery

\* Without a letter beside the copy, the file stays the failures not taken out.
LEMMA ExactKept ==
  ASSUME TypeOK, Places, OwnEvents, Grounds, Held, Exact, Next
  PROVE  Exact'
  <1> USE WebhookAssumption
    DEF Idle, TypeOK, Places, OwnEvents, Grounds, Held, Exact, Removers, Procs, file,
      proc, past
  <1>1. ASSUME NEW w \in Workers, Deliver(w)
       PROVE  Exact'
    BY <1>1 DEF Deliver, Draw, Begin, Goto
  <1>2. ASSUME NEW p \in Procs, Send(p)
       PROVE  Exact'
    BY <1>2 DEF Send, Goto
  <1>3. ASSUME NEW p \in Procs, Retry(p)
       PROVE  Exact'
    BY <1>3 DEF Retry, LastAttempt, Goto
  <1>4. ASSUME NEW p \in Procs, EndBackoff(p)
       PROVE  Exact'
    BY <1>4 DEF EndBackoff, Goto
  <1>5. ASSUME NEW w \in Workers, WorkerDone(w)
       PROVE  Exact'
    <2>0. event[w] \notin removed
      OBVIOUS
    <2>1. \A c \in Clients : pc'[c] = pc[c] /\ event'[c] = event[c] /\ loaded'[c] = loaded[c]
      BY <1>5 DEF WorkerDone, Leave, Goto
    <2>2. Removers' = Removers
      BY <2>1
    <2>3. /\ temp' = temp /\ removed' = removed /\ acked' = acked
          /\ dismissed' = dismissed /\ crossed' = crossed
      BY <1>5 DEF WorkerDone
    <2>4. CASE /\ letters' = letters \cup {event[w]} /\ failed' = failed \cup {event[w]}
               /\ late' = IF Removers = {} THEN late ELSE late \cup {event[w]}
      <3>1. CASE Removers = {}
        BY <2>0, <2>2, <2>3, <2>4, <3>1
      <3>2. CASE Removers # {}
        BY <2>1, <2>2, <2>3, <2>4, <3>2
      <3> QED BY <3>1, <3>2
    <2>5. CASE letters' = letters /\ failed' = failed /\ late' = late
      BY <2>1, <2>2, <2>3, <2>5
    <2> QED BY <1>5, <2>4, <2>5 DEF WorkerDone, AppendLetter
  <1>6. ASSUME NEW c \in Clients, ReplayLetter(c)
       PROVE  Exact'
    BY <1>6 DEF ReplayLetter, Begin, Answered, Leave, Goto
  <1>7. ASSUME NEW c \in Clients, RedeliverJob(c)
       PROVE  Exact'
    BY <1>7 DEF RedeliverJob, Draw, Begin, Answered, Leave, Goto
  <1>8. ASSUME NEW c \in Clients, DismissLetter(c)
       PROVE  Exact'
    BY <1>8 DEF DismissLetter, Begin, Goto
  <1>9. ASSUME NEW c \in Clients, RequestSent(c)
       PROVE  Exact'
    BY <1>9 DEF RequestSent, RemoveAfter, Answered, Leave, Goto
  <1>10. ASSUME NEW c \in Clients, LoadLetters(c)
       PROVE  Exact'
    <2>1. CASE broken \/ event[c] \notin letters
      <3>1. /\ Removers' = Removers /\ crossed' = crossed
            /\ late' = late /\ dismissed' = dismissed
        BY <1>10, <2>1 DEF LoadLetters, Answered, Leave, Goto
      <3>2. \A d \in Removers :
              pc'[d] = pc[d] /\ event'[d] = event[d] /\ loaded'[d] = loaded[d]
        BY <1>10, <2>1 DEF LoadLetters, Answered, Leave, Goto
      <3> QED BY <1>10, <3>1, <3>2 DEF LoadLetters
    <2>2. CASE ~broken /\ event[c] \in letters
      <3>1. /\ crossed' = (crossed \/ Removers # {}) /\ Removers' = Removers \cup {c}
            /\ loaded'[c] = letters \ {event[c]} /\ event'[c] = event[c] /\ pc'[c] = "write"
        BY <1>10, <2>2 DEF LoadLetters, Goto
      <3> QED BY <1>10, <3>1 DEF LoadLetters
    <2> QED BY <2>1, <2>2
  <1>11. ASSUME NEW c \in Clients, WriteTemp(c)
       PROVE  Exact'
    BY <1>11 DEF WriteTemp, Answered, Leave, Goto
  <1>12. ASSUME NEW c \in Clients, RenameTemp(c)
       PROVE  Exact'
    BY <1>12 DEF RenameTemp, Answered, Leave, Goto
  <1>13. ASSUME NEW c \in Clients, Abandon(c)
       PROVE  Exact'
    BY <1>13 DEF Abandon, Leave, Goto
  <1>14. CASE Crash
    BY <1>14 DEF Crash
  <1> QED
    BY <1>1, <1>2, <1>3, <1>4, <1>5, <1>6, <1>7, <1>8, <1>9, <1>10, <1>11, <1>12,
      <1>13, <1>14 DEF Next, Ask, ClientStep, Delivery

\* A letter goes with its grounds.
LEMMA ReasonsKept ==
  ASSUME TypeOK, Grounds, Held, RemovedForReason, Next
  PROVE  RemovedForReason'
  <1> USE WebhookAssumption
    DEF Idle, TypeOK, Grounds, RemovedForReason, Procs, file, proc, past
  <1>1. ASSUME NEW w \in Workers, Deliver(w)
       PROVE  RemovedForReason'
    BY <1>1 DEF Deliver, Draw, Begin, Goto
  <1>2. ASSUME NEW p \in Procs, Send(p)
       PROVE  RemovedForReason'
    BY <1>2 DEF Send, Goto
  <1>3. ASSUME NEW p \in Procs, Retry(p)
       PROVE  RemovedForReason'
    BY <1>3 DEF Retry, LastAttempt, Goto
  <1>4. ASSUME NEW p \in Procs, EndBackoff(p)
       PROVE  RemovedForReason'
    BY <1>4 DEF EndBackoff, Goto
  <1>5. ASSUME NEW w \in Workers, WorkerDone(w)
       PROVE  RemovedForReason'
    <2>1. /\ letters' \subseteq letters \cup {event[w]} /\ removed' = removed /\ acked' = acked
          /\ dismissed' = dismissed /\ gone' = gone /\ crossed' = crossed
          /\ failed \subseteq failed' /\ late \subseteq late'
      BY <1>5 DEF WorkerDone, AppendLetter
    <2>2. letters' = letters \/ event[w] \in failed'
      BY <1>5 DEF WorkerDone, AppendLetter
    <2> QED BY <2>1, <2>2
  <1>6. ASSUME NEW c \in Clients, ReplayLetter(c)
       PROVE  RemovedForReason'
    BY <1>6 DEF ReplayLetter, Begin, Answered, Leave, Goto
  <1>7. ASSUME NEW c \in Clients, RedeliverJob(c)
       PROVE  RemovedForReason'
    BY <1>7 DEF RedeliverJob, Draw, Begin, Answered, Leave, Goto
  <1>8. ASSUME NEW c \in Clients, DismissLetter(c)
       PROVE  RemovedForReason'
    BY <1>8 DEF DismissLetter, Begin, Goto
  <1>9. ASSUME NEW c \in Clients, RequestSent(c)
       PROVE  RemovedForReason'
    BY <1>9 DEF RequestSent, RemoveAfter, Answered, Leave, Goto
  <1>10. ASSUME NEW c \in Clients, LoadLetters(c)
       PROVE  RemovedForReason'
    BY <1>10 DEF LoadLetters, Answered, Leave, Goto
  <1>11. ASSUME NEW c \in Clients, WriteTemp(c)
       PROVE  RemovedForReason'
    BY <1>11 DEF WriteTemp, Answered, Leave, Goto
  <1>12. ASSUME NEW c \in Clients, RenameTemp(c)
       PROVE  RemovedForReason'
    <2>1. CASE temp = NoFile
      BY <1>12, <2>1 DEF RenameTemp
    <2>2. CASE temp # NoFile
      <3>1. ~crossed => Due \subseteq temp
        BY <1>12 DEF RenameTemp, Held, Removers
      <3>2. ~crossed => letters \ temp \subseteq acked \cup dismissed \cup late
        BY <3>1 DEF Due
      <3> QED BY <1>12, <2>2, <3>2 DEF RenameTemp
    <2> QED BY <2>1, <2>2
  <1>13. ASSUME NEW c \in Clients, Abandon(c)
       PROVE  RemovedForReason'
    BY <1>13 DEF Abandon, Leave, Goto
  <1>14. CASE Crash
    BY <1>14 DEF Crash
  <1> QED
    BY <1>1, <1>2, <1>3, <1>4, <1>5, <1>6, <1>7, <1>8, <1>9, <1>10, <1>11, <1>12,
      <1>13, <1>14 DEF Next, Ask, ClientStep, Delivery

\* A worker leaves its event behind in one of the four sets.
LEMMA NoticesKept ==
  ASSUME TypeOK, Places, NoFailureUnnoticed, Next
  PROVE  NoFailureUnnoticed'
  <1> USE WebhookAssumption
    DEF Idle, TypeOK, Places, NoFailureUnnoticed, Drawn, Procs, file, proc, past
  <1>1. ASSUME NEW w \in Workers, Deliver(w)
       PROVE  NoFailureUnnoticed'
    BY <1>1 DEF Deliver, Draw, Begin, Goto
  <1>2. ASSUME NEW p \in Procs, Send(p)
       PROVE  NoFailureUnnoticed'
    BY <1>2 DEF Send, Goto
  <1>3. ASSUME NEW p \in Procs, Retry(p)
       PROVE  NoFailureUnnoticed'
    BY <1>3 DEF Retry, LastAttempt, Goto
  <1>4. ASSUME NEW p \in Procs, EndBackoff(p)
       PROVE  NoFailureUnnoticed'
    BY <1>4 DEF EndBackoff, Goto
  <1>5. ASSUME NEW w \in Workers, WorkerDone(w)
       PROVE  NoFailureUnnoticed'
    <2>1. /\ pc[w] = "delivered" => event[w] \in acked
          /\ acked' = acked /\ cut' = cut /\ origin' = origin
          /\ failed \subseteq failed' /\ unsaved \subseteq unsaved'
      BY <1>5 DEF WorkerDone, AppendLetter
    <2>2. pc[w] # "delivered" => event[w] \in failed' \cup unsaved'
      BY <1>5 DEF WorkerDone
    <2>3. \A v \in Workers : v # w => event'[v] = event[v]
      BY <1>5 DEF WorkerDone, Leave
    <2> QED BY <2>1, <2>2, <2>3
  <1>6. ASSUME NEW c \in Clients, ReplayLetter(c)
       PROVE  NoFailureUnnoticed'
    BY <1>6 DEF ReplayLetter, Begin, Answered, Leave, Goto
  <1>7. ASSUME NEW c \in Clients, RedeliverJob(c)
       PROVE  NoFailureUnnoticed'
    BY <1>7 DEF RedeliverJob, Draw, Begin, Answered, Leave, Goto
  <1>8. ASSUME NEW c \in Clients, DismissLetter(c)
       PROVE  NoFailureUnnoticed'
    BY <1>8 DEF DismissLetter, Begin, Goto
  <1>9. ASSUME NEW c \in Clients, RequestSent(c)
       PROVE  NoFailureUnnoticed'
    BY <1>9 DEF RequestSent, RemoveAfter, Answered, Leave, Goto
  <1>10. ASSUME NEW c \in Clients, LoadLetters(c)
       PROVE  NoFailureUnnoticed'
    BY <1>10 DEF LoadLetters, Answered, Leave, Goto
  <1>11. ASSUME NEW c \in Clients, WriteTemp(c)
       PROVE  NoFailureUnnoticed'
    BY <1>11 DEF WriteTemp, Answered, Leave, Goto
  <1>12. ASSUME NEW c \in Clients, RenameTemp(c)
       PROVE  NoFailureUnnoticed'
    BY <1>12 DEF RenameTemp, Answered, Leave, Goto
  <1>13. ASSUME NEW c \in Clients, Abandon(c)
       PROVE  NoFailureUnnoticed'
    BY <1>13 DEF Abandon, Leave, Goto
  <1>14. CASE Crash
    BY <1>14 DEF Crash
  <1> QED
    BY <1>1, <1>2, <1>3, <1>4, <1>5, <1>6, <1>7, <1>8, <1>9, <1>10, <1>11, <1>12,
      <1>13, <1>14 DEF Next, Ask, ClientStep, Delivery

\* The inductive invariant holds at the start.
LEMMA InitInv == Init => DeliveryInv
  <1> SUFFICES ASSUME Init
               PROVE  DeliveryInv
    OBVIOUS
  <1> USE WebhookAssumption DEF Init, Procs, Idle
  <1>1. TypeOK
    <2>1. origin \in [Events -> Origin]
      BY DEF Origin
    <2>2. 0 \in 0 .. MaxAttempts
      OBVIOUS
    <2> QED BY <2>1, <2>2 DEF TypeOK, Request, Drawn
  <1>2. Places /\ OwnEvents /\ Grounds
    BY DEF Places, OwnEvents, Grounds
  <1>3. Held /\ Exact
    BY DEF Held, Exact, Due, Removers
  <1>4. RemovedForReason /\ NoFailureUnnoticed
    BY DEF RemovedForReason, NoFailureUnnoticed
  <1> QED BY <1>1, <1>2, <1>3, <1>4 DEF DeliveryInv

\* ... and every step preserves it.
LEMMA NextInv == DeliveryInv /\ [Next]_vars => DeliveryInv'
  <1> SUFFICES ASSUME DeliveryInv, [Next]_vars
               PROVE  DeliveryInv'
    OBVIOUS
  <1>1. CASE Next
    BY <1>1, TypesKept, PlacesKept, OwnersKept, GroundsKept, HeldKept, ExactKept,
       ReasonsKept, NoticesKept DEF DeliveryInv
  <1>2. CASE UNCHANGED vars
    BY <1>2 DEF DeliveryInv, TypeOK, Places, OwnEvents, Grounds, Held, Exact, Due,
                RemovedForReason, NoFailureUnnoticed, Drawn, Removers, vars, file, proc, past
  <1> QED BY <1>1, <1>2

------------------------------------------------------------------------------
(* The theorems *)

\* The invariant holds in every reachable state.
THEOREM DeliveryInductive == Spec => []DeliveryInv
  <1> QED BY InitInv, NextInv, PTL DEF Spec

\* Types of the variables, for any numbers of events, workers and requests.
THEOREM DeliveryTypes == Spec => []TypeOK
  <1>1. DeliveryInv => TypeOK BY DEF DeliveryInv
  <1> QED BY <1>1, DeliveryInductive, PTL

\* Without removals or appends beside a removal the file holds the final
\* failures not taken out.
THEOREM LettersAreExact == Spec => []LettersExact
  <1>1. DeliveryInv => LettersExact BY DEF DeliveryInv, Exact, LettersExact
  <1> QED BY <1>1, DeliveryInductive, PTL

\* A request takes out its own letter for a reason and none is invented, in any
\* interleaving; and while removals run one at a time every other letter that
\* leaves the file was appended beside one.
THEOREM RemovalsHaveReasons == Spec => []RemovedForReason
  <1>1. DeliveryInv => RemovedForReason BY DEF DeliveryInv
  <1> QED BY <1>1, DeliveryInductive, PTL

\* The end of every worker's delivery is accounted for.
THEOREM FailuresAreNoticed == Spec => []NoFailureUnnoticed
  <1>1. DeliveryInv => NoFailureUnnoticed BY DEF DeliveryInv
  <1> QED BY <1>1, DeliveryInductive, PTL
=============================================================================
