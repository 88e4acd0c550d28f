--------------------------- MODULE JobBoardProofs ----------------------------
(***************************************************************************)
(* What requests about many jobs promise while jobs move on, proved for    *)
(* any queue, any clients, any filters and any number of jobs: a           *)
(* submission that found room is accepted as a whole unless it lost a      *)
(* race, a client that pages to the end of the list misses nothing, and    *)
(* the pages and buttons of the user interface show what the handlers do.  *)
(*                                                                         *)
(* For JobBoard, Room says what the capacity check leaves true as long as  *)
(* nobody else enqueues, and Pages that a job not seen yet is still ahead: *)
(* as many records as were passed are in front of it, however the list     *)
(* moves. For JobQueries, Walks says that the pages seen so far are the    *)
(* beginning of the list.                                                  *)
(***************************************************************************)
EXTENDS JobBoard, JobQueries, ListsProofs, SequenceTheorems, FiniteSetTheorems,
        WellFoundedInduction, TLAPS

Decision == [url : Urls, job : Ids \cup {NoJob}]
Pager == [active : BOOLEAN, limit : 1 .. MaxPage, offset : Nat, seen : SUBSET Ids,
          since : Nat, shifted : BOOLEAN]

USE DEF Stages, Replies

BoardTyped ==
  /\ map \in [Ids -> Record \cup {NoJob}] /\ queue \in Seq(Ids) /\ Len(queue) <= QueueSize
  /\ clock \in 1 .. MaxWrites /\ issued \in 0 .. MaxJobs
  /\ pc \in [Clients -> Stages]
  /\ reply \in [Clients -> Replies] /\ raced \in [Clients -> BOOLEAN]
  /\ DOMAIN todo = Clients /\ DOMAIN done = Clients
  /\ pager \in Pager /\ pager.since <= clock
  /\ \A j \in Present(map) : map[j].updated <= clock

\* What a submission has decided, has to enqueue, and has enqueued, and the ids a
\* batch acts on; nothing of an earlier request is left, its answer included.
Submission(c) ==
  /\ pc[c] = "idle" => todo[c] = <<>> /\ done[c] = <<>>
  /\ pc[c] # "idle" => reply[c] = "none"
  /\ pc[c] = "decide" => todo[c] \in Seq(Urls)
  /\ pc[c] \in {"decide", "check"} => done[c] \in Seq(Decision)
  /\ pc[c] = "check" => todo[c] = <<>>
  /\ pc[c] \in {"insert", "append", "send"} =>
       todo[c] \in Seq(Decision) /\ done[c] \in Seq(Ids)
  /\ pc[c] \in {"append", "send"} => done[c] # <<>>
  /\ pc[c] \in {"cancel", "delete", "retry"} => todo[c] \in Seq(Nat) /\ done[c] \in Seq(Nat)
Submissions == \A c \in Clients : Submission(c)

\* There is room for what a submission still has to enqueue, the record it is
\* about to send included, unless somebody else enqueued since its check.
RoomFor(c) ==
  ~raced[c] =>
    /\ pc[c] = "insert" => Needed(todo[c]) + Len(queue) <= QueueSize
    /\ pc[c] \in {"append", "send"} => Needed(todo[c]) + 1 + Len(queue) <= QueueSize
Room == \A c \in Clients : RoomFor(c)

\* A job that has not changed since the paging began was seen, or is ahead.
Pages ==
  pager.active /\ ~pager.shifted =>
    \A j \in Present(map) :
      map[j].updated < pager.since =>
        j \in pager.seen \/ Cardinality(Later(map, j)) >= pager.offset

\* The inductive invariant.
BoardInv == BoardTyped /\ Submissions /\ Room /\ Pages /\ FullOnlyByRace

------------------------------------------------------------------------------
(* Lists *)

\* The head of a list of decisions needs a slot, or the rest needs them all.
LEMMA NeededTail ==
  ASSUME NEW list \in Seq(Decision), list # <<>>
  PROVE  /\ Needed(list) \in Nat /\ Needed(Tail(list)) \in Nat
         /\ Head(list).job = NoJob => Needed(list) = Needed(Tail(list)) + 1
         /\ Head(list).job # NoJob => Needed(list) = Needed(Tail(list))
  <1> DEFINE n == Len(list)
             tail == Tail(list)
             all == {i \in DOMAIN list : list[i].job = NoJob}
             rest == {i \in DOMAIN tail : tail[i].job = NoJob}
             moved == all \ {1}
             f == [i \in rest |-> i + 1]
  <1>1. /\ n \in Nat \ {0} /\ DOMAIN list = 1 .. n /\ DOMAIN tail = 1 .. (n - 1)
        /\ \A i \in 1 .. (n - 1) : tail[i] = list[i + 1]
        /\ Head(list) = list[1]
    OBVIOUS
  <1> HIDE DEF tail
  <1>2. IsFiniteSet(all) /\ IsFiniteSet(rest) /\ IsFiniteSet(moved)
    <2>1. IsFiniteSet(1 .. n) /\ IsFiniteSet(1 .. (n - 1))
      BY <1>1, FS_Interval
    <2>2. all \in SUBSET (1 .. n) /\ rest \in SUBSET (1 .. (n - 1))
          /\ moved \in SUBSET (1 .. n)
      BY <1>1
    <2> QED BY <2>1, <2>2, FS_Subset
  <1>3. f \in Bijection(rest, moved)
    <2>1. \A i \in rest : i + 1 \in moved
      BY <1>1
    <2>2. \A k \in moved : k - 1 \in rest /\ f[k - 1] = k
      BY <1>1
    <2>3. f \in [rest -> moved]
      BY <2>1
    <2>4. \A a, b \in rest : f[a] = f[b] => a = b
      BY <1>1
    <2>5. \A k \in moved : \E i \in rest : f[i] = k
      BY <2>2
    <2> HIDE DEF f, rest, moved
    <2> QED BY <2>3, <2>4, <2>5 DEF Bijection, Injection, Surjection, IsInjective
  <1>4. Cardinality(moved) = Cardinality(rest)
    BY <1>2, <1>3, FS_Bijection DEF ExistsBijection
  <1>5. Cardinality(moved) = IF 1 \in all THEN Cardinality(all) - 1 ELSE Cardinality(all)
    BY <1>2, FS_RemoveElement
  <1>6. Cardinality(all) \in Nat /\ Cardinality(rest) \in Nat
    BY <1>2, FS_CardinalityType
  <1>7. 1 \in all <=> Head(list).job = NoJob
    BY <1>1
  <1>8. Needed(list) = Cardinality(all) /\ Needed(tail) = Cardinality(rest)
    BY DEF Needed
  <1> HIDE DEF all, rest, moved, f
  <1> QED BY <1>4, <1>5, <1>6, <1>7, <1>8 DEF tail

LEMMA NeededIsNat ==
  ASSUME NEW list \in Seq(Decision)
  PROVE  Needed(list) \in Nat
  <1>1. IsFiniteSet(1 .. Len(list))
    BY FS_Interval
  <1>2. {i \in DOMAIN list : list[i].job = NoJob} \in SUBSET (1 .. Len(list))
    OBVIOUS
  <1> QED BY <1>1, <1>2, FS_Subset, FS_CardinalityType DEF Needed

\* The job that is reused, if there is one.
LEMMA ReusedKnown ==
  ASSUME BoardTyped, NEW url
  PROVE  Reused(url) \in Ids \cup {NoJob}
  <1> SUFFICES ASSUME Reusable(url) # {}
               PROVE  Reused(url) \in Ids
    BY DEF Reused
  <1>1. Reusable(url) \subseteq Ids
        /\ \A k \in Reusable(url) : map[k].updated \in Nat /\ map[k].updated <= clock
        /\ clock \in Nat
    BY DEF Reusable, Of, Present, BoardTyped, Record
  <1> DEFINE ages == {clock - map[k].updated : k \in Reusable(url)}
  <1>2. ages \in SUBSET Nat /\ ages # {}
    <2>1. \A k \in Reusable(url) : clock - map[k].updated \in Nat
      BY <1>1 DEF BoardTyped
    <2> QED BY <2>1
  <1>3. PICK x \in ages : \A y \in ages : ~(<<y, x>> \in OpToRel(<, Nat))
    BY <1>2, NatLessThanWellFounded, WFMin
  <1>4. \A y \in ages : x <= y
    <2> HIDE DEF ages
    <2> TAKE y \in ages
    <2>1. ~(y < x)
      BY <1>2, <1>3 DEF OpToRel
    <2> QED BY <1>2, <2>1
  <1>5. PICK j \in Reusable(url) : x = clock - map[j].updated
    BY <1>3
  <1>6. ASSUME NEW k \in Reusable(url)
        PROVE  map[k].updated <= map[j].updated
    <2>1. clock - map[k].updated \in ages
      OBVIOUS
    <2> HIDE DEF ages
    <2>2. clock - map[j].updated <= clock - map[k].updated
      BY <1>4, <1>5, <2>1
    <2> QED BY <1>1, <2>2
  <1> QED BY <1>1, <1>6 DEF Reused

------------------------------------------------------------------------------
(* The list *)

\* The records before a job in the list are finitely many.
LEMMA LaterFinite ==
  ASSUME NEW m \in [Ids -> Record \cup {NoJob}], NEW j \in Ids
  PROVE  /\ IsFiniteSet(Present(m)) /\ IsFiniteSet(Later(m, j))
         /\ Cardinality(Present(m)) \in Nat /\ Cardinality(Later(m, j)) \in Nat
  <1>1. IsFiniteSet(Ids)
    BY FS_Interval, BoardAssumption DEF Ids
  <1>2. Present(m) \in SUBSET Ids /\ Later(m, j) \in SUBSET Ids
    BY DEF Present, Later
  <1> QED BY <1>1, <1>2, FS_Subset, FS_CardinalityType

\* Retention takes records from the end of the list.
LEMMA LaterRetained ==
  ASSUME NEW m \in [Ids -> Record \cup {NoJob}]
  PROVE  /\ Retain(m) \in [Ids -> Record \cup {NoJob}]
         /\ Present(Retain(m)) \subseteq Present(m)
         /\ \A j \in Present(Retain(m)) :
              Retain(m)[j] = m[j] /\ Later(Retain(m), j) = Later(m, j)
  <1> DEFINE n == Retain(m)
  <1>1. \A k \in Ids : n[k] = IF k \in Newest(m, RetentionLimit) THEN m[k] ELSE NoJob
    BY DEF Retain
  <1>2. n \in [Ids -> Record \cup {NoJob}]
    BY DEF Retain
  <1> HIDE DEF n
  <1>3. Present(n) = Newest(m, RetentionLimit)
    BY <1>1 DEF Present, Newest
  <1>4. ASSUME NEW j \in Present(n)
        PROVE  j \in Present(m) /\ n[j] = m[j] /\ Later(n, j) = Later(m, j)
    <2>1. /\ j \in Ids /\ j \in Present(m) /\ n[j] = m[j]
          /\ Cardinality(Later(m, j)) < RetentionLimit
      BY <1>1, <1>3, <1>4 DEF Newest, Present
    <2>2. ASSUME NEW k \in Later(m, j)
          PROVE  k \in Present(n)
      <3>1. k \in Ids /\ k \in Present(m) /\ m[k].updated > m[j].updated
        BY DEF Later, Present
      <3>2. \A i \in Present(m) : m[i] \in Record /\ m[i].updated \in Nat
        BY DEF Present, Record
      <3>3. Later(m, k) \in SUBSET Later(m, j)
        BY <2>1, <3>1, <3>2 DEF Later
      <3>4. /\ Cardinality(Later(m, k)) <= Cardinality(Later(m, j))
            /\ Cardinality(Later(m, k)) \in Nat /\ Cardinality(Later(m, j)) \in Nat
        BY <2>1, <3>1, <3>3, LaterFinite, FS_Subset
      <3>5. Cardinality(Later(m, k)) < RetentionLimit
        BY <2>1, <3>4, BoardAssumption
      <3> QED BY <1>3, <3>1, <3>5 DEF Newest
    <2>3. \A k \in Present(n) : k \in Present(m) /\ n[k] = m[k]
      BY <1>1, <1>3 DEF Newest, Present
    <2> QED BY <2>1, <2>2, <2>3 DEF Later
  <1> QED BY <1>2, <1>4 DEF n

\* Some records were written now, the others are as they were.
Changed(m) ==
  /\ m \in [Ids -> Record \cup {NoJob}]
  /\ \A k \in Ids : m[k] = map[k] \/ (m[k] # NoJob /\ m[k].updated = clock)

LEMMA SetChanges ==
  ASSUME BoardTyped, NEW j \in Present(map),
         NEW mark \in Terminal \cup {"queued", "running"}
  PROVE  Changed(Set(j, mark))
  <1>1. j \in Ids /\ map[j] \in Record /\ clock \in Nat
    BY DEF BoardTyped, Present
  <1> DEFINE m == Set(j, mark)
  <1>2. /\ DOMAIN m = Ids /\ \A k \in Ids : k # j => m[k] = map[k]
        /\ m[j] = [map[j] EXCEPT !.status = mark, !.updated = clock]
    BY <1>1 DEF Set, BoardTyped
  <1>3. m = [k \in Ids |-> m[k]]
    BY <1>1 DEF Set, BoardTyped
  <1> HIDE DEF m
  <1>4. m[j] \in Record /\ m[j].updated = clock
    BY <1>1, <1>2 DEF Record
  <1>5. m[j] # NoJob
    BY <1>4, NoRecordAssumption
  <1>6. \A k \in Ids : map[k] \in Record \cup {NoJob}
    BY DEF BoardTyped
  <1>7. \A k \in Ids : m[k] \in Record \cup {NoJob}
    BY <1>2, <1>4, <1>6
  <1>8. m \in [Ids -> Record \cup {NoJob}]
    BY <1>3, <1>7
  <1>9. ASSUME NEW k \in Ids
        PROVE  m[k] = map[k] \/ (m[k] # NoJob /\ m[k].updated = clock)
    <2>1. CASE k = j
      BY <2>1, <1>4, <1>5
    <2>2. CASE k # j
      BY <2>2, <1>2
    <2> QED BY <2>1, <2>2
  <1>10. Changed(m)
    BY <1>8, <1>9 DEF Changed
  <1> QED BY <1>10 DEF m

LEMMA NewChanges ==
  ASSUME BoardTyped, NEW i, NEW url \in Urls
  PROVE  Changed([map EXCEPT ![i] = NewRecord(url)])
  <1> DEFINE rec == NewRecord(url)
  <1>1. rec \in Record /\ rec.updated = clock
    BY DEF NewRecord, Record, BoardTyped
  <1>2. rec # NoJob
    BY <1>1, NoRecordAssumption
  <1> HIDE DEF rec
  <1>3. map \in [Ids -> Record \cup {NoJob}]
    BY DEF BoardTyped
  <1> DEFINE m == [map EXCEPT ![i] = rec]
  <1>4. m \in [Ids -> Record \cup {NoJob}]
    BY <1>1, <1>3
  <1>5. \A k \in Ids : m[k] = map[k] \/ m[k] = rec
    BY <1>3
  <1> HIDE DEF m
  <1>6. Changed(m)
    BY <1>1, <1>2, <1>4, <1>5 DEF Changed
  <1> QED BY <1>6 DEF rec, m

\* However records change, a job that does not is pushed down the list at most.
LEMMA ChangesKeepPages ==
  ASSUME BoardTyped, Pages, UNCHANGED pager, NEW m, Changed(m), map' = m \/ map' = Retain(m)
  PROVE  /\ map' \in [Ids -> Record \cup {NoJob}]
         /\ \A j \in Present(map)' : map'[j].updated <= clock
         /\ Pages'
  <1>1. /\ m \in [Ids -> Record \cup {NoJob}] /\ map \in [Ids -> Record \cup {NoJob}]
        /\ clock \in Nat /\ pager.since \in Nat /\ pager.since <= clock
        /\ pager.offset \in Nat
    BY DEF Changed, BoardTyped, Pager
  <1>2. /\ map' \in [Ids -> Record \cup {NoJob}] /\ Present(map') \subseteq Present(m)
        /\ \A j \in Present(map') : map'[j] = m[j] /\ Later(map', j) = Later(m, j)
    BY <1>1, LaterRetained
  <1>3. \A j \in Present(m) : m[j].updated <= clock
    BY <1>1 DEF Changed, BoardTyped, Present
  <1>4. ASSUME NEW j \in Present(m), m[j].updated < clock
        PROVE  /\ j \in Present(map) /\ map[j] = m[j]
               /\ Cardinality(Later(map, j)) <= Cardinality(Later(m, j))
    <2>0. /\ j \in Ids /\ m[j] # NoJob /\ m[j].updated # clock
          /\ m[j] = map[j] \/ m[j].updated = clock
      BY <1>1, <1>4 DEF Changed, Present
    <2>1. j \in Ids /\ map[j] = m[j] /\ j \in Present(map)
      BY <2>0 DEF Present
    <2>2. Later(map, j) \in SUBSET Later(m, j)
      BY <1>1, <1>4, <2>1 DEF Later, Changed, Present
    <2> QED BY <1>1, <2>1, <2>2, LaterFinite, FS_Subset
  <1>5. Pages'
    <2> SUFFICES ASSUME pager.active, ~pager.shifted,
                        NEW j \in Present(map'), map'[j].updated < pager.since,
                        j \notin pager.seen
                 PROVE  Cardinality(Later(map', j)) >= pager.offset
      BY DEF Pages
    <2>1. j \in Present(m) /\ map'[j] = m[j] /\ Later(map', j) = Later(m, j) /\ j \in Ids
      BY <1>2 DEF Present
    <2>2. m[j].updated \in Nat
      BY <1>1, <2>1 DEF Present, Record
    <2>3. m[j].updated < clock
      BY <1>1, <2>1, <2>2
    <2>4. /\ j \in Present(map) /\ map[j] = m[j]
          /\ Cardinality(Later(map, j)) <= Cardinality(Later(m, j))
      BY <1>4, <2>1, <2>3
    <2>5. Cardinality(Later(map, j)) >= pager.offset
      BY <2>1, <2>4 DEF Pages
    <2>6. Cardinality(Later(map, j)) \in Nat /\ Cardinality(Later(m, j)) \in Nat
      BY <1>1, <2>1, LaterFinite
    <2> QED BY <1>1, <2>1, <2>4, <2>5, <2>6
  <1> QED BY <1>2, <1>3, <1>5

------------------------------------------------------------------------------
(* The steps *)

\* One request moves; the others see at most that the queue is shorter, or are
\* told that somebody enqueued.
WithTheOthers(c) ==
  \A d \in Clients : d # c =>
    /\ pc'[d] = pc[d] /\ todo'[d] = todo[d] /\ done'[d] = done[d] /\ reply'[d] = reply[d]
    /\ raced'[d] = TRUE \/ (raced'[d] = raced[d] /\ Len(queue') <= Len(queue))

LEMMA OneMoves ==
  ASSUME BoardTyped, Submissions, Room, FullOnlyByRace, queue' \in Seq(Ids),
         NEW c \in Clients, WithTheOthers(c),
         Submission(c)', RoomFor(c)', reply'[c] = "full" => raced'[c]
  PROVE  Submissions' /\ Room' /\ FullOnlyByRace'
  <1> SUFFICES ASSUME NEW d \in Clients, d # c
               PROVE  Submission(d)' /\ RoomFor(d)' /\ (reply'[d] = "full" => raced'[d])
    BY DEF Submissions, Room, FullOnlyByRace
  <1>1. /\ pc'[d] = pc[d] /\ todo'[d] = todo[d] /\ done'[d] = done[d] /\ reply'[d] = reply[d]
        /\ raced'[d] = TRUE \/ (raced'[d] = raced[d] /\ Len(queue') <= Len(queue))
    BY DEF WithTheOthers
  <1>2. Submission(d) /\ RoomFor(d) /\ (reply[d] = "full" => raced[d])
    BY DEF Submissions, Room, FullOnlyByRace
  <1>3. Submission(d)'
    BY <1>1, <1>2 DEF Submission
  <1>4. RoomFor(d)'
    <2> SUFFICES ASSUME ~raced'[d], pc[d] \in {"insert", "append", "send"}
                 PROVE  RoomFor(d)'
      BY <1>1 DEF RoomFor
    <2>1. ~raced[d] /\ Len(queue') <= Len(queue)
      BY <1>1
    <2>2. Needed(todo[d]) \in Nat /\ Needed(todo'[d]) = Needed(todo[d])
      BY <1>1, <1>2, NeededIsNat DEF Submission
    <2>3. Len(queue) \in Nat /\ Len(queue') \in Nat /\ QueueSize \in Nat
      BY BoardAssumption DEF BoardTyped
    <2> QED BY <1>1, <1>2, <2>1, <2>2, <2>3 DEF RoomFor
  <1> QED BY <1>1, <1>2, <1>3, <1>4

\* A worker's step is none of a request's.
LEMMA NoneMoves ==
  ASSUME BoardTyped, Submissions, Room, FullOnlyByRace, UNCHANGED <<request, raced>>,
         queue' \in Seq(Ids), Len(queue') <= Len(queue)
  PROVE  Submissions' /\ Room' /\ FullOnlyByRace'
  <1> SUFFICES ASSUME NEW c \in Clients
               PROVE  Submission(c)' /\ RoomFor(c)' /\ (reply'[c] = "full" => raced'[c])
    BY DEF Submissions, Room, FullOnlyByRace
  <1>1. Submission(c) /\ RoomFor(c) /\ (reply[c] = "full" => raced[c])
    BY DEF Submissions, Room, FullOnlyByRace
  <1>2. Submission(c)'
    BY <1>1 DEF Submission, request
  <1>3. RoomFor(c)'
    <2> SUFFICES ASSUME ~raced[c], pc[c] \in {"insert", "append", "send"}
                 PROVE  RoomFor(c)'
      BY DEF RoomFor, request
    <2>1. Needed(todo[c]) \in Nat /\ Needed(todo'[c]) = Needed(todo[c])
      BY <1>1, NeededIsNat DEF Submission, request
    <2>2. Len(queue) \in Nat /\ Len(queue') \in Nat /\ QueueSize \in Nat
      BY BoardAssumption DEF BoardTyped
    <2> QED BY <1>1, <2>1, <2>2 DEF RoomFor, request
  <1> QED BY <1>1, <1>2, <1>3 DEF request

\* Nothing changes in the list.
LEMMA SamePages ==
  ASSUME BoardTyped, Pages, UNCHANGED <<map, pager>>
  PROVE  Pages' /\ Present(map)' = Present(map)
  BY DEF Pages, Present, Later

\* The clock stays in its bounds.
LEMMA Ticks ==
  ASSUME BoardTyped, Stamp \/ UNCHANGED clock
  PROVE  clock \in Nat /\ clock' \in 1 .. MaxWrites /\ clock <= clock'
  BY BoardAssumption DEF BoardTyped, Stamp

\* The types that every step keeps in the same way.
LEMMA TypesStay ==
  ASSUME BoardTyped, Stamp \/ UNCHANGED clock, UNCHANGED pager,
         map' \in [Ids -> Record \cup {NoJob}],
         \A j \in Present(map)' : map'[j].updated <= clock,
         queue' \in Seq(Ids), Len(queue') <= QueueSize, issued' \in 0 .. MaxJobs,
         pc' \in [Clients -> Stages],
         reply' \in [Clients -> Replies],
         raced' \in [Clients -> BOOLEAN],
         DOMAIN todo' = Clients, DOMAIN done' = Clients
  PROVE  BoardTyped'
  <1>1. clock \in Nat /\ clock' \in 1 .. MaxWrites /\ clock <= clock'
    BY Ticks
  <1>2. pager' \in Pager /\ pager'.since <= clock'
    <2>1. pager.since \in Nat /\ pager.since <= clock /\ pager \in Pager /\ pager' = pager
      BY DEF BoardTyped, Pager
    <2> QED BY <1>1, <2>1
  <1>3. \A j \in Present(map') : map'[j].updated <= clock'
    <2> SUFFICES ASSUME NEW j \in Present(map') PROVE map'[j].updated <= clock'
      OBVIOUS
    <2>1. map'[j] \in Record /\ map'[j].updated <= clock
      BY DEF Present
    <2>2. map'[j].updated \in Nat
      BY <2>1 DEF Record
    <2> QED BY <1>1, <2>1, <2>2
  <1> QED BY <1>1, <1>2, <1>3 DEF BoardTyped, Pager

LEMMA TakeJobKeeps ==
  ASSUME BoardInv, TakeJob
  PROVE  BoardInv'
  <1> USE DEF BoardInv
  <1> DEFINE h == Head(queue)
  <1>1. /\ h \in Ids /\ queue' \in Seq(Ids) /\ Len(queue') <= Len(queue)
        /\ Len(queue') <= QueueSize
    <2>1. queue \in Seq(Ids) /\ queue # <<>> /\ queue' = Tail(queue) /\ Len(queue) <= QueueSize
      BY DEF TakeJob, BoardTyped
    <2> QED BY <2>1, BoardAssumption
  <1> HIDE DEF h
  <1>2. PICK m : Changed(m) /\ map' = m
    <2>1. CASE h \in Of(map, {"queued"})
      BY <2>1, SetChanges DEF TakeJob, Of, h
    <2>2. CASE h \notin Of(map, {"queued"})
      BY <2>2 DEF TakeJob, Changed, BoardTyped, h
    <2> QED BY <2>1, <2>2
  <1>3. /\ map' \in [Ids -> Record \cup {NoJob}]
        /\ \A j \in Present(map)' : map'[j].updated <= clock
        /\ Pages'
    BY <1>2, ChangesKeepPages DEF TakeJob
  <1>4. UNCHANGED <<issued, request, raced, pager>> /\ (Stamp \/ UNCHANGED clock)
    BY DEF TakeJob
  <1>5. BoardTyped'
    BY <1>1, <1>3, <1>4, TypesStay DEF BoardTyped, request
  <1>6. Submissions' /\ Room' /\ FullOnlyByRace'
    BY <1>1, <1>4, NoneMoves
  <1> QED BY <1>3, <1>5, <1>6

LEMMA FinishJobKeeps ==
  ASSUME BoardInv, NEW j \in Ids, FinishJob(j)
  PROVE  BoardInv'
  <1> USE DEF BoardInv
  <1>1. PICK s \in {"succeeded", "failed"} : map' = Retain(Set(j, s))
    BY DEF FinishJob
  <1>2. Changed(Set(j, s))
    BY SetChanges DEF FinishJob, Of, Terminal
  <1>3. UNCHANGED <<queue, issued, request, raced, pager>> /\ Stamp
    BY DEF FinishJob
  <1>4. /\ map' \in [Ids -> Record \cup {NoJob}]
        /\ \A k \in Present(map)' : map'[k].updated <= clock
        /\ Pages'
    BY <1>1, <1>2, <1>3, ChangesKeepPages
  <1>5. queue' \in Seq(Ids) /\ Len(queue') <= Len(queue) /\ Len(queue') <= QueueSize
    BY <1>3, BoardAssumption DEF BoardTyped
  <1>6. BoardTyped'
    BY <1>3, <1>4, <1>5, TypesStay DEF BoardTyped, request
  <1>7. Submissions' /\ Room' /\ FullOnlyByRace'
    BY <1>3, <1>5, NoneMoves
  <1> QED BY <1>4, <1>6, <1>7

\* A request that leaves the list alone.
LEMMA RequestKeeps ==
  ASSUME BoardInv, NEW c \in Clients, UNCHANGED <<map, clock, issued, pager>>,
         queue' \in Seq(Ids), Len(queue') <= QueueSize, WithTheOthers(c),
         pc' \in [Clients -> Stages],
         reply' \in [Clients -> Replies],
         raced' \in [Clients -> BOOLEAN],
         DOMAIN todo' = Clients, DOMAIN done' = Clients,
         Submission(c)', RoomFor(c)', reply'[c] = "full" => raced'[c]
  PROVE  BoardInv'
  <1> USE DEF BoardInv
  <1>1. Pages' /\ Present(map)' = Present(map)
    BY SamePages
  <1>2. BoardTyped'
    BY <1>1, TypesStay DEF BoardTyped
  <1>3. Submissions' /\ Room' /\ FullOnlyByRace'
    BY OneMoves
  <1> QED BY <1>1, <1>2, <1>3

\* What an answer leaves.
LEMMA Answered ==
  ASSUME BoardTyped, NEW c \in Clients, NEW with \in Replies \ {"none"}, Answer(c, with)
  PROVE  /\ pc' \in [Clients -> Stages]
         /\ reply' \in [Clients -> Replies]
         /\ DOMAIN todo' = Clients /\ DOMAIN done' = Clients
         /\ Submission(c)' /\ RoomFor(c)' /\ reply'[c] = with
         /\ \A d \in Clients : d # c =>
              /\ pc'[d] = pc[d] /\ todo'[d] = todo[d] /\ done'[d] = done[d]
              /\ reply'[d] = reply[d]
  <1>1. /\ pc' \in [Clients -> Stages]
        /\ reply' \in [Clients -> Replies]
        /\ DOMAIN todo' = Clients /\ DOMAIN done' = Clients
    BY DEF Answer, BoardTyped
  <1>2. /\ pc'[c] = "idle" /\ reply'[c] = with /\ todo'[c] = <<>> /\ done'[c] = <<>>
        /\ \A d \in Clients : d # c =>
             /\ pc'[d] = pc[d] /\ todo'[d] = todo[d] /\ done'[d] = done[d]
             /\ reply'[d] = reply[d]
    BY DEF Answer, BoardTyped
  <1>3. Submission(c)' /\ RoomFor(c)'
    BY <1>2 DEF Submission, RoomFor
  <1> QED BY <1>1, <1>2, <1>3

\* What one response more leaves.
LEMMA Responded ==
  ASSUME BoardTyped, NEW c \in Clients, NEW response, Next1(c, response)
  PROVE  /\ DOMAIN todo' = Clients /\ DOMAIN done' = Clients
         /\ todo'[c] = Tail(todo[c]) /\ done'[c] = Append(done[c], response)
         /\ \A d \in Clients : d # c => todo'[d] = todo[d] /\ done'[d] = done[d]
  BY DEF Next1, BoardTyped

LEMMA SubmitKeeps ==
  ASSUME BoardInv, NEW c \in Clients, Submit(c)
  PROVE  BoardInv'
  <1>1. /\ pc[c] = "idle" /\ todo[c] = <<>> /\ done[c] = <<>>
        /\ UNCHANGED <<map, queue, clock, issued, raced, pager>>
        /\ reply' = [reply EXCEPT ![c] = "none"] /\ BoardTyped
    BY DEF Submit, BoardInv, Submissions, Submission
  <1>2. PICK urls \in UrlLists, force \in BOOLEAN :
          IF force
            THEN /\ pc' = [pc EXCEPT ![c] = "check"]
                 /\ done' = [done EXCEPT ![c] = [i \in DOMAIN urls |->
                                                   [url |-> urls[i], job |-> NoJob]]]
                 /\ UNCHANGED todo
            ELSE /\ pc' = [pc EXCEPT ![c] = "decide"]
                 /\ todo' = [todo EXCEPT ![c] = urls] /\ UNCHANGED done
    BY DEF Submit
  <1>3. urls \in Seq(Urls)
    BY BoardAssumption
  <1> DEFINE list == [i \in DOMAIN urls |-> [url |-> urls[i], job |-> NoJob]]
  <1>4. list \in Seq(Decision)
    <2>1. Len(urls) \in Nat /\ DOMAIN urls = 1 .. Len(urls)
          /\ \A i \in 1 .. Len(urls) : urls[i] \in Urls
      BY <1>3
    <2>2. \A i \in 1 .. Len(urls) : [url |-> urls[i], job |-> NoJob] \in Decision
      BY <2>1 DEF Decision
    <2>3. list = [i \in 1 .. Len(urls) |-> [url |-> urls[i], job |-> NoJob]]
      BY <2>1
    <2>4. list \in [1 .. Len(urls) -> Decision]
      BY <2>2, <2>3
    <2> HIDE DEF list
    <2> QED BY <2>1, <2>4
  <1>5. /\ pc'[c] \in {"check", "decide"} /\ reply'[c] = "none"
        /\ pc'[c] = "check" => done'[c] \in Seq(Decision) /\ todo'[c] = <<>>
        /\ pc'[c] = "decide" => todo'[c] \in Seq(Urls) /\ done'[c] \in Seq(Decision)
    <2>1. CASE force
      <3>1. /\ done' = [done EXCEPT ![c] = list] /\ pc' = [pc EXCEPT ![c] = "check"]
            /\ UNCHANGED todo
        BY <1>2, <2>1
      <3> HIDE DEF list
      <3> QED BY <1>1, <1>4, <3>1 DEF BoardTyped
    <2>2. CASE ~force
      <3>1. /\ pc' = [pc EXCEPT ![c] = "decide"] /\ todo' = [todo EXCEPT ![c] = urls]
            /\ UNCHANGED done
        BY <1>2, <2>2
      <3>2. done[c] \in Seq(Decision)
        BY <1>1
      <3> QED BY <1>1, <1>3, <3>1, <3>2 DEF BoardTyped
    <2> QED BY <2>1, <2>2
  <1> HIDE DEF list
  <1>6. /\ pc' \in [Clients -> Stages]
        /\ DOMAIN todo' = Clients /\ DOMAIN done' = Clients
        /\ \A d \in Clients : d # c =>
             pc'[d] = pc[d] /\ todo'[d] = todo[d] /\ done'[d] = done[d]
    BY <1>1, <1>2 DEF BoardTyped
  <1>7. /\ reply' \in [Clients -> Replies]
        /\ \A d \in Clients : d # c => reply'[d] = reply[d]
    BY <1>1 DEF BoardTyped
  <1>8. queue' \in Seq(Ids) /\ Len(queue') <= Len(queue) /\ Len(queue') <= QueueSize
        /\ raced' \in [Clients -> BOOLEAN]
    BY <1>1, BoardAssumption DEF BoardTyped
  <1>9. WithTheOthers(c)
    BY <1>1, <1>6, <1>7, <1>8 DEF WithTheOthers
  <1>10. Submission(c)' /\ RoomFor(c)'
    BY <1>5 DEF Submission, RoomFor
  <1> QED BY <1>1, <1>5, <1>6, <1>7, <1>8, <1>9, <1>10, RequestKeeps

LEMMA DecideKeeps ==
  ASSUME BoardInv, NEW c \in Clients, Decide(c)
  PROVE  BoardInv'
  <1>1. /\ pc[c] = "decide" /\ todo[c] \in Seq(Urls) /\ done[c] \in Seq(Decision)
        /\ UNCHANGED <<map, queue, clock, issued, reply, raced, pager>>
        /\ reply[c] = "none" /\ BoardTyped
    BY DEF Decide, BoardInv, Submissions, Submission
  <1>2. /\ pc'[c] \in {"check", "decide"}
        /\ todo'[c] \in Seq(Urls) /\ done'[c] \in Seq(Decision)
        /\ pc'[c] = "check" => todo'[c] = <<>>
        /\ pc' \in [Clients -> Stages]
        /\ DOMAIN todo' = Clients /\ DOMAIN done' = Clients
        /\ \A d \in Clients : d # c =>
             pc'[d] = pc[d] /\ todo'[d] = todo[d] /\ done'[d] = done[d]
    <2>1. CASE todo[c] = <<>>
      BY <1>1, <2>1 DEF Decide, BoardTyped
    <2>2. CASE todo[c] # <<>>
      <3> DEFINE decision == [url |-> Head(todo[c]), job |-> Reused(Head(todo[c]))]
      <3>1. Next1(c, decision) /\ UNCHANGED pc
        BY <2>2 DEF Decide
      <3>2. decision \in Decision
        <4>1. Head(todo[c]) \in Urls
          BY <1>1, <2>2
        <4> QED BY <1>1, <4>1, ReusedKnown DEF Decision
      <3> HIDE DEF decision
      <3>3. /\ DOMAIN todo' = Clients /\ DOMAIN done' = Clients
            /\ todo'[c] = Tail(todo[c]) /\ done'[c] = Append(done[c], decision)
            /\ \A d \in Clients : d # c => todo'[d] = todo[d] /\ done'[d] = done[d]
        BY <1>1, <3>1, Responded
      <3>4. Tail(todo[c]) \in Seq(Urls)
        BY <1>1, <2>2
      <3>5. Append(done[c], decision) \in Seq(Decision)
        BY <1>1, <3>2
      <3> QED BY <1>1, <3>1, <3>3, <3>4, <3>5 DEF BoardTyped
    <2> QED BY <2>1, <2>2
  <1>3. queue' \in Seq(Ids) /\ Len(queue') <= Len(queue) /\ Len(queue') <= QueueSize
        /\ raced' \in [Clients -> BOOLEAN]
        /\ reply' \in [Clients -> Replies]
    BY <1>1, BoardAssumption DEF BoardTyped
  <1>4. WithTheOthers(c)
    BY <1>1, <1>2, <1>3 DEF WithTheOthers
  <1>5. Submission(c)' /\ RoomFor(c)'
    BY <1>1, <1>2 DEF Submission, RoomFor
  <1> QED BY <1>1, <1>2, <1>3, <1>4, <1>5, RequestKeeps

LEMMA CheckCapacityKeeps ==
  ASSUME BoardInv, NEW c \in Clients, CheckCapacity(c)
  PROVE  BoardInv'
  <1>1. /\ pc[c] = "check" /\ done[c] \in Seq(Decision) /\ reply[c] = "none"
        /\ UNCHANGED <<map, queue, clock, issued, pager>> /\ BoardTyped
    BY DEF CheckCapacity, BoardInv, Submissions, Submission
  <1>2. queue' \in Seq(Ids) /\ Len(queue') <= Len(queue) /\ Len(queue') <= QueueSize
        /\ Len(queue) \in Nat /\ QueueSize \in Nat
    BY <1>1, BoardAssumption DEF BoardTyped
  <1>3. CASE RoomForAll(c)
    <2>1. /\ pc' = [pc EXCEPT ![c] = "insert"] /\ todo' = [todo EXCEPT ![c] = done[c]]
          /\ done' = [done EXCEPT ![c] = <<>>] /\ UNCHANGED reply
          /\ raced' = [raced EXCEPT ![c] = FALSE]
      BY <1>3 DEF CheckCapacity
    <2>2. /\ pc' \in [Clients -> Stages]
          /\ reply' \in [Clients -> Replies]
          /\ raced' \in [Clients -> BOOLEAN]
          /\ DOMAIN todo' = Clients /\ DOMAIN done' = Clients
      BY <1>1, <2>1 DEF BoardTyped
    <2>3. pc'[c] = "insert" /\ todo'[c] = done[c] /\ done'[c] = <<>> /\ reply'[c] = "none"
      BY <1>1, <2>1 DEF BoardTyped
    <2>4. WithTheOthers(c)
      BY <1>2, <2>1 DEF WithTheOthers, BoardTyped
    <2>5. Submission(c)'
      BY <1>1, <2>3 DEF Submission
    <2>6. RoomFor(c)'
      <3>1. Needed(done[c]) \in Nat /\ Needed(done[c]) <= QueueSize - Len(queue)
        BY <1>1, <1>3, NeededIsNat DEF RoomForAll, ToQueue
      <3> QED BY <1>1, <1>2, <2>3, <3>1 DEF RoomFor
    <2> QED BY <1>1, <1>2, <2>2, <2>3, <2>4, <2>5, <2>6, RequestKeeps
  <1>4. CASE ~RoomForAll(c)
    <2>1. Answer(c, "busy") /\ UNCHANGED raced
      BY <1>4 DEF CheckCapacity
    <2>2. /\ pc' \in [Clients -> Stages]
          /\ reply' \in [Clients -> Replies]
          /\ DOMAIN todo' = Clients /\ DOMAIN done' = Clients
          /\ Submission(c)' /\ RoomFor(c)' /\ reply'[c] = "busy"
      BY <1>1, <2>1, Answered
    <2>3. WithTheOthers(c)
      BY <1>1, <1>2, <2>1, Answered DEF WithTheOthers
    <2>4. raced' \in [Clients -> BOOLEAN]
      BY <1>1, <2>1 DEF BoardTyped
    <2> QED BY <1>1, <1>2, <2>2, <2>3, <2>4, RequestKeeps
  <1> QED BY <1>3, <1>4

LEMMA InsertNextKeeps ==
  ASSUME BoardInv, NEW c \in Clients, InsertNext(c)
  PROVE  BoardInv'
  <1>1. /\ pc[c] = "insert" /\ todo[c] \in Seq(Decision) /\ done[c] \in Seq(Ids)
        /\ reply[c] = "none" /\ RoomFor(c) /\ UNCHANGED <<queue, raced, pager>> /\ BoardTyped
    BY DEF InsertNext, BoardInv, Submissions, Submission, Room
  <1>2. /\ queue' \in Seq(Ids) /\ Len(queue') <= Len(queue) /\ Len(queue') <= QueueSize
        /\ Len(queue) \in Nat /\ QueueSize \in Nat /\ raced' \in [Clients -> BOOLEAN]
        /\ raced[c] \in BOOLEAN
    BY <1>1, BoardAssumption DEF BoardTyped
  <1>3. CASE todo[c] = <<>>
    <2>1. Answer(c, "ok") /\ UNCHANGED <<map, clock, issued>>
      BY <1>3 DEF InsertNext
    <2>2. /\ pc' \in [Clients -> Stages]
          /\ reply' \in [Clients -> Replies]
          /\ DOMAIN todo' = Clients /\ DOMAIN done' = Clients
          /\ Submission(c)' /\ RoomFor(c)' /\ reply'[c] = "ok"
      BY <1>1, <2>1, Answered
    <2>3. WithTheOthers(c)
      BY <1>1, <1>2, <2>1, Answered DEF WithTheOthers
    <2> QED BY <1>1, <1>2, <2>1, <2>2, <2>3, RequestKeeps
  <1>4. ASSUME todo[c] # <<>>
        PROVE  /\ Needed(todo[c]) \in Nat /\ Needed(Tail(todo[c])) \in Nat
               /\ Head(todo[c]).job = NoJob => Needed(todo[c]) = Needed(Tail(todo[c])) + 1
               /\ Head(todo[c]).job # NoJob => Needed(todo[c]) = Needed(Tail(todo[c]))
               /\ Head(todo[c]) \in Decision /\ Tail(todo[c]) \in Seq(Decision)
    <2>1. Head(todo[c]) \in Decision /\ Tail(todo[c]) \in Seq(Decision)
      BY <1>1, <1>4
    <2> QED BY <1>1, <1>4, <2>1, NeededTail
  <1>5. CASE todo[c] # <<>> /\ Head(todo[c]).job # NoJob
    <2> DEFINE job == Head(todo[c]).job
    <2>1. Next1(c, job) /\ UNCHANGED <<map, clock, issued, pc, reply>>
      BY <1>5 DEF InsertNext
    <2>2. job \in Ids
      BY <1>4, <1>5 DEF Decision
    <2> HIDE DEF job
    <2>3. /\ DOMAIN todo' = Clients /\ DOMAIN done' = Clients
          /\ todo'[c] = Tail(todo[c]) /\ done'[c] = Append(done[c], job)
          /\ \A d \in Clients : d # c => todo'[d] = todo[d] /\ done'[d] = done[d]
      BY <1>1, <2>1, Responded
    <2>4. todo'[c] \in Seq(Decision) /\ done'[c] \in Seq(Ids)
      BY <1>1, <1>4, <1>5, <2>2, <2>3
    <2>5. Submission(c)'
      BY <1>1, <2>1, <2>4 DEF Submission
    <2>6. RoomFor(c)'
      BY <1>1, <1>4, <1>5, <2>1, <2>3 DEF RoomFor
    <2>7. WithTheOthers(c)
      BY <1>1, <1>2, <2>1, <2>3 DEF WithTheOthers
    <2>8. /\ pc' \in [Clients -> Stages]
          /\ reply' \in [Clients -> Replies] /\ reply'[c] = "none"
      BY <1>1, <2>1 DEF BoardTyped
    <2> QED BY <1>1, <1>2, <2>1, <2>3, <2>5, <2>6, <2>7, <2>8, RequestKeeps
  <1>6. CASE todo[c] # <<>> /\ Head(todo[c]).job = NoJob /\ Len(queue) = QueueSize
    <2>1. Answer(c, "full") /\ UNCHANGED <<map, clock, issued>>
      BY <1>6 DEF InsertNext
    <2>2. raced'[c]
      BY <1>1, <1>2, <1>4, <1>6 DEF RoomFor
    <2>3. /\ pc' \in [Clients -> Stages]
          /\ reply' \in [Clients -> Replies]
          /\ DOMAIN todo' = Clients /\ DOMAIN done' = Clients
          /\ Submission(c)' /\ RoomFor(c)'
      BY <1>1, <2>1, Answered
    <2>4. WithTheOthers(c)
      BY <1>1, <1>2, <2>1, Answered DEF WithTheOthers
    <2> QED BY <1>1, <1>2, <2>1, <2>2, <2>3, <2>4, RequestKeeps
  <1>7. CASE todo[c] # <<>> /\ Head(todo[c]).job = NoJob /\ Len(queue) # QueueSize
    <2> DEFINE url == Head(todo[c]).url
               m == [map EXCEPT ![issued + 1] = NewRecord(url)]
    <2>1. /\ issued < MaxJobs /\ issued' = issued + 1 /\ Stamp /\ map' = m
          /\ pc' = [pc EXCEPT ![c] = "append"] /\ Next1(c, issued + 1) /\ UNCHANGED reply
      BY <1>7 DEF InsertNext
    <2>2. url \in Urls
      BY <1>4, <1>7 DEF Decision
    <2>3. Changed(m)
      BY <1>1, <2>2, NewChanges
    <2> HIDE DEF m, url
    <2>4. issued + 1 \in Ids /\ issued' \in 0 .. MaxJobs
      BY <1>1, <2>1, BoardAssumption DEF BoardTyped, Ids
    <2>5. /\ map' \in [Ids -> Record \cup {NoJob}]
          /\ \A j \in Present(map)' : map'[j].updated <= clock
          /\ Pages'
      BY <1>1, <2>1, <2>3, ChangesKeepPages DEF BoardInv
    <2>6. /\ DOMAIN todo' = Clients /\ DOMAIN done' = Clients
          /\ todo'[c] = Tail(todo[c]) /\ done'[c] = Append(done[c], issued + 1)
          /\ \A d \in Clients : d # c => todo'[d] = todo[d] /\ done'[d] = done[d]
      BY <1>1, <2>1, Responded
    <2>7. /\ pc' \in [Clients -> Stages]
          /\ pc'[c] = "append" /\ \A d \in Clients : d # c => pc'[d] = pc[d]
          /\ reply' \in [Clients -> Replies] /\ reply'[c] = "none"
      BY <1>1, <2>1 DEF BoardTyped
    <2>8. BoardTyped'
      BY <1>1, <1>2, <2>1, <2>4, <2>5, <2>6, <2>7, TypesStay
    <2>9. todo'[c] \in Seq(Decision) /\ done'[c] \in Seq(Ids) /\ done'[c] # <<>>
      BY <1>1, <1>4, <1>7, <2>4, <2>6
    <2>10. Submission(c)'
      BY <2>7, <2>9 DEF Submission
    <2>11. RoomFor(c)'
      BY <1>1, <1>2, <1>4, <1>7, <2>6, <2>7 DEF RoomFor
    <2>12. WithTheOthers(c)
      BY <1>1, <1>2, <2>1, <2>6, <2>7 DEF WithTheOthers
    <2>13. Submissions' /\ Room' /\ FullOnlyByRace'
      BY <1>2, <2>7, <2>10, <2>11, <2>12, OneMoves DEF BoardInv
    <2> QED BY <2>5, <2>8, <2>13 DEF BoardInv
  <1> QED BY <1>3, <1>5, <1>6, <1>7

LEMMA AppendNextKeeps ==
  ASSUME BoardInv, NEW c \in Clients, AppendNext(c)
  PROVE  BoardInv'
  <1>1. /\ pc[c] = "append" /\ todo[c] \in Seq(Decision) /\ done[c] \in Seq(Ids)
        /\ done[c] # <<>> /\ reply[c] = "none" /\ RoomFor(c) /\ BoardTyped
        /\ UNCHANGED <<map, queue, clock, issued, raced, pager>>
    BY DEF AppendNext, BoardInv, Submissions, Submission, Room
  <1>2. /\ queue' \in Seq(Ids) /\ Len(queue') <= Len(queue) /\ Len(queue') <= QueueSize
        /\ raced' \in [Clients -> BOOLEAN]
    BY <1>1, BoardAssumption DEF BoardTyped
  <1>3. CASE pc' = [pc EXCEPT ![c] = "send"] /\ UNCHANGED <<todo, done, reply>>
    <2>1. /\ pc' \in [Clients -> Stages] /\ reply' \in [Clients -> Replies]
          /\ pc'[c] = "send" /\ \A d \in Clients : d # c => pc'[d] = pc[d]
          /\ DOMAIN todo' = Clients /\ DOMAIN done' = Clients /\ reply'[c] = "none"
      BY <1>1, <1>3 DEF BoardTyped
    <2>2. Submission(c)' /\ RoomFor(c)'
      BY <1>1, <1>3, <2>1 DEF Submission, RoomFor
    <2>3. WithTheOthers(c)
      BY <1>1, <1>2, <1>3, <2>1 DEF WithTheOthers
    <2> QED BY <1>1, <1>2, <2>1, <2>2, <2>3, RequestKeeps
  <1>4. CASE Answer(c, "unsaved")
    <2>1. /\ pc' \in [Clients -> Stages] /\ reply' \in [Clients -> Replies]
          /\ DOMAIN todo' = Clients /\ DOMAIN done' = Clients
          /\ Submission(c)' /\ RoomFor(c)' /\ reply'[c] = "unsaved"
      BY <1>1, <1>4, Answered
    <2>2. WithTheOthers(c)
      BY <1>1, <1>2, <1>4, Answered DEF WithTheOthers
    <2> QED BY <1>1, <1>2, <2>1, <2>2, RequestKeeps
  <1> QED BY <1>3, <1>4 DEF AppendNext

LEMMA DropRequestKeeps ==
  ASSUME BoardInv, NEW c \in Clients, DropRequest(c)
  PROVE  BoardInv'
  <1>1. /\ Answer(c, "timeout") /\ UNCHANGED <<map, queue, clock, issued, raced, pager>>
        /\ BoardTyped
    BY DEF DropRequest, BoardInv
  <1>2. /\ queue' \in Seq(Ids) /\ Len(queue') <= Len(queue) /\ Len(queue') <= QueueSize
        /\ raced' \in [Clients -> BOOLEAN]
    BY <1>1, BoardAssumption DEF BoardTyped
  <1>3. /\ pc' \in [Clients -> Stages] /\ reply' \in [Clients -> Replies]
        /\ DOMAIN todo' = Clients /\ DOMAIN done' = Clients
        /\ Submission(c)' /\ RoomFor(c)' /\ reply'[c] = "timeout"
    BY <1>1, Answered
  <1>4. WithTheOthers(c)
    BY <1>1, <1>2, Answered DEF WithTheOthers
  <1> QED BY <1>1, <1>2, <1>3, <1>4, RequestKeeps

LEMMA SendNextKeeps ==
  ASSUME BoardInv, NEW c \in Clients, SendNext(c)
  PROVE  BoardInv'
  <1> DEFINE last == Last(done[c])
  <1>1. /\ pc[c] = "send" /\ todo[c] \in Seq(Decision) /\ done[c] \in Seq(Ids)
        /\ done[c] # <<>> /\ reply[c] = "none" /\ RoomFor(c) /\ UNCHANGED <<clock, issued>>
        /\ BoardTyped
    BY DEF SendNext, BoardInv, Submissions, Submission, Room
  <1>2. last \in Ids
    BY <1>1 DEF Last
  <1> HIDE DEF last
  <1>3. /\ queue \in Seq(Ids) /\ Len(queue) \in Nat /\ QueueSize \in Nat
        /\ Needed(todo[c]) \in Nat /\ Len(queue) <= QueueSize /\ raced \in [Clients -> BOOLEAN]
    BY <1>1, BoardAssumption, NeededIsNat DEF BoardTyped
  <1>4. CASE Len(queue) < QueueSize
    <2>1. /\ queue' = Append(queue, last) /\ pc' = [pc EXCEPT ![c] = "insert"]
          /\ raced' = [d \in Clients |-> d # c \/ raced[d]]
          /\ UNCHANGED <<map, todo, done, reply, pager>>
      BY <1>4 DEF SendNext, last
    <2>2. queue' \in Seq(Ids) /\ Len(queue') = Len(queue) + 1 /\ Len(queue') <= QueueSize
      BY <1>2, <1>3, <1>4, <2>1
    <2>3. raced' \in [Clients -> BOOLEAN] /\ raced'[c] = raced[c]
          /\ \A d \in Clients : d # c => raced'[d] = TRUE
      BY <1>3, <2>1
    <2>4. /\ pc' \in [Clients -> Stages]
          /\ pc'[c] = "insert" /\ \A d \in Clients : d # c => pc'[d] = pc[d]
          /\ reply' \in [Clients -> Replies] /\ reply'[c] = "none"
          /\ DOMAIN todo' = Clients /\ DOMAIN done' = Clients
      BY <1>1, <2>1 DEF BoardTyped
    <2>5. Submission(c)'
      BY <1>1, <2>1, <2>4 DEF Submission
    <2>6. RoomFor(c)'
      BY <1>1, <1>3, <2>1, <2>2, <2>3, <2>4 DEF RoomFor
    <2>7. WithTheOthers(c)
      BY <2>1, <2>3, <2>4 DEF WithTheOthers
    <2> QED BY <1>1, <2>1, <2>2, <2>3, <2>4, <2>5, <2>6, <2>7, RequestKeeps
  <1>5. CASE ~(Len(queue) < QueueSize)
    <2>0. PICK with \in {"full", "unsaved"} : Answer(c, with)
      BY <1>5 DEF SendNext
    <2>1. /\ map' = [map EXCEPT ![last] = NoJob] /\ Answer(c, with)
          /\ pager' = [pager EXCEPT !.shifted = TRUE] /\ UNCHANGED <<queue, raced>>
      BY <1>5, <2>0 DEF SendNext, last
    <2>2. raced'[c]
      BY <1>1, <1>3, <1>5, <2>1 DEF RoomFor
    <2>3. /\ pc' \in [Clients -> Stages]
          /\ reply' \in [Clients -> Replies]
          /\ DOMAIN todo' = Clients /\ DOMAIN done' = Clients
          /\ Submission(c)' /\ RoomFor(c)'
      BY <1>1, <2>1, Answered
    <2>4. WithTheOthers(c)
      BY <1>1, <1>3, <2>1, Answered DEF WithTheOthers
    <2>5. Submissions' /\ Room' /\ FullOnlyByRace'
      BY <1>3, <2>1, <2>2, <2>3, <2>4, OneMoves DEF BoardInv
    <2>6. pager' \in Pager /\ pager'.since <= clock' /\ pager'.shifted
      BY <1>1, <2>1 DEF BoardTyped, Pager
    <2>7. map' \in [Ids -> Record \cup {NoJob}]
      BY <1>1, <2>1 DEF BoardTyped
    <2>8. \A j \in Present(map') : map'[j].updated <= clock'
      <3>1. \A j \in Present(map') : j \in Present(map) /\ map'[j] = map[j]
        BY <1>1, <1>2, <2>1 DEF BoardTyped, Present
      <3> QED BY <1>1, <3>1 DEF BoardTyped
    <2>9. BoardTyped'
      BY <1>1, <1>3, <2>1, <2>3, <2>6, <2>7, <2>8 DEF BoardTyped
    <2>10. Pages'
      BY <2>6 DEF Pages
    <2> QED BY <2>5, <2>9, <2>10 DEF BoardInv
  <1> QED BY <1>4, <1>5

\* A batch acts on each id once: a list of ids again.
LEMMA DistinctIds ==
  ASSUME NEW ids \in Seq(Nat)
  PROVE  Distinct(ids) \in Seq(Nat)
  <1> DEFINE set == {i \in DOMAIN ids : FirstOfItsKind(ids, i)}
             firsts == Filter(Positions(ids), set)
  <1>1. Positions(ids) \in Seq(DOMAIN ids)
    BY DEF Positions
  <1> HIDE DEF set
  <1>2. firsts \in Seq(DOMAIN ids)
    BY <1>1, FilteredList
  <1>3. Distinct(ids) = [n \in DOMAIN firsts |-> ids[firsts[n]]]
    BY DEF Distinct, set
  <1> HIDE DEF firsts
  <1> QED BY <1>2, <1>3

LEMMA BatchActionKeeps ==
  ASSUME BoardInv, NEW c \in Clients, BatchAction(c)
  PROVE  BoardInv'
  <1>1. /\ UNCHANGED <<map, queue, clock, issued, done, raced, pager>> /\ BoardTyped
        /\ reply' = [reply EXCEPT ![c] = "none"]
    BY DEF BatchAction, BoardInv
  <1>2. \E what \in {"cancel", "delete", "retry"} : \E list \in Seq(Nat) :
          pc' = [pc EXCEPT ![c] = what] /\ todo' = [todo EXCEPT ![c] = list]
    BY DistinctIds, BoardAssumption DEF BatchAction
  <1>3. /\ pc' \in [Clients -> Stages]
        /\ reply' \in [Clients -> Replies]
        /\ DOMAIN todo' = Clients /\ DOMAIN done' = Clients
        /\ pc'[c] \in {"cancel", "delete", "retry"} /\ reply'[c] = "none"
        /\ todo'[c] \in Seq(Nat)
        /\ \A d \in Clients : d # c =>
             pc'[d] = pc[d] /\ todo'[d] = todo[d] /\ reply'[d] = reply[d]
    BY <1>1, <1>2 DEF BoardTyped
  <1>4. queue' \in Seq(Ids) /\ Len(queue') <= Len(queue) /\ Len(queue') <= QueueSize
        /\ raced' \in [Clients -> BOOLEAN]
    BY <1>1, BoardAssumption DEF BoardTyped
  <1>5. WithTheOthers(c)
    BY <1>1, <1>3, <1>4 DEF WithTheOthers
  <1>6. done'[c] = <<>>
    BY <1>1 DEF BatchAction, BoardInv, Submissions, Submission
  <1>7. Submission(c)' /\ RoomFor(c)'
    BY <1>3, <1>6 DEF Submission, RoomFor
  <1> QED BY <1>1, <1>3, <1>4, <1>5, <1>7, RequestKeeps

LEMMA ActOnNextKeeps ==
  ASSUME BoardInv, NEW c \in Clients, ActOnNext(c)
  PROVE  BoardInv'
  <1> DEFINE j == Head(todo[c])
             wanted == Wanted(pc[c])
             url == map[j].url
             m == [map EXCEPT ![issued + 1] = NewRecord(url)]
             to == IF pc[c] = "cancel" THEN "canceled" ELSE "deleted"
  <1>1. /\ pc[c] \in {"cancel", "delete", "retry"} /\ reply[c] = "none" /\ UNCHANGED pager
        /\ todo[c] \in Seq(Nat) /\ done[c] \in Seq(Nat) /\ BoardTyped
    BY DEF ActOnNext, BoardInv, Submissions, Submission
  <1>2. /\ queue \in Seq(Ids) /\ Len(queue) \in Nat /\ QueueSize \in Nat
        /\ Len(queue) <= QueueSize /\ raced \in [Clients -> BOOLEAN]
    BY <1>1, BoardAssumption DEF BoardTyped
  <1>3. CASE todo[c] = <<>>
    <2>1. Answer(c, "ok") /\ UNCHANGED <<map, queue, clock, issued, raced>>
      BY <1>3 DEF ActOnNext
    <2>2. /\ pc' \in [Clients -> Stages]
          /\ reply' \in [Clients -> Replies]
          /\ DOMAIN todo' = Clients /\ DOMAIN done' = Clients
          /\ Submission(c)' /\ RoomFor(c)' /\ reply'[c] = "ok"
      BY <1>1, <2>1, Answered
    <2>3. WithTheOthers(c)
      BY <1>1, <1>2, <2>1, Answered DEF WithTheOthers
    <2> QED BY <1>1, <1>2, <2>1, <2>2, <2>3, RequestKeeps
  <1>4. CASE todo[c] # <<>>
    <2>1. /\ \/ /\ Next1(c, Error)
                /\ UNCHANGED <<map, queue, clock, issued, raced>>
             \/ /\ j \in Of(map, wanted) /\ issued # MaxJobs /\ Len(queue) # QueueSize
                /\ issued' = issued + 1 /\ Stamp /\ map' = m
                /\ \/ /\ queue' = Append(queue, issued + 1) /\ Next1(c, issued + 1)
                      /\ raced' = [d \in Clients |-> d # c \/ raced[d]]
                   \/ Next1(c, Error) /\ UNCHANGED <<queue, raced>>
             \/ /\ j \in Of(map, wanted) /\ map' = Set(j, to) /\ Stamp
                /\ Next1(c, j) \/ Next1(c, Error)
                /\ UNCHANGED <<queue, issued, raced>>
          /\ UNCHANGED <<pc, reply>>
      <3> HIDE DEF m, url
      <3>1. /\ IF j \notin Of(map, wanted)
                 THEN Next1(c, Error) /\ UNCHANGED <<map, queue, clock, issued, raced>>
               ELSE IF pc[c] = "retry"
                 THEN IF Len(queue) = QueueSize \/ issued = MaxJobs
                   THEN Next1(c, Error) /\ UNCHANGED <<map, queue, clock, issued, raced>>
                   ELSE /\ issued' = issued + 1 /\ Stamp /\ map' = m
                        /\ \/ /\ queue' = Append(queue, issued + 1) /\ Next1(c, issued + 1)
                              /\ raced' = [d \in Clients |-> d # c \/ raced[d]]
                           \/ Next1(c, Error) /\ UNCHANGED <<queue, raced>>
               ELSE /\ map' = Set(j, to) /\ Stamp /\ (Next1(c, j) \/ Next1(c, Error))
                    /\ UNCHANGED <<queue, issued, raced>>
            /\ UNCHANGED <<pc, reply>>
        BY <1>4 DEF ActOnNext, RetryOne, m, url
      <3> HIDE DEF j, wanted, to
      <3> QED BY <3>1
    <2>2. PICK response \in Nat : Next1(c, response)
      <3>1. Error \in Nat /\ issued + 1 \in Nat /\ j \in Nat
        BY <1>1, <1>4, BoardAssumption DEF Error, BoardTyped
      <3> HIDE DEF j
      <3> QED BY <2>1, <3>1
    <2>3. /\ DOMAIN todo' = Clients /\ DOMAIN done' = Clients
          /\ \A d \in Clients : d # c => todo'[d] = todo[d] /\ done'[d] = done[d]
          /\ todo'[c] = Tail(todo[c]) /\ done'[c] = Append(done[c], response)
      BY <1>1, <2>2, Responded
    <2>4. /\ pc' \in [Clients -> Stages]
          /\ reply' \in [Clients -> Replies]
          /\ UNCHANGED <<pc, reply, pager>>
      BY <1>1, <2>1 DEF BoardTyped
    <2>5. Submission(c)' /\ RoomFor(c)' /\ reply'[c] # "full"
      <3>1. todo'[c] \in Seq(Nat) /\ done'[c] \in Seq(Nat)
        BY <1>1, <1>4, <2>2, <2>3
      <3> QED BY <1>1, <2>4, <3>1 DEF Submission, RoomFor
    <2>6. ASSUME j \in Of(map, wanted)
          PROVE  j \in Ids /\ j \in Present(map) /\ url \in Urls
      BY <1>1, <2>6 DEF Of, Present, BoardTyped, Record
    <2> HIDE DEF j, wanted, url, m, to
    <2>7. CASE UNCHANGED <<map, queue, clock, issued, raced>>
      <3>1. WithTheOthers(c)
        BY <1>2, <2>3, <2>4, <2>7 DEF WithTheOthers
      <3> QED BY <1>1, <1>2, <2>3, <2>4, <2>5, <2>7, <3>1, RequestKeeps
    <2>8. CASE /\ j \in Of(map, wanted) /\ issued # MaxJobs /\ Len(queue) # QueueSize
               /\ issued' = issued + 1 /\ Stamp /\ map' = m
               /\ \/ /\ queue' = Append(queue, issued + 1)
                     /\ raced' = [d \in Clients |-> d # c \/ raced[d]]
                  \/ UNCHANGED <<queue, raced>>
      <3>1. Changed(m)
        BY <1>1, <2>6, <2>8, NewChanges DEF m
      <3>2. issued + 1 \in Ids /\ issued' \in 0 .. MaxJobs
        BY <1>1, <2>8, BoardAssumption DEF BoardTyped, Ids
      <3>3. queue' \in Seq(Ids) /\ Len(queue') <= QueueSize
        BY <1>2, <2>8, <3>2
      <3>4. /\ map' \in [Ids -> Record \cup {NoJob}]
            /\ \A k \in Present(map)' : map'[k].updated <= clock
            /\ Pages'
        BY <1>1, <2>8, <3>1, ChangesKeepPages DEF BoardInv
      <3>5. /\ raced' \in [Clients -> BOOLEAN]
            /\ \A d \in Clients :
                 d # c => \/ raced'[d] = TRUE
                          \/ raced'[d] = raced[d] /\ Len(queue') <= Len(queue)
        <4>1. CASE raced' = [d \in Clients |-> d # c \/ raced[d]]
          BY <1>2, <4>1
        <4>2. CASE UNCHANGED <<queue, raced>>
          BY <1>2, <4>2
        <4> QED BY <2>8, <4>1, <4>2
      <3>6. BoardTyped'
        BY <1>1, <2>3, <2>4, <2>8, <3>2, <3>3, <3>4, <3>5, TypesStay
      <3>7. WithTheOthers(c)
        BY <2>3, <2>4, <3>5 DEF WithTheOthers
      <3>8. Submissions' /\ Room' /\ FullOnlyByRace'
        BY <2>5, <3>3, <3>7, OneMoves DEF BoardInv
      <3> QED BY <3>4, <3>6, <3>8 DEF BoardInv
    <2>9. CASE /\ j \in Of(map, wanted) /\ map' = Set(j, to) /\ Stamp
               /\ UNCHANGED <<queue, issued, raced>>
      <3>1. Changed(Set(j, to))
        BY <1>1, <2>6, <2>9, SetChanges DEF to, Terminal
      <3>2. queue' \in Seq(Ids) /\ Len(queue') <= QueueSize /\ Len(queue') <= Len(queue)
            /\ raced' \in [Clients -> BOOLEAN] /\ issued' \in 0 .. MaxJobs
        BY <1>1, <1>2, <2>9 DEF BoardTyped
      <3>3. /\ map' \in [Ids -> Record \cup {NoJob}]
            /\ \A k \in Present(map)' : map'[k].updated <= clock
            /\ Pages'
        BY <1>1, <2>9, <3>1, ChangesKeepPages DEF BoardInv
      <3>4. BoardTyped'
        BY <1>1, <2>3, <2>4, <2>9, <3>2, <3>3, TypesStay
      <3>5. WithTheOthers(c)
        BY <2>3, <2>4, <2>9, <3>2 DEF WithTheOthers
      <3>6. Submissions' /\ Room' /\ FullOnlyByRace'
        BY <2>5, <3>2, <3>5, OneMoves DEF BoardInv
      <3> QED BY <3>3, <3>4, <3>6 DEF BoardInv
    <2> QED BY <2>1, <2>7, <2>8, <2>9
  <1> QED BY <1>3, <1>4

\* Nothing but the paging client moves.
LEMMA OnlyPager ==
  ASSUME BoardInv, UNCHANGED <<map, queue, clock, issued, request, raced>>,
         pager' \in Pager, pager'.since <= clock
  PROVE  BoardTyped' /\ Submissions' /\ Room' /\ FullOnlyByRace'
  <1>1. BoardTyped /\ queue' \in Seq(Ids) /\ Len(queue') <= Len(queue)
    BY DEF BoardInv, BoardTyped
  <1>2. BoardTyped'
    BY <1>1 DEF BoardTyped, request, Present
  <1>3. Submissions' /\ Room' /\ FullOnlyByRace'
    BY <1>1, NoneMoves DEF BoardInv
  <1> QED BY <1>2, <1>3

LEMMA StartPagingKeeps ==
  ASSUME BoardInv, StartPaging
  PROVE  BoardInv'
  <1>1. UNCHANGED <<map, queue, clock, issued, request, raced>>
    BY DEF StartPaging
  <1>2. /\ pager'.active \in BOOLEAN /\ pager'.offset = 0 /\ pager' \in Pager
        /\ pager'.since <= clock
    <2>1. PICK limit \in PageLimits :
            pager' = [NoPager EXCEPT !.active = TRUE, !.limit = Clamp(limit, 1, MaxPage),
                                     !.since = clock]
      BY DEF StartPaging
    <2>2. Clamp(limit, 1, MaxPage) \in 1 .. MaxPage
      BY <2>1, BoardAssumption DEF Clamp
    <2>3. clock \in Nat
      BY BoardAssumption DEF BoardInv, BoardTyped
    <2> DEFINE size == Clamp(limit, 1, MaxPage)
    <2>4. pager' = [active |-> TRUE, limit |-> size, offset |-> 0, seen |-> {},
                    since |-> clock, shifted |-> FALSE]
      BY <2>1 DEF NoPager
    <2>5. size \in 1 .. MaxPage
      BY <2>2
    <2> HIDE DEF size
    <2> QED BY <2>3, <2>4, <2>5 DEF Pager
  <1>3. Pages'
    <2>1. \A j \in Present(map') : Cardinality(Later(map', j)) \in Nat
      BY <1>1, LaterFinite DEF BoardInv, BoardTyped, Present
    <2> QED BY <1>2, <2>1 DEF Pages
  <1> QED BY <1>1, <1>2, <1>3, OnlyPager DEF BoardInv

\* What was not on the page and not before it is behind it.
LEMMA ReadPageKeeps ==
  ASSUME BoardInv, ReadPage
  PROVE  BoardInv'
  <1> DEFINE page == Page(map, pager.offset, pager.limit)
  <1>1. /\ UNCHANGED <<map, queue, clock, issued, request, raced>>
        /\ pager' = [pager EXCEPT !.offset = @ + pager.limit, !.seen = @ \cup page]
    BY DEF ReadPage
  <1>2. page \subseteq Ids /\ pager \in Pager /\ pager.since <= clock
    BY DEF Page, Present, BoardInv, BoardTyped
  <1>3. \A j \in Present(map) :
          Cardinality(Later(map, j)) \in pager.offset .. pager.offset + pager.limit - 1
            => j \in page
    BY DEF Page
  <1> HIDE DEF page
  <1>4. pager' \in Pager /\ pager'.since <= clock
    <2>1. /\ pager.offset \in Nat /\ pager.limit \in 1 .. MaxPage /\ pager.seen \subseteq Ids
      BY <1>2 DEF Pager
    <2>2. pager.offset + pager.limit \in Nat /\ (pager.seen \cup page) \in SUBSET Ids
      BY <1>2, <2>1, BoardAssumption
    <2> QED BY <1>1, <1>2, <2>2 DEF Pager
  <1>5. Pages'
    <2> SUFFICES ASSUME pager'.active, ~pager'.shifted,
                        NEW j \in Present(map'), map'[j].updated < pager'.since,
                        j \notin pager'.seen
                 PROVE  Cardinality(Later(map', j)) >= pager'.offset
      BY DEF Pages
    <2>1. /\ pager.active /\ ~pager.shifted /\ j \in Present(map)
          /\ map[j].updated < pager.since /\ j \notin pager.seen /\ j \notin page
          /\ pager'.offset = pager.offset + pager.limit
      BY <1>1, <1>2 DEF Pager
    <2>2. Cardinality(Later(map, j)) >= pager.offset
      BY <2>1 DEF BoardInv, Pages
    <2>3. Cardinality(Later(map, j)) \in Nat
      BY <2>1, LaterFinite DEF BoardInv, BoardTyped, Present
    <2>4. /\ pager.offset \in Nat /\ pager.limit \in Nat
          /\ Cardinality(Later(map, j))
               \notin pager.offset .. pager.offset + pager.limit - 1
      BY <1>2, <1>3, <2>1, BoardAssumption DEF Pager
    <2>5. Cardinality(Later(map, j)) >= pager.offset + pager.limit
      BY <2>2, <2>3, <2>4
    <2> QED BY <1>1, <2>1, <2>5
  <1> QED BY <1>1, <1>4, <1>5, OnlyPager DEF BoardInv

LEMMA StopPagingKeeps ==
  ASSUME BoardInv, StopPaging
  PROVE  BoardInv'
  <1>1. UNCHANGED <<map, queue, clock, issued, request, raced>> /\ pager' = NoPager
    BY DEF StopPaging
  <1>2. pager' \in Pager /\ pager'.since <= clock /\ ~pager'.active
    BY <1>1, BoardAssumption DEF NoPager, Pager, BoardInv, BoardTyped
  <1>3. Pages'
    BY <1>2 DEF Pages
  <1> QED BY <1>1, <1>2, <1>3, OnlyPager DEF BoardInv

------------------------------------------------------------------------------
(* The theorems *)

\* At the start there are no jobs and no requests.
LEMMA InitHolds == BoardInit => BoardInv
  <1> SUFFICES ASSUME BoardInit PROVE BoardInv
    OBVIOUS
  <1> USE DEF BoardInit
  <1>1. BoardTyped
    <2>1. NoPager \in Pager /\ NoPager.since = 0
      BY BoardAssumption DEF NoPager, Pager
    <2>2. Present(map) = {}
      BY DEF Present
    <2> QED BY <2>1, <2>2, BoardAssumption DEF BoardTyped
  <1>2. Submissions
    BY DEF Submissions, Submission
  <1>3. Room /\ FullOnlyByRace
    BY DEF Room, RoomFor, FullOnlyByRace
  <1>4. Pages
    BY DEF Pages, NoPager
  <1> QED BY <1>1, <1>2, <1>3, <1>4 DEF BoardInv

\* Every step keeps the invariant.
LEMMA StepHolds == BoardInv /\ [BoardNext]_board => BoardInv'
  <1> SUFFICES ASSUME BoardInv, [BoardNext]_board PROVE BoardInv'
    OBVIOUS
  <1>1. CASE TakeJob
    BY <1>1, TakeJobKeeps
  <1>2. CASE \E j \in Ids : FinishJob(j)
    BY <1>2, FinishJobKeeps
  <1>3. ASSUME NEW c \in Clients,
               Submit(c) \/ Decide(c) \/ CheckCapacity(c) \/ InsertNext(c)
                 \/ AppendNext(c) \/ SendNext(c) \/ BatchAction(c) \/ ActOnNext(c)
                 \/ DropRequest(c)
        PROVE  BoardInv'
    BY <1>3, SubmitKeeps, DecideKeeps, CheckCapacityKeeps, InsertNextKeeps,
       AppendNextKeeps, SendNextKeeps, BatchActionKeeps, ActOnNextKeeps, DropRequestKeeps
  <1>4. CASE Paging
    BY <1>4, StartPagingKeeps, ReadPageKeeps, StopPagingKeeps DEF Paging
  <1>5. CASE UNCHANGED board
    <2>1. UNCHANGED <<map, queue, clock, issued, request, raced, pager>>
      BY <1>5 DEF board, request
    <2>2. Pages'
      BY <2>1, SamePages DEF BoardInv
    <2>3. pager' \in Pager /\ pager'.since <= clock
      BY <2>1 DEF BoardInv, BoardTyped
    <2> QED BY <2>1, <2>2, <2>3, OnlyPager DEF BoardInv
  <1> QED BY <1>1, <1>2, <1>3, <1>4, <1>5 DEF BoardNext, Moves

\* The inductive invariant holds in every state: requests keep to what they
\* have decided and checked, the list to what a paging client has passed.
THEOREM BoardInductive == BoardSpec => []BoardInv
  <1>1. BoardInit => BoardInv
    BY InitHolds
  <1>2. BoardInv /\ [BoardNext]_board => BoardInv'
    BY StepHolds
  <1> QED BY <1>1, <1>2, PTL DEF BoardSpec

\* Whatever the requests in flight and the size of the queue: a submission whose
\* URLs found room is only ever refused half-way when somebody else enqueued
\* since (ensure_queue_capacity, send_queued_request).
THEOREM FullOnlyAfterRace == BoardSpec => []FullOnlyByRace
  <1>1. BoardInv => FullOnlyByRace
    BY DEF BoardInv
  <1> QED BY <1>1, BoardInductive, PTL

\* Whatever the page size and however many jobs come, change and go meanwhile: at
\* the end of the list the client has seen every job that did not change
\* (list_job_records, collect_job_records).
THEOREM PagingSeesAll == BoardSpec => []PagingMissesNothing
  <1>1. BoardInv => PagingMissesNothing
    <2> SUFFICES ASSUME BoardInv, EndOfList, ~pager.shifted, NEW j \in Present(map),
                        map[j].updated < pager.since, j \notin pager.seen
                 PROVE  FALSE
      BY DEF PagingMissesNothing
    <2>1. pager.active /\ pager.offset >= Cardinality(Present(map)) /\ pager.offset \in Nat
      BY DEF EndOfList, BoardInv, BoardTyped, Pager
    <2>2. Cardinality(Later(map, j)) >= pager.offset
      BY <2>1 DEF BoardInv, Pages
    <2>3. j \in Ids /\ map \in [Ids -> Record \cup {NoJob}] /\ map[j].updated \in Nat
      BY DEF BoardInv, BoardTyped, Present, Record
    <2>4. /\ IsFiniteSet(Present(map)) /\ Cardinality(Present(map)) \in Nat
          /\ Cardinality(Later(map, j)) \in Nat
      BY <2>3, LaterFinite
    <2>5. Later(map, j) \in SUBSET (Present(map) \ {j})
      BY <2>3 DEF Later
    <2>6. /\ IsFiniteSet(Present(map) \ {j})
          /\ Cardinality(Present(map) \ {j}) = Cardinality(Present(map)) - 1
      BY <2>4, FS_RemoveElement
    <2>7. Cardinality(Later(map, j)) <= Cardinality(Present(map) \ {j})
      BY <2>5, <2>6, FS_Subset
    <2> QED BY <2>1, <2>2, <2>4, <2>6, <2>7
  <1> QED BY <1>1, BoardInductive, PTL

\* The invariant gives the types.
LEMMA BoardTypesHold == BoardInv => BoardTypeOK
  <1> SUFFICES ASSUME BoardInv PROVE BoardTypeOK
    OBVIOUS
  <1>1. ASSUME NEW c \in Clients
        PROVE  DOMAIN todo[c] = 1 .. Len(todo[c]) /\ DOMAIN done[c] = 1 .. Len(done[c])
    <2>1. Submission(c) /\ pc[c] \in Stages
      BY DEF BoardInv, Submissions, BoardTyped
    <2> QED BY <2>1 DEF Submission
  <1> QED BY <1>1 DEF BoardInv, BoardTyped, BoardTypeOK, Pager

\* The variables keep their types, for any queue, clients and pages.
THEOREM BoardTypes == BoardSpec => []BoardTypeOK
  BY BoardInductive, BoardTypesHold, PTL

------------------------------------------------------------------------------
(* Job queries: pages and what they offer *)

\* What matches, and what a detail page offers, without the variables.
Fits(st, f, j) ==
  /\ f.status = Unset \/ st[j] = f.status
  /\ f.site \in {Unset, Empty} \/ SiteOf[j] = f.site
  /\ f.word \in {Unset, Empty} \/ f.word \in WordsOf[j]
Found(st, rec, f) == Filter(rec, {j \in Shown : Fits(st, f, j)})
Offer(st, j) ==
  {b \in {"cancel", "retry", "delete", "redeliver"} :
     CASE b = "cancel" -> IsCancelable(st[j])
       [] b = "retry" -> IsRetryable(st[j])
       [] b = "delete" -> IsDeletable(st[j])
       [] b = "redeliver" -> j \in Watching /\ st[j] \notin {"queued", "running", "deleted"}}

\* The map lists every job that was not evicted, once.
MapOK(st, rec) ==
  /\ st \in [Shown -> Statuses \cup {"evicted"}]
  /\ rec \in Seq(Shown) /\ Injective(rec) /\ ToSet(rec) = {j \in Shown : st[j] # "evicted"}

\* Where a page ends.
Upto(list, offset, limit) == IF offset + limit < Len(list) THEN offset + limit ELSE Len(list)

\* The pages of the list, and of one job.
ListShape ==
  [kind : {"list"}, filter : [status : StatusParams, site : SiteParams, word : WordParams],
   offset : Nat, limit : 1 .. LongestPage, jobs : Seq(Shown), hasPrevious : BOOLEAN,
   previous : Nat, hasNext : BOOLEAN, next : Nat, from : Nat, walked : Seq(Shown),
   fresh : BOOLEAN]
DetailShape ==
  [kind : {"detail"}, job : Shown, fresh : BOOLEAN,
   offers : SUBSET {"cancel", "retry", "delete", "redeliver"}]

\* The next page of a fresh list, and what a reader who began at its start has seen.
Walks(found, p) ==
  /\ p.next = NextOffset(p.offset, p.limit) /\ p.hasNext = (p.next < Len(found))
  /\ p.from = 0 => /\ p.offset = 0 \/ p.offset < Len(found)
                   /\ p.walked = SubSeq(found, 1, Upto(found, p.offset, p.limit))

PageOK(st, rec, p) ==
  \/ p \in ListShape /\ (p.fresh => Walks(Found(st, rec, p.filter), p))
  \/ p \in DetailShape /\ (p.fresh => st[p.job] # "evicted" /\ p.offers = Offer(st, p.job))

\* The inductive invariant.
QueriesInv ==
  MapOK(status, recency) /\ (screen # NoPage => PageOK(status, recency, screen))

\* Found is what the handlers collect.
LEMMA FoundIsCollected ==
  ASSUME NEW f
  PROVE  Collected(f) = Found(status, recency, f)
BY DEF Collected, Found, Matches, Fits

\* Offer is what the detail page shows.
LEMMA OfferIsOffered ==
  ASSUME NEW j
  PROVE  Offered(j) = Offer(status, j)
BY DEF Offered, Offer, Buttons

\* A list of different jobs is no longer than there are jobs.
LEMMA ShortList ==
  ASSUME NEW s \in Seq(Shown), Injective(s)
  PROVE  Len(s) \in Nat /\ Len(s) <= Cardinality(Shown)
<1> DEFINE I == 1 .. Len(s)
<1>1. Len(s) \in Nat /\ IsFiniteSet(Shown)
  BY QueriesAssumption
<1>2. s \in [I -> Shown]
  BY <1>1
<1>3. s \in Injection(I, Shown)
  BY <1>2 DEF Injective, Injection, IsInjective
<1>4. Cardinality(I) <= Cardinality(Shown)
  BY <1>1, <1>3, FS_Injection
<1>5. Cardinality(I) = Len(s)
  <2> DEFINE n == Len(s)
  <2> HIDE DEF n
  <2>1. n \in Int /\ 1 \in Int /\ n \in Nat
    BY <1>1 DEF n
  <2>2. Cardinality(1 .. n) = IF 1 > n THEN 0 ELSE (n - 1) + 1
    BY <2>1, FS_Interval
  <2>3. Cardinality(1 .. n) = n
    BY <2>1, <2>2
  <2> QED
    BY <2>3 DEF n
<1> QED
  BY <1>1, <1>4, <1>5

\* What a filter finds, with a page of it, can be counted in a usize.
LEMMA FoundShort ==
  ASSUME NEW st, NEW rec, MapOK(st, rec), NEW f
  PROVE  /\ Found(st, rec, f) \in Seq(Shown) /\ Len(Found(st, rec, f)) \in Nat
         /\ Len(Found(st, rec, f)) + LongestPage < Word
<1> DEFINE set == {j \in Shown : Fits(st, f, j)}
           s == Filter(rec, set)
<1>1. rec \in Seq(Shown) /\ Injective(rec)
  BY DEF MapOK
<1> HIDE DEF set
<1>2. s \in Seq(Shown) /\ Injective(s)
  BY <1>1, FilteredList
<1>3. Len(s) \in Nat /\ Len(s) <= Cardinality(Shown)
  BY <1>2, ShortList
<1> DEFINE k == Cardinality(Shown)
<1>4. k \in Nat /\ LongestPage \in Nat /\ Word \in Nat /\ k + LongestPage < Word
  BY QueriesAssumption, FS_CardinalityType
<1> DEFINE l == Len(s)
<1> HIDE DEF k, l
<1>5. l \in Nat /\ l <= k
  BY <1>3 DEF l, k
<1>6. l + LongestPage < Word
  BY <1>4, <1>5
<1> QED
  BY <1>2, <1>5, <1>6 DEF l, Found, set

\* A page is in order if its offset is the start, or follows the pages before.
LEMMA ListPageOK ==
  ASSUME MapOK(status, recency),
         NEW f \in [status : StatusParams, site : SiteParams, word : WordParams],
         NEW offset \in Nat, NEW limit \in 1 .. LongestPage, NEW from \in Nat,
         NEW walked \in Seq(Shown),
         NEW found, found = Found(status, recency, f),
         from = 0 => \/ offset = 0 /\ walked = <<>>
                     \/ offset < Len(found) /\ walked = SubSeq(found, 1, offset)
  PROVE  PageOK(status, recency, ListPage(f, offset, limit, from, walked))
<1> DEFINE n == Len(found)
           upto == Upto(found, offset, limit)
           jobs == SubSeq(found, offset + 1, upto)
           next == NextOffset(offset, limit)
           p == ListPage(f, offset, limit, from, walked)
<1>1. found \in Seq(Shown) /\ n \in Nat
  BY FoundShort
<1>2. limit \in Nat /\ Word \in Nat \ {0}
  <2>1. LongestPage \in Nat /\ Word \in Nat /\ Cardinality(Shown) \in Nat
        /\ Cardinality(Shown) + LongestPage < Word /\ LongestPage # 0
    BY QueriesAssumption, FS_CardinalityType
  <2> DEFINE k == Cardinality(Shown)
  <2> HIDE DEF k
  <2>2. k \in Nat /\ k + LongestPage < Word
    BY <2>1 DEF k
  <2> QED
    BY <2>1, <2>2
<1>3. upto \in Nat /\ upto <= n
  <2> HIDE DEF n
  <2>1. upto = IF offset + limit < n THEN offset + limit ELSE n
    BY DEF Upto, n
  <2> QED
    BY <2>1, <1>1, <1>2
<1>4. jobs \in Seq(Shown)
  BY <1>1, <1>3
<1>5. next \in Nat
  BY <1>2 DEF NextOffset
<1>6. PreviousOffset(offset, limit) \in Nat
  BY <1>2 DEF PreviousOffset
<1>7. jobs = SkipTake(Collected(f), offset, limit) /\ Collected(f) = found
  BY FoundIsCollected DEF SkipTake, Upto
<1>8. p = [kind |-> "list", filter |-> f, offset |-> offset, limit |-> limit, jobs |-> jobs,
           hasPrevious |-> offset > 0, previous |-> PreviousOffset(offset, limit),
           hasNext |-> next < n, next |-> next,
           from |-> from, walked |-> walked \o jobs, fresh |-> TRUE]
  BY <1>7 DEF ListPage
<1>9. (offset > 0) \in BOOLEAN /\ (next < n) \in BOOLEAN
  OBVIOUS
<1>10. walked \o jobs \in Seq(Shown)
  BY <1>4
<1>11. from = 0 => walked \o jobs = SubSeq(found, 1, upto)
  <2> SUFFICES ASSUME from = 0 PROVE walked \o jobs = SubSeq(found, 1, upto)
    OBVIOUS
  <2>1. CASE offset = 0 /\ walked = <<>>
    <3>1. <<>> \o jobs = jobs
      BY <1>4
    <3> QED
      BY <3>1, <2>1
  <2>2. CASE offset < Len(found) /\ walked = SubSeq(found, 1, offset)
    <3>1. offset <= upto
      <4> HIDE DEF n
      <4>1. upto = IF offset + limit < n THEN offset + limit ELSE n
        BY DEF Upto, n
      <4>2. offset < n
        BY <2>2 DEF n
      <4> QED
        BY <4>1, <4>2, <1>1, <1>2
    <3>2. SubSeq(found, 1, offset) \o SubSeq(found, offset + 1, upto) = SubSeq(found, 1, upto)
      <4> HIDE DEF upto
      <4>1. offset \in 1 - 1 .. upto /\ upto \in 1 - 1 .. Len(found) /\ 1 \in 1 .. Len(found) + 1
        BY <3>1, <1>1, <1>3
      <4> QED
        BY <4>1, <1>1, <1>3, <3>1, ConcatAdjacentSubSeq
    <3> QED
      BY <3>2, <2>2
  <2> QED
    BY <2>1, <2>2
<1> HIDE DEF n, upto, jobs, next
<1>12. p \in ListShape
  BY <1>4, <1>5, <1>6, <1>8, <1>9, <1>10 DEF ListShape
<1>13. Walks(found, p)
  <2>1. p.offset = offset /\ p.limit = limit /\ p.from = from /\ p.walked = walked \o jobs
        /\ p.next = next /\ p.hasNext = (next < n)
    BY <1>8
  <2>2. from = 0 => offset = 0 \/ offset < n
    BY DEF n
  <2> HIDE DEF p
  <2> QED
    BY <2>1, <2>2, <1>11 DEF Walks, n, next, upto
<1>14. p.filter = f
  BY <1>8
<1> HIDE DEF p
<1>15. PageOK(status, recency, p)
  BY <1>12, <1>13, <1>14 DEF PageOK
<1> QED
  BY <1>15 DEF p

\* A reader who has come to the end has seen everything.
LEMMA WalkedAll ==
  ASSUME NEW st, NEW rec, MapOK(st, rec), NEW p \in ListShape, p.fresh,
         Walks(Found(st, rec, p.filter), p), p.from = 0
  PROVE  /\ ~p.hasNext => p.walked = Found(st, rec, p.filter)
         /\ p.hasNext => p.next < Len(Found(st, rec, p.filter))
                         /\ p.walked = SubSeq(Found(st, rec, p.filter), 1, p.next)
<1> DEFINE found == Found(st, rec, p.filter)
           n == Len(found)
           offset == p.offset
           limit == p.limit
           upto == Upto(found, offset, limit)
<1>1. found \in Seq(Shown) /\ n \in Nat /\ n + LongestPage < Word
  BY FoundShort
<1>2. offset \in Nat /\ limit \in Nat /\ limit <= LongestPage /\ LongestPage \in Nat
      /\ Word \in Nat /\ limit # 0
  BY QueriesAssumption DEF ListShape
<1>3. /\ p.next = NextOffset(offset, limit) /\ p.hasNext = (p.next < n)
      /\ offset = 0 \/ offset < n
      /\ p.walked = SubSeq(found, 1, upto)
  BY DEF Walks
<1>4. upto = IF offset + limit < n THEN offset + limit ELSE n
  BY DEF Upto
<1> HIDE DEF n, offset, limit, upto
<1>5. offset + limit < Word
  BY <1>1, <1>2, <1>3
<1>6. p.next = offset + limit
  BY <1>2, <1>3, <1>5 DEF NextOffset
<1>7. ASSUME ~p.hasNext
      PROVE  p.walked = found
  <2>1. upto = n
    BY <1>1, <1>2, <1>3, <1>4, <1>6, <1>7
  <2>2. SubSeq(found, 1, Len(found)) = found
    BY <1>1, SubSeqFull
  <2> QED
    BY <2>1, <2>2, <1>3 DEF n
<1>8. ASSUME p.hasNext
      PROVE  p.next < n /\ p.walked = SubSeq(found, 1, p.next)
  <2>1. p.next < n
    BY <1>3, <1>8
  <2>2. upto = p.next
    BY <2>1, <1>4, <1>6
  <2> QED
    BY <2>1, <2>2, <1>3
<1> QED
  BY <1>7, <1>8 DEF n

\* A list without its last element.
LEMMA FrontOfList ==
  ASSUME NEW S, NEW s \in Seq(S), s # <<>>, Injective(s)
  PROVE  /\ Front(s) \in Seq(S) /\ Injective(Front(s))
         /\ ToSet(Front(s)) = ToSet(s) \ {Last(s)} /\ Last(s) \in ToSet(s)
<1> DEFINE n == Len(s)
<1>1. n \in Nat /\ n # 0
  OBVIOUS
<1>2. Front(s) = SubSeq(s, 1, n - 1) /\ Last(s) = s[n]
  BY DEF Front, Last
<1>3. n \in 0 .. Len(s) /\ n - 1 \in 0 .. Len(s) /\ (n - 1) + 1 = n
  BY <1>1
<1>4. /\ SubSeq(s, 1, n - 1) \in Seq(S) /\ Injective(SubSeq(s, 1, n - 1))
      /\ ToSet(SubSeq(s, n, n)) = ToSet(s) \ ToSet(SubSeq(s, 1, n - 1))
      /\ ToSet(SubSeq(s, 1, n - 1)) \subseteq ToSet(s)
  BY <1>3, CutInTwo
<1>5. ToSet(SubSeq(s, n, n)) = ToSet(SubSeq(s, n + 1, n)) \cup {s[n]}
  BY <1>1, <1>3, CutInTwo
<1>6. ToSet(SubSeq(s, n + 1, n)) = {}
  BY <1>1 DEF ToSet
<1>7. ToSet(s) \ ToSet(SubSeq(s, 1, n - 1)) = {Last(s)}
  BY <1>2, <1>4, <1>5, <1>6
<1> QED
  BY <1>2, <1>4, <1>7

\* A list with a new element in front.
LEMMA PrependedList ==
  ASSUME NEW S, NEW s \in Seq(S), Injective(s), NEW e \in S, e \notin ToSet(s)
  PROVE  /\ <<e>> \o s \in Seq(S) /\ Injective(<<e>> \o s)
         /\ ToSet(<<e>> \o s) = ToSet(s) \cup {e}
<1> DEFINE t == <<e>> \o s
           n == Len(s)
<1>1. n \in Nat /\ t \in Seq(S) /\ Len(t) = n + 1 /\ DOMAIN s = 1 .. n
  OBVIOUS
<1>2. t[1] = e
  OBVIOUS
<1>3. \A i \in 1 .. n : t[i + 1] = s[i]
  OBVIOUS
<1>4. DOMAIN t = 1 .. (n + 1)
  BY <1>1
<1>5. \A i, k \in 1 .. n : s[i] = s[k] => i = k
  BY DEF Injective
<1>6. \A i \in 1 .. n : s[i] # e
  BY <1>1 DEF ToSet
<1> HIDE DEF t, n
<1>7. \A i \in 1 .. (n + 1) : i = 1 \/ (i - 1 \in 1 .. n /\ t[i] = s[i - 1])
  <2> SUFFICES ASSUME NEW i \in 1 .. (n + 1), i # 1
               PROVE  i - 1 \in 1 .. n /\ t[i] = s[i - 1]
    OBVIOUS
  <2>1. i - 1 \in 1 .. n /\ (i - 1) + 1 = i
    BY <1>1
  <2>2. t[(i - 1) + 1] = s[i - 1]
    BY <2>1, <1>3
  <2> QED
    BY <2>1, <2>2
<1>8. Injective(t)
  <2> SUFFICES ASSUME NEW i \in 1 .. (n + 1), NEW k \in 1 .. (n + 1), t[i] = t[k]
               PROVE  i = k
    BY <1>1 DEF Injective
  <2>1. CASE i = 1 \/ k = 1
    BY <2>1, <1>2, <1>6, <1>7
  <2>2. CASE i # 1 /\ k # 1
    <3>1. i - 1 \in 1 .. n /\ k - 1 \in 1 .. n /\ s[i - 1] = s[k - 1]
      BY <2>2, <1>7
    <3>2. i - 1 = k - 1
      BY <3>1, <1>5
    <3> QED
      BY <3>2, <1>1
  <2> QED
    BY <2>1, <2>2
<1>9. ToSet(t) = ToSet(s) \cup {e}
  <2>1. \A i \in 1 .. n : i + 1 \in 1 .. (n + 1)
    BY <1>1
  <2>2. 1 \in 1 .. (n + 1)
    BY <1>1
  <2>3. ToSet(s) \cup {e} \subseteq ToSet(t)
    BY <2>1, <2>2, <1>1, <1>2, <1>3, <1>4 DEF ToSet
  <2>4. ToSet(t) \subseteq ToSet(s) \cup {e}
    BY <1>1, <1>2, <1>4, <1>7 DEF ToSet
  <2> QED
    BY <2>3, <2>4
<1> QED
  BY <1>1, <1>8, <1>9 DEF t

\* A page that is left open while jobs change promises nothing any more.
LEMMA StaleOK ==
  ASSUME QueriesInv, screen # NoPage, NEW st, NEW rec
  PROVE  PageOK(st, rec, Stale)
<1>1. Stale = [screen EXCEPT !.fresh = FALSE]
  BY DEF Stale
<1>2. CASE screen \in ListShape
  <2>1. Stale \in ListShape /\ ~Stale.fresh
    BY <1>1, <1>2 DEF ListShape
  <2> QED
    BY <2>1 DEF PageOK
<1>3. CASE screen \in DetailShape
  <2>1. Stale \in DetailShape /\ ~Stale.fresh
    BY <1>1, <1>3 DEF DetailShape
  <2> QED
    BY <2>1 DEF PageOK
<1> QED
  BY <1>2, <1>3 DEF QueriesInv, PageOK

\* A job moves on, and to the front of the list.
LEMMA StepProgress ==
  ASSUME QueriesInv, NEW j \in Shown, Progress(j)
  PROVE  QueriesInv'
<1> DEFINE rest == Filter(recency, Shown \ {j})
<1>1. MapOK(status, recency)
  BY DEF QueriesInv
<1>2. PICK s \in MayBecome(status[j]) : status' = [status EXCEPT ![j] = s]
  BY DEF Progress
<1>3. s \in Statuses /\ s # "evicted"
  BY <1>1, <1>2 DEF MayBecome, Statuses, MapOK
<1>4. /\ rest \in Seq(Shown) /\ Injective(rest)
      /\ ToSet(rest) = ToSet(recency) \cap (Shown \ {j})
  BY <1>1, FilteredList DEF MapOK
<1>5. recency' = <<j>> \o rest
  BY DEF Progress
<1> HIDE DEF rest
<1>6. j \notin ToSet(rest)
  BY <1>4
<1>7. /\ recency' \in Seq(Shown) /\ Injective(recency')
      /\ ToSet(recency') = ToSet(rest) \cup {j}
  BY <1>4, <1>5, <1>6, PrependedList
<1>8. status' \in [Shown -> Statuses \cup {"evicted"}]
  BY <1>1, <1>2, <1>3 DEF MapOK
<1>9. ToSet(recency') = {k \in Shown : status'[k] # "evicted"}
  BY <1>1, <1>2, <1>3, <1>4, <1>7 DEF MapOK
<1>10. MapOK(status', recency')
  BY <1>7, <1>8, <1>9 DEF MapOK
<1>11. screen' = Stale
  BY DEF Progress
<1>12. screen' # NoPage => PageOK(status', recency', screen')
  BY <1>11, StaleOK DEF Stale
<1> QED
  BY <1>10, <1>12 DEF QueriesInv

\* The job that changed longest ago is evicted.
LEMMA StepEvict ==
  ASSUME QueriesInv, Evict
  PROVE  QueriesInv'
<1> DEFINE j == Last(recency)
<1>1. MapOK(status, recency)
  BY DEF QueriesInv
<1>2. /\ recency # <<>> /\ recency' = Front(recency) /\ screen' = Stale
      /\ status' = [status EXCEPT ![j] = "evicted"]
  BY DEF Evict
<1>3. recency \in Seq(Shown) /\ Injective(recency)
  BY <1>1 DEF MapOK
<1>4. /\ recency' \in Seq(Shown) /\ Injective(recency')
      /\ ToSet(recency') = ToSet(recency) \ {j} /\ j \in ToSet(recency)
  BY <1>2, <1>3, FrontOfList
<1> HIDE DEF j
<1>5. status' \in [Shown -> Statuses \cup {"evicted"}]
  BY <1>1, <1>2 DEF MapOK
<1>6. ToSet(recency') = {k \in Shown : status'[k] # "evicted"}
  BY <1>1, <1>2, <1>4 DEF MapOK
<1>7. MapOK(status', recency')
  BY <1>4, <1>5, <1>6 DEF MapOK
<1>8. screen' # NoPage => PageOK(status', recency', screen')
  BY <1>2, StaleOK DEF Stale
<1> QED
  BY <1>7, <1>8 DEF QueriesInv

\* A page of one job.
LEMMA StepOpenDetail ==
  ASSUME QueriesInv, NEW j \in Shown, OpenDetail(j)
  PROVE  QueriesInv'
<1>1. UNCHANGED <<status, recency>> /\ screen' = DetailPage(j) /\ status[j] # "evicted"
  BY DEF OpenDetail
<1>2. DetailPage(j) \in DetailShape
  BY DEF DetailPage, DetailShape, Offered, Buttons
<1>3. PageOK(status, recency, DetailPage(j))
  BY <1>1, <1>2, OfferIsOffered DEF PageOK, DetailPage
<1> QED
  BY <1>1, <1>3 DEF QueriesInv

\* A page of the list, for any parameters.
LEMMA StepOpenList ==
  ASSUME QueriesInv, NEW f \in [status : StatusParams, site : SiteParams, word : WordParams],
         NEW offset \in OffsetParams, NEW limit \in LimitParams, OpenList(f, offset, limit)
  PROVE  QueriesInv'
<1> DEFINE shown == Between(limit, 1, LongestPage)
           page == ListPage(f, offset, shown, offset, <<>>)
<1>1. UNCHANGED <<status, recency>> /\ (screen' = page \/ screen' = NoPage)
  BY DEF OpenList
<1>2. offset \in Nat /\ shown \in 1 .. LongestPage
  BY QueriesAssumption DEF Between
<1>3. MapOK(status, recency)
  BY DEF QueriesInv
<1>4. <<>> \in Seq(Shown)
  OBVIOUS
<1> HIDE DEF shown
<1>5. PageOK(status, recency, page)
  BY <1>2, <1>3, <1>4, ListPageOK
<1> HIDE DEF page
<1> QED
  BY <1>1, <1>3, <1>5 DEF QueriesInv

\* The link to the next page.
LEMMA StepFollowNext ==
  ASSUME QueriesInv, FollowNext
  PROVE  QueriesInv'
<1> DEFINE p == screen
           found == Found(status, recency, p.filter)
<1>1. /\ UNCHANGED <<status, recency>> /\ p.kind = "list" /\ p.hasNext /\ p # NoPage
      /\ screen' = IF p.fresh
                     THEN ListPage(p.filter, p.next, p.limit, p.from, p.walked)
                     ELSE ListPage(p.filter, p.next, p.limit, p.next, <<>>)
  BY DEF FollowNext
<1>2. MapOK(status, recency) /\ PageOK(status, recency, p)
  BY <1>1 DEF QueriesInv
<1>3. p \in ListShape
  BY <1>1, <1>2 DEF PageOK, DetailShape
<1>4. p.fresh => Walks(found, p)
  BY <1>1, <1>2 DEF PageOK, DetailShape
<1>5. /\ p.filter \in [status : StatusParams, site : SiteParams, word : WordParams]
      /\ p.next \in Nat /\ p.limit \in 1 .. LongestPage /\ p.from \in Nat
      /\ p.walked \in Seq(Shown) /\ p.fresh \in BOOLEAN /\ <<>> \in Seq(Shown)
  BY <1>3 DEF ListShape
<1>6. CASE p.fresh
  <2>1. p.from = 0 => p.next < Len(found) /\ p.walked = SubSeq(found, 1, p.next)
    BY <1>1, <1>2, <1>3, <1>4, <1>6, WalkedAll
  <2>2. screen' = ListPage(p.filter, p.next, p.limit, p.from, p.walked)
    BY <1>1, <1>6
  <2> HIDE DEF p
  <2>3. PageOK(status, recency, ListPage(p.filter, p.next, p.limit, p.from, p.walked))
    BY <2>1, <1>2, <1>5, ListPageOK
  <2> QED
    BY <2>2, <2>3, <1>1, <1>2 DEF QueriesInv
<1>7. CASE ~p.fresh
  <2>1. screen' = ListPage(p.filter, p.next, p.limit, p.next, <<>>)
    BY <1>1, <1>7
  <2> HIDE DEF p
  <2>2. PageOK(status, recency, ListPage(p.filter, p.next, p.limit, p.next, <<>>))
    BY <1>2, <1>5, ListPageOK
  <2> QED
    BY <2>1, <2>2, <1>1, <1>2 DEF QueriesInv
<1> QED
  BY <1>6, <1>7

\* The link to the previous page.
LEMMA StepFollowPrevious ==
  ASSUME QueriesInv, FollowPrevious
  PROVE  QueriesInv'
<1> DEFINE p == screen
           page == ListPage(p.filter, p.previous, p.limit, p.previous, <<>>)
<1>1. UNCHANGED <<status, recency>> /\ p.kind = "list" /\ p # NoPage /\ screen' = page
  BY DEF FollowPrevious
<1>2. MapOK(status, recency) /\ PageOK(status, recency, p)
  BY <1>1 DEF QueriesInv
<1>3. p \in ListShape
  BY <1>1, <1>2 DEF PageOK, DetailShape
<1>4. /\ p.filter \in [status : StatusParams, site : SiteParams, word : WordParams]
      /\ p.previous \in Nat /\ p.limit \in 1 .. LongestPage /\ <<>> \in Seq(Shown)
  BY <1>3 DEF ListShape
<1> HIDE DEF p
<1>5. PageOK(status, recency, page)
  BY <1>2, <1>4, ListPageOK
<1> HIDE DEF page
<1> QED
  BY <1>1, <1>2, <1>5 DEF QueriesInv

\* At the start the map lists every job, and no page is open.
THEOREM QueriesInitially == QueriesInit => QueriesInv
<1> SUFFICES ASSUME QueriesInit PROVE QueriesInv
  OBVIOUS
<1> DEFINE k == Cardinality(Shown)
<1>1. k \in Nat /\ IsFiniteSet(Shown)
  BY QueriesAssumption, FS_CardinalityType
<1>2. recency \in [1 .. k -> Shown] /\ ToSet(recency) = Shown
  BY DEF QueriesInit
<1>3. IsFiniteSet(1 .. k) /\ Cardinality(1 .. k) = k
  <2> HIDE DEF k
  <2>1. Cardinality(1 .. k) = IF 1 > k THEN 0 ELSE (k - 1) + 1
    BY <1>1, FS_Interval
  <2> QED
    BY <2>1, <1>1, FS_Interval
<1>4. recency \in Surjection(1 .. k, Shown)
  <2> HIDE DEF k
  <2>1. DOMAIN recency = 1 .. k
    BY <1>2
  <2> QED
    BY <2>1, <1>2 DEF Surjection, ToSet
<1>5. recency \in Injection(1 .. k, Shown)
  BY <1>1, <1>3, <1>4, FS_SurjSameCardinalityImpliesInj
<1> HIDE DEF k
<1>6. recency \in Seq(Shown) /\ Len(recency) = k
  BY <1>1, <1>2
<1>7. Injective(recency)
  BY <1>5, <1>6 DEF Injective, Injection, IsInjective
<1>8. status = [j \in Shown |-> "queued"] /\ screen = NoPage
  BY DEF QueriesInit
<1>9. MapOK(status, recency)
  BY <1>2, <1>6, <1>7, <1>8 DEF MapOK, Statuses
<1> QED
  BY <1>8, <1>9 DEF QueriesInv

\* Every step keeps the invariant.
THEOREM QueriesStep == QueriesInv /\ [QueriesNext]_queries => QueriesInv'
<1> SUFFICES ASSUME QueriesInv, [QueriesNext]_queries PROVE QueriesInv'
  OBVIOUS
<1>1. ASSUME NEW j \in Shown, Progress(j)
      PROVE  QueriesInv'
  BY <1>1, StepProgress
<1>2. ASSUME NEW j \in Shown, OpenDetail(j)
      PROVE  QueriesInv'
  BY <1>2, StepOpenDetail
<1>3. CASE Evict
  BY <1>3, StepEvict
<1>4. CASE FollowNext
  BY <1>4, StepFollowNext
<1>5. CASE FollowPrevious
  BY <1>5, StepFollowPrevious
<1>6. CASE LeavePage
  BY <1>6 DEF LeavePage, QueriesInv
<1>7. ASSUME NEW s \in StatusParams, NEW p \in SiteParams, NEW w \in WordParams,
             NEW offset \in OffsetParams, NEW limit \in LimitParams,
             OpenList([status |-> s, site |-> p, word |-> w], offset, limit)
      PROVE  QueriesInv'
  <2> DEFINE f == [status |-> s, site |-> p, word |-> w]
  <2>1. f \in [status : StatusParams, site : SiteParams, word : WordParams]
    OBVIOUS
  <2> HIDE DEF f
  <2>2. OpenList(f, offset, limit)
    BY <1>7 DEF f
  <2> QED
    BY <2>1, <2>2, StepOpenList
<1>8. CASE UNCHANGED queries
  BY <1>8 DEF queries, QueriesInv
<1> QED
  BY <1>1, <1>2, <1>3, <1>4, <1>5, <1>6, <1>7, <1>8 DEF QueriesNext

\* In every reachable state the map lists the jobs that are left once, and a page that
\* no job has changed under shows what the handlers would show now: the next offset, and
\* to whoever began at the start everything up to it (list_jobs, JobListQuery).
THEOREM QueriesInvariant == QueriesSpec => []QueriesInv
<1>1. QueriesInit => QueriesInv
  BY QueriesInitially
<1>2. QueriesInv /\ [QueriesNext]_queries => QueriesInv'
  BY QueriesStep
<1> QED
  BY <1>1, <1>2, PTL DEF QueriesSpec

\* The invariant gives the types.
LEMMA QueriesTypesHold == QueriesInv => QueriesTypeOK
BY DEF QueriesInv, MapOK, PageOK, ListShape, DetailShape, QueriesTypeOK

\* The variables keep their types, for any jobs, filters, offsets and limits.
THEOREM QueriesTypes == QueriesSpec => []QueriesTypeOK
BY QueriesInvariant, QueriesTypesHold, PTL

\* A button on the detail page of a job that has not changed is not answered with a
\* complaint about the job, and fails only when something at the server does not work;
\* one that is missing would not have succeeded.  And who follows the links of a list
\* from its start to its end has seen every job that matches once and in order, for any
\* list and any page size (job_detail, list_page, next_offset): see OffersWork.
THEOREM OfferedWorks == QueriesSpec => []OffersWork
<1>1. QueriesInv => OffersWork
  <2> SUFFICES ASSUME QueriesInv, screen # NoPage, screen.fresh PROVE OffersWork
    BY DEF OffersWork
  <2>1. MapOK(status, recency) /\ PageOK(status, recency, screen)
    BY DEF QueriesInv
  <2>2. CASE screen.kind = "detail"
    <3>1. /\ screen \in DetailShape /\ status[screen.job] # "evicted"
          /\ screen.offers = Offer(status, screen.job)
      BY <2>1, <2>2 DEF PageOK, ListShape
    <3>2. screen.job \in Shown /\ status[screen.job] \in Statuses
      BY <2>1, <3>1 DEF DetailShape, MapOK
    <3>3. ASSUME NEW b \in Buttons, NEW server \in Servers
          PROVE  IF b \in Offer(status, screen.job)
                   THEN /\ AnswerTo(b, screen.job, server) \notin {"NotFound", "Conflict"}
                        /\ server = Works => AnswerTo(b, screen.job, server) = "OK"
                   ELSE AnswerTo(b, screen.job, server) = "OK" =>
                          b = "delete" /\ status[screen.job] = "deleted"
      <4> USE <3>2 DEF Offer, AnswerTo, OnTheJob, Works, Statuses, IsCancelable, IsRetryable,
                       IsDeletable
      <4>1. CASE b = "cancel"
        BY <4>1 DEF CancelAnswer
      <4>2. CASE b = "retry"
        BY <4>2 DEF RetryAnswer
      <4>3. CASE b = "delete"
        BY <4>3 DEF DeleteAnswer
      <4>4. CASE b = "redeliver"
        BY <4>4 DEF RedeliverAnswer
      <4> QED BY <4>1, <4>2, <4>3, <4>4 DEF Buttons
    <3> QED
      BY <2>2, <3>1, <3>3 DEF OffersWork
  <2>3. CASE screen.kind # "detail"
    <3>1. screen \in ListShape /\ Walks(Found(status, recency, screen.filter), screen)
      BY <2>1, <2>3 DEF PageOK, DetailShape
    <3>2. screen.from = 0 /\ ~screen.hasNext =>
            screen.walked = Found(status, recency, screen.filter)
      BY <2>1, <3>1, WalkedAll
    <3> QED
      BY <2>3, <3>2, FoundIsCollected DEF OffersWork
  <2> QED
    BY <2>2, <2>3
<1> QED
  BY <1>1, QueriesInvariant, PTL
==============================================================================
