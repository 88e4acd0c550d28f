----------------------------- MODULE JobLedger -----------------------------
(***************************************************************************)
(* What the job core promises of one job, whatever the records say: it is  *)
(* offered once, admitted at most once, started at most once, settled for  *)
(* good, and no more downloads run at a time than there are workers, or    *)
(* than the policy of a platform allows.                                   *)
(***************************************************************************)
EXTENDS Naturals, FiniteSets

CONSTANTS
  Jobs,          \* uuids
  Capacity,      \* the number of workers
  Platforms, PlatformOf, MaxConcurrent

VARIABLE life    \* how far each job has come

Live == {"offered", "pending", "running"}
Life == {"new", "settled"} \cup Live

RunningJobs == {j \in Jobs : life[j] = "running"}
OfPlatform(p) == {j \in Jobs : PlatformOf[j] = p}

Move(j, from, to) ==
  /\ life[j] = from
  /\ life' = [life EXCEPT ![j] = to]

\* A request draws the uuid and inserts the record.
Offer(j) == Move(j, "new", "offered")

\* The request reaches the queue.
Admit(j) == Move(j, "offered", "pending")

\* A worker marks the job as running.
Start(j) ==
  /\ Move(j, "pending", "running")
  /\ Cardinality(RunningJobs) < Capacity
  /\ Cardinality(RunningJobs \cap OfPlatform(PlatformOf[j]))
       < MaxConcurrent[PlatformOf[j]]

\* The job is refused, skipped, dropped at shutdown, or finished.
Settle(j) == \E from \in Live : Move(j, from, "settled")

\* The process ends: nothing it held is ever taken up again.
Interrupt ==
  life' = [j \in Jobs |-> IF life[j] \in Live THEN "settled" ELSE life[j]]

Init == life = [j \in Jobs |-> "new"]

Next ==
  \/ \E j \in Jobs : Offer(j) \/ Admit(j) \/ Start(j) \/ Settle(j)
  \/ Interrupt

Spec == Init /\ [][Next]_life
============================================================================
