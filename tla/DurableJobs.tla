---------------------------- MODULE DurableJobs ----------------------------
(***************************************************************************)
(* What the two metadata files promise together: a job that was accepted   *)
(* stays known until it is settled, a settled job keeps its final status   *)
(* (a download may still be deleted) until it is forgotten as one of the   *)
(* older records, and a damaged file is noticed instead of being misread.  *)
(***************************************************************************)
EXTENDS Naturals

CONSTANTS
  Jobs,
  Final     \* final statuses

VARIABLES
  durable,   \* what a restart would find for each job
  readable   \* whether it would find anything, instead of refusing to start

States == {"unknown", "queued"} \cup Final

Become(j, s) == durable' = [durable EXCEPT ![j] = s] /\ UNCHANGED readable

Accept(j) == durable[j] = "unknown" /\ Become(j, "queued")
\* A job that never reached the queue may be known by its failure alone.
Settle(j) == durable[j] \in {"unknown", "queued"} /\ \E s \in Final : Become(j, s)
Delete(j) == durable[j] \in Final /\ Become(j, "deleted")
\* Compaction drops older settled jobs, several at a time.
Forget == /\ \E gone \in SUBSET {j \in Jobs : durable[j] \in Final} :
               durable' = [j \in Jobs |-> IF j \in gone THEN "unknown" ELSE durable[j]]
          /\ UNCHANGED readable
Damage == readable' = FALSE /\ durable' \in [Jobs -> States]

Init == durable = [j \in Jobs |-> "unknown"] /\ readable = TRUE
Next == /\ readable
        /\ \/ \E j \in Jobs : Accept(j) \/ Settle(j) \/ Delete(j)
           \/ Forget
           \/ Damage
Spec == Init /\ [][Next \/ ~readable]_<<durable, readable>>
============================================================================
