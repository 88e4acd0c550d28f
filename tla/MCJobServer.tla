---------------------------- MODULE MCJobServer ----------------------------
(***************************************************************************)
(* Small instances of JobServer for TLC.                                   *)
(***************************************************************************)
EXTENDS JobServer, TLC

\* Every job's URL belongs to the one platform there is.
SamePlatform == [j \in Jobs |-> CHOOSE p \in Platforms : TRUE]

\* A policy with max_concurrent = 1, and one that never makes a worker wait.
OneAtATime == [p \in Platforms |-> 1]
Unlimited == [p \in Platforms |-> Cardinality(Workers)]

\* Jobs, workers and clients are interchangeable; nothing names one of them.
Symmetry ==
  Permutations(Jobs) \cup Permutations(Workers) \cup Permutations(Clients)
============================================================================
