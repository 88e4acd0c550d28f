------------------------------- MODULE Lists -------------------------------
(***************************************************************************)
(* A filter and a sum, as the iterator chains of the code compute them.    *)
(* The operators of the libraries take a predicate or an operator; these   *)
(* take a set and a function, and can be reasoned about.                   *)
(***************************************************************************)
EXTENDS Integers, Sequences

\* What passes of the first n elements of a list.
Passes(list, set) ==
  LET pass[n \in 0 .. Len(list)] ==
        IF n = 0 THEN <<>>
        ELSE IF list[n] \in set THEN Append(pass[n - 1], list[n]) ELSE pass[n - 1]
  IN  pass
\* The elements of a list that are in a set, in the order of the list: filter.
Filter(list, set) == Passes(list, set)[Len(list)]

\* The positions of a list, in their order: enumerate.
Positions(list) == [i \in 1 .. Len(list) |-> i]

\* The sums of the first numbers of a list.
Sums(numbers) ==
  LET sum[n \in 0 .. Len(numbers)] == IF n = 0 THEN 0 ELSE sum[n - 1] + numbers[n]
  IN  sum
\* The sum of a list: sum.
SumOf(numbers) == Sums(numbers)[Len(numbers)]
=============================================================================
