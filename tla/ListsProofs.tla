---------------------------- MODULE ListsProofs ----------------------------
(***************************************************************************)
(* What the filter and the sum of Lists return for every list.  Both are   *)
(* recursive functions; what holds of them is shown by counting up to the  *)
(* length of the list, and counting rests on the fact that the subsets of  *)
(* a finite set are well-founded, as a least counterexample would be one.  *)
(***************************************************************************)
EXTENDS Lists, SequencesExt, FiniteSetTheorems, TLAPS

------------------------------------------------------------------------------
(* Counting *)

\* Some set of every family of subsets of a finite set has no other below it.
LEMMA SmallestSet ==
  ASSUME NEW S, IsFiniteSet(S), NEW C, C \subseteq SUBSET S, C # {}
  PROVE  \E x \in C : \A y \in C : ~(y \subseteq x /\ y # x)
<1>1. FiniteSubsetsOf(S) = SUBSET S
  BY FS_FiniteSubsetsOfFinite
<1>2. IsWellFoundedOn(StrictSubsetOrdering(S), SUBSET S)
  BY <1>1, FS_StrictSubsetOrderingWellFounded
<1>3. PICK x \in C : \A y \in C : ~(<<y, x>> \in StrictSubsetOrdering(S))
  BY <1>2, WFMin
<1>4. ASSUME NEW y \in C, y \subseteq x, y # x
      PROVE  FALSE
  <2>1. <<y, x>> \in (SUBSET S) \X (SUBSET S)
    BY <1>3
  <2>2. <<y, x>> \in StrictSubsetOrdering(S)
    BY <2>1, <1>4 DEF StrictSubsetOrdering
  <2> QED
    BY <2>2, <1>3
<1> QED
  BY <1>3, <1>4

\* A set of natural numbers that is not empty has a least one.
LEMMA LeastNumber ==
  ASSUME NEW T, T \subseteq Nat, T # {}
  PROVE  \E n \in T : \A m \in T : n <= m
<1>1. PICK k \in T : TRUE
  OBVIOUS
<1> DEFINE D == 0 .. k
           C == {0 .. m : m \in {n \in T : n <= k}}
<1>2. C \subseteq SUBSET D /\ C # {}
  BY <1>1
<1>3. IsFiniteSet(D)
  BY <1>1, FS_Interval
<1> HIDE DEF C, D
<1>4. PICK x \in C : \A y \in C : ~(y \subseteq x /\ y # x)
  BY <1>2, <1>3, SmallestSet
<1>5. PICK n \in T : n <= k /\ x = 0 .. n
  BY <1>4 DEF C
<1>6. ASSUME NEW m \in T, m < n
      PROVE  FALSE
  <2>1. 0 .. m \in C
    BY <1>5, <1>6 DEF C
  <2>2. 0 .. m \subseteq 0 .. n /\ 0 .. m # 0 .. n
    BY <1>6
  <2> QED
    BY <2>1, <2>2, <1>4, <1>5
<1> QED
  BY <1>1, <1>5, <1>6

\* Induction up to n: what holds of 0, and of m when it holds of m - 1, holds of n.
LEMMA Counting ==
  ASSUME NEW n \in Nat, NEW T, 0 \in T,
         \A m \in 1 .. n : m - 1 \in T => m \in T
  PROVE  n \in T /\ 0 .. n \subseteq T
<1> DEFINE U == (0 .. n) \ T
<1> SUFFICES ASSUME U # {} PROVE FALSE
  OBVIOUS
<1>1. PICK m \in U : \A k \in U : m <= k
  <2>1. U \subseteq Nat
    OBVIOUS
  <2> HIDE DEF U
  <2> QED
    BY <2>1, LeastNumber
<1> QED
  BY <1>1

------------------------------------------------------------------------------
(* The filter *)

\* p is what Passes describes, for the first m elements.
PassesTo(p, list, set, m) ==
  p = [n \in 0 .. m |->
         IF n = 0 THEN <<>>
         ELSE IF list[n] \in set THEN Append(p[n - 1], list[n]) ELSE p[n - 1]]

\* A solution for m - 1 elements extends to one for m.
LEMMA PassesExtended ==
  ASSUME NEW list, NEW set, NEW m \in Nat \ {0}, NEW p, PassesTo(p, list, set, m - 1)
  PROVE  \E q : PassesTo(q, list, set, m)
<1> DEFINE q == [n \in 0 .. m |->
                   IF n < m THEN p[n]
                   ELSE IF list[m] \in set THEN Append(p[m - 1], list[m]) ELSE p[m - 1]]
<1>1. \A n \in 0 .. (m - 1) :
        p[n] = IF n = 0 THEN <<>>
               ELSE IF list[n] \in set THEN Append(p[n - 1], list[n]) ELSE p[n - 1]
  BY DEF PassesTo
<1>2. \A n \in 0 .. (m - 1) : q[n] = p[n]
  OBVIOUS
<1>3. q[m] = IF list[m] \in set THEN Append(p[m - 1], list[m]) ELSE p[m - 1]
  OBVIOUS
<1>4. DOMAIN q = 0 .. m /\ q = [n \in DOMAIN q |-> q[n]]
  OBVIOUS
<1> HIDE DEF q
<1>5. ASSUME NEW n \in 0 .. m
      PROVE  q[n] = IF n = 0 THEN <<>>
                    ELSE IF list[n] \in set THEN Append(q[n - 1], list[n]) ELSE q[n - 1]
  <2>1. CASE n = m
    BY <2>1, <1>2, <1>3
  <2>2. CASE n # m
    BY <2>2, <1>1, <1>2
  <2> QED
    BY <2>1, <2>2
<1>6. PassesTo(q, list, set, m)
  BY <1>4, <1>5 DEF PassesTo
<1> QED
  BY <1>6

\* The recursion that Passes describes has a solution.
LEMMA PassesDefined ==
  ASSUME NEW list, Len(list) \in Nat, NEW set
  PROVE  /\ Passes(list, set)[0] = <<>>
         /\ \A n \in 1 .. Len(list) :
              Passes(list, set)[n] =
                IF list[n] \in set THEN Append(Passes(list, set)[n - 1], list[n])
                ELSE Passes(list, set)[n - 1]
<1> DEFINE T == {m \in Nat : \E p : PassesTo(p, list, set, m)}
           k == Len(list)
<1>1. 0 \in T
  <2> DEFINE p == [n \in 0 .. 0 |-> <<>>]
  <2>1. PassesTo(p, list, set, 0)
    BY DEF PassesTo
  <2> QED
    BY <2>1
<1>2. \A m \in 1 .. k : m - 1 \in T => m \in T
  BY PassesExtended
<1> HIDE DEF T, k
<1>3. k \in T
  <2>1. k \in Nat
    BY DEF k
  <2> QED
    BY <2>1, <1>1, <1>2, Counting
<1>4. \E p : PassesTo(p, list, set, k)
  BY <1>3 DEF T
<1>5. Passes(list, set) = CHOOSE p : PassesTo(p, list, set, k)
  BY DEF Passes, PassesTo, k
<1> DEFINE p == Passes(list, set)
<1>6. PassesTo(p, list, set, k)
  BY <1>4, <1>5
<1>7. k \in Nat
  BY DEF k
<1> HIDE DEF p
<1>8. p[0] = <<>> /\ \A n \in 1 .. k :
              p[n] = IF list[n] \in set THEN Append(p[n - 1], list[n]) ELSE p[n - 1]
  <2>1. ASSUME NEW n \in 0 .. k
        PROVE  p[n] = IF n = 0 THEN <<>>
                      ELSE IF list[n] \in set THEN Append(p[n - 1], list[n]) ELSE p[n - 1]
    BY <1>6 DEF PassesTo
  <2> QED
    BY <2>1, <1>7
<1> QED
  BY <1>8 DEF p, k

\* The positions at which the elements of s are found among the first n of list.
PickedAt(at, s, list, set, n) ==
  /\ at \in [1 .. Len(s) -> 1 .. n]
  /\ \A k \in 1 .. Len(s) : at[k] >= k /\ s[k] = list[at[k]] /\ s[k] \in set
  /\ \A k, l \in 1 .. Len(s) : k < l => at[k] < at[l]
  /\ \A i \in 1 .. n : list[i] \in set => \E k \in 1 .. Len(s) : at[k] = i

\* One more element of the list: it is taken if it is in the set.
LEMMA PickOne ==
  ASSUME NEW S, NEW list \in Seq(S), NEW set, NEW n \in 1 .. Len(list),
         NEW s \in Seq(S), NEW at, PickedAt(at, s, list, set, n - 1), Len(s) <= n - 1,
         NEW t, t = IF list[n] \in set THEN Append(s, list[n]) ELSE s
  PROVE  t \in Seq(S) /\ Len(t) <= n /\ \E b : PickedAt(b, t, list, set, n)
<1>1. CASE list[n] \notin set
  <2>1. PickedAt(at, s, list, set, n)
    <3>1. at \in [1 .. Len(s) -> 1 .. n]
      BY DEF PickedAt
    <3>2. \A i \in 1 .. n : list[i] \in set => i \in 1 .. (n - 1)
      BY <1>1
    <3> QED
      BY <3>1, <3>2 DEF PickedAt
  <2> QED
    BY <1>1, <2>1
<1>2. CASE list[n] \in set
  <2> DEFINE m == Len(s)
             b == [k \in 1 .. m + 1 |-> IF k <= m THEN at[k] ELSE n]
  <2>1. /\ t = Append(s, list[n]) /\ list[n] \in S /\ m \in Nat
        /\ t \in Seq(S) /\ Len(t) = m + 1 /\ t[m + 1] = list[n]
        /\ \A k \in 1 .. m : t[k] = s[k]
    BY <1>2
  <2>2. \A k \in 1 .. m : at[k] \in 1 .. (n - 1)
    BY DEF PickedAt
  <2>3. b \in [1 .. Len(t) -> 1 .. n] /\ b[m + 1] = n /\ \A k \in 1 .. m : b[k] = at[k]
    BY <2>1, <2>2
  <2> HIDE DEF b
  <2>4. \A k \in 1 .. Len(t) : b[k] >= k /\ t[k] = list[b[k]] /\ t[k] \in set
    <3> SUFFICES ASSUME NEW k \in 1 .. Len(t)
                 PROVE  b[k] >= k /\ t[k] = list[b[k]] /\ t[k] \in set
      OBVIOUS
    <3>1. CASE k = m + 1
      BY <3>1, <2>1, <2>3, <1>2
    <3>2. CASE k \in 1 .. m
      BY <3>2, <2>1, <2>3 DEF PickedAt
    <3> QED
      BY <3>1, <3>2, <2>1
  <2>5. \A k, l \in 1 .. Len(t) : k < l => b[k] < b[l]
    <3> SUFFICES ASSUME NEW k \in 1 .. Len(t), NEW l \in 1 .. Len(t), k < l
                 PROVE  b[k] < b[l]
      OBVIOUS
    <3>1. k \in 1 .. m /\ (l = m + 1 \/ l \in 1 .. m)
      BY <2>1
    <3>2. CASE l = m + 1
      <4>1. b[k] = at[k] /\ b[l] = n /\ at[k] \in 1 .. (n - 1) /\ n \in Nat
        BY <3>1, <3>2, <2>2, <2>3
      <4> QED
        BY <4>1
    <3>3. CASE l \in 1 .. m
      BY <3>1, <3>3, <2>3 DEF PickedAt
    <3> QED
      BY <3>1, <3>2, <3>3
  <2>6. \A i \in 1 .. n : list[i] \in set => \E k \in 1 .. Len(t) : b[k] = i
    <3> SUFFICES ASSUME NEW i \in 1 .. n, list[i] \in set
                 PROVE  \E k \in 1 .. Len(t) : b[k] = i
      OBVIOUS
    <3>1. CASE i = n
      BY <3>1, <2>1, <2>3
    <3>2. CASE i # n
      <4>1. PICK k \in 1 .. m : at[k] = i
        BY <3>2 DEF PickedAt
      <4> QED
        BY <4>1, <2>1, <2>3
    <3> QED
      BY <3>1, <3>2
  <2>7. PickedAt(b, t, list, set, n)
    BY <2>3, <2>4, <2>5, <2>6 DEF PickedAt
  <2> QED
    BY <2>1, <2>7
<1> QED
  BY <1>1, <1>2

\* What a filter returns: the elements of the list that are in the set, each at
\* a place of its own, in the order of the list.
LEMMA FilterPicked ==
  ASSUME NEW S, NEW list \in Seq(S), NEW set
  PROVE  /\ Filter(list, set) \in Seq(S) /\ Len(Filter(list, set)) <= Len(list)
         /\ \E at : PickedAt(at, Filter(list, set), list, set, Len(list))
<1> DEFINE p == Passes(list, set)
           k == Len(list)
           T == {n \in Nat : /\ p[n] \in Seq(S) /\ Len(p[n]) <= n
                             /\ \E at : PickedAt(at, p[n], list, set, n)}
<1>1. k \in Nat
  OBVIOUS
<1>2. /\ p[0] = <<>>
      /\ \A n \in 1 .. k : p[n] = IF list[n] \in set THEN Append(p[n - 1], list[n])
                                  ELSE p[n - 1]
  BY <1>1, PassesDefined
<1> HIDE DEF p
<1>3. 0 \in T
  <2> DEFINE b == [i \in 1 .. 0 |-> 1]
  <2>1. PickedAt(b, <<>>, list, set, 0)
    BY DEF PickedAt
  <2> HIDE DEF b
  <2>2. p[0] \in Seq(S) /\ Len(p[0]) <= 0 /\ PickedAt(b, p[0], list, set, 0)
    BY <2>1, <1>2
  <2> QED
    BY <2>2
<1>4. \A n \in 1 .. k : n - 1 \in T => n \in T
  <2> SUFFICES ASSUME NEW n \in 1 .. k, n - 1 \in T
               PROVE  n \in T
    OBVIOUS
  <2>1. PICK at : PickedAt(at, p[n - 1], list, set, n - 1)
    OBVIOUS
  <2> DEFINE t == p[n]
             s == p[n - 1]
  <2>3. /\ s \in Seq(S) /\ Len(s) <= n - 1 /\ n \in 1 .. Len(list)
        /\ PickedAt(at, s, list, set, n - 1)
    BY <2>1
  <2>4. t = IF list[n] \in set THEN Append(s, list[n]) ELSE s
    BY <1>2
  <2> HIDE DEF s, t, T, k
  <2>2. t \in Seq(S) /\ Len(t) <= n /\ \E b : PickedAt(b, t, list, set, n)
    BY <2>3, <2>4, PickOne
  <2> USE DEF t, T, k
  <2> QED
    BY <2>2
<1> HIDE DEF T, k
<1>5. k \in T
  <2>1. 0 .. k \subseteq T
    BY <1>1, <1>3, <1>4, Counting
  <2> QED
    BY <2>1, <1>1 DEF k
<1> QED
  BY <1>5 DEF T, p, k, Filter

\* A filter that refuses an element returns a shorter list.
LEMMA FilterShorter ==
  ASSUME NEW S, NEW list \in Seq(S), NEW set, NEW i \in 1 .. Len(list), list[i] \notin set
  PROVE  Len(Filter(list, set)) < Len(list)
<1>1. PICK at : PickedAt(at, Filter(list, set), list, set, Len(list))
  BY FilterPicked
<1> DEFINE s == Filter(list, set)
<1>2. s \in Seq(S) /\ Len(s) <= Len(list)
  BY FilterPicked
<1> HIDE DEF s
<1>3. ASSUME Len(s) = Len(list)
      PROVE  FALSE
  <2>1. \A k \in 1 .. Len(list) : at[k] \in 1 .. Len(list) /\ at[k] >= k /\ list[at[k]] \in set
    BY <1>1, <1>3 DEF PickedAt, s
  <2> DEFINE k == Len(list)
             T == {n \in Nat : n < k => at[k - n] = k - n}
  <2>2. 0 \in T
    BY <2>1
  <2>3. \A n \in 1 .. k : n - 1 \in T => n \in T
    <3> SUFFICES ASSUME NEW n \in 1 .. k, n - 1 \in T, n < k
                 PROVE  at[k - n] = k - n
      OBVIOUS
    <3>1. at[k - (n - 1)] = k - (n - 1)
      OBVIOUS
    <3>2. at[k - n] < at[k - (n - 1)]
      BY <1>1, <1>3 DEF PickedAt, s
    <3> QED
      BY <3>1, <3>2, <2>1
  <2>6. k \in Nat
    OBVIOUS
  <2> HIDE DEF T, k
  <2>4. 0 .. k \subseteq T
    BY <2>6, <2>2, <2>3, Counting
  <2> USE DEF k
  <2>5. at[i] = i
    <3>1. k - i \in T
      BY <2>4
    <3> QED
      BY <3>1 DEF T
  <2> QED
    BY <2>1, <2>5
<1> QED
  BY <1>2, <1>3 DEF s

\* The elements of what a filter returns.
LEMMA FilterElements ==
  ASSUME NEW S, NEW list \in Seq(S), NEW set
  PROVE  /\ Filter(list, set) \in Seq(S \cap set)
         /\ {Filter(list, set)[k] : k \in 1 .. Len(Filter(list, set))}
              = {list[i] : i \in 1 .. Len(list)} \cap set
<1> DEFINE s == Filter(list, set)
<1>1. PICK at : PickedAt(at, s, list, set, Len(list))
  BY FilterPicked
<1>2. s \in Seq(S)
  BY FilterPicked
<1> HIDE DEF s
<1>3. \A k \in 1 .. Len(s) : s[k] \in S \cap set /\ s[k] \in {list[i] : i \in 1 .. Len(list)}
  BY <1>1, <1>2 DEF PickedAt
<1>4. s \in Seq(S \cap set)
  BY <1>2, <1>3
<1>5. \A i \in 1 .. Len(list) : list[i] \in set => \E k \in 1 .. Len(s) : s[k] = list[i]
  BY <1>1 DEF PickedAt
<1> QED
  BY <1>3, <1>4, <1>5 DEF s

\* No element of a list is there twice.
Injective(s) == \A i, k \in 1 .. Len(s) : s[i] = s[k] => i = k

\* A filter keeps the elements of a list apart.
LEMMA FilterInjective ==
  ASSUME NEW S, NEW list \in Seq(S), NEW set, Injective(list)
  PROVE  Injective(Filter(list, set))
<1> DEFINE s == Filter(list, set)
<1>1. PICK at : PickedAt(at, s, list, set, Len(list))
  BY FilterPicked
<1>2. s \in Seq(S)
  BY FilterPicked
<1> HIDE DEF s
<1>3. ASSUME NEW i \in 1 .. Len(s), NEW k \in 1 .. Len(s), s[i] = s[k]
      PROVE  i = k
  <2>1. at[i] = at[k]
    BY <1>1, <1>3 DEF PickedAt, Injective
  <2> QED
    BY <2>1, <1>1, <1>2 DEF PickedAt
<1> QED
  BY <1>3 DEF Injective, s

------------------------------------------------------------------------------
(* Lists and the sets of their elements *)

\* The ends of a list of different elements, and what follows its head.
LEMMA HeadAndTail ==
  ASSUME NEW S, NEW s \in Seq(S), s # <<>>, Injective(s)
  PROVE  /\ Head(s) \in ToSet(s) /\ Last(s) \in ToSet(s)
         /\ Tail(s) \in Seq(S) /\ Injective(Tail(s))
         /\ ToSet(Tail(s)) = ToSet(s) \ {Head(s)}
         /\ Tail(s) # <<>> => Last(Tail(s)) = Last(s)
         /\ Tail(s) = <<>> => Last(s) = Head(s)
<1> DEFINE n == Len(s)
           t == Tail(s)
<1>1. n \in Nat /\ n # 0
  OBVIOUS
<1>2. t \in Seq(S) /\ Len(t) = n - 1 /\ \A i \in 1 .. (n - 1) : t[i] = s[i + 1]
  OBVIOUS
<1>3. Head(s) = s[1] /\ DOMAIN s = 1 .. n /\ DOMAIN t = 1 .. (n - 1)
  BY <1>2
<1>4. \A i, k \in 1 .. n : s[i] = s[k] => i = k
  BY DEF Injective
<1>5. t = <<>> <=> n = 1
  BY <1>1, <1>2
<1> HIDE DEF n, t
<1>6. Injective(t)
  <2> SUFFICES ASSUME NEW i \in 1 .. (n - 1), NEW k \in 1 .. (n - 1), t[i] = t[k]
               PROVE  i = k
    BY <1>2 DEF Injective
  <2>1. i + 1 \in 1 .. n /\ k + 1 \in 1 .. n /\ s[i + 1] = s[k + 1]
    BY <1>1, <1>2
  <2>2. i + 1 = k + 1
    BY <2>1, <1>4
  <2> QED
    BY <2>2, <1>1
<1>7. ToSet(t) = ToSet(s) \ {Head(s)}
  <2>1. ASSUME NEW i \in 1 .. (n - 1)
        PROVE  t[i] \in ToSet(s) \ {Head(s)}
    <3>1. i + 1 \in 1 .. n /\ 1 \in 1 .. n /\ i + 1 # 1 /\ t[i] = s[i + 1]
      BY <1>1, <1>2
    <3>2. s[i + 1] # s[1]
      BY <3>1, <1>4
    <3> QED
      BY <3>1, <3>2, <1>3 DEF ToSet
  <2>2. ASSUME NEW i \in 1 .. n, s[i] # Head(s)
        PROVE  s[i] \in ToSet(t)
    <3>1. i # 1
      BY <2>2, <1>3
    <3>2. i - 1 \in 1 .. (n - 1) /\ (i - 1) + 1 = i
      BY <3>1, <1>1
    <3>3. t[i - 1] = s[i]
      BY <3>2, <1>2
    <3> QED
      BY <3>2, <3>3, <1>3 DEF ToSet
  <2> QED
    BY <2>1, <2>2, <1>3 DEF ToSet
<1>8. Head(s) \in ToSet(s) /\ Last(s) = s[n] /\ Last(s) \in ToSet(s)
  BY <1>1, <1>3 DEF ToSet, Last, n
<1>9. t # <<>> => Last(t) = Last(s)
  <2> SUFFICES ASSUME n # 1 PROVE Last(t) = Last(s)
    BY <1>5
  <2>1. Last(t) = t[n - 1]
    BY <1>2 DEF Last
  <2>2. n - 1 \in 1 .. (n - 1) /\ (n - 1) + 1 = n
    BY <1>1
  <2>3. t[n - 1] = s[n]
    BY <2>2, <1>2
  <2> QED
    BY <2>1, <2>3, <1>8
<1>10. t = <<>> => Last(s) = Head(s)
  BY <1>3, <1>5, <1>8
<1> QED
  BY <1>2, <1>6, <1>7, <1>8, <1>9, <1>10 DEF t

\* A list that is cut in two: its beginning, and what the end holds.
LEMMA CutInTwo ==
  ASSUME NEW S, NEW s \in Seq(S), Injective(s), NEW m \in 0 .. Len(s)
  PROVE  /\ SubSeq(s, 1, m) \in Seq(S) /\ Injective(SubSeq(s, 1, m))
         /\ ToSet(SubSeq(s, m + 1, Len(s))) = ToSet(s) \ ToSet(SubSeq(s, 1, m))
         /\ ToSet(SubSeq(s, 1, m)) \subseteq ToSet(s)
         /\ SubSeq(s, 1, m) # <<>> => m # 0 /\ Last(SubSeq(s, 1, m)) = s[m]
         /\ m # 0 => ToSet(SubSeq(s, m, Len(s))) = ToSet(SubSeq(s, m + 1, Len(s))) \cup {s[m]}
         /\ SubSeq(s, m + 1, Len(s)) \in Seq(S) /\ Injective(SubSeq(s, m + 1, Len(s)))
<1> DEFINE n == Len(s)
           p == SubSeq(s, 1, m)
           q == SubSeq(s, m + 1, n)
           r == SubSeq(s, m, n)
<1>1. n \in Nat /\ m \in Nat /\ m <= n /\ DOMAIN s = 1 .. n
  OBVIOUS
<1>2. p \in Seq(S) /\ Len(p) = m /\ DOMAIN p = 1 .. m /\ \A i \in 1 .. m : p[i] = s[i]
  BY <1>1
<1>0. q \in Seq(S) /\ Len(q) = n - m
  <2>1. \A i \in (m + 1) .. n : i \in 1 .. Len(s)
    BY <1>1
  <2>2. q \in Seq(S)
    BY <1>1
  <2>3. Len(SubSeq(s, m + 1, n)) = IF m + 1 <= n THEN (n - (m + 1)) + 1 ELSE 0
    BY <1>1
  <2>4. Len(q) = n - m
    <3> HIDE DEF n
    <3> QED
      BY <2>3, <1>1
  <2> QED
    BY <2>2, <2>4
<1>3. DOMAIN q = 1 .. (n - m) /\ \A i \in 1 .. (n - m) : q[i] = s[i + m]
  BY <1>1
<1>4. m # 0 => DOMAIN r = 1 .. (n - m + 1) /\ \A i \in 1 .. (n - m + 1) : r[i] = s[(i + m) - 1]
  BY <1>1
<1>5. \A i, k \in 1 .. n : s[i] = s[k] => i = k
  BY DEF Injective
<1> HIDE DEF n, p, q, r
<1>6. Injective(p)
  BY <1>1, <1>2, <1>5 DEF Injective
<1>7. ToSet(p) \subseteq ToSet(s)
  BY <1>1, <1>2 DEF ToSet
<1>8. ToSet(q) = {s[i] : i \in (m + 1) .. n}
  <2>1. ASSUME NEW i \in 1 .. (n - m)
        PROVE  q[i] \in {s[k] : k \in (m + 1) .. n}
    <3>1. i + m \in (m + 1) .. n
      BY <1>1
    <3> QED
      BY <3>1, <1>3
  <2>2. ASSUME NEW k \in (m + 1) .. n
        PROVE  s[k] \in ToSet(q)
    <3>1. k - m \in 1 .. (n - m) /\ (k - m) + m = k
      BY <1>1
    <3>2. q[k - m] = s[k]
      BY <3>1, <1>3
    <3> QED
      BY <3>1, <3>2, <1>3 DEF ToSet
  <2> QED
    BY <2>1, <2>2, <1>3 DEF ToSet
<1>9. ToSet(q) = ToSet(s) \ ToSet(p)
  <2>1. ToSet(s) = {s[i] : i \in 1 .. n} /\ ToSet(p) = {s[i] : i \in 1 .. m}
    BY <1>1, <1>2 DEF ToSet
  <2>2. \A i \in 1 .. n : i \in (m + 1) .. n <=> ~(i \in 1 .. m)
    BY <1>1
  <2>3. \A i \in (m + 1) .. n : i \in 1 .. n
    BY <1>1
  <2>4. \A i \in 1 .. m : i \in 1 .. n
    BY <1>1
  <2> QED
    BY <2>1, <2>2, <2>3, <2>4, <1>5, <1>8
<1>10. p # <<>> => m # 0 /\ Last(p) = s[m]
  <2> SUFFICES ASSUME p # <<>> PROVE m # 0 /\ Last(p) = s[m]
    OBVIOUS
  <2>1. m # 0
    BY <1>2
  <2>2. m \in 1 .. m
    BY <2>1, <1>1
  <2> QED
    BY <2>1, <2>2, <1>2 DEF Last
<1>11. m # 0 => ToSet(r) = ToSet(q) \cup {s[m]}
  <2> SUFFICES ASSUME m # 0 PROVE ToSet(r) = ToSet(q) \cup {s[m]}
    OBVIOUS
  <2>1. ASSUME NEW i \in 1 .. (n - m + 1)
        PROVE  r[i] \in {s[k] : k \in m .. n}
    <3>1. (i + m) - 1 \in m .. n
      BY <1>1
    <3> QED
      BY <3>1, <1>4
  <2>2. ASSUME NEW k \in m .. n
        PROVE  s[k] \in ToSet(r)
    <3>1. (k - m) + 1 \in 1 .. (n - m + 1) /\ (((k - m) + 1) + m) - 1 = k
      BY <1>1
    <3>2. r[(k - m) + 1] = s[k]
      BY <3>1, <1>4
    <3> QED
      BY <3>1, <3>2, <1>4 DEF ToSet
  <2>3. ToSet(r) = {s[k] : k \in m .. n}
    BY <2>1, <2>2, <1>4 DEF ToSet
  <2>4. \A k : k \in m .. n <=> k = m \/ k \in (m + 1) .. n
    BY <1>1
  <2> QED
    BY <2>3, <2>4, <1>8
<1>12. Injective(q)
  <2> SUFFICES ASSUME NEW i \in 1 .. (n - m), NEW k \in 1 .. (n - m), q[i] = q[k]
               PROVE  i = k
    BY <1>0 DEF Injective
  <2>1. i + m \in 1 .. n /\ k + m \in 1 .. n /\ s[i + m] = s[k + m]
    BY <1>1, <1>3
  <2>2. i + m = k + m
    BY <2>1, <1>5
  <2> QED
    BY <2>2, <1>1
<1> QED
  BY <1>0, <1>2, <1>6, <1>7, <1>9, <1>10, <1>11, <1>12 DEF n, p, q, r

\* A list with one more element.
LEMMA AppendedList ==
  ASSUME NEW S, NEW s \in Seq(S), NEW e \in S
  PROVE  /\ Append(s, e) \in Seq(S) /\ ToSet(Append(s, e)) = ToSet(s) \cup {e}
         /\ Last(Append(s, e)) = e /\ Append(s, e) # <<>>
<1> DEFINE t == Append(s, e)
           n == Len(s)
<1>1. /\ n \in Nat /\ t \in Seq(S) /\ Len(t) = n + 1 /\ t[n + 1] = e
      /\ \A i \in 1 .. n : t[i] = s[i]
  OBVIOUS
<1>2. DOMAIN s = 1 .. n /\ DOMAIN t = 1 .. (n + 1) /\ t # <<>>
  BY <1>1
<1> HIDE DEF t, n
<1>3. Last(t) = e
  BY <1>1 DEF Last
<1>4. \A i \in 1 .. (n + 1) : i = n + 1 \/ i \in 1 .. n
  BY <1>1
<1>5. \A i \in 1 .. n : i \in 1 .. (n + 1)
  BY <1>1
<1>6. n + 1 \in 1 .. (n + 1)
  BY <1>1
<1>7. ToSet(t) = ToSet(s) \cup {e}
  BY <1>1, <1>2, <1>4, <1>5, <1>6 DEF ToSet
<1> QED
  BY <1>1, <1>2, <1>3, <1>7 DEF t

\* A filtered list has the elements of the set, each as often as before.
LEMMA FilteredList ==
  ASSUME NEW S, NEW list \in Seq(S), NEW set
  PROVE  /\ Filter(list, set) \in Seq(S) /\ ToSet(Filter(list, set)) = ToSet(list) \cap set
         /\ Injective(list) => Injective(Filter(list, set))
<1> DEFINE f == Filter(list, set)
<1>1. f \in Seq(S)
  BY FilterPicked
<1>2. PICK at : PickedAt(at, f, list, set, Len(list))
  BY FilterPicked
<1>3. Injective(list) => Injective(f)
  BY FilterInjective
<1> HIDE DEF f
<1>4. DOMAIN f = 1 .. Len(f) /\ DOMAIN list = 1 .. Len(list)
  BY <1>1
<1>5. ASSUME NEW k \in 1 .. Len(f)
      PROVE  f[k] \in ToSet(list) \cap set
  <2>1. at[k] \in 1 .. Len(list) /\ f[k] = list[at[k]] /\ f[k] \in set
    BY <1>2 DEF PickedAt
  <2> QED
    BY <2>1, <1>4 DEF ToSet
<1>6. ASSUME NEW i \in 1 .. Len(list), list[i] \in set
      PROVE  list[i] \in ToSet(f)
  <2>1. PICK k \in 1 .. Len(f) : at[k] = i
    BY <1>2, <1>6 DEF PickedAt
  <2>2. f[k] = list[i]
    BY <2>1, <1>2 DEF PickedAt
  <2> QED
    BY <2>2, <1>4 DEF ToSet
<1>7. ToSet(f) = ToSet(list) \cap set
  BY <1>4, <1>5, <1>6 DEF ToSet
<1> QED
  BY <1>1, <1>3, <1>7 DEF f

\* A new element is different from those before it.
LEMMA AppendedInjective ==
  ASSUME NEW S, NEW s \in Seq(S), NEW e \in S, Injective(s), e \notin ToSet(s)
  PROVE  Injective(Append(s, e))
<1> DEFINE t == Append(s, e)
           n == Len(s)
<1>1. n \in Nat /\ t \in Seq(S) /\ Len(t) = n + 1 /\ t[n + 1] = e
  OBVIOUS
<1>2. \A i \in 1 .. n : t[i] = s[i]
  OBVIOUS
<1>3. \A i \in 1 .. n : s[i] # e
  BY DEF ToSet
<1> HIDE DEF t, n
<1>4. \A i \in 1 .. (n + 1) : i = n + 1 \/ i \in 1 .. n
  BY <1>1
<1>5. \A i, k \in 1 .. n : s[i] = s[k] => i = k
  BY DEF Injective, n
<1>6. \A i, k \in 1 .. (n + 1) : t[i] = t[k] => i = k
  BY <1>1, <1>2, <1>3, <1>4, <1>5
<1> QED
  BY <1>1, <1>6 DEF Injective, t

------------------------------------------------------------------------------
(* The sum *)

\* s is what Sums describes, for the first m numbers.
SumsTo(s, numbers, m) ==
  s = [n \in 0 .. m |-> IF n = 0 THEN 0 ELSE s[n - 1] + numbers[n]]

\* A solution for m - 1 numbers extends to one for m.
LEMMA SumsExtended ==
  ASSUME NEW numbers, NEW m \in Nat \ {0}, NEW s, SumsTo(s, numbers, m - 1)
  PROVE  \E t : SumsTo(t, numbers, m)
<1> DEFINE t == [n \in 0 .. m |-> IF n < m THEN s[n] ELSE s[m - 1] + numbers[m]]
<1>1. \A n \in 0 .. (m - 1) : s[n] = IF n = 0 THEN 0 ELSE s[n - 1] + numbers[n]
  BY DEF SumsTo
<1>2. (\A n \in 0 .. (m - 1) : t[n] = s[n]) /\ t[m] = s[m - 1] + numbers[m]
  OBVIOUS
<1>3. DOMAIN t = 0 .. m /\ t = [n \in DOMAIN t |-> t[n]]
  OBVIOUS
<1> HIDE DEF t
<1>4. ASSUME NEW n \in 0 .. m
      PROVE  t[n] = IF n = 0 THEN 0 ELSE t[n - 1] + numbers[n]
  <2>1. CASE n = m
    BY <2>1, <1>2
  <2>2. CASE n # m
    BY <2>2, <1>1, <1>2
  <2> QED
    BY <2>1, <2>2
<1>5. SumsTo(t, numbers, m)
  BY <1>3, <1>4 DEF SumsTo
<1> QED
  BY <1>5

\* The recursion that Sums describes has a solution.
LEMMA SumsDefined ==
  ASSUME NEW numbers, Len(numbers) \in Nat
  PROVE  /\ Sums(numbers)[0] = 0
         /\ \A n \in 1 .. Len(numbers) :
              Sums(numbers)[n] = Sums(numbers)[n - 1] + numbers[n]
<1> DEFINE T == {m \in Nat : \E s : SumsTo(s, numbers, m)}
           k == Len(numbers)
<1>1. 0 \in T
  <2> DEFINE s == [n \in 0 .. 0 |-> 0]
  <2>1. SumsTo(s, numbers, 0)
    BY DEF SumsTo
  <2> QED
    BY <2>1
<1>2. \A m \in 1 .. k : m - 1 \in T => m \in T
  BY SumsExtended
<1> HIDE DEF T, k
<1>3. k \in T
  <2>1. k \in Nat
    BY DEF k
  <2> QED
    BY <2>1, <1>1, <1>2, Counting
<1>4. \E s : SumsTo(s, numbers, k)
  BY <1>3 DEF T
<1>5. Sums(numbers) = CHOOSE s : SumsTo(s, numbers, k)
  BY DEF Sums, SumsTo, k
<1> DEFINE s == Sums(numbers)
<1>6. SumsTo(s, numbers, k)
  BY <1>4, <1>5
<1>7. k \in Nat
  BY DEF k
<1> HIDE DEF s
<1>8. \A n \in 0 .. k : s[n] = IF n = 0 THEN 0 ELSE s[n - 1] + numbers[n]
  BY <1>6 DEF SumsTo
<1>9. s[0] = 0 /\ \A n \in 1 .. k : s[n] = s[n - 1] + numbers[n]
  BY <1>7, <1>8
<1> QED
  BY <1>9 DEF s, k

\* A sum of natural numbers is one.
LEMMA SumType ==
  ASSUME NEW a \in Seq(Nat)
  PROVE  SumOf(a) \in Nat
<1> DEFINE s == Sums(a)
           k == Len(a)
           T == {n \in Nat : n <= k => s[n] \in Nat}
<1>1. k \in Nat
  OBVIOUS
<1>2. s[0] = 0 /\ \A n \in 1 .. k : s[n] = s[n - 1] + a[n]
  BY <1>1, SumsDefined
<1> HIDE DEF s
<1>3. 0 \in T /\ \A n \in 1 .. k : n - 1 \in T => n \in T
  BY <1>2
<1> HIDE DEF T, k
<1>4. k \in T
  <2>1. k \in Nat
    BY DEF k
  <2> QED
    BY <2>1, <1>3, Counting
<1> QED
  BY <1>1, <1>4 DEF T, k, s, SumOf

\* A sum of zeros is zero.
LEMMA SumZero ==
  ASSUME NEW a \in Seq(Nat), \A i \in 1 .. Len(a) : a[i] = 0
  PROVE  SumOf(a) = 0
<1> DEFINE s == Sums(a)
           k == Len(a)
           T == {n \in Nat : n <= k => s[n] = 0}
<1>1. k \in Nat
  OBVIOUS
<1>2. s[0] = 0 /\ \A n \in 1 .. k : s[n] = s[n - 1] + a[n]
  BY <1>1, SumsDefined
<1> HIDE DEF s
<1>3. 0 \in T /\ \A n \in 1 .. k : n - 1 \in T => n \in T
  BY <1>2
<1> HIDE DEF T, k
<1>4. k \in T
  <2>1. k \in Nat
    BY DEF k
  <2> QED
    BY <2>1, <1>3, Counting
<1> QED
  BY <1>1, <1>4 DEF T, k, s, SumOf

\* Greater numbers have a greater sum.
LEMMA SumMonotone ==
  ASSUME NEW a \in Seq(Nat), NEW b \in Seq(Nat), Len(a) = Len(b),
         \A i \in 1 .. Len(a) : a[i] <= b[i]
  PROVE  SumOf(a) <= SumOf(b)
<1> DEFINE s == Sums(a)
           t == Sums(b)
           k == Len(a)
           T == {n \in Nat : n <= k => s[n] \in Nat /\ t[n] \in Nat /\ s[n] <= t[n]}
<1>1. k \in Nat /\ Len(b) = k
  OBVIOUS
<1>2. /\ s[0] = 0 /\ \A n \in 1 .. k : s[n] = s[n - 1] + a[n]
      /\ t[0] = 0 /\ \A n \in 1 .. k : t[n] = t[n - 1] + b[n]
  BY <1>1, SumsDefined
<1> HIDE DEF s, t
<1>3. 0 \in T
  BY <1>2
<1>4. \A n \in 1 .. k : n - 1 \in T => n \in T
  <2> SUFFICES ASSUME NEW n \in 1 .. k, n - 1 \in T
               PROVE  n \in T
    OBVIOUS
  <2>1. s[n - 1] \in Nat /\ t[n - 1] \in Nat /\ s[n - 1] <= t[n - 1]
    OBVIOUS
  <2>2. a[n] \in Nat /\ b[n] \in Nat /\ a[n] <= b[n]
    OBVIOUS
  <2>3. s[n] = s[n - 1] + a[n] /\ t[n] = t[n - 1] + b[n]
    BY <1>2
  <2>4. \A p, q, x, y \in Nat :
          p <= q /\ x <= y => p + x \in Nat /\ q + y \in Nat /\ p + x <= q + y
    OBVIOUS
  <2>5. s[n] \in Nat /\ t[n] \in Nat /\ s[n] <= t[n]
    <3> HIDE DEF T, k
    <3>1. \A p, x, q, y : s[n] = p + x /\ t[n] = q + y /\ p \in Nat /\ q \in Nat
                             /\ x \in Nat /\ y \in Nat /\ p <= q /\ x <= y
                               => s[n] \in Nat /\ t[n] \in Nat /\ s[n] <= t[n]
      BY <2>4
    <3> QED
      BY <2>1, <2>2, <2>3, <3>1, Zenon
  <2>6. n \in Nat
    OBVIOUS
  <2> QED
    BY <2>5, <2>6
<1> HIDE DEF T, k
<1>5. k \in T
  <2>1. k \in Nat
    BY DEF k
  <2> QED
    BY <2>1, <1>3, <1>4, Counting
<1> QED
  BY <1>1, <1>5 DEF T, k, s, t, SumOf

\* s and t are the sums of two lists that differ at j only, up to n.
Carried(s, t, a, b, j, n) ==
  /\ s[n] \in Nat /\ t[n] \in Nat
  /\ n < j => s[n] = t[n]
  /\ n >= j => s[n] + b[j] = t[n] + a[j]

\* One more number of both lists.
LEMMA ChangeCarries ==
  ASSUME NEW s, NEW t, NEW a, NEW b, NEW j \in Nat, NEW n \in Nat,
         a[j] \in Nat, b[j] \in Nat, a[n] \in Nat, b[n] \in Nat, n # j => a[n] = b[n],
         s[n] = s[n - 1] + a[n], t[n] = t[n - 1] + b[n], Carried(s, t, a, b, j, n - 1)
  PROVE  Carried(s, t, a, b, j, n)
<1>1. CASE n < j
  BY <1>1 DEF Carried
<1>2. CASE n = j
  BY <1>2 DEF Carried
<1>3. CASE n > j
  BY <1>3 DEF Carried
<1> QED
  BY <1>1, <1>2, <1>3

\* A sum changes by as much as the one number that changes.
LEMMA SumChanged ==
  ASSUME NEW a, NEW b, NEW k \in Nat, Len(a) = k, Len(b) = k, NEW j \in 1 .. k,
         \A i \in 1 .. k : a[i] \in Nat /\ b[i] \in Nat /\ (i # j => a[i] = b[i])
  PROVE  SumOf(a) + b[j] = SumOf(b) + a[j]
<1> DEFINE s == Sums(a)
           t == Sums(b)
           T == {n \in Nat : n <= k => Carried(s, t, a, b, j, n)}
<1>1. /\ s[0] = 0 /\ \A n \in 1 .. k : s[n] = s[n - 1] + a[n]
      /\ t[0] = 0 /\ \A n \in 1 .. k : t[n] = t[n - 1] + b[n]
  BY SumsDefined
<1> HIDE DEF s, t
<1>2. 0 \in T
  BY <1>1 DEF Carried
<1>3. ASSUME NEW n \in 1 .. k, n - 1 \in T
      PROVE  n \in T
  <2>1. Carried(s, t, a, b, j, n - 1)
    BY <1>3
  <2>2. s[n] = s[n - 1] + a[n] /\ t[n] = t[n - 1] + b[n]
    BY <1>1
  <2>3. a[n] \in Nat /\ b[n] \in Nat /\ a[j] \in Nat /\ b[j] \in Nat /\ (n # j => a[n] = b[n])
    OBVIOUS
  <2>4. n \in Nat /\ j \in Nat
    OBVIOUS
  <2> HIDE DEF T
  <2>5. Carried(s, t, a, b, j, n)
    BY <2>1, <2>2, <2>3, <2>4, ChangeCarries
  <2> QED
    BY <2>4, <2>5 DEF T
<1> HIDE DEF T
<1>4. k \in T
  BY <1>2, <1>3, Counting
<1>5. Carried(s, t, a, b, j, k)
  BY <1>4 DEF T
<1> QED
  BY <1>5 DEF s, t, SumOf, Carried
=============================================================================
