------------------------------ MODULE ApiProofs ------------------------------
(***************************************************************************)
(* The promises of what a request meets before any job exists, proved for  *)
(* every value of the constants, and the types of all components of MCApi. *)
(*                                                                         *)
(* FrontDoor: NoKeyNoEntry is inductive with the types. RateBounded needs  *)
(* to know where the older admissions of a bucket lie: those before the    *)
(* current window are not later than its start, and those more than a full *)
(* limit before it are a whole window earlier. RetryIsHonest needs that a  *)
(* promise outlives the window it was made in. Validation and Settings:    *)
(* the invariant says that what the variables hold was computed from the   *)
(* same form, or the same sources; the properties are then facts about     *)
(* what two computations return.                                           *)
(***************************************************************************)
EXTENDS MCApi, StoredFilesProofs, JobBoardProofs

------------------------------------------------------------------------------
(* The door: what its invariant says *)

\* What a bucket's window knows of the admissions before it.
WindowKnows(b) ==
  LET w == windows[b]
      n == Len(admitted[b])
  IN  /\ w.started <= now
      /\ w.started < 0 => n = 0 /\ w.count = 0
      /\ w.count <= n
      /\ \A i \in 1..n : admitted[b][i] <= now
      /\ \A i \in 1..n : i <= n - w.count => admitted[b][i] <= w.started
      /\ \A i \in 1..n :
           i <= n - w.count - config.limit => admitted[b][i] + Window <= w.started

\* What a promise to a bucket rests on.
PromiseKept(b) ==
  promise[b] > 0 => /\ config.limit > 0 /\ windows[b].started >= 0
                    /\ promise[b] >= windows[b].started + Window

\* The inductive invariant.
DoorInv ==
  /\ DoorTypeOK
  /\ NoKeyNoEntry
  /\ config.limit > 0 => \A b \in Buckets : WindowKnows(b)
  /\ RateBounded
  /\ \A b \in Buckets : PromiseKept(b)

------------------------------------------------------------------------------
(* The door: arithmetic *)

\* A quotient times its divisor is less than one divisor below the dividend,
\* which is what the second added to a promise makes up for.
LEMMA Rounded ==
  ASSUME NEW a \in Int, NEW d \in Nat \ {0}
  PROVE  (a \div d) \in Int /\ a < (a \div d) * d + d
  OBVIOUS

\* A factor grows, the product with a natural number grows.
LEMMA Grows ==
  ASSUME NEW x \in Int, NEW y \in Int, NEW d \in Nat, x <= y
  PROVE  x * d <= y * d
  OBVIOUS

\* The product of natural numbers is a natural number.
LEMMA Product ==
  ASSUME NEW x \in Nat, NEW y \in Nat
  PROVE  x * y \in Nat
  OBVIOUS

------------------------------------------------------------------------------
(* Keys and buckets *)

\* A request presents a known key or none, and its bucket is a bucket.
LEMMA BucketIsBucket ==
  ASSUME NEW r \in Requests
  PROVE  PresentedKey(r) \in Header /\ Bucket(r) \in Buckets
  BY DoorAssumption DEF Requests, RequestSet, Header, PresentedKey, Bucket, Buckets

\* With keys configured, what passes the key check and is no probe is counted
\* under one of the keys.
LEMMA CountedUnderItsKey ==
  ASSUME DoorTypeOK, NEW r \in Requests, Allowed(r), r.path # "probe", config.keys # {}
  PROVE  PresentedKey(r) \in config.keys /\ Bucket(r) = PresentedKey(r)
  BY DoorAssumption DEF DoorTypeOK, Configs, Allowed, Bucket

\* The limit is a natural number.
LEMMA LimitIsNat ==
  ASSUME DoorTypeOK
  PROVE  config.limit \in Nat
<1>1. config.limit \in Limits
  BY DEF DoorTypeOK, Configs
<1> QED
  BY <1>1, DoorAssumption

\* The window a request finds is a window that started by now.
LEMMA CurrentWindow ==
  ASSUME DoorTypeOK, NEW b \in Buckets
  PROVE  /\ Current(windows[b]) \in WindowSet \cup {NoWindow}
         /\ Current(windows[b]).started \in Nat
         /\ Current(windows[b]).count \in Nat
         /\ \/ Current(windows[b]) = windows[b] /\ now - windows[b].started < Window
            \/ /\ Current(windows[b]) = [started |-> now, count |-> 0]
               /\ windows[b].started < 0 \/ now - windows[b].started >= Window
<1>1. now \in Nat /\ windows[b] \in WindowSet \cup {NoWindow}
  BY DEF DoorTypeOK
<1>2. windows[b].started \in Int /\ windows[b].count \in Nat
  BY <1>1 DEF WindowSet, NoWindow
<1>3. CASE windows[b].started < 0 \/ now - windows[b].started >= Window
  BY <1>1, <1>3 DEF Current, WindowSet
<1>4. CASE ~(windows[b].started < 0 \/ now - windows[b].started >= Window)
  BY <1>1, <1>2, <1>4, DoorAssumption DEF Current
<1> QED
  BY <1>3, <1>4

------------------------------------------------------------------------------
(* One request *)

\* The types survive a request.
LEMMA EnterType ==
  ASSUME DoorTypeOK, NEW s \in Slots, NEW r \in Requests, Enter(s, r)
  PROVE  inflight' \in [Slots -> Entered \cup {NoRequest}]
  BY BucketIsBucket DEF DoorTypeOK, Enter, Entered, Requests, RequestSet

\* A request that is counted leaves every other bucket alone.
LEMMA CheckType ==
  ASSUME DoorTypeOK, NEW s \in Slots, NEW r \in Requests, Check(s, r),
         UNCHANGED <<config, now>>
  PROVE  DoorTypeOK'
<1> DEFINE b == Bucket(r)
           w == Current(windows[b])
<1>1. b \in Buckets
  BY BucketIsBucket
<1>2. w \in WindowSet \cup {NoWindow} /\ w.started \in Nat /\ w.count \in Nat
  BY <1>1, CurrentWindow
<1>3. [w EXCEPT !.count = @ + 1] \in WindowSet
  BY <1>2 DEF WindowSet, NoWindow
<1>4. CASE config.limit = 0 \/ r.path = "probe"
  BY <1>4, EnterType DEF Check, DoorTypeOK
<1>5. CASE ~(config.limit = 0 \/ r.path = "probe") /\ Exhausted(w)
  <2>1. /\ windows' = [windows EXCEPT ![b] = w]
        /\ promise' = [promise EXCEPT ![b] = now + (RetryAfter(w) + 1) * PerSecond]
        /\ UNCHANGED <<inflight, admitted>>
    BY <1>5 DEF Check
  <2>2. RetryAfter(w) \in Nat
    BY <1>2, DoorAssumption DEF DoorTypeOK, RetryAfter, Larger
  <2>3. now + (RetryAfter(w) + 1) * PerSecond \in Nat
    <3>1. RetryAfter(w) + 1 \in Nat /\ PerSecond \in Nat /\ now \in Nat
      BY <2>2, DoorAssumption DEF DoorTypeOK
    <3> HIDE DEF w
    <3>2. (RetryAfter(w) + 1) * PerSecond \in Nat
      BY <3>1, Product
    <3> QED
      BY <3>1, <3>2
  <2> HIDE DEF w
  <2> QED
    BY <2>1, <2>3, <1>1, <1>2 DEF DoorTypeOK
<1>6. CASE ~(config.limit = 0 \/ r.path = "probe") /\ ~Exhausted(w)
  <2>1. /\ windows' = [windows EXCEPT ![b] = [w EXCEPT !.count = @ + 1]]
        /\ admitted' = [admitted EXCEPT ![b] = Append(@, now)]
        /\ promise' = [promise EXCEPT ![b] = 0]
        /\ Enter(s, r)
    BY <1>6 DEF Check
  <2>2. inflight' \in [Slots -> Entered \cup {NoRequest}]
    BY <2>1, EnterType
  <2> HIDE DEF w
  <2> QED
    BY <2>1, <2>2, <1>1, <1>3 DEF DoorTypeOK
<1> QED
  BY <1>4, <1>5, <1>6

\* A request that passed the key check enters and is counted as its key.
LEMMA CheckNoKey ==
  ASSUME DoorTypeOK, NoKeyNoEntry, NEW s \in Slots, NEW r \in Requests,
         Allowed(r), Check(s, r), UNCHANGED <<config, now>>
  PROVE  NoKeyNoEntry'
<1> SUFFICES ASSUME config.keys # {}
             PROVE  /\ \A t \in Slots : inflight'[t] # NoRequest =>
                         inflight'[t].path = "probe" \/ inflight'[t].key \in config.keys
                    /\ \A b \in Buckets \ config.keys : windows'[b] = NoWindow
  BY DEF NoKeyNoEntry
<1>1. ASSUME Enter(s, r)
      PROVE  \A t \in Slots : inflight'[t] # NoRequest =>
               inflight'[t].path = "probe" \/ inflight'[t].key \in config.keys
  <2>1. r.path = "probe" \/ PresentedKey(r) \in config.keys
    BY DEF Allowed
  <2> QED
    BY <1>1, <2>1 DEF Enter, NoKeyNoEntry, DoorTypeOK
<1>2. CASE config.limit = 0 \/ r.path = "probe"
  BY <1>1, <1>2 DEF Check, NoKeyNoEntry
<1>3. CASE ~(config.limit = 0 \/ r.path = "probe")
  <2>1. Bucket(r) \in config.keys
    BY <1>3, CountedUnderItsKey
  <2>2. \A b \in Buckets \ config.keys : windows'[b] = windows[b]
    BY <1>3, <2>1 DEF Check, DoorTypeOK
  <2>3. Enter(s, r) \/ UNCHANGED inflight
    BY <1>3 DEF Check
  <2> QED
    BY <1>1, <2>2, <2>3 DEF NoKeyNoEntry
<1> QED
  BY <1>2, <1>3

------------------------------------------------------------------------------
(* The admissions of a bucket *)

\* How an admission at time t in a window [st, c) extends the history a, when
\* the window has room: what WindowKnows and RateBounded say of a and of the
\* window they say of the longer history and the fuller window.
LEMMA Admission ==
  ASSUME NEW a \in Seq(Nat), NEW t \in Nat, NEW L \in Nat \ {0}, NEW W \in Nat,
         NEW st \in Nat, NEW c \in Nat, c < L, st <= t, c <= Len(a),
         \A i \in 1..Len(a) : a[i] <= t,
         \A i \in 1..Len(a) : i <= Len(a) - c => a[i] <= st,
         \A i \in 1..Len(a) : i <= Len(a) - c - L => a[i] + W <= st,
         \A i \in DOMAIN a : i + 2 * L \in DOMAIN a => a[i + 2 * L] - a[i] >= W,
         NEW a2, a2 = Append(a, t)
  PROVE  /\ Len(a2) = Len(a) + 1 /\ c + 1 <= Len(a2)
         /\ \A i \in 1..Len(a2) : a2[i] <= t
         /\ \A i \in 1..Len(a2) : i <= Len(a2) - (c + 1) => a2[i] <= st
         /\ \A i \in 1..Len(a2) : i <= Len(a2) - (c + 1) - L => a2[i] + W <= st
         /\ \A i \in DOMAIN a2 : i + 2 * L \in DOMAIN a2 => a2[i + 2 * L] - a2[i] >= W
<1> DEFINE n == Len(a)
<1>1. n \in Nat /\ DOMAIN a = 1..n
  OBVIOUS
<1>2. Len(a2) = n + 1 /\ DOMAIN a2 = 1..(n + 1) /\ a2[n + 1] = t
  OBVIOUS
<1>3. \A i \in 1..n : a2[i] = a[i] /\ a[i] \in Nat
  OBVIOUS
<1>4. c + 1 <= Len(a2)
  BY <1>1, <1>2
<1>5. \A i \in 1..Len(a2) : a2[i] <= t
  BY <1>1, <1>2, <1>3
<1>6. \A i \in 1..Len(a2) : i <= Len(a2) - (c + 1) => i \in 1..n /\ i <= n - c
  BY <1>1, <1>2
<1>7. \A i \in 1..Len(a2) : i <= Len(a2) - (c + 1) => a2[i] <= st
  BY <1>3, <1>6
<1>8. \A i \in 1..Len(a2) : i <= Len(a2) - (c + 1) - L => i \in 1..n /\ i <= n - c - L
  BY <1>1, <1>2
<1>9. \A i \in 1..Len(a2) : i <= Len(a2) - (c + 1) - L => a2[i] + W <= st
  BY <1>3, <1>8
<1>10. ASSUME NEW i \in DOMAIN a2, i + 2 * L \in DOMAIN a2
       PROVE  a2[i + 2 * L] - a2[i] >= W
  <2>1. i \in 1..n /\ i + 2 * L \in 1..(n + 1)
    BY <1>1, <1>2, <1>10
  <2>2. CASE i + 2 * L \in 1..n
    BY <1>1, <1>3, <2>1, <2>2
  <2>3. CASE i + 2 * L = n + 1
    <3>1. i <= n - c - L
      BY <1>1, <2>1, <2>3
    <3>2. a[i] + W <= st
      BY <2>1, <3>1
    <3> QED
      BY <1>2, <1>3, <2>1, <2>3, <3>2
  <2> QED
    BY <1>1, <2>1, <2>2, <2>3
<1> QED
  BY <1>2, <1>4, <1>5, <1>7, <1>9, <1>10

\* The window a request finds knows as much of the history as the one before
\* it: when a window starts afresh, the last one is over, and the admissions a
\* full limit back were not later than its start.
LEMMA FoundWindow ==
  ASSUME DoorTypeOK, config.limit > 0, RateBounded, NEW b \in Buckets, WindowKnows(b),
         NEW w, w = Current(windows[b])
  PROVE  /\ w.started <= now /\ w.count <= Len(admitted[b])
         /\ \A i \in 1..Len(admitted[b]) : admitted[b][i] <= now
         /\ \A i \in 1..Len(admitted[b]) :
              i <= Len(admitted[b]) - w.count => admitted[b][i] <= w.started
         /\ \A i \in 1..Len(admitted[b]) :
              i <= Len(admitted[b]) - w.count - config.limit =>
                admitted[b][i] + Window <= w.started
<1>1. /\ now \in Nat /\ config.limit \in Nat /\ Window \in Nat
      /\ admitted[b] \in Seq(Nat) /\ Len(admitted[b]) \in Nat
  <2>1. now \in Nat /\ admitted[b] \in Seq(Nat)
    BY DEF DoorTypeOK
  <2>2. config.limit \in Nat /\ Window \in Nat
    BY LimitIsNat, DoorAssumption
  <2> QED
    BY <2>1, <2>2
<1>2. windows[b].started \in Int /\ windows[b].count \in Nat
  BY DEF DoorTypeOK, WindowSet, NoWindow
<1>3. CASE w = windows[b]
  BY <1>1, <1>2, <1>3 DEF WindowKnows
<1>4. CASE /\ w = [started |-> now, count |-> 0]
           /\ windows[b].started < 0 \/ now - windows[b].started >= Window
  <2>1. w.started = now /\ w.count = 0
    BY <1>4
  <2>2. \A i \in 1..Len(admitted[b]) : admitted[b][i] \in Nat /\ admitted[b][i] <= now
    BY <1>1 DEF WindowKnows
  <2>3. ASSUME NEW i \in 1..Len(admitted[b]), i <= Len(admitted[b]) - config.limit
        PROVE  admitted[b][i] + Window <= now
    <3>1. windows[b].count <= config.limit
      BY DEF RateBounded
    <3>2. i <= Len(admitted[b]) - windows[b].count
      BY <1>1, <1>2, <2>3, <3>1
    <3>3. admitted[b][i] <= windows[b].started
      BY <3>2 DEF WindowKnows
    <3>4. now - windows[b].started >= Window
      BY <1>1, <1>2, <1>4, <2>2, <3>3
    <3> QED
      BY <1>1, <1>2, <2>2, <3>3, <3>4
  <2> QED
    BY <1>1, <2>1, <2>2, <2>3
<1> QED
  BY <1>3, <1>4, CurrentWindow

\* A counted request keeps what the windows know, the bound on the rate and
\* the promises: it is admitted into a window with room, or told to wait for
\* the end of a full one.
LEMMA CheckRate ==
  ASSUME DoorInv, NEW s \in Slots, NEW r \in Requests, Check(s, r),
         UNCHANGED <<config, now>>,
         NEW b, b = Bucket(r), NEW w, w = Current(windows[b])
  PROVE  /\ (config.limit > 0 => \A c \in Buckets : WindowKnows(c))'
         /\ RateBounded' /\ (\A c \in Buckets : PromiseKept(c))'
<1>1. b \in Buckets /\ config.limit \in Nat /\ Window \in Nat \ {0} /\ now \in Nat
  BY BucketIsBucket, LimitIsNat, DoorAssumption DEF DoorInv, DoorTypeOK
<1>2. CASE config.limit = 0 \/ r.path = "probe"
  <2>1. UNCHANGED <<windows, admitted, promise>>
    BY <1>2 DEF Check
  <2> QED
    BY <2>1 DEF DoorInv, WindowKnows, RateBounded, PromiseKept
<1>3. ASSUME config.limit # 0, r.path # "probe"
      PROVE  /\ w.started \in Nat /\ w.count \in Nat
             /\ w.started <= now /\ w.count <= Len(admitted[b])
             /\ \A i \in 1..Len(admitted[b]) : admitted[b][i] <= now
             /\ \A i \in 1..Len(admitted[b]) :
                  i <= Len(admitted[b]) - w.count => admitted[b][i] <= w.started
             /\ \A i \in 1..Len(admitted[b]) :
                  i <= Len(admitted[b]) - w.count - config.limit =>
                    admitted[b][i] + Window <= w.started
  <2>1. DoorTypeOK /\ config.limit > 0 /\ RateBounded /\ WindowKnows(b)
    BY <1>1, <1>3 DEF DoorInv
  <2>2. w.started \in Nat /\ w.count \in Nat
    BY <1>1, <2>1, CurrentWindow
  <2> QED
    BY <1>1, <2>1, <2>2, FoundWindow
<1>4. ASSUME config.limit # 0, r.path # "probe", Exhausted(w)
      PROVE  /\ w = windows[b] /\ windows' = windows /\ admitted' = admitted
             /\ promise' = [promise EXCEPT ![b] = now + (RetryAfter(w) + 1) * PerSecond]
             /\ w.started \in Nat /\ now - w.started < Window
  <2>1. w = windows[b] /\ now - w.started < Window
    BY <1>1, <1>4, CurrentWindow DEF DoorInv, Exhausted
  <2>2. windows' = [windows EXCEPT ![b] = w] /\ UNCHANGED admitted
        /\ promise' = [promise EXCEPT ![b] = now + (RetryAfter(w) + 1) * PerSecond]
    BY <1>4 DEF Check
  <2> QED
    BY <2>1, <2>2, <1>3, <1>4, <1>1 DEF DoorInv, DoorTypeOK
<1>5. CASE config.limit # 0 /\ r.path # "probe" /\ Exhausted(w)
  <2>1. (config.limit > 0 => \A c \in Buckets : WindowKnows(c))' /\ RateBounded'
    BY <1>4, <1>5 DEF DoorInv, WindowKnows, RateBounded
  <2>2. now + (RetryAfter(w) + 1) * PerSecond >= windows[b].started + Window
    <3> DEFINE left == Window - (now - w.started)
    <3>1. left \in Int /\ PerSecond \in Nat \ {0}
      BY <1>1, <1>4, <1>5, DoorAssumption
    <3>2. left < (left \div PerSecond) * PerSecond + PerSecond /\ left \div PerSecond \in Int
      BY <3>1, Rounded
    <3>3. RetryAfter(w) \in Int /\ left \div PerSecond <= RetryAfter(w)
      BY <3>2 DEF RetryAfter, Larger
    <3> HIDE DEF left
    <3>4. (left \div PerSecond) * PerSecond <= RetryAfter(w) * PerSecond
      BY <3>1, <3>2, <3>3, Grows
    <3>5. (RetryAfter(w) + 1) * PerSecond = RetryAfter(w) * PerSecond + PerSecond
      BY <3>1, <3>3
    <3>6. left < (RetryAfter(w) + 1) * PerSecond
      BY <3>1, <3>2, <3>3, <3>4, <3>5
    <3> QED
      BY <3>1, <3>3, <3>6, <1>1, <1>4, <1>5 DEF left
  <2>3. \A c \in Buckets \ {b} : promise'[c] = promise[c]
    BY <1>4, <1>5 DEF DoorInv, DoorTypeOK
  <2>4. promise'[b] = now + (RetryAfter(w) + 1) * PerSecond
    BY <1>1, <1>4, <1>5 DEF DoorInv, DoorTypeOK
  <2>5. windows' = windows /\ windows[b].started \in Nat
    BY <1>4, <1>5
  <2>6. PromiseKept(b)'
    BY <2>2, <2>4, <2>5, <1>1, <1>5 DEF PromiseKept
  <2>7. \A c \in Buckets \ {b} : PromiseKept(c)'
    BY <2>3, <2>5 DEF DoorInv, PromiseKept
  <2> QED
    BY <2>1, <2>6, <2>7
<1>6. CASE config.limit # 0 /\ r.path # "probe" /\ ~Exhausted(w)
  <2>1. /\ windows' = [windows EXCEPT ![b] = [w EXCEPT !.count = @ + 1]]
        /\ admitted' = [admitted EXCEPT ![b] = Append(@, now)]
        /\ promise' = [promise EXCEPT ![b] = 0]
    BY <1>6 DEF Check
  <2>2. w \in [started : Int, count : Nat]
    BY <1>1, CurrentWindow DEF DoorInv, WindowSet, NoWindow
  <2>3. w.started \in Nat /\ w.count \in Nat /\ w.count < config.limit
    BY <1>1, <1>3, <1>6 DEF Exhausted
  <2>4. \A c \in Buckets \ {b} : /\ windows'[c] = windows[c]
                                 /\ admitted'[c] = admitted[c] /\ promise'[c] = promise[c]
    BY <2>1 DEF DoorInv, DoorTypeOK
  <2>5. admitted[b] \in Seq(Nat) /\ admitted'[b] = Append(admitted[b], now)
        /\ promise'[b] = 0
    BY <2>1, <1>1 DEF DoorInv, DoorTypeOK
  <2>6. /\ w.started <= now /\ w.count <= Len(admitted[b])
        /\ \A i \in 1..Len(admitted[b]) : admitted[b][i] <= now
        /\ \A i \in 1..Len(admitted[b]) :
             i <= Len(admitted[b]) - w.count => admitted[b][i] <= w.started
        /\ \A i \in 1..Len(admitted[b]) :
             i <= Len(admitted[b]) - w.count - config.limit =>
               admitted[b][i] + Window <= w.started
    BY <1>3, <1>6
  <2>7. windows'[b].started = w.started /\ windows'[b].count = w.count + 1
    BY <2>1, <2>2, <1>1 DEF DoorInv, DoorTypeOK
  <2>8. \A i \in DOMAIN admitted[b] : i + 2 * config.limit \in DOMAIN admitted[b] =>
           admitted[b][i + 2 * config.limit] - admitted[b][i] >= Window
    BY <1>1, <1>6 DEF DoorInv, RateBounded
  <2>9. config.limit \in Nat \ {0} /\ Window \in Nat /\ now \in Nat
    BY <1>1, <1>6
  <2>10. /\ w.count + 1 <= Len(admitted'[b])
         /\ \A i \in 1..Len(admitted'[b]) : admitted'[b][i] <= now
         /\ \A i \in 1..Len(admitted'[b]) :
              i <= Len(admitted'[b]) - (w.count + 1) => admitted'[b][i] <= w.started
         /\ \A i \in 1..Len(admitted'[b]) :
              i <= Len(admitted'[b]) - (w.count + 1) - config.limit =>
                admitted'[b][i] + Window <= w.started
         /\ \A i \in DOMAIN admitted'[b] : i + 2 * config.limit \in DOMAIN admitted'[b] =>
              admitted'[b][i + 2 * config.limit] - admitted'[b][i] >= Window
    <3> DEFINE a == admitted[b]
               a2 == admitted'[b]
               L == config.limit
               c == w.count
               st == w.started
    <3>1. a \in Seq(Nat) /\ a2 = Append(a, now) /\ now \in Nat /\ Window \in Nat
      BY <2>5, <2>9
    <3>2. \A i \in DOMAIN a : i + 2 * L \in DOMAIN a => a[i + 2 * L] - a[i] >= Window
      BY <2>8
    <3>3. L \in Nat \ {0} /\ st \in Nat /\ c \in Nat /\ c < L
      BY <2>3, <2>9
    <3>4. /\ st <= now /\ c <= Len(a)
          /\ \A i \in 1..Len(a) : a[i] <= now
          /\ \A i \in 1..Len(a) : i <= Len(a) - c => a[i] <= st
          /\ \A i \in 1..Len(a) : i <= Len(a) - c - L => a[i] + Window <= st
      BY <2>6
    <3> HIDE DEF a, a2, L, c, st
    <3>5. /\ c + 1 <= Len(a2)
          /\ \A i \in 1..Len(a2) : a2[i] <= now
          /\ \A i \in 1..Len(a2) : i <= Len(a2) - (c + 1) => a2[i] <= st
          /\ \A i \in 1..Len(a2) : i <= Len(a2) - (c + 1) - L => a2[i] + Window <= st
          /\ \A i \in DOMAIN a2 : i + 2 * L \in DOMAIN a2 => a2[i + 2 * L] - a2[i] >= Window
      BY <3>1, <3>2, <3>3, <3>4, Admission, ZenonT(60)
    <3> QED
      BY <3>5 DEF a, a2, L, c, st
  <2>11. \A c \in Buckets : WindowKnows(c)'
    <3>1. WindowKnows(b)'
      BY <2>3, <2>6, <2>7, <2>10, <1>1 DEF WindowKnows
    <3>2. \A c \in Buckets \ {b} : WindowKnows(c)'
      BY <2>4, <1>1, <1>6 DEF DoorInv, WindowKnows
    <3> QED
      BY <3>1, <3>2
  <2>12. RateBounded'
    <3>1. windows'[b].count <= config.limit
      BY <2>3, <2>7, <1>1
    <3> QED
      BY <2>4, <2>10, <3>1, <1>1 DEF DoorInv, RateBounded
  <2>13. \A c \in Buckets : PromiseKept(c)'
    <3>1. PromiseKept(b)'
      BY <2>5 DEF PromiseKept
    <3>2. \A c \in Buckets \ {b} : PromiseKept(c)'
      BY <2>4 DEF DoorInv, PromiseKept
    <3> QED
      BY <3>1, <3>2
  <2> QED
    BY <2>11, <2>12, <2>13
<1> QED
  BY <1>2, <1>5, <1>6

------------------------------------------------------------------------------
(* The door: the inductive invariant *)

\* At the start no bucket has a history.
LEMMA InitInv == DoorInit => DoorInv
<1> SUFFICES ASSUME DoorInit PROVE DoorInv
  OBVIOUS
<1>1. config \in Configs /\ now = 0 /\ inflight = [s \in Slots |-> NoRequest]
  BY DEF DoorInit
<1>2. \A b \in Buckets : /\ windows[b] = NoWindow /\ admitted[b] = <<>> /\ promise[b] = 0
                         /\ Len(admitted[b]) = 0 /\ DOMAIN admitted[b] = {}
  BY DEF DoorInit
<1>3. DoorTypeOK
  BY DEF DoorInit, DoorTypeOK
<1>4. NoKeyNoEntry
  BY <1>1, <1>2 DEF NoKeyNoEntry
<1>5. \A b \in Buckets : WindowKnows(b) /\ PromiseKept(b)
  BY <1>1, <1>2, <1>3, LimitIsNat DEF WindowKnows, PromiseKept, NoWindow
<1>6. RateBounded
  BY <1>1, <1>2, <1>3, LimitIsNat DEF RateBounded, NoWindow
<1> QED
  BY <1>3, <1>4, <1>5, <1>6 DEF DoorInv

\* What neither a window nor a history nor the clock tells apart.
LEMMA NothingCounted ==
  ASSUME DoorInv, UNCHANGED <<config, windows, admitted, promise>>,
         now' \in Nat, now <= now'
  PROVE  /\ (config.limit > 0 => \A b \in Buckets : WindowKnows(b))'
         /\ RateBounded' /\ (\A b \in Buckets : PromiseKept(b))'
<1>1. RateBounded' /\ (\A b \in Buckets : PromiseKept(b))'
  BY DEF DoorInv, RateBounded, PromiseKept
<1>2. ASSUME config.limit > 0, NEW b \in Buckets
      PROVE  WindowKnows(b)'
  <2>1. WindowKnows(b) /\ now \in Nat
    BY <1>2 DEF DoorInv, DoorTypeOK
  <2>2. windows[b].started \in Int /\ windows[b].started <= now'
    BY <2>1 DEF DoorInv, DoorTypeOK, WindowSet, NoWindow, WindowKnows
  <2>3. \A i \in 1..Len(admitted[b]) : admitted[b][i] \in Nat /\ admitted[b][i] <= now'
    BY <2>1 DEF DoorInv, DoorTypeOK, WindowKnows
  <2> QED
    BY <2>1, <2>2, <2>3 DEF WindowKnows
<1> QED
  BY <1>1, <1>2

\* Every step keeps the invariant.
LEMMA NextInv == DoorInv /\ [DoorNext]_door => DoorInv'
<1> SUFFICES ASSUME DoorInv, [DoorNext]_door PROVE DoorInv'
  OBVIOUS
<1>1. DoorTypeOK /\ NoKeyNoEntry /\ now \in Nat
  BY DEF DoorInv, DoorTypeOK
<1>2. ASSUME NEW s \in Slots, NEW r \in Requests, Arrive(s, r)
      PROVE  DoorInv'
  <2>1. UNCHANGED <<config, now>>
    BY <1>2 DEF Arrive
  <2>2. CASE Check(s, r) /\ Allowed(r)
    <3>1. DoorTypeOK' /\ NoKeyNoEntry'
      BY <1>1, <2>1, <2>2, CheckType, CheckNoKey
    <3>2. /\ (config.limit > 0 => \A b \in Buckets : WindowKnows(b))'
          /\ RateBounded' /\ (\A b \in Buckets : PromiseKept(b))'
      BY <2>1, <2>2, CheckRate
    <3> QED
      BY <3>1, <3>2 DEF DoorInv
  <2>3. CASE UNCHANGED <<windows, inflight, admitted, promise>>
    BY <2>1, <2>3 DEF DoorInv, DoorTypeOK, NoKeyNoEntry, RateBounded, WindowKnows, PromiseKept
  <2> QED
    BY <1>2, <2>2, <2>3 DEF Arrive, KeyThenLimit
<1>3. ASSUME NEW s \in Slots, Free(s)
      PROVE  DoorInv'
  <2>1. UNCHANGED <<config, now, windows, admitted, promise>>
    BY <1>3 DEF Free
  <2>2. inflight' = [inflight EXCEPT ![s] = NoRequest]
    BY <1>3 DEF Free
  <2>3. DoorTypeOK' /\ NoKeyNoEntry'
    BY <1>1, <2>1, <2>2 DEF DoorTypeOK, NoKeyNoEntry
  <2> QED
    BY <1>1, <2>1, <2>3, NothingCounted DEF DoorInv
<1>4. CASE Tick
  <2>1. UNCHANGED <<config, windows, inflight, admitted, promise>> /\ now' = now + 1
    BY <1>4 DEF Tick
  <2>2. DoorTypeOK' /\ NoKeyNoEntry'
    BY <1>1, <2>1 DEF DoorTypeOK, NoKeyNoEntry
  <2> QED
    BY <1>1, <2>1, <2>2, NothingCounted DEF DoorInv
<1>5. CASE UNCHANGED door
  BY <1>5 DEF door, DoorInv, DoorTypeOK, NoKeyNoEntry, RateBounded, WindowKnows, PromiseKept
<1> QED
  BY <1>2, <1>3, <1>4, <1>5 DEF DoorNext, HandlerEnds, TimesOut

\* The invariant holds in every state the layers reach.
THEOREM DoorInductive == DoorSpec => []DoorInv
  BY InitInv, NextInv, PTL DEF DoorSpec

------------------------------------------------------------------------------
(* The door: what it means *)

\* Nobody enters and nothing is counted without a key, however many keys,
\* strangers and requests there are: see NoKeyNoEntry.
THEOREM KeysGuardTheDoor == DoorSpec => []NoKeyNoEntry
<1>1. DoorInv => NoKeyNoEntry
  BY DEF DoorInv
<1> QED
  BY <1>1, DoorInductive, PTL

\* No stretch of a window's length sees more than twice the limit, for any
\* limit and any length of the window: see RateBounded.
THEOREM RateIsBounded == DoorSpec => []RateBounded
<1>1. DoorInv => RateBounded
  BY DEF DoorInv
<1> QED
  BY <1>1, DoorInductive, PTL

\* Whoever waits for the announced seconds and one more finds the window it
\* was refused in ended, for any window and any resolution of the clock: see
\* RetryIsHonest.
THEOREM RetriesAreHonest == DoorSpec => []RetryIsHonest
<1>1. DoorInv => RetryIsHonest
  <2> SUFFICES ASSUME DoorInv, NEW b \in Buckets, promise[b] > 0, now >= promise[b]
               PROVE  Current(windows[b]).count < config.limit
    BY DEF RetryIsHonest
  <2>1. /\ config.limit > 0 /\ windows[b].started >= 0
        /\ promise[b] >= windows[b].started + Window
    BY DEF DoorInv, PromiseKept
  <2>2. windows[b].started \in Int /\ promise[b] \in Nat /\ now \in Nat /\ Window \in Nat
    BY DoorAssumption DEF DoorInv, DoorTypeOK, WindowSet, NoWindow
  <2>3. now - windows[b].started >= Window
    BY <2>1, <2>2
  <2>4. Current(windows[b]).count = 0
    BY <2>3 DEF Current
  <2> QED
    BY <2>1, <2>4
<1> QED
  BY <1>1, DoorInductive, PTL

------------------------------------------------------------------------------
(* Validation: two ways to check a form *)

\* What the two handlers answer to a form, without the variables.
VerdictOf(p, f) ==
  [valid |-> Errors(p, f, Candidates(f.urls)) = {},
   errors |-> Errors(p, f, Candidates(f.urls)),
   accepted |-> Accepted(DistinctUrls(p, f.urls, Candidates(f.urls)), f)]
OutcomeOf(p, f) ==
  [error |-> FirstError(p, f),
   accepted |-> IF FirstError(p, f)[3] = "none"
                  THEN Accepted(DistinctUrls(p, f.urls, Typed(f.urls)), f) ELSE Missing]

\* The inductive invariant.
ValidationInv ==
  /\ policy \in Policies /\ form \in Forms \cup {Missing}
  /\ verdict # Missing => form \in Forms /\ form # Missing /\ verdict = VerdictOf(policy, form)
  /\ outcome # Missing => form \in Forms /\ form # Missing /\ outcome = OutcomeOf(policy, form)

\* What is typed is the same for both: the positions of what is not blank.
LEMMA TypedPositions ==
  ASSUME NEW values \in InputLists
  PROVE  /\ Candidates(values) = Typed(values)
         /\ Typed(values) \in Seq(DOMAIN values) /\ Injective(Typed(values))
         /\ \A i \in ToSet(Typed(values)) : i \in DOMAIN values /\ values[i] # Blank
<1> DEFINE D == DOMAIN values
           set == {i \in D : values[i] # Blank}
           at == Positions(values)
<1>1. values \in Seq(ToSet(values))
  BY ValidationAssumption
<1>2. D = 1 .. Len(values) /\ Len(values) \in Nat
  BY <1>1
<1>3. at \in Seq(D) /\ Injective(at)
  BY <1>2 DEF Positions, Injective
<1> HIDE DEF D, set, at
<1>4. /\ Filter(at, set) \in Seq(D) /\ Injective(Filter(at, set))
      /\ ToSet(Filter(at, set)) = ToSet(at) \cap set
  BY <1>3, FilteredList
<1>5. \A i \in set : i \in D /\ values[i] # Blank
  BY DEF set
<1>6. Typed(values) = Filter(at, set) /\ Candidates(values) = Filter(at, set)
  BY DEF Typed, Candidates, at, set, D
<1> QED
  BY <1>4, <1>5, <1>6 DEF D

\* The first error and the list of all of them, for what was typed.
LEMMA ErrorsAgree ==
  ASSUME NEW p, NEW f \in Forms, NEW chosen, chosen = Typed(f.urls)
  PROVE  /\ Errors(p, f, chosen) = {} <=> FirstError(p, f)[3] = "none"
         /\ Errors(p, f, chosen) # {} => FirstError(p, f) \in Errors(p, f, chosen)
         /\ FirstError(p, f)[1] \in {"urls", "webhook_url", "format", "cookie_profile"}
         /\ FirstError(p, f)[3] = "none" =>
              /\ chosen # <<>> /\ ~(Len(chosen) > p.maxUrls)
              /\ \A i \in ToSet(chosen) : UrlError(p, f.urls[i]) = "none"
<1> DEFINE wrong == {i \in ToSet(chosen) : UrlError(p, f.urls[i]) # "none"}
           bad == Filter(chosen, wrong)
           wrongs == Errors(p, f, chosen)
           first == FirstError(p, f)
           count == chosen = <<>> \/ Len(chosen) > p.maxUrls
           hook == WebhookError(p, f.webhook)
           format == FormatError(f.format)
           cookie == CookieError(p, f.cookie)
<1>1. f.urls \in InputLists
  BY DEF Forms
<1>2. chosen \in Seq(DOMAIN f.urls)
  BY <1>1, TypedPositions
<1>3. bad \in Seq(DOMAIN f.urls) /\ ToSet(bad) = ToSet(chosen) \cap wrong
  BY <1>2, FilteredList
<1>4. bad # <<>> => bad[1] \in wrong
  <2> HIDE DEF bad, wrong
  <2> SUFFICES ASSUME bad # <<>> PROVE bad[1] \in wrong
    OBVIOUS
  <2>1. 1 \in DOMAIN bad
    BY <1>3
  <2> QED
    BY <2>1, <1>3 DEF ToSet
<1>5. bad = <<>> => wrong = {}
  <2> HIDE DEF bad
  <2> SUFFICES ASSUME bad = <<>> PROVE wrong = {}
    OBVIOUS
  <2>1. ToSet(bad) = {}
    BY DEF ToSet
  <2> QED
    BY <2>1, <1>3
<1>6. first = IF count THEN <<"urls", 0, "count">>
              ELSE IF bad # <<>> THEN <<"urls", bad[1], UrlError(p, f.urls[bad[1]])>>
              ELSE IF hook # "none" THEN <<"webhook_url", 0, hook>>
              ELSE IF format # "none" THEN <<"format", 0, format>>
              ELSE <<"cookie_profile", 0, cookie>>
  BY DEF FirstError
<1>7. wrongs = {<<"urls", i, UrlError(p, f.urls[i])>> : i \in wrong}
              \cup (IF count THEN {<<"urls", 0, "count">>} ELSE {})
              \cup {e \in {<<"webhook_url", 0, hook>>, <<"format", 0, format>>,
                           <<"cookie_profile", 0, cookie>>} : e[3] # "none"}
  BY DEF Errors
<1> HIDE DEF bad, wrongs, first, hook, format, cookie, count
<1>8. \A i \in wrong : UrlError(p, f.urls[i]) # "none"
  OBVIOUS
<1>9. CASE count
  <2>1. first = <<"urls", 0, "count">> /\ first \in wrongs
    BY <1>6, <1>7, <1>9
  <2> QED
    BY <2>1 DEF first, wrongs
<1>10. CASE ~count /\ bad # <<>>
  <2>1. first = <<"urls", bad[1], UrlError(p, f.urls[bad[1]])>>
    BY <1>6, <1>10
  <2>2. bad[1] \in wrong /\ UrlError(p, f.urls[bad[1]]) # "none"
    BY <1>4, <1>8, <1>10
  <2>3. first \in wrongs
    BY <2>1, <2>2, <1>7
  <2>4. first[3] # "none" /\ first[1] = "urls"
    BY <2>1, <2>2
  <2> QED
    BY <2>3, <2>4 DEF first, wrongs
<1>11. CASE ~count /\ bad = <<>>
  <2>1. wrong = {}
    BY <1>5, <1>11
  <2>2. wrongs = {e \in {<<"webhook_url", 0, hook>>, <<"format", 0, format>>,
                      <<"cookie_profile", 0, cookie>>} : e[3] # "none"}
    BY <2>1, <1>7, <1>11
  <2>3. first = IF hook # "none" THEN <<"webhook_url", 0, hook>>
                ELSE IF format # "none" THEN <<"format", 0, format>>
                ELSE <<"cookie_profile", 0, cookie>>
    BY <1>6, <1>11
  <2>4. first[3] = "none" <=> hook = "none" /\ format = "none" /\ cookie = "none"
    BY <2>3
  <2>5. wrongs = {} <=> hook = "none" /\ format = "none" /\ cookie = "none"
    <3>1. \A x, y : <<x, 0, y>>[3] = y
      OBVIOUS
    <3> QED
      BY <2>2, <3>1
  <2>6. wrongs # {} => first \in wrongs
    <3> SUFFICES ASSUME wrongs # {} PROVE first \in wrongs
      OBVIOUS
    <3>1. first[3] # "none"
      BY <2>4, <2>5
    <3>2. first \in {<<"webhook_url", 0, hook>>, <<"format", 0, format>>,
                     <<"cookie_profile", 0, cookie>>}
      BY <2>3
    <3> QED
      BY <3>1, <3>2, <2>2
  <2>7. first[1] \in {"urls", "webhook_url", "format", "cookie_profile"}
    BY <2>3
  <2>8. \A i \in ToSet(chosen) : UrlError(p, f.urls[i]) = "none"
    BY <2>1
  <2>9. chosen # <<>> /\ ~(Len(chosen) > p.maxUrls)
    BY <1>11 DEF count
  <2> QED
    BY <2>4, <2>5, <2>6, <2>7, <2>8, <2>9 DEF first, wrongs
<1> QED
  BY <1>9, <1>10, <1>11

\* A URL without an error is for an enabled platform.
LEMMA EnabledUrl ==
  ASSUME NEW p, NEW url, UrlError(p, url) = "none"
  PROVE  PlatformForHost(url.host) \in p.enabled
BY DEF UrlError

\* The jobs of a request: every valid URL once, in the order of the request.
LEMMA UrlsDistinct ==
  ASSUME NEW p \in Policies, NEW values \in InputLists, NEW chosen, chosen = Typed(values),
         NEW urls, urls = DistinctUrls(p, values, chosen)
  PROVE  /\ urls \in Seq(ParsedUrls) /\ Len(urls) <= Len(chosen)
         /\ \A i, k \in DOMAIN urls : urls[i] = urls[k] => i = k
         /\ \A i \in DOMAIN urls : PlatformForHost(urls[i].host) \in p.enabled
         /\ chosen # <<>> /\ (\A i \in ToSet(chosen) : UrlError(p, values[i]) = "none")
              => Len(urls) >= 1
<1> DEFINE D == DOMAIN values
           good == {i \in ToSet(chosen) : UrlError(p, values[i]) = "none"}
           valid == Filter(chosen, good)
           Seen(n) == \E k \in 1 .. (n - 1) :
                        Parsed(values[valid[k]]) = Parsed(values[valid[n]])
           new == {n \in DOMAIN valid : ~Seen(n)}
           firsts == Filter(Positions(valid), new)
<1>1. /\ chosen \in Seq(D)
      /\ \A i \in ToSet(chosen) : i \in D /\ values[i] # Blank
  BY TypedPositions
<1>2. valid \in Seq(D) /\ ToSet(valid) = ToSet(chosen) \cap good /\ Len(valid) <= Len(chosen)
  BY <1>1, FilteredList, FilterPicked
<1>3. \A i \in good : /\ UrlError(p, values[i]) = "none" /\ i \in D /\ values[i] # Blank
  BY <1>1
<1>4. urls = [n \in DOMAIN firsts |-> Parsed(values[valid[firsts[n]]])]
  BY DEF DistinctUrls
<1>5. \A n \in new : n \in DOMAIN valid /\ ~Seen(n)
  OBVIOUS
<1>6. \A n \in DOMAIN valid : Seen(n) \/ n \in new
  OBVIOUS
<1>7. \A n \in DOMAIN valid : \A k \in 1 .. (n - 1) :
        Parsed(values[valid[k]]) = Parsed(values[valid[n]]) => Seen(n)
  OBVIOUS
<1>8. \A n \in DOMAIN valid : 1 .. (n - 1) = {} => ~Seen(n)
  OBVIOUS
<1> HIDE DEF D, valid, good, new, Seen
<1>9. DOMAIN valid = 1 .. Len(valid) /\ Len(valid) \in Nat /\ Len(chosen) \in Nat
  BY <1>1, <1>2
<1>10. /\ Positions(valid) \in Seq(DOMAIN valid) /\ Injective(Positions(valid))
       /\ Len(Positions(valid)) = Len(valid) /\ ToSet(Positions(valid)) = DOMAIN valid
  <2>1. Positions(valid) = [i \in 1 .. Len(valid) |-> i]
    BY DEF Positions
  <2>2. /\ Positions(valid) \in Seq(DOMAIN valid) /\ Len(Positions(valid)) = Len(valid)
        /\ DOMAIN Positions(valid) = 1 .. Len(valid)
    BY <2>1, <1>9
  <2>3. Injective(Positions(valid))
    BY <2>1, <2>2 DEF Injective
  <2>4. ToSet(Positions(valid)) = DOMAIN valid
    BY <2>1, <2>2, <1>9 DEF ToSet
  <2> QED
    BY <2>2, <2>3, <2>4
<1>11. /\ firsts \in Seq(DOMAIN valid) /\ Injective(firsts) /\ Len(firsts) <= Len(valid)
       /\ ToSet(firsts) = DOMAIN valid \cap new
  <2>1. PICK at : at = Positions(valid)
    OBVIOUS
  <2>2. at \in Seq(DOMAIN valid) /\ Injective(at) /\ Len(at) = Len(valid)
        /\ ToSet(at) = DOMAIN valid
    BY <2>1, <1>10
  <2>3. /\ Filter(at, new) \in Seq(DOMAIN valid) /\ Injective(Filter(at, new))
        /\ ToSet(Filter(at, new)) = ToSet(at) \cap new
    BY <2>2, FilteredList
  <2>4. Len(Filter(at, new)) <= Len(at)
    BY <2>2, FilterPicked
  <2> QED
    BY <2>1, <2>2, <2>3, <2>4
<1> HIDE DEF firsts
<1>12. DOMAIN firsts = 1 .. Len(firsts) /\ Len(firsts) \in Nat
  BY <1>11
<1>13. \A n \in DOMAIN firsts : firsts[n] \in DOMAIN valid /\ firsts[n] \in new
  BY <1>11 DEF ToSet
<1>14. \A n \in DOMAIN valid : valid[n] \in good
  BY <1>2 DEF ToSet
<1>15. \A n \in DOMAIN firsts : urls[n] = Parsed(values[valid[firsts[n]]])
  BY <1>4
<1>16. \A n \in DOMAIN firsts : urls[n] \in ParsedUrls
  <2> SUFFICES ASSUME NEW n \in DOMAIN firsts PROVE urls[n] \in ParsedUrls
    OBVIOUS
  <2>1. PICK i \in good : i = valid[firsts[n]]
    BY <1>13, <1>14
  <2>2. values[i] \in ToSet(values) /\ values[i] # Blank
    BY <2>1, <1>3 DEF ToSet, D
  <2> QED
    BY <2>1, <2>2, <1>15 DEF ParsedUrls
<1>17. urls \in Seq(ParsedUrls) /\ Len(urls) = Len(firsts) /\ DOMAIN urls = DOMAIN firsts
  BY <1>4, <1>12, <1>15, <1>16
<1>18. ASSUME NEW i \in DOMAIN urls, NEW k \in DOMAIN urls, urls[i] = urls[k]
       PROVE  i = k
  <2>1. /\ firsts[i] \in DOMAIN valid /\ firsts[k] \in DOMAIN valid
        /\ ~Seen(firsts[i]) /\ ~Seen(firsts[k])
        /\ Parsed(values[valid[firsts[i]]]) = Parsed(values[valid[firsts[k]]])
    BY <1>5, <1>13, <1>15, <1>17, <1>18
  <2>2. ~(firsts[i] \in 1 .. (firsts[k] - 1)) /\ ~(firsts[k] \in 1 .. (firsts[i] - 1))
    BY <2>1, <1>7
  <2>3. firsts[i] = firsts[k]
    BY <2>1, <2>2, <1>9
  <2> QED
    BY <2>3, <1>11, <1>12, <1>17 DEF Injective
<1>19. ASSUME NEW i \in DOMAIN urls
       PROVE  PlatformForHost(urls[i].host) \in p.enabled
  <2>1. PICK n \in good : urls[i] = Parsed(values[n])
    BY <1>13, <1>14, <1>15, <1>17
  <2>2. urls[i].host = values[n].host
    BY <2>1 DEF Parsed
  <2>3. PlatformForHost(values[n].host) \in p.enabled
    BY <1>3, EnabledUrl
  <2> QED
    BY <2>2, <2>3
<1>20. ASSUME chosen # <<>>, \A i \in ToSet(chosen) : UrlError(p, values[i]) = "none"
       PROVE  Len(urls) >= 1
  <2>1. good = ToSet(chosen)
    BY <1>20 DEF good
  <2>2. ToSet(valid) = ToSet(chosen)
    BY <2>1, <1>2
  <2>3. chosen[1] \in ToSet(chosen)
    BY <1>1, <1>20 DEF ToSet
  <2>4. PICK n \in DOMAIN valid : TRUE
    BY <2>2, <2>3 DEF ToSet
  <2>5. 1 \in DOMAIN valid
    BY <1>9
  <2>6. 1 .. (1 - 1) = {}
    OBVIOUS
  <2>7. 1 \in new
    BY <2>5, <2>6, <1>6, <1>8
  <2>8. 1 \in ToSet(firsts)
    BY <2>5, <2>7, <1>11
  <2> QED
    BY <2>8, <1>12, <1>17 DEF ToSet
<1> QED
  BY <1>2, <1>9, <1>11, <1>12, <1>17, <1>18, <1>19, <1>20

\* What is accepted is a request, and not nothing.
LEMMA AcceptedIsForm ==
  ASSUME NEW f \in Forms, NEW urls \in Seq(ParsedUrls)
  PROVE  Accepted(urls, f) # Missing /\ Accepted(urls, f).urls = urls
<1>1. /\ Optional(f.webhook) \in Webhooks \cup {Missing}
      /\ Optional(f.format) \in Formats \cup {Missing}
  BY DEF Forms, Optional
<1>2. (IF f.cookie \in {Missing, Blank} THEN Missing ELSE f.cookie.lower) \in
        {c.lower : c \in CookieNames \ {Missing, Blank}} \cup {Missing}
  BY DEF Forms
<1>3. Accepted(urls, f) \in AcceptedForms
  BY <1>1, <1>2 DEF Accepted, AcceptedForms
<1> QED
  BY <1>3, ValidationAssumption DEF Accepted

\* What validation says and what submission does, for any request and policy.
LEMMA VerdictAndOutcome ==
  ASSUME NEW p \in Policies, NEW f \in Forms, NEW v, v = VerdictOf(p, f),
         NEW o, o = OutcomeOf(p, f)
  PROVE  /\ v.valid <=> o.accepted # Missing
         /\ v.valid => v.accepted = o.accepted
         /\ ~v.valid => o.error \in v.errors
         /\ o.accepted # Missing =>
              /\ \A i, k \in DOMAIN o.accepted.urls :
                   o.accepted.urls[i] = o.accepted.urls[k] => i = k
              /\ \A i \in DOMAIN o.accepted.urls :
                   PlatformForHost(o.accepted.urls[i].host) \in p.enabled
              /\ Len(o.accepted.urls) \in 1 .. p.maxUrls
<1> DEFINE chosen == Typed(f.urls)
           urls == DistinctUrls(p, f.urls, chosen)
           errors == Errors(p, f, chosen)
           first == FirstError(p, f)
           accepted == Accepted(urls, f)
<1>1. f.urls \in InputLists
  BY DEF Forms
<1>2. v = [valid |-> errors = {}, errors |-> errors, accepted |-> accepted]
  BY <1>1, TypedPositions DEF VerdictOf
<1>3. o = [error |-> first, accepted |-> IF first[3] = "none" THEN accepted ELSE Missing]
  BY DEF OutcomeOf
<1>4. /\ urls \in Seq(ParsedUrls) /\ Len(urls) <= Len(chosen)
      /\ \A i, k \in DOMAIN urls : urls[i] = urls[k] => i = k
      /\ \A i \in DOMAIN urls : PlatformForHost(urls[i].host) \in p.enabled
      /\ chosen # <<>> /\ (\A i \in ToSet(chosen) : UrlError(p, f.urls[i]) = "none")
              => Len(urls) >= 1
  BY <1>1, UrlsDistinct
<1>5. /\ errors = {} <=> first[3] = "none"
      /\ errors # {} => first \in errors
      /\ first[3] = "none" =>
           /\ chosen # <<>> /\ ~(Len(chosen) > p.maxUrls)
           /\ \A i \in ToSet(chosen) : UrlError(p, f.urls[i]) = "none"
  BY ErrorsAgree
<1>6. accepted # Missing /\ accepted.urls = urls
  BY <1>4, AcceptedIsForm
<1>7. Len(chosen) \in Nat /\ p.maxUrls \in Nat
  <2>1. chosen \in Seq(DOMAIN f.urls)
    BY <1>1, TypedPositions
  <2> QED
    BY <2>1, ValidationAssumption
<1> HIDE DEF chosen, urls, errors, first, accepted
<1>8. /\ v.valid = (errors = {}) /\ v.errors = errors /\ v.accepted = accepted
      /\ o.error = first /\ o.accepted = IF first[3] = "none" THEN accepted ELSE Missing
  BY <1>2, <1>3
<1>9. ASSUME first[3] = "none"
      PROVE  Len(urls) \in 1 .. p.maxUrls
  <2>1. Len(urls) \in Nat
    BY <1>4
  <2>2. Len(urls) >= 1
    BY <1>4, <1>5, <1>9
  <2>3. ~(Len(chosen) > p.maxUrls) /\ Len(urls) <= Len(chosen)
    BY <1>4, <1>5, <1>9
  <2> DEFINE a == Len(urls)
             b == Len(chosen)
             c == p.maxUrls
  <2>4. a \in Nat /\ b \in Nat /\ c \in Nat /\ a >= 1 /\ a <= b /\ ~(b > c)
    BY <2>1, <2>2, <2>3, <1>7
  <2> HIDE DEF a, b, c
  <2>5. a \in 1 .. c
    BY <2>4
  <2> QED
    BY <2>5 DEF a, c
<1>10. CASE first[3] = "none"
  <2>1. o.accepted = accepted /\ v.valid = TRUE
    BY <1>5, <1>8, <1>10
  <2> QED
    BY <2>1, <1>4, <1>6, <1>8, <1>9, <1>10
<1>11. CASE first[3] # "none"
  <2>1. o.accepted = Missing /\ v.valid = FALSE /\ o.error \in v.errors
    BY <1>5, <1>8, <1>11
  <2> QED
    BY <2>1
<1> QED
  BY <1>10, <1>11

\* Before a form is filled in nothing is checked.
LEMMA ValidationInitially == ValidationInit => ValidationInv
BY DEF ValidationInit, ValidationInv

\* Every step keeps the invariant: the two endpoints may answer in either order.
LEMMA ValidationStep == ValidationInv /\ [ValidationNext]_validation => ValidationInv'
<1> SUFFICES ASSUME ValidationInv, [ValidationNext]_validation PROVE ValidationInv'
  OBVIOUS
<1>1. CASE Fill
  BY <1>1 DEF Fill, ValidationInv
<1>2. CASE Validate
  <2>1. verdict' = VerdictOf(policy, form) /\ UNCHANGED <<policy, form, outcome>>
        /\ form # Missing
    BY <1>2 DEF Validate, VerdictOf
  <2> QED
    BY <2>1 DEF ValidationInv
<1>3. CASE SubmitForm
  <2>1. outcome' = OutcomeOf(policy, form) /\ UNCHANGED <<policy, form, verdict>>
        /\ form # Missing
    BY <1>3 DEF SubmitForm, OutcomeOf
  <2> QED
    BY <2>1 DEF ValidationInv
<1>4. CASE Forget
  BY <1>4 DEF Forget, ValidationInv
<1>5. CASE UNCHANGED validation
  BY <1>5 DEF validation, ValidationInv
<1> QED
  BY <1>1, <1>2, <1>3, <1>4, <1>5 DEF ValidationNext

\* In every reachable state the verdict and the outcome are those of the form that is
\* being checked, computed by the two handlers each in its own way
\* (validate_download, create_download).
THEOREM ValidationInvariant == ValidationSpec => []ValidationInv
BY ValidationInitially, ValidationStep, PTL DEF ValidationSpec

\* The invariant gives the types.
LEMMA ValidationTypesHold == ValidationInv => ValidationTypeOK
<1> SUFFICES ASSUME ValidationInv PROVE ValidationTypeOK
  OBVIOUS
<1>1. verdict # Missing => verdict.valid \in BOOLEAN
  <2> SUFFICES ASSUME verdict # Missing PROVE verdict.valid \in BOOLEAN
    OBVIOUS
  <2>1. verdict = VerdictOf(policy, form)
    BY DEF ValidationInv
  <2>2. \A p, f : VerdictOf(p, f).valid = (Errors(p, f, Candidates(f.urls)) = {})
    BY DEF VerdictOf
  <2>3. \A p, f : VerdictOf(p, f).valid \in BOOLEAN
    BY <2>2
  <2> QED
    BY <2>1, <2>3
<1>2. outcome # Missing =>
        outcome.error[1] \in {"urls", "webhook_url", "format", "cookie_profile"}
  <2> SUFFICES ASSUME outcome # Missing
               PROVE  outcome.error[1] \in {"urls", "webhook_url", "format", "cookie_profile"}
    OBVIOUS
  <2>1. form \in Forms /\ outcome.error = FirstError(policy, form)
    BY DEF ValidationInv, OutcomeOf
  <2> QED
    BY <2>1, ErrorsAgree
<1> QED
  BY <1>1, <1>2 DEF ValidationInv, ValidationTypeOK

\* The variables keep their types, for any policies and forms.
THEOREM ValidationTypes == ValidationSpec => []ValidationTypeOK
BY ValidationInvariant, ValidationTypesHold, PTL

\* What validates is accepted as the same jobs, what is refused is refused for an error
\* that validation lists, and the jobs are for different URLs of enabled platforms, for
\* lists of any length (validate_urls, normalize_urls): see ValidateAgrees.
THEOREM ValidationAgrees == ValidationSpec => []ValidateAgrees
<1>1. ValidationInv => ValidateAgrees
  <2> SUFFICES ASSUME ValidationInv, verdict # Missing, outcome # Missing PROVE ValidateAgrees
    BY DEF ValidateAgrees
  <2>1. /\ policy \in Policies /\ form \in Forms
        /\ verdict = VerdictOf(policy, form) /\ outcome = OutcomeOf(policy, form)
    BY DEF ValidationInv
  <2> QED
    BY <2>1, VerdictAndOutcome DEF ValidateAgrees
<1> QED
  BY <1>1, ValidationInvariant, PTL

------------------------------------------------------------------------------
(* Settings: what can be loaded *)

\* The inductive invariant.
SettingsInv ==
  /\ source \in Sources
  /\ Running => loaded = Config(source) /\ ~LoadRefused(source)
  /\ effective # NoPolicy =>
       Running /\ \E platform, profile :
                    /\ profile \in DOMAIN loaded.profiles \cup {Undefined}
                    /\ effective = Effective(loaded, platform, profile)

\* The last element that passes a filter is one that passes it.
LEMMA LastPassed ==
  ASSUME NEW S, NEW list \in Seq(S), NEW set, NEW x \in ToSet(list), x \in set
  PROVE  Last(Filter(list, set)) \in ToSet(list) \cap set
<1> DEFINE f == Filter(list, set)
<1>1. f \in Seq(S) /\ ToSet(f) = ToSet(list) \cap set
  BY FilteredList
<1> HIDE DEF f
<1>2. x \in ToSet(f)
  BY <1>1
<1>3. Len(f) \in Nat /\ DOMAIN f = 1 .. Len(f)
  BY <1>1
<1>4. Len(f) # 0
  BY <1>2, <1>3 DEF ToSet
<1>5. Len(f) \in 1 .. Len(f)
  BY <1>3, <1>4
<1>6. Last(f) \in ToSet(f)
  BY <1>3, <1>5 DEF Last, ToSet
<1> QED
  BY <1>1, <1>6 DEF f

\* A number that is not refused is one.
LEMMA NumbersGiven ==
  ASSUME NEW s \in Sources, NEW name \in NumberNames, ~NumberRefused(s, name)
  PROVE  Given(s, name) \in Nat
<1>1. /\ InEnv(s, name) \in Nat \cup {Undefined, Vacant, Garbled}
      /\ InFile(s, name) \in Nat \cup {Undefined, Vacant, Garbled}
      /\ Defaults[name] \in Nat
  BY SettingsAssumption
<1> QED
  BY <1>1 DEF NumberRefused, Given

\* A number that is raised to one where it is zero is positive.
LEMMA RaisedNumber ==
  ASSUME NEW n \in Nat
  PROVE  AtLeastOne(n) \in Nat /\ AtLeastOne(n) > 0
BY DEF AtLeastOne

\* The lists of the file that the configuration is made from.
LEMMA FileLists ==
  ASSUME NEW s \in Sources
  PROVE  /\ Entries(s, "cookie_profiles") \in Seq(ToSet(Entries(s, "cookie_profiles")))
         /\ Entries(s, "platforms") \in Seq(ToSet(Entries(s, "platforms")))
         /\ \A e \in ToSet(Entries(s, "platforms")) :
              e.attempts \in Nat \cup {Undefined} /\ e.concurrent \in Nat \cup {Undefined}
BY SettingsAssumption

\* A profile the configuration knows has the path of one of its entries.
LEMMA ProfilesNamed ==
  ASSUME NEW s \in Sources
  PROVE  /\ \A e \in ToSet(Entries(s, "cookie_profiles")) :
              e.path # Vacant => e.lower \in DOMAIN Profiles(s)
         /\ \A lower \in DOMAIN Profiles(s) :
              \E e \in ToSet(Entries(s, "cookie_profiles")) :
                e.lower = lower /\ e.path = Profiles(s)[lower]
<1> DEFINE list == Entries(s, "cookie_profiles")
           S == ToSet(list)
           usable == {e \in S : e.path # Vacant}
           kept == Filter(list, usable)
           In(lower) == {e \in ToSet(kept) : e.lower = lower}
           names == {e.lower : e \in ToSet(kept)}
<1>1. list \in Seq(S)
  BY FileLists
<1>2. Profiles(s) = [lower \in names |-> Last(Filter(kept, In(lower))).path]
  BY DEF Profiles
<1>3. \A e \in S : e.path # Vacant <=> e \in usable
  OBVIOUS
<1>4. usable \subseteq S
  OBVIOUS
<1> HIDE DEF list, usable
<1>5. kept \in Seq(S) /\ ToSet(kept) = S \cap usable
  BY <1>1, FilteredList
<1> HIDE DEF S, kept
<1>6. \A lower, e : e \in In(lower) <=> e \in ToSet(kept) /\ e.lower = lower
  OBVIOUS
<1>7. ASSUME NEW e \in S, e.path # Vacant
      PROVE  e.lower \in DOMAIN Profiles(s)
  BY <1>2, <1>3, <1>5, <1>7
<1> HIDE DEF In
<1>8. ASSUME NEW lower \in DOMAIN Profiles(s)
      PROVE  \E e \in S : e.lower = lower /\ e.path = Profiles(s)[lower]
  <2>1. PICK x \in ToSet(kept) : x.lower = lower
    BY <1>2, <1>8
  <2>2. x \in In(lower)
    BY <2>1, <1>6
  <2> DEFINE e == Last(Filter(kept, In(lower)))
  <2>3. e \in ToSet(kept) \cap In(lower)
    BY <2>1, <2>2, <1>5, LastPassed
  <2>4. Profiles(s)[lower] = e.path
    BY <1>2, <1>8
  <2> HIDE DEF e
  <2> QED
    BY <2>3, <2>4, <1>5, <1>6
<1> QED
  BY <1>7, <1>8 DEF S, list

\* A policy the configuration knows has numbers that let jobs run, if it has any.
LEMMA PoliciesFloored ==
  ASSUME NEW s \in Sources, NEW p \in DOMAIN PlatformPolicies(s)
  PROVE  /\ PlatformPolicies(s)[p].concurrent # 0
         /\ PlatformPolicies(s)[p].attempts # Undefined => PlatformPolicies(s)[p].attempts \in Nat
<1> DEFINE list == Entries(s, "platforms")
           S == ToSet(list)
           kept == FilePolicies(s)
           In(x) == {q \in ToSet(kept) : q.platform = x}
           e == Last(Filter(kept, In(p)))
<1>1. list \in Seq(S)
  BY FileLists
<1>2. PlatformPolicies(s) =
        [x \in {q.platform : q \in ToSet(kept)} |->
           LET y == Last(Filter(kept, In(x)))
           IN  [cookies |-> IF y.cookies = Vacant THEN Undefined ELSE y.cookies,
                attempts |-> Floor(y.attempts), concurrent |-> Floor(y.concurrent)]]
  BY DEF PlatformPolicies
<1>3. kept \in Seq(S) /\ ToSet(kept) \subseteq S
  <2> DEFINE set == {q \in ToSet(list) : q.platform # Vacant}
  <2>1. kept = Filter(list, set)
    BY DEF FilePolicies
  <2> HIDE DEF set, list
  <2> QED
    BY <2>1, <1>1, FilteredList
<1>4. PICK x \in ToSet(kept) : x.platform = p
  BY <1>2
<1>5. x \in In(p)
  BY <1>4
<1>6. /\ PlatformPolicies(s)[p].attempts = Floor(e.attempts)
      /\ PlatformPolicies(s)[p].concurrent = Floor(e.concurrent)
  BY <1>2, <1>4
<1> HIDE DEF In, kept
<1>7. e \in ToSet(kept)
  BY <1>3, <1>4, <1>5, LastPassed
<1>8. e.attempts \in Nat \cup {Undefined} /\ e.concurrent \in Nat \cup {Undefined}
  BY <1>3, <1>7, FileLists
<1> HIDE DEF e
<1>9. Floor(e.concurrent) # 0 /\ (Floor(e.attempts) # Undefined => Floor(e.attempts) \in Nat)
  BY <1>8, SettingsAssumption DEF Floor, AtLeastOne
<1> QED
  BY <1>6, <1>9

\* What is loaded, of a source that is not refused.
LEMMA LoadedUsable ==
  ASSUME NEW s \in Sources, ~LoadRefused(s), NEW c, c = Config(s)
  PROVE  /\ s.path # "default" => s.content = "there"
         /\ \A name \in NumberNames : c.numbers[name] \in Nat
         /\ \A name \in Floored : c.numbers[name] > 0
         /\ \A p \in DOMAIN c.policies : c.policies[p].concurrent # 0
         /\ c.backend = "s3" =>
              \A name \in NeededByS3 : c.secrets[name] \notin {Undefined, Vacant}
         /\ c.policies = PlatformPolicies(s) /\ c.profiles = Profiles(s)
<1>1. /\ ~FileRefused(s) /\ ~StorageRefused(s)
      /\ \A name \in NumberNames : ~NumberRefused(s, name)
  BY DEF LoadRefused
<1>2. s.path # "default" => s.content = "there"
  BY <1>1, SettingsAssumption DEF FileRefused
<1>3. /\ c.numbers = [name \in NumberNames |-> Number(s, name)]
      /\ c.policies = PlatformPolicies(s) /\ c.profiles = Profiles(s)
      /\ c.backend = Backend(s) /\ c.secrets = [name \in Secrets |-> Secret(s, name)]
  BY DEF Config
<1>4. \A name \in NumberNames : Number(s, name) \in Nat
  BY <1>1, NumbersGiven, RaisedNumber DEF Number
<1>5. \A name \in Floored : name \in NumberNames /\ Number(s, name) > 0
  <2>1. \A name \in Floored : name \in NumberNames
    BY DEF Floored, NumberNames
  <2> QED
    BY <2>1, <1>1, NumbersGiven, RaisedNumber DEF Number
<1>6. \A p \in DOMAIN c.policies : c.policies[p].concurrent # 0
  BY <1>3, PoliciesFloored
<1>7. ASSUME c.backend = "s3", NEW name \in NeededByS3
      PROVE  c.secrets[name] \notin {Undefined, Vacant}
  <2>1. name \in Secrets
    BY DEF NeededByS3, Secrets
  <2>2. Secret(s, name) # Undefined
    BY <1>1, <1>3, <1>7 DEF StorageRefused
  <2>3. Secret(s, name) # Vacant
    BY <2>2 DEF Secret
  <2> QED
    BY <2>1, <2>2, <2>3, <1>3
<1> QED
  BY <1>2, <1>3, <1>4, <1>5, <1>6, <1>7

\* What a job of any platform is started with.
LEMMA EffectiveUsable ==
  ASSUME NEW s \in Sources, ~LoadRefused(s), NEW c, c = Config(s), NEW platform,
         NEW profile \in DOMAIN c.profiles \cup {Undefined},
         NEW e, e = Effective(c, platform, profile)
  PROVE  /\ e.attempts > 0
         /\ e.profile # Undefined =>
              \E x \in ToSet(Entries(s, "cookie_profiles")) :
                x.lower = e.profile /\ x.path = e.cookies
<1>1. /\ \A name \in NumberNames : c.numbers[name] \in Nat
      /\ c.policies = PlatformPolicies(s) /\ c.profiles = Profiles(s)
  BY LoadedUsable
<1> DEFINE own == IF platform \in DOMAIN c.policies THEN c.policies[platform]
                     ELSE [cookies |-> Undefined, attempts |-> Undefined,
                           concurrent |-> Undefined]
           attempts == First(own.attempts, c.numbers["download_max_attempts"])
<1>2. /\ e.profile = profile /\ e.attempts = AtLeastOne(attempts)
      /\ e.cookies = IF profile \in DOMAIN c.profiles THEN c.profiles[profile]
                     ELSE First(own.cookies, c.cookies)
  BY DEF Effective
<1>3. own.attempts # Undefined => own.attempts \in Nat
  BY <1>1, PoliciesFloored
<1>4. c.numbers["download_max_attempts"] \in Nat
  BY <1>1 DEF NumberNames
<1> HIDE DEF own
<1>5. attempts \in Nat
  BY <1>3, <1>4 DEF First
<1> HIDE DEF attempts
<1>6. e.attempts > 0
  BY <1>2, <1>5, RaisedNumber
<1>7. ASSUME profile # Undefined
      PROVE  \E x \in ToSet(Entries(s, "cookie_profiles")) :
               x.lower = profile /\ x.path = e.cookies
  <2>1. profile \in DOMAIN Profiles(s) /\ e.cookies = Profiles(s)[profile]
    BY <1>1, <1>2, <1>7
  <2> QED
    BY <2>1, ProfilesNamed
<1> QED
  BY <1>2, <1>6, <1>7

\* Before the configuration is loaded no job has a policy.
LEMMA SettingsInitially == SettingsInit => SettingsInv
BY DEF SettingsInit, SettingsInv, Running

\* Loading the configuration and starting a job keep the invariant.
LEMMA SettingsStep == SettingsInv /\ [SettingsNext]_settings => SettingsInv'
<1> SUFFICES ASSUME SettingsInv, [SettingsNext]_settings PROVE SettingsInv'
  OBVIOUS
<1>1. CASE Load
  <2>1. /\ UNCHANGED <<source, effective>> /\ ~Running
        /\ loaded' = IF LoadRefused(source) THEN LoadFailed ELSE Config(source)
    BY <1>1 DEF Load, Running
  <2>2. effective = NoPolicy
    BY <2>1 DEF SettingsInv
  <2> QED
    BY <2>1, <2>2 DEF SettingsInv, Running
<1>2. CASE StartJob
  <2>1. Running /\ UNCHANGED <<source, loaded>>
    BY <1>2 DEF StartJob
  <2>2. \E platform, profile : /\ profile \in DOMAIN loaded.profiles \cup {Undefined}
                               /\ effective' = Effective(loaded, platform, profile)
    BY <1>2 DEF StartJob
  <2> QED
    BY <2>1, <2>2 DEF SettingsInv, Running
<1>3. CASE UNCHANGED settings
  BY <1>3 DEF settings, SettingsInv, Running
<1> QED
  BY <1>1, <1>2, <1>3 DEF SettingsNext

\* In every reachable state of a server that runs, the configuration is what was loaded,
\* without a refusal, and the policy of a job is what that configuration makes effective
\* for some platform and some profile it has (Config::load, effective_download_policy).
THEOREM SettingsInvariant == SettingsSpec => []SettingsInv
BY SettingsInitially, SettingsStep, PTL DEF SettingsSpec

\* The invariant gives the types.
LEMMA SettingsTypesHold == SettingsInv => SettingsTypeOK
BY LoadedUsable, SettingsAssumption DEF SettingsInv, SettingsTypeOK

\* The variables keep their types, for any environment and any file.
THEOREM SettingsTypes == SettingsSpec => []SettingsTypeOK
BY SettingsInvariant, SettingsTypesHold, PTL

\* A configuration the server starts with is one it can work with, whatever the
\* environment and the file say: every number that must not be zero is positive, S3 has
\* all it needs, and a profile reaches the jobs that ask for it (Config::load,
\* effective_download_policy): see SettingsUsable.
THEOREM SettingsWork == SettingsSpec => []SettingsUsable
<1>1. SettingsInv => SettingsUsable
  <2> SUFFICES ASSUME SettingsInv, Running PROVE SettingsUsable
    BY DEF SettingsUsable
  <2> DEFINE list == Entries(source, "cookie_profiles")
  <2>1. source \in Sources /\ ~LoadRefused(source) /\ loaded = Config(source)
    BY DEF SettingsInv
  <2>2. DOMAIN list = 1 .. Len(list) /\ \A i \in DOMAIN list : list[i] \in ToSet(list)
    <3>1. list \in Seq(ToSet(list))
      BY <2>1, FileLists
    <3> QED
      BY <3>1 DEF ToSet
  <2>3. \A i \in DOMAIN list : list[i].path # Vacant => list[i].lower \in DOMAIN loaded.profiles
    BY <2>1, <2>2, ProfilesNamed, LoadedUsable
  <2>4. ASSUME effective # NoPolicy
        PROVE  /\ effective.attempts > 0
               /\ effective.profile # Undefined =>
                    \E i \in DOMAIN list :
                      list[i].lower = effective.profile /\ list[i].path = effective.cookies
    <3>1. PICK platform, profile : /\ profile \in DOMAIN loaded.profiles \cup {Undefined}
                                   /\ effective = Effective(loaded, platform, profile)
      BY <2>4 DEF SettingsInv
    <3>2. /\ effective.attempts > 0
          /\ effective.profile # Undefined =>
               \E x \in ToSet(list) : x.lower = effective.profile /\ x.path = effective.cookies
      BY <3>1, <2>1, EffectiveUsable
    <3> QED
      BY <3>2 DEF ToSet
  <2> QED
    BY <2>1, <2>3, <2>4, LoadedUsable DEF SettingsUsable
<1> QED
  BY <1>1, SettingsInvariant, PTL

------------------------------------------------------------------------------
(* All components *)

\* The invariants of the components, next to each other.
ApiInv ==
  /\ scene \in Scenes /\ DoorInv /\ BoardInv /\ ReadsInv /\ StorageInv /\ ValidationInv
  /\ QueriesInv /\ SettingsInv

\* Whatever scene is played, every component begins in one of its initial states.
LEMMA ApiInitially == ApiInit => ApiInv
<1> SUFFICES ASSUME ApiInit PROVE ApiInv
  OBVIOUS
<1>1. /\ scene \in Scenes /\ DoorInit /\ BoardInit /\ ArtifactsInit /\ StorageInit
      /\ ValidationInit /\ QueriesInit /\ SettingsInit
  BY DEF ApiInit, Played
<1> QED
  BY <1>1, InitInv, InitHolds, ReadsInitially, StorageInitially, ValidationInitially,
     QueriesInitially, SettingsInitially DEF ApiInv

\* A step of the scene that is played is a step of one component, and the others rest.
LEMMA ApiStep == ApiInv /\ [ApiNext /\ UNCHANGED scene]_all => ApiInv'
<1> SUFFICES ASSUME ApiInv, [ApiNext /\ UNCHANGED scene]_all PROVE ApiInv'
  OBVIOUS
<1>1. /\ [DoorNext]_door /\ [BoardNext]_board /\ [ArtifactsNext]_artifacts
      /\ [StorageNext]_storage /\ [ValidationNext]_validation /\ [QueriesNext]_queries
      /\ [SettingsNext]_settings /\ scene' = scene
  BY DEF ApiNext, all, BoardNext
<1>2. DoorInv' /\ BoardInv'
  BY <1>1, NextInv, StepHolds DEF ApiInv
<1>3. ReadsInv' /\ StorageInv'
  BY <1>1, ReadsStep, StorageStep DEF ApiInv
<1>4. ValidationInv' /\ QueriesInv' /\ SettingsInv'
  BY <1>1, ValidationStep, QueriesStep, SettingsStep DEF ApiInv
<1> QED
  BY <1>1, <1>2, <1>3, <1>4 DEF ApiInv

\* The components a request meets, played next to each other, keep the types of all their
\* variables, for every value of the constants: see ApiTypeOK.
THEOREM ApiTypes == ApiSpec => []ApiTypeOK
<1>1. DoorInv => DoorTypeOK
  BY DEF DoorInv
<1>2. BoardInv => BoardTypeOK
  BY BoardTypesHold
<1>3. ReadsInv => ArtifactsTypeOK
  BY DEF ReadsInv
<1>4. StorageInv => StorageTypeOK
  BY StorageTypesHold
<1>5. ValidationInv => ValidationTypeOK
  BY ValidationTypesHold
<1>6. QueriesInv => QueriesTypeOK
  BY QueriesTypesHold
<1>7. SettingsInv => SettingsTypeOK
  BY SettingsTypesHold
<1>8. ApiInv => ApiTypeOK
  BY <1>1, <1>2, <1>3, <1>4, <1>5, <1>6, <1>7 DEF ApiInv, ApiTypeOK
<1> QED
  BY <1>8, ApiInitially, ApiStep, PTL DEF ApiSpec
==============================================================================
