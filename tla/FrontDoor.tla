----------------------------- MODULE FrontDoor -----------------------------
(***************************************************************************)
(* What a request passes before its handler runs, outermost layer first:   *)
(* CORS, the timeout, the API key and the rate limiter.  The layers up to  *)
(* the handler run in one poll, without an await.  After that the handler  *)
(* answers, the timeout answers for it, or the client hangs up and the     *)
(* request is dropped with every layer.                                    *)
(*                                                                         *)
(* Time is counted in ticks, PerSecond of them to a second.                *)
(***************************************************************************)
EXTENDS Integers, Sequences

CONSTANTS
  Keys,         \* keys somebody may present
  KeyLists,     \* values of config.api_keys
  Limits,       \* values of config.rate_limit_per_minute, 0 turns it off
  Window,       \* ticks of a window, 60 seconds in the code
  PerSecond,    \* ticks of a second
  Slots,        \* requests in flight at a time
  Absent,       \* a header that is missing, or blank after trimming
  NoRequest,
  MaxTime       \* bound on the clock

ASSUME DoorAssumption ==
  /\ PerSecond \in Nat \ {0} /\ Window \in Nat \ {0} /\ MaxTime \in Nat
  /\ Limits \subseteq Nat /\ KeyLists \subseteq SUBSET Keys /\ Absent \notin Keys
  /\ {"anonymous", "unauthenticated"} \cap Keys = {}

VARIABLES
  config,     \* the part of the configuration the layers read
  now,        \* the clock
  windows,    \* RateLimiter.windows
  inflight,   \* the request in each slot whose handler runs
  admitted,   \* history: times at which the limiter let a bucket pass
  promise     \* history: when a bucket told to retry may expect to pass

door == <<config, now, windows, inflight, admitted, promise>>

Configs == [keys : KeyLists, limit : Limits, cors : BOOLEAN, timeout : BOOLEAN]
Header == Keys \cup {Absent}
\* Authorization is one header, with a Bearer token or Basic credentials.
RequestSet == [path : {"probe", "route", "unknown"}, preflight : BOOLEAN,
               xApiKey : Header, bearer : Header, basic : Header]
Requests == {r \in RequestSet : Absent \in {r.bearer, r.basic}}
Entered == [path : {"probe", "route"}, key : Header]

Buckets == Keys \cup {"anonymous", "unauthenticated"}
WindowSet == [started : Nat, count : Nat]
NoWindow == [started |-> -1, count |-> 0]

\* request_api_key: x-api-key, then the bearer token, then the password.
PresentedKey(r) ==
  IF r.xApiKey # Absent THEN r.xApiKey
  ELSE IF r.bearer # Absent THEN r.bearer ELSE r.basic

\* require_api_key lets the request pass.
Allowed(r) == config.keys = {} \/ r.path = "probe" \/ PresentedKey(r) \in config.keys

\* rate_limit_bucket.
Bucket(r) == IF config.keys = {} THEN "anonymous"
             ELSE IF PresentedKey(r) = Absent THEN "unauthenticated"
             ELSE PresentedKey(r)

\* Mutant: the window moves on with every request, its count stays.
SlidingWindow(w) == [started |-> now, count |-> w.count]
\* RateLimiter::check, the window as the request finds it.
Current(w) == IF w.started < 0 \/ now - w.started >= Window
                THEN [started |-> now, count |-> 0] ELSE w
\* Mutant: the limit is compared after the request was counted.
ExhaustedLate(w) == w.count > config.limit
Exhausted(w) == w.count >= config.limit

Larger(a, b) == IF a > b THEN a ELSE b
\* as_secs drops the fraction of a second.
RetryAfter(w) == Larger((Window - (now - w.started)) \div PerSecond, 1)

------------------------------------------------------------------------------
DoorInit ==
  /\ config \in Configs /\ now = 0
  /\ windows = [b \in Buckets |-> NoWindow] /\ inflight = [s \in Slots |-> NoRequest]
  /\ admitted = [b \in Buckets |-> <<>>] /\ promise = [b \in Buckets |-> 0]

\* The request reaches its handler, or the 404 of an unknown path.
Enter(s, r) ==
  inflight' = IF r.path = "unknown" THEN inflight
              ELSE [inflight EXCEPT ![s] = [path |-> r.path, key |-> PresentedKey(r)]]

\* rate_limit: 429 with retry-after, or on to the routes.
Check(s, r) ==
  LET b == Bucket(r)
      w == Current(windows[b])
  IN  IF config.limit = 0 \/ r.path = "probe"
        THEN Enter(s, r) /\ UNCHANGED <<windows, admitted, promise>>
      ELSE IF Exhausted(w)
        THEN /\ windows' = [windows EXCEPT ![b] = w]
             /\ promise' = [promise EXCEPT ![b] = now + (RetryAfter(w) + 1) * PerSecond]
             /\ UNCHANGED <<inflight, admitted>>
        ELSE /\ windows' = [windows EXCEPT ![b] = [w EXCEPT !.count = @ + 1]]
             /\ admitted' = [admitted EXCEPT ![b] = Append(@, now)]
             /\ promise' = [promise EXCEPT ![b] = 0]
             /\ Enter(s, r)

\* Mutant: the limiter is the outer layer of the two.
LimitThenKey(s, r) ==
  IF Allowed(r) THEN Check(s, r)
  ELSE /\ windows' = [windows EXCEPT ![Bucket(r)] =
                        [Current(@) EXCEPT !.count = @ + 1]]
       /\ UNCHANGED <<inflight, admitted, promise>>
\* require_api_key answers 401 before the limiter counts.
KeyThenLimit(s, r) ==
  IF Allowed(r) THEN Check(s, r)
  ELSE UNCHANGED <<windows, inflight, admitted, promise>>

\* A request arrives.  The CORS layer answers a preflight by itself.
Arrive(s, r) ==
  /\ inflight[s] = NoRequest
  /\ IF config.cors /\ r.preflight
       THEN UNCHANGED <<windows, inflight, admitted, promise>>
       ELSE KeyThenLimit(s, r)
  /\ UNCHANGED <<config, now>>

\* The handler answers, the client hangs up, or the timeout layer answers 408
\* in place of the handler: the slot is free, what was counted stays counted.
Free(s) ==
  /\ inflight[s] # NoRequest /\ inflight' = [inflight EXCEPT ![s] = NoRequest]
  /\ UNCHANGED <<config, now, windows, admitted, promise>>
HandlerEnds(s) == Free(s)
TimesOut(s) == config.timeout /\ Free(s)

Tick ==
  /\ now < MaxTime /\ now' = now + 1
  /\ UNCHANGED <<config, windows, inflight, admitted, promise>>

DoorNext ==
  \/ \E s \in Slots : \/ \E r \in Requests : Arrive(s, r)
                      \/ HandlerEnds(s) \/ TimesOut(s)
  \/ Tick
DoorSpec == DoorInit /\ [][DoorNext]_door

------------------------------------------------------------------------------
(* Properties *)

\* Types of the variables.
DoorTypeOK ==
  /\ config \in Configs /\ now \in Nat
  /\ windows \in [Buckets -> WindowSet \cup {NoWindow}]
  /\ inflight \in [Slots -> Entered \cup {NoRequest}]
  /\ admitted \in [Buckets -> Seq(Nat)] /\ promise \in [Buckets -> Nat]

\* With API keys configured, only a probe or a request with one of them is in
\* a handler, and only those keys have a window: the map of the limiter stays
\* as small as the list of keys, whatever strangers present.
NoKeyNoEntry ==
  config.keys # {} =>
    /\ \A s \in Slots : inflight[s] # NoRequest =>
         inflight[s].path = "probe" \/ inflight[s].key \in config.keys
    /\ \A b \in Buckets \ config.keys : windows[b] = NoWindow

\* A window never admits more than the limit, and any stretch of 60 seconds,
\* wherever it starts, no more than twice the limit.
RateBounded ==
  config.limit > 0 =>
    \A b \in Buckets :
      /\ windows[b].count <= config.limit
      /\ \A i \in DOMAIN admitted[b] :
           i + 2 * config.limit \in DOMAIN admitted[b] =>
             admitted[b][i + 2 * config.limit] - admitted[b][i] >= Window

\* A client that was told to retry after some seconds, and comes back a second
\* later than that, is not told to wait again as long as nobody else of its
\* bucket was let in: the window it waited for has ended.
RetryIsHonest ==
  \A b \in Buckets :
    promise[b] > 0 /\ now >= promise[b] => Current(windows[b]).count < config.limit
=============================================================================
