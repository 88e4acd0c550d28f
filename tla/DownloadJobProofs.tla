------------------------- MODULE DownloadJobProofs -------------------------
(***************************************************************************)
(* What the report of a download, the files it leaves and its reaction to  *)
(* a cancellation promise, proved for any policies, any texts of yt-dlp    *)
(* and any number of attempts and commands.                                *)
(*                                                                         *)
(* The properties speak of the end (pc = "done").  The invariant says what *)
(* each place on the way has already settled: Stages which command and     *)
(* attempt a place belongs to, Counted which errors have been noted,       *)
(* FilesLeft what is in the directory, Causes what the texts contain, Late *)
(* how many commands of the attempt were started.                          *)
(***************************************************************************)
EXTENDS DownloadJob, TLAPS

\* Places where a command is under way, and those of an attempt.
Commanding == pc \in {"poll", "drain"}
InAttempt ==
  \/ pc \in {"attempt", "check", "finalize", "post", "rescan", "upload", "failed"}
  \/ Commanding /\ command # "version"
BeforeAttempts ==
  \/ pc \in {"prepare", "disk", "version"}
  \/ Commanding /\ command = "version"
Over == pc \in {"ended", "done"}

\* What the place says about the command, its process and the attempt.
Stages ==
  /\ Commanding => command \in {"version", "fetch", "post"}
  /\ child # "none" <=> pc = "poll"
  /\ pc = "drain" => verdict \in {"ok", "failed", "timeout", "canceled"}
  /\ pc = "drain" /\ verdict = "canceled" => canceled
  /\ BeforeAttempts => attempt = 0
  /\ InAttempt => attempt \in 1 .. policy.attempts
  /\ pc = "backoff" => attempt \in 1 .. policy.attempts - 1
  /\ pc = "post" \/ (Commanding /\ command = "post") => step \in 1 .. policy.commands
  /\ pc = "failed" => failure \in Error

\* Once download_url has returned there is an outcome, with an error unless
\* the download succeeded.
Ends ==
  Over =>
    /\ outcome.ok \in BOOLEAN /\ outcome.attempts \in 0 .. policy.attempts
    /\ ~outcome.ok => outcome.error \in Error

\* The error an attempt leaves when it is the i-th.
Noted(i) ==
  /\ errors[i].attempt = i
  /\ errors[i].backoff = IF i < policy.attempts THEN RetryBackoff(policy.backoff, i)
                                                ELSE NoBackoff

\* One error per failed attempt, in order, with the backoff that followed.
Counted ==
  /\ BeforeAttempts => errors = <<>>
  /\ InAttempt => Len(errors) = attempt - 1
  /\ pc = "backoff" => Len(errors) = attempt
  /\ \A i \in 1 .. Len(errors) : Noted(i)
  /\ Over =>
       /\ outcome.errors = errors
       /\ outcome.attempts = Len(errors) + (IF outcome.ok THEN 1 ELSE 0)
       /\ ~outcome.ok /\ outcome.attempts = policy.attempts =>
            outcome.error = errors[outcome.attempts].error
  /\ pc = "done" => record.attempts = outcome.attempts /\ record.errors = errors

\* The directory is complete when it is uploaded, and gone after a failure.
FilesLeft ==
  /\ pc = "prepare" => dir = "absent"
  /\ pc = "upload" => dir = "complete"
  /\ pc = "backoff" => dir = "absent" \/ stuck
  /\ Over => IF outcome.ok THEN dir = "complete" ELSE dir = "absent" \/ stuck

\* An error has one of the texts of its cause, and it was the flag's only when
\* the flag is set.
Telling(error) ==
  error \in Errors(error.cause) /\ (error.cause = "canceled" => canceled)

\* Failures tell, and the record repeats what the outcome says.
Causes ==
  /\ pc = "failed" => Telling(failure)
  /\ Over /\ ~outcome.ok => Telling(outcome.error)
  /\ pc = "done" /\ ~outcome.ok =>
       /\ record.status = IF IsCanceledError(outcome.error.says) THEN "canceled"
                                                                 ELSE "failed"
       /\ record.kind = ClassifyError(outcome.error.says)
       /\ record.timedOut = IsTimeoutError(outcome.error.says)

\* The flag is looked at before yt-dlp starts, so nothing was started late
\* before the first post-processing command.
Late ==
  /\ LateStartsBounded
  /\ ~canceled => lateStarts = 0
  /\ pc \in {"prepare", "disk", "version", "finalize"} => lateStarts = 0
  /\ Commanding /\ command = "fetch" => lateStarts = 0
  /\ pc = "post" => lateStarts < step
  /\ Commanding /\ command = "post" => lateStarts <= step

\* The inductive invariant.
DownloadInv == TypeOK /\ Stages /\ Ends /\ Counted /\ FilesLeft /\ Causes /\ Late


------------------------------------------------------------------------------
(* The operators of the report *)

\* The smaller of two numbers.
LEMMA MinOfTwo ==
  ASSUME NEW a \in Nat, NEW b \in Nat
  PROVE  Min({a, b}) = IF a <= b THEN a ELSE b
  <1> DEFINE least == IF a <= b THEN a ELSE b
  <1>1. least \in {a, b} /\ \A y \in {a, b} : least <= y
    OBVIOUS
  <1>2. \A x \in {a, b} : (\A y \in {a, b} : x <= y) => x = least
    OBVIOUS
  <1> HIDE DEF least
  <1> QED BY <1>1, <1>2 DEF Min, least

\* Up to 2 ^ 20, where the exponent stops, the powers of two double.
LEMMA PowersDouble ==
  ASSUME NEW n \in 0 .. 19
  PROVE  2 ^ n \in Nat /\ 2 ^ (n + 1) = 2 * 2 ^ n
  <1> DEFINE power(k) == 2 ^ k
  <1>0. power(0) = 1
    OBVIOUS
  <1>1. power(1) = 2
    OBVIOUS
  <1>2. power(2) = 4
    OBVIOUS
  <1>3. power(3) = 8
    OBVIOUS
  <1>4. power(4) = 16
    OBVIOUS
  <1>5. power(5) = 32
    OBVIOUS
  <1>6. power(6) = 64
    OBVIOUS
  <1>7. power(7) = 128
    OBVIOUS
  <1>8. power(8) = 256
    OBVIOUS
  <1>9. power(9) = 512
    OBVIOUS
  <1>10. power(10) = 1024
    OBVIOUS
  <1>11. power(11) = 2048
    OBVIOUS
  <1>12. power(12) = 4096
    OBVIOUS
  <1>13. power(13) = 8192
    OBVIOUS
  <1>14. power(14) = 16384
    OBVIOUS
  <1>15. power(15) = 32768
    OBVIOUS
  <1>16. power(16) = 65536
    OBVIOUS
  <1>17. power(17) = 131072
    OBVIOUS
  <1>18. power(18) = 262144
    OBVIOUS
  <1>19. power(19) = 524288
    OBVIOUS
  <1>20. power(20) = 1048576
    OBVIOUS
  <1>v. power(0) = 1 /\ \A k \in 0 .. 19 : power(k) \in Nat /\ power(k + 1) = 2 * power(k)
    <2> HIDE DEF power
    <2> QED BY <1>0, <1>1, <1>2, <1>3, <1>4, <1>5, <1>6, <1>7, <1>8, <1>9, <1>10,
               <1>11, <1>12, <1>13, <1>14, <1>15, <1>16, <1>17, <1>18, <1>19, <1>20
  <1> QED BY <1>v

\* The backoff is a number; the first is the policy's, each later one is
\* twice the one before up to the 21st, and then it stays.
LEMMA BackoffsDouble ==
  ASSUME NEW initial \in Nat, NEW i \in Nat \ {0}
  PROVE  /\ RetryBackoff(initial, i) \in Nat
         /\ RetryBackoff(initial, 1) = Min({initial, MaxMillis})
         /\ i > 1 => RetryBackoff(initial, i)
              = Min({(IF i <= 21 THEN 2 ELSE 1) * RetryBackoff(initial, i - 1), MaxMillis})
  <1> DEFINE smaller(a, b) == IF a <= b THEN a ELSE b
             power(k) == 2 ^ k
             doublings(k) == smaller(k - 1, 20)
  <1>1. /\ power(0) = 1
        /\ \A n \in 0 .. 20 : power(n) \in Nat
        /\ \A n \in 0 .. 19 : power(n + 1) = 2 * power(n)
    <2>1. 2 ^ 0 = 1 /\ 2 ^ 20 \in Nat
      OBVIOUS
    <2>2. \A n \in 0 .. 19 : power(n) \in Nat /\ power(n + 1) = 2 * power(n)
      BY PowersDouble
    <2>3. power(0) = 1 /\ power(20) \in Nat
      BY <2>1
    <2>4. \A n \in 0 .. 20 : n \in 0 .. 19 \/ n = 20
      OBVIOUS
    <2> QED BY <2>2, <2>3, <2>4
  <1>2. \A k \in Nat \ {0} :
          RetryBackoff(initial, k) = Min({initial * power(doublings(k)), MaxMillis})
    <2> TAKE k \in Nat \ {0}
    <2>1. Min({k - 1, 20}) = doublings(k)
      BY MinOfTwo
    <2> QED BY <2>1 DEF RetryBackoff
  <1>3. \A k \in Nat \ {0} : doublings(k) \in 0 .. 20
    OBVIOUS
  <1> HIDE DEF power
  <1>4. \A k \in Nat \ {0} : initial * power(doublings(k)) \in Nat
    BY <1>1, <1>3
  <1>5. \A k \in Nat \ {0} :
          RetryBackoff(initial, k) = smaller(initial * power(doublings(k)), MaxMillis)
    BY <1>2, <1>4, MinOfTwo, BoundAssumption
  <1>6. RetryBackoff(initial, i) \in Nat
    BY <1>4, <1>5, BoundAssumption
  <1>7. RetryBackoff(initial, 1) = Min({initial, MaxMillis})
    <2>1. doublings(1) = 0
      OBVIOUS
    <2> QED BY <1>1, <1>2, <2>1
  <1>8. ASSUME i > 1
        PROVE  RetryBackoff(initial, i)
                 = Min({(IF i <= 21 THEN 2 ELSE 1) * RetryBackoff(initial, i - 1),
                        MaxMillis})
    <2> DEFINE factor == IF i <= 21 THEN 2 ELSE 1
               before == initial * power(doublings(i - 1))
    <2>1. i - 1 \in Nat \ {0} /\ before \in Nat
      BY <1>4, <1>8
    <2>2. initial * power(doublings(i)) = factor * before
      <3>1. CASE i <= 21
        <4>1. doublings(i) = doublings(i - 1) + 1 /\ doublings(i - 1) \in 0 .. 19
          BY <1>8, <3>1
        <4>2. /\ power(doublings(i)) = 2 * power(doublings(i - 1))
              /\ power(doublings(i - 1)) \in Nat
          BY <4>1, <1>1
        <4> QED BY <4>2, <3>1
      <3>2. CASE i > 21
        <4>1. doublings(i) = doublings(i - 1)
          BY <3>2
        <4> QED BY <4>1, <3>2, <2>1
      <3> QED BY <3>1, <3>2
    <2>3. RetryBackoff(initial, i) = smaller(factor * before, MaxMillis)
      BY <1>5, <2>2
    <2>4. RetryBackoff(initial, i - 1) = smaller(before, MaxMillis)
      BY <1>5, <2>1
    <2> HIDE DEF before
    <2>5. smaller(factor * before, MaxMillis)
            = smaller(factor * smaller(before, MaxMillis), MaxMillis)
      BY <2>1, BoundAssumption
    <2>6. factor * smaller(before, MaxMillis) \in Nat
      BY <2>1, BoundAssumption
    <2>7. Min({factor * smaller(before, MaxMillis), MaxMillis})
            = smaller(factor * smaller(before, MaxMillis), MaxMillis)
      BY <2>6, MinOfTwo, BoundAssumption
    <2> QED BY <2>3, <2>4, <2>5, <2>7
  <1> QED BY <1>6, <1>7, <1>8

\* The rules that matter here: their place, their kind and their needles.
LEMMA Rules ==
  /\ DOMAIN ClassificationRules = 1 .. 6
  /\ ClassificationRules[1].kind = "canceled"
  /\ ClassificationRules[1].needles = {"job canceled", "Job Canceled"}
  /\ ClassificationRules[2].kind = "timeout"
  /\ ClassificationRules[2].needles = {"timed out"}
  /\ "429" \in ClassificationRules[3].needles
  /\ "yt-dlp failed" \in ClassificationRules[6].needles
  /\ \A i \in {2, 3, 4, 5, 6} : ClassificationRules[i].kind # "canceled"
  /\ \A i \in {3, 4, 5, 6} : ClassificationRules[i].kind # "timeout"
  <1>1. /\ ClassificationRules[3].kind = "rate_limited"
        /\ ClassificationRules[4].kind = "authentication_required"
        /\ ClassificationRules[5].kind = "unsupported_url"
        /\ ClassificationRules[6].kind = "downloader_failed"
    BY DEF ClassificationRules
  <1>2. DOMAIN ClassificationRules = 1 .. 6
    BY DEF ClassificationRules
  <1>3. /\ ClassificationRules[1].kind = "canceled"
        /\ ClassificationRules[2].kind = "timeout"
    BY DEF ClassificationRules
  <1>4. ClassificationRules[1].needles = {"job canceled", "Job Canceled"}
    BY DEF ClassificationRules
  <1>5. ClassificationRules[2].needles = {"timed out"}
    BY DEF ClassificationRules
  <1>6. "yt-dlp failed" \in ClassificationRules[6].needles
    BY DEF ClassificationRules
  <1>7. "429" \in ClassificationRules[3].needles
    BY DEF ClassificationRules
  <1> QED BY <1>1, <1>2, <1>3, <1>4, <1>5, <1>6, <1>7

\* The needles the server's own texts contain are needles.
LEMMA NeedlesKnown ==
  {"job canceled", "timed out", "timed out after", "429", "yt-dlp failed"}
    \subseteq Needles
  <1>1. \A i \in DOMAIN ClassificationRules : ClassificationRules[i].needles \subseteq Needles
    BY DEF Needles
  <1>2. {1, 2, 3, 6} \subseteq 1 .. 6
    OBVIOUS
  <1>3. /\ ClassificationRules[1].needles \subseteq Needles
        /\ ClassificationRules[2].needles \subseteq Needles
        /\ ClassificationRules[3].needles \subseteq Needles
        /\ ClassificationRules[6].needles \subseteq Needles
    BY <1>1, <1>2, Rules
  <1>4. "timed out after" \in Needles
    BY DEF Needles
  <1> QED BY <1>3, <1>4, Rules

\* The rules are tried in order: "job canceled", in any spelling, decides, and
\* without it "timed out" does.
LEMMA FirstRuleDecides ==
  ASSUME NEW says
  PROVE  /\ ClassifyError(says) = "canceled"
              <=> "job canceled" \in says \/ "Job Canceled" \in says
         /\ ClassifyError(says) = "timeout"
              <=> /\ "timed out" \in says
                  /\ "job canceled" \notin says /\ "Job Canceled" \notin says
  <1> DEFINE hits == {i \in 1 .. 6 : ClassificationRules[i].needles \cap says # {}}
  <1>1. ClassifyError(says) = IF hits = {} THEN "download_failed"
                                           ELSE ClassificationRules[Min(hits)].kind
    BY Rules DEF ClassifyError
  <1>2. /\ 1 \in hits <=> "job canceled" \in says \/ "Job Canceled" \in says
        /\ 2 \in hits <=> "timed out" \in says
    <2>1. 1 \in hits <=> ClassificationRules[1].needles \cap says # {}
      OBVIOUS
    <2>2. 2 \in hits <=> ClassificationRules[2].needles \cap says # {}
      OBVIOUS
    <2>3. /\ ClassificationRules[1].needles = {"job canceled", "Job Canceled"}
          /\ ClassificationRules[2].needles = {"timed out"}
      BY Rules
    <2> HIDE DEF hits
    <2> QED BY <2>1, <2>2, <2>3
  <1>3. ASSUME NEW k \in hits, \A n \in hits : k <= n
        PROVE  Min(hits) = k
    <2>1. \A m \in hits : (\A n \in hits : m <= n) => m = k
      BY <1>3
    <2> HIDE DEF hits
    <2> QED BY <1>3, <2>1 DEF Min
  <1>4. ASSUME hits # {}
        PROVE  Min(hits) \in hits
    <2>1. \E k \in hits : \A n \in hits : k <= n
      <3>1. hits \subseteq 1 .. 6
        OBVIOUS
      <3> HIDE DEF hits
      <3>2. CASE 1 \in hits
        BY <3>1, <3>2
      <3>3. CASE 1 \notin hits /\ 2 \in hits
        BY <3>1, <3>3
      <3>4. CASE 1 \notin hits /\ 2 \notin hits /\ 3 \in hits
        BY <3>1, <3>4
      <3>5. CASE 1 \notin hits /\ 2 \notin hits /\ 3 \notin hits /\ 4 \in hits
        BY <3>1, <3>5
      <3>6. CASE hits \subseteq {5, 6}
        <4>1. CASE 5 \in hits
          BY <3>6, <4>1
        <4>2. CASE hits = {6}
          BY <4>2
        <4> QED BY <1>4, <3>6, <4>1, <4>2
      <3>7. \/ 1 \in hits \/ 2 \in hits \/ 3 \in hits \/ 4 \in hits
            \/ hits \subseteq {5, 6}
        BY <3>1
      <3> QED BY <3>2, <3>3, <3>4, <3>5, <3>6, <3>7
    <2> HIDE DEF hits
    <2> QED BY <2>1 DEF Min
  <1>5. CASE 1 \in hits
    <2>1. \A n \in hits : 1 <= n
      OBVIOUS
    <2> HIDE DEF hits
    <2>2. Min(hits) = 1
      BY <1>3, <1>5, <2>1
    <2>3. hits # {} /\ ClassificationRules[1].kind = "canceled"
      BY <1>5, Rules
    <2> QED BY <1>1, <1>2, <1>5, <2>2, <2>3
  <1>6. CASE 1 \notin hits
    <2>1. ClassifyError(says) # "canceled"
      <3> SUFFICES ASSUME hits # {}
                   PROVE  ClassificationRules[Min(hits)].kind # "canceled"
        BY <1>1
      <3>1. Min(hits) \in {2, 3, 4, 5, 6}
        BY <1>4, <1>6
      <3> HIDE DEF hits
      <3> QED BY <3>1, Rules
    <2>2. ASSUME 2 \in hits
          PROVE  ClassifyError(says) = "timeout"
      <3>1. \A n \in hits : 2 <= n
        BY <1>6
      <3> HIDE DEF hits
      <3>2. Min(hits) = 2
        BY <1>3, <2>2, <3>1
      <3>3. hits # {} /\ ClassificationRules[2].kind = "timeout"
        BY <2>2, Rules
      <3> QED BY <1>1, <3>2, <3>3
    <2>3. ASSUME 2 \notin hits
          PROVE  ClassifyError(says) # "timeout"
      <3> SUFFICES ASSUME hits # {}
                   PROVE  ClassificationRules[Min(hits)].kind # "timeout"
        BY <1>1
      <3>1. Min(hits) \in {3, 4, 5, 6}
        BY <1>4, <1>6, <2>3
      <3> HIDE DEF hits
      <3> QED BY <3>1, Rules
    <2> QED BY <1>2, <1>6, <2>1, <2>2, <2>3
  <1> QED BY <1>5, <1>6


------------------------------------------------------------------------------
(* One step *)

\* The numbers of a policy.
LEMMA PolicyTyped ==
  ASSUME policy \in Policies
  PROVE  /\ policy.attempts \in Nat \ {0} /\ policy.commands \in Nat
         /\ policy.backoff \in Nat
  BY BoundAssumption DEF Policies

\* The backoff of the attempt under way is a number, or none after the last.
LEMMA BackoffKnown ==
  ASSUME policy \in Policies, attempt \in 1 .. policy.attempts
  PROVE  IF attempt < policy.attempts THEN Backoff \in Nat ELSE Backoff = NoBackoff
  <1>1. policy.attempts \in Nat \ {0} /\ policy.backoff \in Nat
    BY PolicyTyped
  <1>2. attempt \in Nat \ {0}
    BY <1>1
  <1>3. RetryBackoff(policy.backoff, attempt) \in Nat
    BY <1>1, <1>2, BackoffsDouble
  <1> QED BY <1>3 DEF Backoff

\* The texts of every error are texts.
LEMMA ErrorsTyped ==
  /\ Errors("dir") \subseteq Error /\ Errors("disk") \subseteq Error
  /\ Errors("spawn") \subseteq Error /\ Errors("exit") \subseteq Error
  /\ Errors("timeout") \subseteq Error /\ Errors("canceled") \subseteq Error
  /\ Errors("finalize") \subseteq Error
  <1>1. ASSUME NEW cause \in Cause, \A t \in TextsOf(cause) : t \subseteq Needles
        PROVE  Errors(cause) \subseteq Error
    BY <1>1 DEF Errors, Error
  <1>2. /\ TextsOf("canceled") = {{"job canceled"}} /\ TextsOf("timeout") = {TimeoutText}
        /\ TextsOf("finalize") = {IdText}
        /\ TextsOf("disk") = QuotedTexts /\ TextsOf("spawn") = QuotedTexts
    BY DEF TextsOf
  <1>3. /\ TextsOf("exit") = {{"yt-dlp failed"} \cup t : t \in QuotedTexts}
        /\ TextsOf("dir") = {IdText \cup t : t \in QuotedTexts}
    BY DEF TextsOf
  <1>4. IdText \subseteq Needles
    BY NeedlesKnown, TextAssumption
  <1>5. \A t \in QuotedTexts : t \subseteq Needles
    BY TextAssumption
  <1>6. {"yt-dlp failed"} \subseteq Needles /\ {"job canceled"} \subseteq Needles
        /\ TimeoutText \subseteq Needles
    BY NeedlesKnown DEF TimeoutText
  <1>7. /\ \A t \in TextsOf("exit") : t \subseteq Needles
        /\ \A t \in TextsOf("dir") : t \subseteq Needles
    BY <1>3, <1>4, <1>5, <1>6
  <1>8. /\ \A t \in TextsOf("canceled") : t \subseteq Needles
        /\ \A t \in TextsOf("timeout") : t \subseteq Needles
        /\ \A t \in TextsOf("finalize") : t \subseteq Needles
        /\ \A t \in TextsOf("disk") : t \subseteq Needles
        /\ \A t \in TextsOf("spawn") : t \subseteq Needles
    BY <1>2, <1>4, <1>5, <1>6
  <1> QED BY <1>1, <1>7, <1>8 DEF Cause

\* What a download returns is an outcome.
LEMMA OutcomeTyped ==
  ASSUME policy \in Policies, NEW ok \in BOOLEAN, NEW attempts \in 0 .. policy.attempts,
         NEW list \in Seq(Attempt), NEW error \in Error \cup {NoError}
  PROVE  IsOutcome([ok |-> ok, attempts |-> attempts, errors |-> list, error |-> error])
  BY DEF IsOutcome

\* What download_url returns when it fails.
LEMMA GivesError ==
  ASSUME NEW attempts, NEW list, NEW causes, Give(attempts, list, causes)
  PROVE  /\ pc' = "ended" /\ outcome'.ok = FALSE /\ outcome'.attempts = attempts
         /\ outcome'.errors = list /\ outcome'.error \in causes
  BY DEF Give

\* The error it returns when there is only one it may be.
LEMMA GivesThat ==
  ASSUME NEW attempts, NEW list, NEW error, Give(attempts, list, {error})
  PROVE  outcome'.error = error
  BY DEF Give

\* The loop gives up with the error of its last attempt.
LEMMA GivesLast ==
  ASSUME HandleAttemptError, pc' = "ended"
  PROVE  /\ outcome'.ok = FALSE /\ outcome'.attempts = policy.attempts
         /\ outcome'.errors = errors' /\ outcome'.error = failure
  <1>1. Give(policy.attempts, errors', {failure})
    BY DEF HandleAttemptError
  <1> QED BY <1>1, GivesError, GivesThat

\* The variables with finitely many values, and the history.
Simple ==
  /\ policy \in Policies /\ canceled \in BOOLEAN /\ pc \in Place /\ dir \in Dir
  /\ command \in Command /\ child \in {"none", "running", "ok", "failed"}
  /\ expired \in BOOLEAN
  /\ verdict \in {"none", "ok", "failed", "timeout", "canceled"}
  /\ stuck \in BOOLEAN /\ lateStarts \in Nat


\* Places, the directory, the command and its process keep their types.
LEMMA SimpleKept ==
  ASSUME TypeOK, Stages, Next
  PROVE  Simple'
  <1> USE DEF Simple, TypeOK, Stages, Dir, Command, Place, settled
  <1>1. ASSUME Prepare
       PROVE  Simple'
    BY <1>1 DEF Prepare, DirPrepared, DirRefused, Give
  <1>2. ASSUME CheckDisk
       PROVE  Simple'
    BY <1>2 DEF CheckDisk, CleanUp, Give
  <1>3. ASSUME StartVersion
       PROVE  Simple'
    <2>1. CASE Spawn("version") /\ attempt' = attempt
      <3>1. lateStarts' = lateStarts \/ lateStarts' = lateStarts + 1
        BY <2>1 DEF Spawn
      <3>2. lateStarts' \in Nat
        BY <3>1
      <3> QED BY <1>3, <2>1, <3>2 DEF StartVersion, Spawn
    <2>2. CASE pc' = "attempt" /\ UNCHANGED <<command, child, expired, lateStarts>>
      BY <1>3, <2>2 DEF StartVersion
    <2> QED BY <1>3, <2>1, <2>2 DEF StartVersion
  <1>4. ASSUME PrepareAttempt
       PROVE  Simple'
    BY <1>4 DEF PrepareAttempt, DirPrepared, DirRefused, Fail
  <1>5. ASSUME StartFetch
       PROVE  Simple'
    BY <1>5 DEF StartFetch, Spawn, Fail
  <1>6. ASSUME Poll
       PROVE  Simple'
    BY <1>6 DEF Poll, Look, HasLimit, Watched, Written
  <1>7. ASSUME VersionDone
       PROVE  Simple'
    BY <1>7 DEF VersionDone
  <1>8. ASSUME FetchDone
       PROVE  Simple'
    BY <1>8 DEF FetchDone, Fail, TimeoutText
  <1>9. ASSUME PostDone
       PROVE  Simple'
    BY <1>9 DEF PostDone, StepFailed, FailFinalize, Fail
  <1>10. ASSUME Finalize
       PROVE  Simple'
    BY <1>10 DEF Finalize, FailFinalize, Fail
  <1>11. ASSUME StartPost
       PROVE  Simple'
    <2>1. CASE Spawn("post")
      <3>1. lateStarts' = lateStarts \/ lateStarts' = lateStarts + 1
        BY <2>1 DEF Spawn
      <3>2. lateStarts' \in Nat
        BY <3>1
      <3> QED BY <1>11, <2>1, <3>2 DEF StartPost, Spawn
    <2>2. CASE StepFailed /\ UNCHANGED <<command, child, expired, lateStarts>>
      BY <1>11, <2>2 DEF StartPost, StepFailed, FailFinalize, Fail
    <2> QED BY <1>11, <2>1, <2>2 DEF StartPost
  <1>12. ASSUME Rescan
       PROVE  Simple'
    BY <1>12 DEF Rescan, FailFinalize, Fail
  <1>13. ASSUME Upload
       PROVE  Simple'
    BY <1>13 DEF Upload, FailFinalize, Fail
  <1>14. ASSUME HandleAttemptError
       PROVE  Simple'
    BY <1>14 DEF HandleAttemptError, CleanUp, Give
  <1>15. ASSUME EndBackoff
       PROVE  Simple'
    BY <1>15 DEF EndBackoff, Give
  <1>16. ASSUME Finish
       PROVE  Simple'
    BY <1>16 DEF Finish
  <1>17. ASSUME ChildEnds
       PROVE  Simple'
    BY <1>17 DEF ChildEnds, Written
  <1>18. ASSUME DeadlinePasses
       PROVE  Simple'
    BY <1>18 DEF DeadlinePasses, HasLimit
  <1>19. ASSUME Cancel
       PROVE  Simple'
    BY <1>19 DEF Cancel
  <1> HIDE DEF Simple, TypeOK, Stages, Dir, Command, Place, settled
  <1> QED BY <1>1, <1>2, <1>3, <1>4, <1>5, <1>6, <1>7, <1>8, <1>9, <1>10, <1>11, <1>12,
             <1>13, <1>14, <1>15, <1>16, <1>17, <1>18, <1>19
     DEF Next, Step, Drained


\* The attempt and the step stay within the policy, and errors are errors.
Numbers ==
  /\ attempt \in 0 .. policy.attempts /\ step \in 0 .. policy.commands
  /\ failure \in Error \cup {NoError}

\* No attempt is made beyond the policy's, no command beyond the last.
LEMMA NumbersKept ==
  ASSUME TypeOK, Stages, Next
  PROVE  Numbers'
  <1>p. /\ policy \in Policies /\ policy.attempts \in Nat \ {0} /\ policy.commands \in Nat
    BY PolicyTyped DEF TypeOK
  <1> USE <1>p DEF Numbers, TypeOK, Stages,
         InAttempt, BeforeAttempts, Commanding, settled
  <1>1. ASSUME Prepare
       PROVE  Numbers'
    BY <1>1 DEF Prepare, DirPrepared, DirRefused, Give
  <1>2. ASSUME CheckDisk
       PROVE  Numbers'
    BY <1>2 DEF CheckDisk, CleanUp, Give
  <1>3. ASSUME StartVersion
       PROVE  Numbers'
    BY <1>3 DEF StartVersion, Spawn
  <1>4. ASSUME PrepareAttempt
       PROVE  Numbers'
    BY <1>4, ErrorsTyped DEF PrepareAttempt, DirPrepared, DirRefused, Fail
  <1>5. ASSUME StartFetch
       PROVE  Numbers'
    BY <1>5, ErrorsTyped DEF StartFetch, Spawn, Fail
  <1>6. ASSUME Poll
       PROVE  Numbers'
    BY <1>6 DEF Poll, Look, HasLimit, Watched, Written
  <1>7. ASSUME VersionDone
       PROVE  Numbers'
    BY <1>7 DEF VersionDone
  <1>8. ASSUME FetchDone
       PROVE  Numbers'
    BY <1>8, ErrorsTyped DEF FetchDone, Fail, TimeoutText
  <1>9. ASSUME PostDone
       PROVE  Numbers'
    <2>1. UNCHANGED <<policy, attempt>> /\ step \in 1 .. policy.commands
      BY <1>9 DEF PostDone
    <2>2. failure' \in Error \cup {NoError}
      BY <1>9, ErrorsTyped DEF PostDone, StepFailed, FailFinalize, Fail
    <2>3. step' = step \/ (step < policy.commands /\ step' = step + 1)
      BY <1>9 DEF PostDone, StepFailed, FailFinalize, Fail
    <2> QED BY <2>1, <2>2, <2>3
  <1>10. ASSUME Finalize
       PROVE  Numbers'
    <2>1. UNCHANGED <<policy, attempt>>
      BY <1>10 DEF Finalize
    <2>2. failure' \in Error \cup {NoError}
      BY <1>10, ErrorsTyped DEF Finalize, FailFinalize, Fail
    <2>3. step' = step \/ (policy.commands # 0 /\ step' = 1)
      BY <1>10 DEF Finalize, FailFinalize, Fail
    <2> QED BY <2>1, <2>2, <2>3
  <1>11. ASSUME StartPost
       PROVE  Numbers'
    BY <1>11, ErrorsTyped DEF StartPost, Spawn, StepFailed, FailFinalize, Fail
  <1>12. ASSUME Rescan
       PROVE  Numbers'
    BY <1>12, ErrorsTyped DEF Rescan, FailFinalize, Fail
  <1>13. ASSUME Upload
       PROVE  Numbers'
    BY <1>13, ErrorsTyped DEF Upload, FailFinalize, Fail
  <1>14. ASSUME HandleAttemptError
       PROVE  Numbers'
    <2>1. attempt \in 1 .. policy.attempts
      BY <1>14 DEF HandleAttemptError
    <2>2. IF attempt < policy.attempts THEN Backoff \in Nat ELSE Backoff = NoBackoff
      BY <2>1, BackoffKnown
    <2> QED BY <1>14, <2>1, <2>2, NoneAssumption DEF HandleAttemptError, Give
  <1>15. ASSUME EndBackoff
       PROVE  Numbers'
    <2>1. UNCHANGED <<policy, step, failure>>
      BY <1>15 DEF EndBackoff
    <2>2. attempt' = attempt \/ attempt' = attempt + 1
      BY <1>15 DEF EndBackoff
    <2>3. attempt \in 1 .. policy.attempts - 1
      BY <1>15 DEF EndBackoff
    <2> QED BY <2>1, <2>2, <2>3
  <1>16. ASSUME Finish
       PROVE  Numbers'
    BY <1>16 DEF Finish
  <1>17. ASSUME ChildEnds
       PROVE  Numbers'
    BY <1>17 DEF ChildEnds, Written
  <1>18. ASSUME DeadlinePasses
       PROVE  Numbers'
    BY <1>18 DEF DeadlinePasses, HasLimit
  <1>19. ASSUME Cancel
       PROVE  Numbers'
    BY <1>19 DEF Cancel
  <1> HIDE <1>p DEF Numbers, TypeOK, Stages,
         InAttempt, BeforeAttempts, Commanding, settled
  <1> QED BY <1>1, <1>2, <1>3, <1>4, <1>5, <1>6, <1>7, <1>8, <1>9, <1>10, <1>11, <1>12,
             <1>13, <1>14, <1>15, <1>16, <1>17, <1>18, <1>19
     DEF Next, Step, Drained


\* The report: the errors noted and the outcome.
Report == errors \in Seq(Attempt) /\ IsOutcome(outcome)

\* The errors in the report are of the kinds the server knows.
LEMMA ReportKept ==
  ASSUME TypeOK, Stages, Next
  PROVE  Report'
  <1>p. /\ policy \in Policies /\ policy.attempts \in Nat \ {0} /\ policy.commands \in Nat
    BY PolicyTyped DEF TypeOK
  <1>1. ASSUME Prepare
       PROVE  Report'
    <2>1. /\ UNCHANGED <<policy, errors>>
          /\ \/ outcome' = outcome
             \/ \E error \in Errors("dir") :
                  outcome' = [ok |-> FALSE, attempts |-> 0, errors |-> <<>>,
                              error |-> error]
      BY <1>1 DEF Prepare, Give
    <2>2. CASE outcome' = outcome
      BY <2>1, <2>2 DEF Report, TypeOK, IsOutcome
    <2>3. CASE outcome' # outcome
      <3>1. attempt \in 0 .. policy.attempts /\ errors \in Seq(Attempt)
            /\ <<>> \in Seq(Attempt) /\ 0 \in 0 .. policy.attempts
        BY <1>p DEF TypeOK
      <3>2. IsOutcome(outcome')
        BY <2>1, <2>3, <3>1, <1>p, ErrorsTyped, OutcomeTyped
      <3> QED BY <2>1, <3>1, <3>2 DEF Report, IsOutcome
    <2> QED BY <2>2, <2>3
  <1>2. ASSUME CheckDisk
       PROVE  Report'
    <2>1. /\ UNCHANGED <<policy, errors>>
          /\ \/ outcome' = outcome
             \/ \E error \in Errors("disk") :
                  outcome' = [ok |-> FALSE, attempts |-> 0, errors |-> <<>>,
                              error |-> error]
      BY <1>2 DEF CheckDisk, Give
    <2>2. CASE outcome' = outcome
      BY <2>1, <2>2 DEF Report, TypeOK, IsOutcome
    <2>3. CASE outcome' # outcome
      <3>1. attempt \in 0 .. policy.attempts /\ errors \in Seq(Attempt)
            /\ <<>> \in Seq(Attempt) /\ 0 \in 0 .. policy.attempts
        BY <1>p DEF TypeOK
      <3>2. IsOutcome(outcome')
        BY <2>1, <2>3, <3>1, <1>p, ErrorsTyped, OutcomeTyped
      <3> QED BY <2>1, <3>1, <3>2 DEF Report, IsOutcome
    <2> QED BY <2>2, <2>3
  <1>3. ASSUME StartVersion
       PROVE  Report'
    <2>1. UNCHANGED <<policy, errors, outcome>>
      BY <1>3 DEF StartVersion, Spawn, settled
    <2> QED BY <2>1 DEF Report, TypeOK, IsOutcome
  <1>4. ASSUME PrepareAttempt
       PROVE  Report'
    <2>1. UNCHANGED <<policy, errors, outcome>>
      BY <1>4 DEF PrepareAttempt, DirPrepared, DirRefused, Fail, settled
    <2> QED BY <2>1 DEF Report, TypeOK, IsOutcome
  <1>5. ASSUME StartFetch
       PROVE  Report'
    <2>1. UNCHANGED <<policy, errors, outcome>>
      BY <1>5 DEF StartFetch, Spawn, Fail, settled
    <2> QED BY <2>1 DEF Report, TypeOK, IsOutcome
  <1>6. ASSUME Poll
       PROVE  Report'
    <2>1. UNCHANGED <<policy, errors, outcome>>
      BY <1>6 DEF Poll, Look, HasLimit, Watched, Written, settled
    <2> QED BY <2>1 DEF Report, TypeOK, IsOutcome
  <1>7. ASSUME VersionDone
       PROVE  Report'
    <2>1. UNCHANGED <<policy, errors, outcome>>
      BY <1>7 DEF VersionDone, settled
    <2> QED BY <2>1 DEF Report, TypeOK, IsOutcome
  <1>8. ASSUME FetchDone
       PROVE  Report'
    <2>1. UNCHANGED <<policy, errors, outcome>>
      BY <1>8 DEF FetchDone, Fail, TimeoutText, settled
    <2> QED BY <2>1 DEF Report, TypeOK, IsOutcome
  <1>9. ASSUME PostDone
       PROVE  Report'
    <2>1. UNCHANGED <<policy, errors, outcome>>
      BY <1>9 DEF PostDone, StepFailed, FailFinalize, Fail, settled
    <2> QED BY <2>1 DEF Report, TypeOK, IsOutcome
  <1>10. ASSUME Finalize
       PROVE  Report'
    <2>1. UNCHANGED <<policy, errors, outcome>>
      BY <1>10 DEF Finalize, FailFinalize, Fail, settled
    <2> QED BY <2>1 DEF Report, TypeOK, IsOutcome
  <1>11. ASSUME StartPost
       PROVE  Report'
    <2>1. UNCHANGED <<policy, errors, outcome>>
      BY <1>11 DEF StartPost, Spawn, StepFailed, FailFinalize, Fail, settled
    <2> QED BY <2>1 DEF Report, TypeOK, IsOutcome
  <1>12. ASSUME Rescan
       PROVE  Report'
    <2>1. UNCHANGED <<policy, errors, outcome>>
      BY <1>12 DEF Rescan, FailFinalize, Fail, settled
    <2> QED BY <2>1 DEF Report, TypeOK, IsOutcome
  <1>13. ASSUME Upload
       PROVE  Report'
    <2>1. /\ UNCHANGED <<policy, errors>>
          /\ \/ outcome' = outcome
             \/ outcome' = [ok |-> TRUE, attempts |-> attempt, errors |-> errors,
                            error |-> NoError]
      BY <1>13 DEF Upload
    <2>2. CASE outcome' = outcome
      BY <2>1, <2>2 DEF Report, TypeOK, IsOutcome
    <2>3. CASE outcome' # outcome
      <3>1. attempt \in 0 .. policy.attempts /\ errors \in Seq(Attempt)
        BY DEF TypeOK
      <3>2. IsOutcome(outcome')
        BY <2>1, <2>3, <3>1, <1>p, OutcomeTyped
      <3> QED BY <2>1, <3>1, <3>2 DEF Report, IsOutcome
    <2> QED BY <2>2, <2>3
  <1>14. ASSUME HandleAttemptError
       PROVE  Report'
    <2>1. failure \in Error /\ attempt \in 1 .. policy.attempts
      BY <1>14 DEF HandleAttemptError, Stages, InAttempt
    <2>2. IF attempt < policy.attempts THEN Backoff \in Nat ELSE Backoff = NoBackoff
      BY <2>1, <1>p, BackoffKnown
    <2>3. [attempt |-> attempt, error |-> failure, backoff |-> Backoff] \in Attempt
      BY <2>1, <2>2, <1>p DEF Attempt
    <2>4. /\ policy' = policy
          /\ errors' = Append(errors, [attempt |-> attempt, error |-> failure,
                                       backoff |-> Backoff])
          /\ \/ outcome' = outcome
             \/ outcome' = [ok |-> FALSE, attempts |-> policy.attempts,
                            errors |-> errors', error |-> failure]
      BY <1>14 DEF HandleAttemptError, Give
    <2>5. errors' \in Seq(Attempt)
      BY <2>3, <2>4 DEF TypeOK
    <2>6. CASE outcome' = outcome
      BY <2>4, <2>5, <2>6 DEF Report, TypeOK, IsOutcome
    <2>7. CASE outcome' = [ok |-> FALSE, attempts |-> policy.attempts,
                           errors |-> errors', error |-> failure]
      BY <2>1, <2>4, <2>5, <2>7, <1>p DEF Report, IsOutcome
    <2> QED BY <2>4, <2>6, <2>7
  <1>15. ASSUME EndBackoff
       PROVE  Report'
    <2>1. /\ UNCHANGED <<policy, errors>>
          /\ \/ outcome' = outcome
             \/ \E error \in Errors("canceled") :
                  outcome' = [ok |-> FALSE, attempts |-> attempt, errors |-> errors,
                              error |-> error]
      BY <1>15 DEF EndBackoff, Give
    <2>2. CASE outcome' = outcome
      BY <2>1, <2>2 DEF Report, TypeOK, IsOutcome
    <2>3. CASE outcome' # outcome
      <3>1. attempt \in 0 .. policy.attempts /\ errors \in Seq(Attempt)
            /\ <<>> \in Seq(Attempt) /\ 0 \in 0 .. policy.attempts
        BY <1>p DEF TypeOK
      <3>2. IsOutcome(outcome')
        BY <2>1, <2>3, <3>1, <1>p, ErrorsTyped, OutcomeTyped
      <3> QED BY <2>1, <3>1, <3>2 DEF Report, IsOutcome
    <2> QED BY <2>2, <2>3
  <1>16. ASSUME Finish
       PROVE  Report'
    <2>1. UNCHANGED <<policy, errors, outcome>>
      BY <1>16 DEF Finish, settled
    <2> QED BY <2>1 DEF Report, TypeOK, IsOutcome
  <1>17. ASSUME ChildEnds
       PROVE  Report'
    <2>1. UNCHANGED <<policy, errors, outcome>>
      BY <1>17 DEF ChildEnds, Written, settled
    <2> QED BY <2>1 DEF Report, TypeOK, IsOutcome
  <1>18. ASSUME DeadlinePasses
       PROVE  Report'
    <2>1. UNCHANGED <<policy, errors, outcome>>
      BY <1>18 DEF DeadlinePasses, HasLimit, settled
    <2> QED BY <2>1 DEF Report, TypeOK, IsOutcome
  <1>19. ASSUME Cancel
       PROVE  Report'
    <2>1. UNCHANGED <<policy, errors, outcome>>
      BY <1>19 DEF Cancel, settled
    <2> QED BY <2>1 DEF Report, TypeOK, IsOutcome
  <1> QED BY <1>1, <1>2, <1>3, <1>4, <1>5, <1>6, <1>7, <1>8, <1>9, <1>10, <1>11, <1>12,
             <1>13, <1>14, <1>15, <1>16, <1>17, <1>18, <1>19
     DEF Next, Step, Drained


\* Types are preserved.
LEMMA TypesKept ==
  ASSUME TypeOK, Stages, Next
  PROVE  TypeOK'
  <1>1. Simple' /\ Numbers' /\ Report'
    BY SimpleKept, NumbersKept, ReportKept
  <1> QED BY <1>1 DEF TypeOK, Simple, Numbers, Report

------------------------------------------------------------------------------
(* The files, the number of late starts *)

\* Only complete downloads are uploaded, and every failure cleans up.
LEMMA FilesKept ==
  ASSUME TypeOK, Stages, FilesLeft, Next
  PROVE  FilesLeft'
  <1> USE DEF TypeOK, Stages, FilesLeft, Dir, Over, Commanding, InAttempt,
         settled
  <1>1. ASSUME Prepare
       PROVE  FilesLeft'
    BY <1>1 DEF Prepare, DirPrepared, DirRefused, Give
  <1>2. ASSUME CheckDisk
       PROVE  FilesLeft'
    BY <1>2 DEF CheckDisk, CleanUp, Give
  <1>3. ASSUME StartVersion
       PROVE  FilesLeft'
    BY <1>3 DEF StartVersion, Spawn
  <1>4. ASSUME PrepareAttempt
       PROVE  FilesLeft'
    BY <1>4 DEF PrepareAttempt, DirPrepared, DirRefused, Fail
  <1>5. ASSUME StartFetch
       PROVE  FilesLeft'
    BY <1>5 DEF StartFetch, Spawn, Fail
  <1>6. ASSUME Poll
       PROVE  FilesLeft'
    BY <1>6 DEF Poll, Look, HasLimit, Watched, Written
  <1>7. ASSUME VersionDone
       PROVE  FilesLeft'
    BY <1>7 DEF VersionDone
  <1>8. ASSUME FetchDone
       PROVE  FilesLeft'
    BY <1>8 DEF FetchDone, Fail, TimeoutText
  <1>9. ASSUME PostDone
       PROVE  FilesLeft'
    BY <1>9 DEF PostDone, StepFailed, FailFinalize, Fail
  <1>10. ASSUME Finalize
       PROVE  FilesLeft'
    BY <1>10 DEF Finalize, FailFinalize, Fail
  <1>11. ASSUME StartPost
       PROVE  FilesLeft'
    BY <1>11 DEF StartPost, Spawn, StepFailed, FailFinalize, Fail
  <1>12. ASSUME Rescan
       PROVE  FilesLeft'
    BY <1>12 DEF Rescan, FailFinalize, Fail
  <1>13. ASSUME Upload
       PROVE  FilesLeft'
    BY <1>13 DEF Upload, FailFinalize, Fail
  <1>14. ASSUME HandleAttemptError
       PROVE  FilesLeft'
    BY <1>14 DEF HandleAttemptError, CleanUp, Give
  <1>15. ASSUME EndBackoff
       PROVE  FilesLeft'
    <2>1. /\ pc = "backoff" /\ UNCHANGED <<dir, stuck>>
          /\ pc' = "attempt" \/ (pc' = "ended" /\ outcome'.ok = FALSE)
      BY <1>15, GivesError DEF EndBackoff
    <2> QED BY <2>1
  <1>16. ASSUME Finish
       PROVE  FilesLeft'
    BY <1>16 DEF Finish
  <1>17. ASSUME ChildEnds
       PROVE  FilesLeft'
    BY <1>17 DEF ChildEnds, Written
  <1>18. ASSUME DeadlinePasses
       PROVE  FilesLeft'
    BY <1>18 DEF DeadlinePasses, HasLimit
  <1>19. ASSUME Cancel
       PROVE  FilesLeft'
    BY <1>19 DEF Cancel
  <1> HIDE DEF TypeOK, Stages, FilesLeft, Dir, Over, Commanding, InAttempt,
         settled
  <1> QED BY <1>1, <1>2, <1>3, <1>4, <1>5, <1>6, <1>7, <1>8, <1>9, <1>10, <1>11, <1>12,
             <1>13, <1>14, <1>15, <1>16, <1>17, <1>18, <1>19
     DEF Next, Step, Drained


\* Of the commands of an attempt, those before the current one at most were
\* started late.
LEMMA LateKept ==
  ASSUME TypeOK, Stages, Late, Next
  PROVE  Late'
  <1>p. /\ policy \in Policies /\ policy.attempts \in Nat \ {0} /\ policy.commands \in Nat
    BY PolicyTyped DEF TypeOK
  <1> USE <1>p DEF TypeOK, Stages, Late, LateStartsBounded, Commanding, InAttempt,
         BeforeAttempts, settled
  <1>1. ASSUME Prepare
       PROVE  Late'
    BY <1>1 DEF Prepare, DirPrepared, DirRefused, Give
  <1>2. ASSUME CheckDisk
       PROVE  Late'
    BY <1>2 DEF CheckDisk, CleanUp, Give
  <1>3. ASSUME StartVersion
       PROVE  Late'
    BY <1>3 DEF StartVersion, Spawn
  <1>4. ASSUME PrepareAttempt
       PROVE  Late'
    BY <1>4 DEF PrepareAttempt, DirPrepared, DirRefused, Fail
  <1>5. ASSUME StartFetch
       PROVE  Late'
    BY <1>5 DEF StartFetch, Spawn, Fail
  <1>6. ASSUME Poll
       PROVE  Late'
    BY <1>6 DEF Poll, Look, HasLimit, Watched, Written
  <1>7. ASSUME VersionDone
       PROVE  Late'
    BY <1>7 DEF VersionDone
  <1>8. ASSUME FetchDone
       PROVE  Late'
    BY <1>8 DEF FetchDone, Fail, TimeoutText
  <1>9. ASSUME PostDone
       PROVE  Late'
    BY <1>9 DEF PostDone, StepFailed, FailFinalize, Fail
  <1>10. ASSUME Finalize
       PROVE  Late'
    BY <1>10 DEF Finalize, FailFinalize, Fail
  <1>11. ASSUME StartPost
       PROVE  Late'
    BY <1>11 DEF StartPost, Spawn, StepFailed, FailFinalize, Fail
  <1>12. ASSUME Rescan
       PROVE  Late'
    BY <1>12 DEF Rescan, FailFinalize, Fail
  <1>13. ASSUME Upload
       PROVE  Late'
    BY <1>13 DEF Upload, FailFinalize, Fail
  <1>14. ASSUME HandleAttemptError
       PROVE  Late'
    BY <1>14 DEF HandleAttemptError, CleanUp, Give
  <1>15. ASSUME EndBackoff
       PROVE  Late'
    BY <1>15 DEF EndBackoff, Give
  <1>16. ASSUME Finish
       PROVE  Late'
    BY <1>16 DEF Finish
  <1>17. ASSUME ChildEnds
       PROVE  Late'
    BY <1>17 DEF ChildEnds, Written
  <1>18. ASSUME DeadlinePasses
       PROVE  Late'
    BY <1>18 DEF DeadlinePasses, HasLimit
  <1>19. ASSUME Cancel
       PROVE  Late'
    BY <1>19 DEF Cancel
  <1> HIDE <1>p DEF TypeOK, Stages, Late, LateStartsBounded, Commanding,
     InAttempt,
         BeforeAttempts, settled
  <1> QED BY <1>1, <1>2, <1>3, <1>4, <1>5, <1>6, <1>7, <1>8, <1>9, <1>10, <1>11, <1>12,
             <1>13, <1>14, <1>15, <1>16, <1>17, <1>18, <1>19
     DEF Next, Step, Drained


------------------------------------------------------------------------------
(* What the errors tell *)

\* Whatever an error quotes, it tells its cause.
LEMMA TextsTell ==
  ASSUME NEW cause \in Cause, cause = "canceled" => canceled
  PROVE  \A error \in Errors(cause) : Telling(error)
  BY DEF Telling, Errors

\* Every failure tells its cause, and the record repeats it.
LEMMA CausesKept ==
  ASSUME TypeOK, Stages, Causes, Next
  PROVE  Causes'
  <1>1. ASSUME Prepare
       PROVE  Causes'
    <2>1. /\ canceled' = canceled /\ pc' # "failed" /\ pc' # "done"
          /\ pc' = "ended" => outcome'.error \in Errors("dir")
      BY <1>1, GivesError DEF Prepare, DirPrepared, DirRefused
    <2>2. pc' = "ended" => Telling(outcome'.error)
      BY <2>1, TextsTell DEF Cause
    <2> QED BY <2>1, <2>2 DEF Telling, Causes, Over
  <1>2. ASSUME CheckDisk
       PROVE  Causes'
    <2>1. /\ canceled' = canceled /\ pc' # "failed" /\ pc' # "done"
          /\ pc' = "ended" => outcome'.error \in Errors("disk")
      BY <1>2, GivesError DEF CheckDisk, CleanUp
    <2>2. pc' = "ended" => Telling(outcome'.error)
      BY <2>1, TextsTell DEF Cause
    <2> QED BY <2>1, <2>2 DEF Telling, Causes, Over
  <1>3. ASSUME StartVersion
       PROVE  Causes'
    <2>1. /\ pc' \notin {"failed", "ended", "done"} /\ canceled' = canceled
          /\ UNCHANGED <<failure, outcome, record>>
      BY <1>3 DEF StartVersion, Spawn, settled
    <2> QED BY <2>1 DEF Telling, Causes, Over
  <1>4. ASSUME PrepareAttempt
       PROVE  Causes'
    <2>1. /\ canceled' = canceled /\ pc' \notin {"ended", "done"}
          /\ pc' = "failed" =>
               \/ failure' \in Errors("dir")
      BY <1>4 DEF PrepareAttempt, DirPrepared, DirRefused, Fail
    <2>2. pc' = "failed" => Telling(failure')
      BY <2>1, TextsTell DEF Cause
    <2> QED BY <2>1, <2>2 DEF Telling, Causes, Over
  <1>5. ASSUME StartFetch
       PROVE  Causes'
    <2>1. /\ canceled' = canceled /\ pc' \notin {"ended", "done"}
          /\ pc' = "failed" =>
               \/ failure' \in Errors("spawn")
               \/ canceled /\ failure' \in Errors("canceled")
      BY <1>5 DEF StartFetch, Spawn, Fail
    <2>2. pc' = "failed" => Telling(failure')
      BY <2>1, TextsTell DEF Cause
    <2> QED BY <2>1, <2>2 DEF Telling, Causes, Over
  <1>6. ASSUME Poll
       PROVE  Causes'
    <2>1. /\ pc' \notin {"failed", "ended", "done"} /\ canceled' = canceled
          /\ UNCHANGED <<failure, outcome, record>>
      BY <1>6 DEF Poll, Look, HasLimit, Watched, Written, settled
    <2> QED BY <2>1 DEF Telling, Causes, Over
  <1>7. ASSUME VersionDone
       PROVE  Causes'
    <2>1. /\ pc' \notin {"failed", "ended", "done"} /\ canceled' = canceled
          /\ UNCHANGED <<failure, outcome, record>>
      BY <1>7 DEF VersionDone, settled
    <2> QED BY <2>1 DEF Telling, Causes, Over
  <1>8. ASSUME FetchDone
       PROVE  Causes'
    <2>1. /\ canceled' = canceled /\ pc' \notin {"ended", "done"}
          /\ pc' = "failed" =>
               \/ failure' \in Errors("exit")
               \/ failure' \in Errors("timeout")
               \/ canceled /\ failure' \in Errors("canceled")
      BY <1>8 DEF FetchDone, Fail, Stages
    <2>2. pc' = "failed" => Telling(failure')
      BY <2>1, TextsTell DEF Cause
    <2> QED BY <2>1, <2>2 DEF Telling, Causes, Over
  <1>9. ASSUME PostDone
       PROVE  Causes'
    <2>1. /\ canceled' = canceled /\ pc' \notin {"ended", "done"}
          /\ pc' = "failed" =>
               \/ failure' \in Errors("finalize")
      BY <1>9 DEF PostDone, StepFailed, FailFinalize, Fail
    <2>2. pc' = "failed" => Telling(failure')
      BY <2>1, TextsTell DEF Cause
    <2> QED BY <2>1, <2>2 DEF Telling, Causes, Over
  <1>10. ASSUME Finalize
       PROVE  Causes'
    <2>1. /\ canceled' = canceled /\ pc' \notin {"ended", "done"}
          /\ pc' = "failed" =>
               \/ failure' \in Errors("finalize")
      BY <1>10 DEF Finalize, FailFinalize, Fail
    <2>2. pc' = "failed" => Telling(failure')
      BY <2>1, TextsTell DEF Cause
    <2> QED BY <2>1, <2>2 DEF Telling, Causes, Over
  <1>11. ASSUME StartPost
       PROVE  Causes'
    <2>1. /\ canceled' = canceled /\ pc' \notin {"ended", "done"}
          /\ pc' = "failed" =>
               \/ failure' \in Errors("finalize")
      BY <1>11 DEF StartPost, Spawn, StepFailed, FailFinalize, Fail
    <2>2. pc' = "failed" => Telling(failure')
      BY <2>1, TextsTell DEF Cause
    <2> QED BY <2>1, <2>2 DEF Telling, Causes, Over
  <1>12. ASSUME Rescan
       PROVE  Causes'
    <2>1. /\ canceled' = canceled /\ pc' \notin {"ended", "done"}
          /\ pc' = "failed" =>
               \/ failure' \in Errors("finalize")
      BY <1>12 DEF Rescan, FailFinalize, Fail
    <2>2. pc' = "failed" => Telling(failure')
      BY <2>1, TextsTell DEF Cause
    <2> QED BY <2>1, <2>2 DEF Telling, Causes, Over
  <1>13. ASSUME Upload
       PROVE  Causes'
    <2>1. /\ canceled' = canceled /\ pc' # "done"
          /\ pc' = "ended" => outcome'.ok
          /\ pc' = "failed" => failure' \in Errors("finalize")
      BY <1>13 DEF Upload, FailFinalize, Fail
    <2>2. pc' = "failed" => Telling(failure')
      BY <2>1, TextsTell DEF Cause
    <2> QED BY <2>1, <2>2 DEF Telling, Causes, Over
  <1>14. ASSUME HandleAttemptError
       PROVE  Causes'
    <2>1. /\ canceled' = canceled /\ pc' # "failed" /\ pc' # "done"
          /\ pc' = "ended" => outcome'.error = failure
      BY <1>14, GivesLast DEF HandleAttemptError, CleanUp, Give
    <2>2. pc' = "ended" => Telling(outcome'.error)
      BY <2>1, <1>14 DEF HandleAttemptError, Causes
    <2> QED BY <2>1, <2>2 DEF Telling, Causes, Over
  <1>15. ASSUME EndBackoff
       PROVE  Causes'
    <2>1. /\ canceled' = canceled /\ pc' # "failed" /\ pc' # "done"
          /\ pc' = "ended" => outcome'.error \in Errors("canceled")
                          /\ canceled
      BY <1>15, GivesError DEF EndBackoff
    <2>2. pc' = "ended" => Telling(outcome'.error)
      BY <2>1, TextsTell DEF Cause
    <2> QED BY <2>1, <2>2 DEF Telling, Causes, Over
  <1>16. ASSUME Finish
       PROVE  Causes'
    <2>1. /\ outcome' = outcome /\ canceled' = canceled /\ pc = "ended" /\ pc' = "done"
      BY <1>16 DEF Finish
    <2>2. ~outcome.ok => Telling(outcome.error)
      BY <2>1 DEF Causes, Over
    <2>3. ~outcome.ok =>
            /\ record'.status = IF IsCanceledError(outcome.error.says) THEN "canceled"
                                                                      ELSE "failed"
            /\ record'.kind = ClassifyError(outcome.error.says)
            /\ record'.timedOut = IsTimeoutError(outcome.error.says)
      BY <1>16 DEF Finish
    <2>4. pc' # "failed"
      BY <2>1
    <2> QED BY <2>1, <2>2, <2>3, <2>4 DEF Telling, Causes, Over
  <1>17. ASSUME ChildEnds
       PROVE  Causes'
    <2>1. pc' = pc /\ canceled' = canceled /\ UNCHANGED <<failure, outcome, record>>
      BY <1>17 DEF ChildEnds, Written, settled
    <2> QED BY <2>1 DEF Telling, Causes, Over
  <1>18. ASSUME DeadlinePasses
       PROVE  Causes'
    <2>1. pc' = pc /\ canceled' = canceled /\ UNCHANGED <<failure, outcome, record>>
      BY <1>18 DEF DeadlinePasses, HasLimit, settled
    <2> QED BY <2>1 DEF Telling, Causes, Over
  <1>19. ASSUME Cancel
       PROVE  Causes'
    <2>1. pc' = pc /\ canceled' /\ UNCHANGED <<failure, outcome, record>>
      BY <1>19 DEF Cancel, settled
    <2> QED BY <2>1 DEF Telling, Causes, Over
  <1> QED BY <1>1, <1>2, <1>3, <1>4, <1>5, <1>6, <1>7, <1>8, <1>9, <1>10, <1>11, <1>12,
             <1>13, <1>14, <1>15, <1>16, <1>17, <1>18, <1>19
     DEF Next, Step, Drained


------------------------------------------------------------------------------
(* The course of the download *)

\* Every place is reached with the attempt, the command and the step it is
\* for.
LEMMA StagesKept ==
  ASSUME TypeOK, Stages, Next
  PROVE  Stages'
  <1>p. /\ policy \in Policies /\ policy.attempts \in Nat \ {0} /\ policy.commands \in Nat
    BY PolicyTyped DEF TypeOK
  <1> USE <1>p DEF TypeOK, Stages, Commanding, InAttempt, BeforeAttempts, settled
  <1>1. ASSUME Prepare
       PROVE  Stages'
    BY <1>1 DEF Prepare, DirPrepared, DirRefused, Give
  <1>2. ASSUME CheckDisk
       PROVE  Stages'
    BY <1>2 DEF CheckDisk, CleanUp, Give
  <1>3. ASSUME StartVersion
       PROVE  Stages'
    BY <1>3 DEF StartVersion, Spawn
  <1>4. ASSUME PrepareAttempt
       PROVE  Stages'
    BY <1>4, ErrorsTyped DEF PrepareAttempt, DirPrepared, DirRefused, Fail
  <1>5. ASSUME StartFetch
       PROVE  Stages'
    BY <1>5, ErrorsTyped DEF StartFetch, Spawn, Fail
  <1>6. ASSUME Poll
       PROVE  Stages'
    BY <1>6 DEF Poll, Look, HasLimit, Watched, Written
  <1>7. ASSUME VersionDone
       PROVE  Stages'
    BY <1>7 DEF VersionDone
  <1>8. ASSUME FetchDone
       PROVE  Stages'
    <2>1. pc' = "finalize" \/ (pc' = "failed" /\ failure' \in Error)
      BY <1>8, ErrorsTyped DEF FetchDone, Fail
    <2>2. /\ command = "fetch" /\ pc = "drain"
          /\ UNCHANGED <<policy, attempt, child, step, command>>
      BY <1>8 DEF FetchDone
    <2> QED BY <2>1, <2>2
  <1>9. ASSUME PostDone
       PROVE  Stages'
    <2>1. /\ pc' = "failed" => failure' \in Error
          /\ pc' = "post" => step' = step + 1 /\ step < policy.commands
          /\ pc' \in {"failed", "post", "rescan"}
      BY <1>9, ErrorsTyped DEF PostDone, StepFailed, FailFinalize, Fail
    <2>2. command = "post" /\ pc = "drain" /\ UNCHANGED <<policy, attempt, child, command>>
      BY <1>9 DEF PostDone
    <2> QED BY <2>1, <2>2
  <1>10. ASSUME Finalize
       PROVE  Stages'
    <2>1. \/ pc' = "failed" /\ failure' \in Error
          \/ pc' = "upload"
          \/ pc' = "post" /\ step' = 1 /\ policy.commands # 0
      BY <1>10, ErrorsTyped DEF Finalize, FailFinalize, Fail
    <2>2. pc = "finalize" /\ UNCHANGED <<policy, attempt, child, command>>
      BY <1>10 DEF Finalize
    <2> QED BY <2>1, <2>2
  <1>11. ASSUME StartPost
       PROVE  Stages'
    BY <1>11, ErrorsTyped DEF StartPost, Spawn, StepFailed, FailFinalize, Fail
  <1>12. ASSUME Rescan
       PROVE  Stages'
    BY <1>12, ErrorsTyped DEF Rescan, FailFinalize, Fail
  <1>13. ASSUME Upload
       PROVE  Stages'
    BY <1>13, ErrorsTyped DEF Upload, FailFinalize, Fail
  <1>14. ASSUME HandleAttemptError
       PROVE  Stages'
    <2>1. attempt \in 1 .. policy.attempts
      BY <1>14 DEF HandleAttemptError
    <2>2. IF attempt < policy.attempts THEN Backoff \in Nat ELSE Backoff = NoBackoff
      BY <2>1, BackoffKnown
    <2>3. \/ pc' = "ended"
          \/ attempt < policy.attempts /\ attempt' = attempt + 1 /\ pc' = "attempt"
          \/ attempt < policy.attempts /\ attempt' = attempt /\ pc' = "backoff"
      <3>1. CASE attempt < policy.attempts
        <4>1. Backoff # NoBackoff
          BY <2>2, <3>1, NoneAssumption
        <4> QED BY <1>14, <3>1, <4>1 DEF HandleAttemptError
      <3>2. CASE ~(attempt < policy.attempts)
        <4>1. Backoff = NoBackoff /\ Backoff # 0
          BY <2>2, <3>2, NoneAssumption
        <4> QED BY <1>14, <4>1, GivesError DEF HandleAttemptError
      <3> QED BY <3>1, <3>2
    <2>4. UNCHANGED <<policy, child, command>> /\ child = "none"
      BY <1>14 DEF HandleAttemptError
    <2> QED BY <2>1, <2>3, <2>4
  <1>15. ASSUME EndBackoff
       PROVE  Stages'
    <2>1. \/ pc' = "ended" /\ attempt' = attempt
          \/ pc' = "attempt" /\ attempt' = attempt + 1
      BY <1>15, GivesError DEF EndBackoff
    <2>2. pc = "backoff" /\ UNCHANGED <<policy, child, command>>
      BY <1>15 DEF EndBackoff
    <2> QED BY <2>1, <2>2
  <1>16. ASSUME Finish
       PROVE  Stages'
    BY <1>16 DEF Finish
  <1>17. ASSUME ChildEnds
       PROVE  Stages'
    BY <1>17 DEF ChildEnds, Written
  <1>18. ASSUME DeadlinePasses
       PROVE  Stages'
    BY <1>18 DEF DeadlinePasses, HasLimit
  <1>19. ASSUME Cancel
       PROVE  Stages'
    BY <1>19 DEF Cancel
  <1> HIDE <1>p DEF TypeOK, Stages, Commanding, InAttempt, BeforeAttempts,
     settled
  <1> QED BY <1>1, <1>2, <1>3, <1>4, <1>5, <1>6, <1>7, <1>8, <1>9, <1>10, <1>11, <1>12,
             <1>13, <1>14, <1>15, <1>16, <1>17, <1>18, <1>19
     DEF Next, Step, Drained


\* There is an outcome at the end, with an error after a failure.
LEMMA EndsKept ==
  ASSUME TypeOK, Stages, Ends, Next
  PROVE  Ends'
  <1>p. /\ policy \in Policies /\ policy.attempts \in Nat \ {0} /\ policy.commands \in Nat
    BY PolicyTyped DEF TypeOK
  <1>1. ASSUME Prepare
       PROVE  Ends'
    <2>1. /\ policy' = policy /\ pc' # "done"
          /\ pc' = "ended" => /\ outcome'.ok = FALSE /\ outcome'.attempts = 0
                            /\ outcome'.error \in Errors("dir")
      BY <1>1, GivesError DEF Prepare, DirPrepared, DirRefused
    <2>2. Errors("dir") \subseteq Error
      BY ErrorsTyped
    <2>3. 0 \in 0 .. policy.attempts
      BY <1>p
    <2> HIDE <1>p
    <2>4. CASE pc' = "ended"
      BY <2>1, <2>2, <2>3, <2>4 DEF Ends
    <2>5. CASE pc' # "ended"
      BY <2>1, <2>5 DEF Ends, Over
    <2> QED BY <2>4, <2>5
  <1>2. ASSUME CheckDisk
       PROVE  Ends'
    <2>1. /\ policy' = policy /\ pc' # "done"
          /\ pc' = "ended" => /\ outcome'.ok = FALSE /\ outcome'.attempts = 0
                            /\ outcome'.error \in Errors("disk")
      BY <1>2, GivesError DEF CheckDisk, CleanUp
    <2>2. Errors("disk") \subseteq Error
      BY ErrorsTyped
    <2>3. 0 \in 0 .. policy.attempts
      BY <1>p
    <2> HIDE <1>p
    <2>4. CASE pc' = "ended"
      BY <2>1, <2>2, <2>3, <2>4 DEF Ends
    <2>5. CASE pc' # "ended"
      BY <2>1, <2>5 DEF Ends, Over
    <2> QED BY <2>4, <2>5
  <1>3. ASSUME StartVersion
       PROVE  Ends'
    <2>1. pc' \notin {"ended", "done"} /\ UNCHANGED <<policy, outcome>>
      BY <1>3 DEF StartVersion, Spawn, settled
    <2> QED BY <2>1 DEF Ends, Over
  <1>4. ASSUME PrepareAttempt
       PROVE  Ends'
    <2>1. pc' \notin {"ended", "done"} /\ UNCHANGED <<policy, outcome>>
      BY <1>4 DEF PrepareAttempt, DirPrepared, DirRefused, Fail, settled
    <2> QED BY <2>1 DEF Ends, Over
  <1>5. ASSUME StartFetch
       PROVE  Ends'
    <2>1. pc' \notin {"ended", "done"} /\ UNCHANGED <<policy, outcome>>
      BY <1>5 DEF StartFetch, Spawn, Fail, settled
    <2> QED BY <2>1 DEF Ends, Over
  <1>6. ASSUME Poll
       PROVE  Ends'
    <2>1. pc' \notin {"ended", "done"} /\ UNCHANGED <<policy, outcome>>
      BY <1>6 DEF Poll, Look, HasLimit, Watched, Written, settled
    <2> QED BY <2>1 DEF Ends, Over
  <1>7. ASSUME VersionDone
       PROVE  Ends'
    <2>1. pc' \notin {"ended", "done"} /\ UNCHANGED <<policy, outcome>>
      BY <1>7 DEF VersionDone, settled
    <2> QED BY <2>1 DEF Ends, Over
  <1>8. ASSUME FetchDone
       PROVE  Ends'
    <2>1. pc' \notin {"ended", "done"} /\ UNCHANGED <<policy, outcome>>
      BY <1>8 DEF FetchDone, Fail, TimeoutText, settled
    <2> QED BY <2>1 DEF Ends, Over
  <1>9. ASSUME PostDone
       PROVE  Ends'
    <2>1. pc' \notin {"ended", "done"} /\ UNCHANGED <<policy, outcome>>
      BY <1>9 DEF PostDone, StepFailed, FailFinalize, Fail, settled
    <2> QED BY <2>1 DEF Ends, Over
  <1>10. ASSUME Finalize
       PROVE  Ends'
    <2>1. pc' \notin {"ended", "done"} /\ UNCHANGED <<policy, outcome>>
      BY <1>10 DEF Finalize, FailFinalize, Fail, settled
    <2> QED BY <2>1 DEF Ends, Over
  <1>11. ASSUME StartPost
       PROVE  Ends'
    <2>1. pc' \notin {"ended", "done"} /\ UNCHANGED <<policy, outcome>>
      BY <1>11 DEF StartPost, Spawn, StepFailed, FailFinalize, Fail, settled
    <2> QED BY <2>1 DEF Ends, Over
  <1>12. ASSUME Rescan
       PROVE  Ends'
    <2>1. pc' \notin {"ended", "done"} /\ UNCHANGED <<policy, outcome>>
      BY <1>12 DEF Rescan, FailFinalize, Fail, settled
    <2> QED BY <2>1 DEF Ends, Over
  <1>13. ASSUME Upload
       PROVE  Ends'
    <2>1. /\ policy' = policy /\ pc' # "done"
          /\ pc' = "ended" => outcome'.ok = TRUE /\ outcome'.attempts = attempt
      BY <1>13 DEF Upload, FailFinalize, Fail
    <2> QED BY <2>1, <1>p DEF Ends, Over, TypeOK
  <1>14. ASSUME HandleAttemptError
       PROVE  Ends'
    <2>1. /\ policy' = policy /\ pc' # "done"
          /\ pc' = "ended" => /\ outcome'.ok = FALSE /\ outcome'.attempts = policy.attempts
                            /\ outcome'.error = failure
      BY <1>14, GivesLast DEF HandleAttemptError, CleanUp, Give
    <2>2. failure \in Error
      BY <1>14 DEF HandleAttemptError, Stages
    <2>3. policy.attempts \in 0 .. policy.attempts
      BY <1>p
    <2> HIDE <1>p
    <2>4. CASE pc' = "ended"
      BY <2>1, <2>2, <2>3, <2>4 DEF Ends
    <2>5. CASE pc' # "ended"
      BY <2>1, <2>5 DEF Ends, Over
    <2> QED BY <2>4, <2>5
  <1>15. ASSUME EndBackoff
       PROVE  Ends'
    <2>1. /\ policy' = policy /\ pc' # "done"
          /\ pc' = "ended" => /\ outcome'.ok = FALSE /\ outcome'.attempts = attempt
                            /\ outcome'.error \in Errors("canceled")
      BY <1>15, GivesError DEF EndBackoff
    <2>2. Errors("canceled") \subseteq Error
      BY ErrorsTyped
    <2>3. attempt \in 0 .. policy.attempts
      BY <1>p DEF TypeOK
    <2> HIDE <1>p
    <2>4. CASE pc' = "ended"
      BY <2>1, <2>2, <2>3, <2>4 DEF Ends
    <2>5. CASE pc' # "ended"
      BY <2>1, <2>5 DEF Ends, Over
    <2> QED BY <2>4, <2>5
  <1>16. ASSUME Finish
       PROVE  Ends'
    <2>1. pc = "ended" /\ UNCHANGED <<policy, outcome>>
      BY <1>16 DEF Finish, settled
    <2> QED BY <2>1 DEF Ends, Over
  <1>17. ASSUME ChildEnds
       PROVE  Ends'
    <2>1. pc' = pc /\ UNCHANGED <<policy, outcome>>
      BY <1>17 DEF ChildEnds, Written, settled
    <2> QED BY <2>1 DEF Ends, Over
  <1>18. ASSUME DeadlinePasses
       PROVE  Ends'
    <2>1. pc' = pc /\ UNCHANGED <<policy, outcome>>
      BY <1>18 DEF DeadlinePasses, HasLimit, settled
    <2> QED BY <2>1 DEF Ends, Over
  <1>19. ASSUME Cancel
       PROVE  Ends'
    <2>1. pc' = pc /\ UNCHANGED <<policy, outcome>>
      BY <1>19 DEF Cancel, settled
    <2> QED BY <2>1 DEF Ends, Over
  <1> QED BY <1>1, <1>2, <1>3, <1>4, <1>5, <1>6, <1>7, <1>8, <1>9, <1>10, <1>11, <1>12,
             <1>13, <1>14, <1>15, <1>16, <1>17, <1>18, <1>19
     DEF Next, Step, Drained


------------------------------------------------------------------------------
(* The report *)

\* The errors noted so far, with their backoffs, are not changed any more.
LEMMA NotedStays ==
  ASSUME Counted, UNCHANGED <<policy, errors>>
  PROVE  \A i \in 1 .. Len(errors') : Noted(i)'
  BY DEF Counted, Noted

\* The report counts the failed attempts, with the backoff after each.
LEMMA CountedKept ==
  ASSUME TypeOK, Stages, Counted, Next
  PROVE  Counted'
  <1>p. /\ policy \in Policies /\ policy.attempts \in Nat \ {0} /\ policy.commands \in Nat
    BY PolicyTyped DEF TypeOK
  <1>1. ASSUME Prepare
       PROVE  Counted'
    <2>1. UNCHANGED <<policy, errors>> /\ (\A i \in 1 .. Len(errors') : Noted(i)')
      BY <1>1, NotedStays DEF Prepare, DirPrepared, DirRefused
    <2>2. pc' # "backoff" /\ pc' # "done"
      BY <1>1, GivesError DEF Prepare, DirPrepared, DirRefused
    <2>3. /\ errors = <<>> /\ pc' \in {"disk", "version", "ended"}
          /\ pc' = "ended" => outcome'.errors = <<>> /\ outcome'.attempts = 0
                            /\ outcome'.ok = FALSE
      BY <1>1, GivesError DEF Prepare, DirPrepared, DirRefused, Counted,
         BeforeAttempts
    <2> QED BY <2>1, <2>2, <2>3, <1>p DEF Counted, BeforeAttempts, InAttempt,
               Commanding, Over
  <1>2. ASSUME CheckDisk
       PROVE  Counted'
    <2>1. UNCHANGED <<policy, errors>> /\ (\A i \in 1 .. Len(errors') : Noted(i)')
      BY <1>2, NotedStays DEF CheckDisk, CleanUp
    <2>2. pc' # "backoff" /\ pc' # "done"
      BY <1>2, GivesError DEF CheckDisk, CleanUp
    <2>3. /\ errors = <<>> /\ pc' \in {"disk", "version", "ended"}
          /\ pc' = "ended" => outcome'.errors = <<>> /\ outcome'.attempts = 0
                            /\ outcome'.ok = FALSE
      BY <1>2, GivesError DEF CheckDisk, CleanUp, Counted, BeforeAttempts
    <2> QED BY <2>1, <2>2, <2>3, <1>p DEF Counted, BeforeAttempts, InAttempt,
               Commanding, Over
  <1>3. ASSUME StartVersion
       PROVE  Counted'
    <2>1. UNCHANGED <<policy, errors>> /\ (\A i \in 1 .. Len(errors') : Noted(i)')
      BY <1>3, NotedStays DEF StartVersion, Spawn
    <2>2. /\ errors = <<>>
          /\ \/ pc' = "attempt" /\ attempt' = 1
             \/ pc' = "poll" /\ command' = "version"
      BY <1>3 DEF StartVersion, Spawn, Counted, BeforeAttempts, Commanding
    <2> QED BY <2>1, <2>2 DEF Counted, BeforeAttempts, InAttempt, Commanding, Over
  <1>4. ASSUME PrepareAttempt
       PROVE  Counted'
    <2>1. UNCHANGED <<policy, errors>> /\ (\A i \in 1 .. Len(errors') : Noted(i)')
      BY <1>4, NotedStays DEF PrepareAttempt, DirPrepared, DirRefused, Fail
    <2> QED BY <1>4, <2>1 DEF PrepareAttempt, DirPrepared, DirRefused, Fail, Counted,
               BeforeAttempts, InAttempt, Commanding, Over, settled
  <1>5. ASSUME StartFetch
       PROVE  Counted'
    <2>1. UNCHANGED <<policy, errors>> /\ (\A i \in 1 .. Len(errors') : Noted(i)')
      BY <1>5, NotedStays DEF StartFetch, Spawn, Fail
    <2> QED BY <1>5, <2>1 DEF StartFetch, Spawn, Fail, Counted, BeforeAttempts,
               InAttempt, Commanding, Over, settled
  <1>6. ASSUME Poll
       PROVE  Counted'
    <2>1. UNCHANGED <<policy, errors>> /\ (\A i \in 1 .. Len(errors') : Noted(i)')
      BY <1>6, NotedStays DEF Poll, Look, HasLimit, Watched, Written
    <2> QED BY <1>6, <2>1 DEF Poll, Look, HasLimit, Watched, Written, Counted,
               BeforeAttempts, InAttempt, Commanding, Over, settled
  <1>7. ASSUME VersionDone
       PROVE  Counted'
    <2>1. UNCHANGED <<policy, errors>> /\ (\A i \in 1 .. Len(errors') : Noted(i)')
      BY <1>7, NotedStays DEF VersionDone
    <2>2. /\ errors = <<>>
          /\ \/ pc' = "attempt" /\ attempt' = 1
             \/ pc' = "poll" /\ command' = "version"
      BY <1>7 DEF VersionDone, Counted, BeforeAttempts, Commanding
    <2> QED BY <2>1, <2>2 DEF Counted, BeforeAttempts, InAttempt, Commanding, Over
  <1>8. ASSUME FetchDone
       PROVE  Counted'
    <2>1. UNCHANGED <<policy, errors>> /\ (\A i \in 1 .. Len(errors') : Noted(i)')
      BY <1>8, NotedStays DEF FetchDone, Fail, TimeoutText
    <2> QED BY <1>8, <2>1 DEF FetchDone, Fail, TimeoutText, Counted, BeforeAttempts,
               InAttempt, Commanding, Over, settled
  <1>9. ASSUME PostDone
       PROVE  Counted'
    <2>1. UNCHANGED <<policy, errors>> /\ (\A i \in 1 .. Len(errors') : Noted(i)')
      BY <1>9, NotedStays DEF PostDone, StepFailed, FailFinalize, Fail
    <2> QED BY <1>9, <2>1 DEF PostDone, StepFailed, FailFinalize, Fail, Counted,
               BeforeAttempts, InAttempt, Commanding, Over, settled
  <1>10. ASSUME Finalize
       PROVE  Counted'
    <2>1. UNCHANGED <<policy, errors>> /\ (\A i \in 1 .. Len(errors') : Noted(i)')
      BY <1>10, NotedStays DEF Finalize, FailFinalize, Fail
    <2> QED BY <1>10, <2>1 DEF Finalize, FailFinalize, Fail, Counted, BeforeAttempts,
               InAttempt, Commanding, Over, settled
  <1>11. ASSUME StartPost
       PROVE  Counted'
    <2>1. UNCHANGED <<policy, errors>> /\ (\A i \in 1 .. Len(errors') : Noted(i)')
      BY <1>11, NotedStays DEF StartPost, Spawn, StepFailed, FailFinalize, Fail
    <2> QED BY <1>11, <2>1 DEF StartPost, Spawn, StepFailed, FailFinalize, Fail,
               Counted, BeforeAttempts, InAttempt, Commanding, Over, settled
  <1>12. ASSUME Rescan
       PROVE  Counted'
    <2>1. UNCHANGED <<policy, errors>> /\ (\A i \in 1 .. Len(errors') : Noted(i)')
      BY <1>12, NotedStays DEF Rescan, FailFinalize, Fail
    <2> QED BY <1>12, <2>1 DEF Rescan, FailFinalize, Fail, Counted, BeforeAttempts,
               InAttempt, Commanding, Over, settled
  <1>13. ASSUME Upload
       PROVE  Counted'
    <2>1. UNCHANGED <<policy, errors>> /\ (\A i \in 1 .. Len(errors') : Noted(i)')
      BY <1>13, NotedStays DEF Upload, FailFinalize, Fail
    <2>2. pc' # "backoff" /\ pc' # "done"
      BY <1>13, GivesError DEF Upload, FailFinalize, Fail
    <2>3. /\ Len(errors) = attempt - 1 /\ attempt' = attempt
          /\ \/ pc' = "failed"
             \/ /\ pc' = "ended" /\ outcome'.errors = errors
                /\ outcome'.attempts = attempt /\ outcome'.ok = TRUE
      BY <1>13 DEF Upload, FailFinalize, Fail, Counted, InAttempt
    <2>4. attempt \in Nat
      BY <1>p DEF TypeOK
    <2> QED BY <2>1, <2>2, <2>3, <2>4 DEF Counted, BeforeAttempts, InAttempt,
               Commanding, Over
  <1>14. ASSUME HandleAttemptError
       PROVE  Counted'
    <2> DEFINE new == [attempt |-> attempt, error |-> failure, backoff |-> Backoff]
    <2>1. /\ attempt \in 1 .. policy.attempts /\ Len(errors) = attempt - 1
          /\ errors \in Seq(Attempt) /\ attempt \in Nat \ {0}
      BY <1>14, <1>p DEF HandleAttemptError, Stages, InAttempt, Counted, TypeOK
    <2>2. policy' = policy /\ errors' = Append(errors, new) /\ new.backoff = Backoff
          /\ new.attempt = attempt /\ new.error = failure
      BY <1>14 DEF HandleAttemptError
    <2> HIDE DEF new
    <2>3. /\ Len(errors') = attempt /\ errors'[attempt] = new
          /\ \A i \in 1 .. attempt - 1 : errors'[i] = errors[i]
      BY <2>1, <2>2
    <2>4. \A i \in 1 .. Len(errors') : Noted(i)'
      <3> SUFFICES ASSUME NEW i \in 1 .. attempt
                   PROVE  Noted(i)'
        BY <2>3
      <3>1. CASE i = attempt
        BY <2>2, <2>3, <3>1 DEF Noted, Backoff
      <3>2. CASE i # attempt
        <4>1. i \in 1 .. attempt - 1 /\ i \in 1 .. Len(errors)
          BY <2>1, <3>2
        <4>2. Noted(i) /\ errors'[i] = errors[i]
          BY <4>1, <2>3 DEF Counted
        <4> QED BY <4>2, <2>2 DEF Noted
      <3> QED BY <3>1, <3>2
    <2>5. IF attempt < policy.attempts THEN Backoff \in Nat ELSE Backoff = NoBackoff
      BY <2>1, <1>p, BackoffKnown
    <2>6. \/ /\ pc' = "ended" /\ attempt = policy.attempts /\ outcome'.ok = FALSE
             /\ outcome'.errors = errors' /\ outcome'.attempts = policy.attempts
             /\ outcome'.error = failure
          \/ pc' = "attempt" /\ attempt' = attempt + 1
          \/ pc' = "backoff" /\ attempt' = attempt
      <3>1. CASE attempt < policy.attempts
        <4>1. Backoff # NoBackoff
          BY <2>5, <3>1, NoneAssumption
        <4> QED BY <1>14, <4>1 DEF HandleAttemptError
      <3>2. CASE ~(attempt < policy.attempts)
        <4>1. Backoff = NoBackoff /\ Backoff # 0 /\ attempt = policy.attempts
          BY <2>1, <2>5, <3>2, <1>p, NoneAssumption
        <4>2. pc' = "ended"
          BY <1>14, <4>1 DEF HandleAttemptError, Give
        <4> QED BY <1>14, <4>1, <4>2, GivesLast
      <3> QED BY <3>1, <3>2
    <2> QED BY <2>1, <2>2, <2>3, <2>4, <2>6
            DEF Counted, BeforeAttempts, InAttempt, Commanding, Over
  <1>15. ASSUME EndBackoff
       PROVE  Counted'
    <2>1. UNCHANGED <<policy, errors>> /\ (\A i \in 1 .. Len(errors') : Noted(i)')
      BY <1>15, NotedStays DEF EndBackoff
    <2>2. pc' # "backoff" /\ pc' # "done"
      BY <1>15, GivesError DEF EndBackoff
    <2>3. /\ Len(errors) = attempt /\ attempt \in 1 .. policy.attempts - 1
          /\ \/ pc' = "attempt" /\ attempt' = attempt + 1
             \/ /\ pc' = "ended" /\ outcome'.errors = errors
                /\ outcome'.attempts = attempt /\ outcome'.ok = FALSE
      BY <1>15, GivesError DEF EndBackoff, Counted, Stages
    <2> QED BY <2>1, <2>2, <2>3, <1>p DEF Counted, BeforeAttempts, InAttempt,
               Commanding, Over
  <1>16. ASSUME Finish
       PROVE  Counted'
    <2>1. UNCHANGED <<policy, errors>> /\ (\A i \in 1 .. Len(errors') : Noted(i)')
      BY <1>16, NotedStays DEF Finish
    <2>2. /\ pc = "ended" /\ pc' = "done" /\ outcome' = outcome
          /\ record'.attempts = outcome.attempts /\ record'.errors = outcome.errors
      BY <1>16 DEF Finish
    <2> QED BY <2>1, <2>2 DEF Counted, BeforeAttempts, InAttempt, Commanding, Over
  <1>17. ASSUME ChildEnds
       PROVE  Counted'
    <2>1. UNCHANGED <<policy, errors>> /\ (\A i \in 1 .. Len(errors') : Noted(i)')
      BY <1>17, NotedStays DEF ChildEnds, Written
    <2> QED BY <1>17, <2>1 DEF ChildEnds, Written, Counted, BeforeAttempts, InAttempt,
               Commanding, Over, settled
  <1>18. ASSUME DeadlinePasses
       PROVE  Counted'
    <2>1. UNCHANGED <<policy, errors>> /\ (\A i \in 1 .. Len(errors') : Noted(i)')
      BY <1>18, NotedStays DEF DeadlinePasses, HasLimit
    <2> QED BY <1>18, <2>1 DEF DeadlinePasses, HasLimit, Counted, BeforeAttempts,
               InAttempt, Commanding, Over, settled
  <1>19. ASSUME Cancel
       PROVE  Counted'
    <2>1. UNCHANGED <<policy, errors>> /\ (\A i \in 1 .. Len(errors') : Noted(i)')
      BY <1>19, NotedStays DEF Cancel
    <2> QED BY <1>19, <2>1 DEF Cancel, Counted, BeforeAttempts, InAttempt, Commanding,
               Over, settled
  <1> QED BY <1>1, <1>2, <1>3, <1>4, <1>5, <1>6, <1>7, <1>8, <1>9, <1>10, <1>11, <1>12,
             <1>13, <1>14, <1>15, <1>16, <1>17, <1>18, <1>19
     DEF Next, Step, Drained


------------------------------------------------------------------------------
(* The theorems *)

LEMMA DownloadInit == Init => DownloadInv
  <1> SUFFICES ASSUME Init
               PROVE  DownloadInv
    OBVIOUS
  <1>1. policy.attempts \in Nat \ {0} /\ policy.commands \in Nat
    BY PolicyTyped DEF Init
  <1>2. TypeOK
    <2>1. IsOutcome(outcome)
      BY DEF Init, IsOutcome
    <2>2. errors \in Seq(Attempt) /\ failure \in Error \cup {NoError}
      BY DEF Init
    <2>3. attempt \in 0 .. policy.attempts /\ step \in 0 .. policy.commands
          /\ lateStarts \in Nat
      BY <1>1 DEF Init
    <2> QED BY <2>1, <2>2, <2>3 DEF Init, TypeOK, Place, Dir, Command
  <1>3. Stages /\ Ends /\ FilesLeft /\ Causes
    BY DEF Init, Stages, Ends, FilesLeft, Causes, Commanding, BeforeAttempts,
           InAttempt, Over
  <1>4. Counted
    BY DEF Init, Counted, Commanding, BeforeAttempts, InAttempt, Over
  <1>5. Late
    BY <1>1 DEF Init, Late, LateStartsBounded, Commanding
  <1> QED BY <1>2, <1>3, <1>4, <1>5 DEF DownloadInv

\* The invariant of a download.
THEOREM DownloadInductive == Spec => []DownloadInv
  <1>1. DownloadInv /\ [Next]_vars => DownloadInv'
    <2> SUFFICES ASSUME DownloadInv, [Next]_vars
                 PROVE  DownloadInv'
      OBVIOUS
    <2>1. CASE Next
      BY <2>1, TypesKept, StagesKept, EndsKept, CountedKept, FilesKept,
         CausesKept,
         LateKept DEF DownloadInv
    <2>2. CASE UNCHANGED vars
      <3>1. TypeOK'
        BY <2>2 DEF DownloadInv, TypeOK, IsOutcome, vars, settled
      <3>2. Stages'
        BY <2>2 DEF DownloadInv, Stages, Commanding, BeforeAttempts,
           InAttempt, vars
      <3>3. Ends' /\ FilesLeft'
        BY <2>2 DEF DownloadInv, Ends, FilesLeft, Over, vars
      <3>4. Causes'
        BY <2>2 DEF DownloadInv, Causes, Telling, Over, vars
      <3>5. Late'
        BY <2>2 DEF DownloadInv, Late, LateStartsBounded, Commanding, vars
      <3>6. Counted'
        BY <2>2, NotedStays DEF DownloadInv, Counted, Commanding,
           BeforeAttempts,
           InAttempt, Over, vars
      <3> QED BY <3>1, <3>2, <3>3, <3>4, <3>5, <3>6 DEF DownloadInv
    <2> QED BY <2>1, <2>2
  <1> QED BY <1>1, DownloadInit, PTL DEF Spec

\* Types of the variables: in particular no attempt is made beyond those the
\* policy allows, and no post-processing command beyond the last.
THEOREM DownloadTypes == Spec => []TypeOK
  <1>1. DownloadInv => TypeOK
    BY DEF DownloadInv
  <1> QED BY <1>1, DownloadInductive, PTL

\* The attempts and errors in the record of a job count right, with backoffs
\* that double.
THEOREM ReportsFit == Spec => []ReportFits
  <1>1. DownloadInv => ReportFits
    <2> SUFFICES ASSUME DownloadInv, pc = "done"
                 PROVE  /\ record.attempts
                             = Len(record.errors) + (IF outcome.ok THEN 1 ELSE 0)
                        /\ \A i \in DOMAIN record.errors :
                             LET e == record.errors[i] IN
                             /\ e.attempt = i
                             /\ i = policy.attempts <=> e.backoff = NoBackoff
                             /\ e.backoff # NoBackoff =>
                                  e.backoff = IF i = 1 THEN Min({policy.backoff, MaxMillis})
                                    ELSE Min({(IF i <= 21 THEN 2 ELSE 1)
                                                * record.errors[i - 1].backoff, MaxMillis})
                        /\ ~outcome.ok /\ record.attempts = policy.attempts =>
                             outcome.error = record.errors[record.attempts].error
      BY DEF ReportFits
    <2>1. /\ record.errors = errors /\ record.attempts = outcome.attempts
          /\ outcome.attempts = Len(errors) + (IF outcome.ok THEN 1 ELSE 0)
          /\ ~outcome.ok /\ outcome.attempts = policy.attempts =>
               outcome.error = errors[outcome.attempts].error
      BY DEF DownloadInv, Counted, Over
    <2>2. /\ errors \in Seq(Attempt) /\ policy.attempts \in Nat \ {0}
          /\ policy.backoff \in Nat /\ outcome.attempts \in 0 .. policy.attempts
          /\ outcome.ok \in BOOLEAN
      BY PolicyTyped DEF DownloadInv, TypeOK, Ends, Over
    <2>3. Len(errors) \in Nat /\ DOMAIN errors = 1 .. Len(errors)
          /\ Len(errors) <= policy.attempts
      BY <2>1, <2>2
    <2>4. \A i \in 1 .. Len(errors) : Noted(i)
      BY DEF DownloadInv, Counted
    <2>5. ASSUME NEW i \in DOMAIN errors
          PROVE  /\ errors[i].attempt = i
                 /\ i = policy.attempts <=> errors[i].backoff = NoBackoff
                 /\ errors[i].backoff # NoBackoff =>
                      errors[i].backoff = IF i = 1 THEN Min({policy.backoff, MaxMillis})
                        ELSE Min({(IF i <= 21 THEN 2 ELSE 1) * errors[i - 1].backoff,
                                  MaxMillis})
      <3>1. i \in Nat \ {0} /\ i <= policy.attempts /\ i \in 1 .. Len(errors)
        BY <2>2, <2>3
      <3>2. Noted(i)
        BY <3>1, <2>4
      <3>3. RetryBackoff(policy.backoff, i) \in Nat
        BY <3>1, <2>2, BackoffsDouble
      <3>4. errors[i].attempt = i /\ (i = policy.attempts <=> errors[i].backoff = NoBackoff)
        BY <3>1, <3>2, <3>3, <2>2, NoneAssumption DEF Noted
      <3>5. ASSUME errors[i].backoff # NoBackoff
            PROVE  errors[i].backoff = RetryBackoff(policy.backoff, i)
        BY <3>2, <3>5 DEF Noted
      <3>6. CASE i = 1
        BY <3>4, <3>5, <3>6, <2>2, BackoffsDouble
      <3>7. CASE i # 1
        <4>1. i - 1 \in 1 .. Len(errors) /\ i - 1 < policy.attempts /\ i > 1
          BY <3>1, <3>7, <2>2, <2>3
        <4>2. errors[i - 1].backoff = RetryBackoff(policy.backoff, i - 1)
          BY <4>1, <2>4 DEF Noted
        <4>3. RetryBackoff(policy.backoff, i)
                = Min({(IF i <= 21 THEN 2 ELSE 1) * RetryBackoff(policy.backoff, i - 1),
                       MaxMillis})
          BY <3>1, <4>1, <2>2, BackoffsDouble
        <4> QED BY <3>4, <3>5, <3>7, <4>2, <4>3
      <3> QED BY <3>6, <3>7
    <2> QED BY <2>1, <2>5
  <1> QED BY <1>1, DownloadInductive, PTL

\* A job that succeeded left its files, one that did not left none.
THEOREM FilesMatch == Spec => []FilesMatchOutcome
  <1>1. DownloadInv => FilesMatchOutcome
    BY DEF DownloadInv, FilesLeft, FilesMatchOutcome, Over
  <1> QED BY <1>1, DownloadInductive, PTL

\* Status and error_kind of the record tell what ended the job, whatever yt-dlp
\* printed, with one exception that is stated: a text quoted from outside that
\* says "job canceled" is taken for a cancellation.
THEOREM KindsTellWhy == Spec => []KindTellsWhy
  <1>1. DownloadInv => KindTellsWhy
    <2> SUFFICES ASSUME DownloadInv, pc = "done", ~outcome.ok
                 PROVE  KindTellsWhy
      BY DEF KindTellsWhy
    <2> DEFINE error == outcome.error
               says == error.says
    <2>1. Telling(error) /\ error.cause \in Cause /\ says \in TextsOf(error.cause)
      <3>1. Telling(error)
        BY DEF DownloadInv, Causes, Over
      <3>2. error \in Error
        BY DEF DownloadInv, Ends, Over
      <3> QED BY <3>1, <3>2 DEF Telling, Errors, Error
    <2>2. /\ record.status = IF IsCanceledError(says) THEN "canceled" ELSE "failed"
          /\ record.kind = ClassifyError(says) /\ record.timedOut = IsTimeoutError(says)
      BY DEF DownloadInv, Causes
    <2>3. /\ ClassifyError(says) = "canceled"
               <=> "job canceled" \in says \/ "Job Canceled" \in says
          /\ ClassifyError(says) = "timeout"
               <=> /\ "timed out" \in says
                   /\ "job canceled" \notin says /\ "Job Canceled" \notin says
      BY FirstRuleDecides
    <2> HIDE DEF error, says
    <2>4. CASE error.cause = "canceled"
      <3>1. says = {"job canceled"} /\ canceled
        BY <2>1, <2>4 DEF TextsOf, Telling
      <3> QED BY <2>2, <2>3, <2>4, <3>1 DEF KindTellsWhy, IsCanceledError, error
    <2>5. CASE error.cause = "timeout"
      <3>1. says = {"timed out", "timed out after"}
        BY <2>1, <2>5 DEF TextsOf, TimeoutText
      <3> QED BY <2>2, <2>3, <2>5, <3>1
              DEF KindTellsWhy, IsCanceledError, IsTimeoutError, error
    <2>6. CASE error.cause = "finalize"
      <3>1. says \subseteq {"429"}
        BY <2>1, <2>6, TextAssumption DEF TextsOf
      <3> QED BY <2>2, <2>3, <2>6, <3>1
              DEF KindTellsWhy, IsCanceledError, IsTimeoutError, error
    <2>7. CASE error.cause \in Quoting
      BY <2>2, <2>3, <2>7 DEF KindTellsWhy, IsCanceledError, Quoting, error
    <2> QED BY <2>1, <2>4, <2>5, <2>6, <2>7 DEF Cause, Quoting
  <1> QED BY <1>1, DownloadInductive, PTL

\* After a cancellation yt-dlp is not started any more, and of the other
\* commands only the version command or those of the attempt under way.
THEOREM LateStarts == Spec => []LateStartsBounded
  <1>1. DownloadInv => LateStartsBounded
    BY DEF DownloadInv, Late
  <1> QED BY <1>1, DownloadInductive, PTL
=====
