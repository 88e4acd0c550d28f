----------------------------- MODULE ErrorKinds -----------------------------
(***************************************************************************)
(* How the server reads an error text.  A text is the set of the needles   *)
(* it contains; nothing else of it decides anything.  The rules compare in *)
(* lower case and the two fixed phrases do not: "Job Canceled" stands for  *)
(* the first needle in any other spelling, and a text with "timed out" and *)
(* not "timed out after" also for that phrase in another spelling.         *)
(***************************************************************************)
EXTENDS Naturals, FiniteSetsExt

\* ERROR_CLASSIFICATION_RULES, the first rule that finds a needle decides.
ClassificationRules == <<
  [kind |-> "canceled", needles |-> {"job canceled", "Job Canceled"}],
  [kind |-> "timeout", needles |-> {"timed out"}],
  [kind |-> "rate_limited", needles |-> {"429", "too many requests", "rate limit"}],
  [kind |-> "authentication_required",
   needles |-> {"login", "sign in", "cookie", "private"}],
  [kind |-> "unsupported_url", needles |-> {"unsupported url", "no suitable extractor"}],
  [kind |-> "downloader_failed", needles |-> {"yt-dlp failed"}] >>

Kinds == {ClassificationRules[i].kind : i \in DOMAIN ClassificationRules}
           \cup {"download_failed"}
Needles == (UNION {ClassificationRules[i].needles : i \in DOMAIN ClassificationRules})
             \cup {"timed out after"}

\* classify_error.
ClassifyError(says) ==
  LET hits == {i \in DOMAIN ClassificationRules :
                 ClassificationRules[i].needles \cap says # {}}
  IN  IF hits = {} THEN "download_failed" ELSE ClassificationRules[Min(hits)].kind

\* is_timeout_error and is_canceled_error look for fixed phrases.
IsTimeoutError(says) == "timed out after" \in says
IsCanceledError(says) == "job canceled" \in says
=============================================================================
