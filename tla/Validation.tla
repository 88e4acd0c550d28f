----------------------------- MODULE Validation -----------------------------
(***************************************************************************)
(* What the server accepts as a request for downloads.  The same input can *)
(* be validated, which collects every error, and submitted, which stops at *)
(* the first.                                                              *)
(***************************************************************************)
EXTENDS Naturals, Sequences, SequencesExt, Platforms, Lists

CONSTANTS
  InputLists,    \* lists of URLs as they are typed
  Webhooks, Formats, CookieNames,   \* the other fields of a request
  Policies,      \* the part of the configuration validation reads
  Blank,         \* text that is empty after trimming
  Missing        \* a field left out

VARIABLES
  policy,     \* the configuration
  form,       \* the request
  verdict,    \* what /v1/downloads/validate says of it
  outcome     \* what a submission makes of it up to the queue

validation == <<policy, form, verdict, outcome>>

\* download_request_candidates: blank entries go, the others keep their index.
\* Mutant: the entries are made distinct before they are counted.
DistinctCandidates(values) ==
  Filter(Positions(values),
         {i \in DOMAIN values : values[i] # Blank
                                /\ \A k \in 1 .. (i - 1) : values[k] # values[i]})
Candidates(values) == Filter(Positions(values), {i \in DOMAIN values : values[i] # Blank})

\* validate_download_url, under a policy; parsing forgets how the URL was spelled.
UrlError(p, url) ==
  LET platform == PlatformForHost(url.host)
  IN  IF ~url.parses THEN "invalid"
      ELSE IF url.scheme \notin {"http", "https"} THEN "scheme"
      ELSE IF url.credentials THEN "credentials"
      ELSE IF platform = NoPlatform THEN "host"
      ELSE IF platform \notin p.enabled THEN "disabled"
      ELSE IF ~IsSupportedVideoUrl(platform, url.host, url.path) THEN "path"
      ELSE "none"
Parsed(url) == [scheme |-> url.scheme, host |-> url.host, path |-> url.path]

\* validate_webhook_url.  host_str keeps the brackets around an IPv6 address,
\* so only an IPv4 address is looked at as one.
WebhookError(p, hook) ==
  IF hook \in {Missing, Blank} THEN "none"
  ELSE IF ~hook.parses THEN "invalid"
  ELSE IF hook.scheme \notin {"http", "https"} THEN "scheme"
  ELSE IF hook.credentials THEN "credentials"
  ELSE IF hook.fragment THEN "fragment"
  ELSE IF ~p.privateHooks /\ hook.address = "private v4" THEN "private"
  ELSE "none"
\* validate_download_format.
FormatError(format) ==
  CASE format = "long" -> "long" [] format = "control" -> "control" [] OTHER -> "none"
\* normalize_cookie_profile_name and validate_cookie_profile.
CookieError(p, cookie) ==
  IF cookie \in {Missing, Blank} THEN "none"
  ELSE IF ~cookie.wellFormed THEN "name"
  ELSE IF cookie.lower \notin p.cookies THEN "unknown"
  ELSE "none"
Optional(value) == IF value = Blank THEN Missing ELSE value

\* Every valid URL once, in the order of its first spelling.
DistinctUrls(p, values, chosen) ==
  LET valid == Filter(chosen, {i \in ToSet(chosen) : UrlError(p, values[i]) = "none"})
      Seen(n) == \E k \in 1 .. (n - 1) : Parsed(values[valid[k]]) = Parsed(values[valid[n]])
      firsts == Filter(Positions(valid), {n \in DOMAIN valid : ~Seen(n)})
  IN  [n \in DOMAIN firsts |-> Parsed(values[valid[firsts[n]]])]

Accepted(urls, f) == [urls |-> urls, webhook |-> Optional(f.webhook),
                      format |-> Optional(f.format),
                      cookie |-> IF f.cookie \in {Missing, Blank} THEN Missing
                                 ELSE f.cookie.lower]

\* validate_download_request: an error names its field, and an URL its index.
Errors(p, f, chosen) ==
  {<<"urls", i, UrlError(p, f.urls[i])>> :
     i \in {k \in ToSet(chosen) : UrlError(p, f.urls[k]) # "none"}}
  \cup (IF chosen = <<>> \/ Len(chosen) > p.maxUrls THEN {<<"urls", 0, "count">>} ELSE {})
  \cup {e \in {<<"webhook_url", 0, WebhookError(p, f.webhook)>>,
               <<"format", 0, FormatError(f.format)>>,
               <<"cookie_profile", 0, CookieError(p, f.cookie)>>} : e[3] # "none"}

\* submit_download_jobs up to submit_decisions, with validate_download_urls: the
\* first error answers.  ensure_workers_ready comes before it and asks nothing of
\* the request: a server whose workers have ended (WorkersReady in JobServer)
\* refuses every submission, the valid ones too.
Typed(values) == Filter(Positions(values), {i \in DOMAIN values : values[i] # Blank})
FirstError(p, f) ==
  LET chosen == Typed(f.urls)
      bad == Filter(chosen, {i \in ToSet(chosen) : UrlError(p, f.urls[i]) # "none"})
  IN  IF chosen = <<>> \/ Len(chosen) > p.maxUrls THEN <<"urls", 0, "count">>
      ELSE IF bad # <<>> THEN <<"urls", bad[1], UrlError(p, f.urls[bad[1]])>>
      ELSE IF WebhookError(p, f.webhook) # "none"
             THEN <<"webhook_url", 0, WebhookError(p, f.webhook)>>
      ELSE IF FormatError(f.format) # "none" THEN <<"format", 0, FormatError(f.format)>>
      ELSE <<"cookie_profile", 0, CookieError(p, f.cookie)>>

------------------------------------------------------------------------------
Forms == [urls : InputLists, webhook : Webhooks, format : Formats, cookie : CookieNames]
ParsedUrls == {Parsed(u) : u \in (UNION {ToSet(l) : l \in InputLists}) \ {Blank}}
AcceptedForms ==
  [urls : Seq(ParsedUrls), webhook : Webhooks \cup {Missing}, format : Formats \cup {Missing},
   cookie : {c.lower : c \in CookieNames \ {Missing, Blank}} \cup {Missing}]

ASSUME ValidationAssumption ==
  /\ Missing \notin AcceptedForms
  /\ \A l \in InputLists : l \in Seq(ToSet(l))
  /\ \A p \in Policies : p.maxUrls \in Nat

ValidationInit ==
  /\ policy \in Policies /\ form = Missing /\ verdict = Missing /\ outcome = Missing

Fill ==
  /\ form = Missing /\ form' \in Forms /\ UNCHANGED <<policy, verdict, outcome>>

Validate ==
  /\ form # Missing /\ verdict = Missing
  /\ LET chosen == Candidates(form.urls)
         errors == Errors(policy, form, chosen)
     IN  verdict' = [valid |-> errors = {}, errors |-> errors,
                     accepted |-> Accepted(DistinctUrls(policy, form.urls, chosen), form)]
  /\ UNCHANGED <<policy, form, outcome>>

SubmitForm ==
  /\ form # Missing /\ outcome = Missing
  /\ LET error == FirstError(policy, form)
         urls == DistinctUrls(policy, form.urls, Typed(form.urls))
     IN  outcome' = [error |-> error,
                     accepted |-> IF error[3] = "none" THEN Accepted(urls, form) ELSE Missing]
  /\ UNCHANGED <<policy, form, verdict>>

Forget ==
  /\ verdict # Missing /\ outcome # Missing
  /\ form' = Missing /\ verdict' = Missing /\ outcome' = Missing /\ UNCHANGED policy

ValidationNext == Fill \/ Validate \/ SubmitForm \/ Forget
ValidationSpec == ValidationInit /\ [][ValidationNext]_validation

------------------------------------------------------------------------------
(* Properties *)

\* Types of the variables.
ValidationTypeOK ==
  /\ policy \in Policies /\ form \in Forms \cup {Missing}
  /\ verdict # Missing => verdict.valid \in BOOLEAN
  /\ outcome # Missing => outcome.error[1] \in {"urls", "webhook_url", "format",
                                                "cookie_profile"}

\* The two ways to check a request agree: what validates is accepted, as the
\* same jobs, and what is refused is refused for one of the errors that
\* validation lists.  No job is for a disabled platform or for one URL twice.
ValidateAgrees ==
  verdict # Missing /\ outcome # Missing =>
    /\ verdict.valid <=> outcome.accepted # Missing
    /\ verdict.valid => verdict.accepted = outcome.accepted
    /\ ~verdict.valid => outcome.error \in verdict.errors
    /\ outcome.accepted # Missing =>
         LET urls == outcome.accepted.urls
         IN  /\ \A i, k \in DOMAIN urls : urls[i] = urls[k] => i = k
             /\ \A i \in DOMAIN urls : PlatformForHost(urls[i].host) \in policy.enabled
             /\ Len(urls) \in 1 .. policy.maxUrls
=============================================================================
