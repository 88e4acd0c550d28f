------------------------------ MODULE Settings ------------------------------
(***************************************************************************)
(* Loading the configuration.  Every setting is looked for in the          *)
(* environment, then in the TOML file, then among the defaults; a value    *)
(* that cannot be used keeps the server from starting or is raised to one  *)
(* that can.  The other modules take for granted what is loaded here.      *)
(*                                                                         *)
(* A setting's value is Undefined, Vacant (only blanks), Garbled (does not *)
(* parse), or what it stands for.                                          *)
(***************************************************************************)
EXTENDS Naturals, Sequences, SequencesExt, Lists

CONSTANTS
  Sources,      \* what somebody may have configured, see SourceFields
  Defaults,     \* the defaults of the settings, Undefined where there is none
  Supported,    \* platforms::known_platforms
  Undefined, Vacant, Garbled,
  NotLoaded, LoadFailed,
  NoPolicy

VARIABLES
  source,      \* the environment and the file
  loaded,      \* Config, or LoadFailed
  effective    \* effective_download_policy of the job started last

settings == <<source, loaded, effective>>

SourceFields == {"path", "content", "env", "file"}
NumberNames == {"workers", "max_urls_per_request", "download_max_attempts",
            "webhook_max_attempts", "queue_size", "job_timeout_seconds"}
Flags == {"post_processing_enabled", "force_path_style", "allow_private_webhook_urls"}
Secrets == {"format", "proxy", "endpoint_url", "bucket", "access_key_id",
            "secret_access_key", "webhook_signing_secret"}
NeededByS3 == {"endpoint_url", "bucket", "access_key_id", "secret_access_key"}

\* Mutant: no floor.
AsGiven(n) == n
\* .max(1).
AtLeastOne(n) == IF n = 0 THEN 1 ELSE n

\* FileConfig::load: only the default path may be missing.
FileRefused(s) ==
  s.content \in {"unreadable", "malformed"} \/ (s.content = "missing" /\ s.path # "default")
InFile(s, name) ==
  IF s.content = "missing" \/ name \notin DOMAIN s.file THEN Undefined ELSE s.file[name]
InEnv(s, name) == IF name \in DOMAIN s.env THEN s.env[name] ELSE Undefined
\* string_setting, path_setting and the others: a variable that is set counts,
\* even if it is blank.
Given(s, name) ==
  IF InEnv(s, name) # Undefined THEN InEnv(s, name)
  ELSE IF InFile(s, name) # Undefined THEN InFile(s, name) ELSE Defaults[name]

\* Mutant: only a blank value is refused.
BlankRefused(s, name) == Given(s, name) = Vacant
\* usize_setting and u64_setting; .max(1) on those that have one.
NumberRefused(s, name) == Given(s, name) \in {Vacant, Garbled}
Floored == {"workers", "max_urls_per_request", "download_max_attempts", "webhook_max_attempts"}
Number(s, name) == IF name \in Floored THEN AtLeastOne(Given(s, name)) ELSE Given(s, name)
\* bool_setting.
FlagRefused(s, name) == Given(s, name) \notin BOOLEAN
\* secret_setting and optional_path_setting.
Secret(s, name) == IF Given(s, name) = Vacant THEN Undefined ELSE Given(s, name)
\* split_string_list drops blanks.
Chosen(values) == Filter(values, ToSet(values) \ {Vacant})
\* string_list_setting: a list of the file stays as it is.
TextList(s, name) ==
  IF InEnv(s, name) # Undefined THEN Chosen(InEnv(s, name))
  ELSE Given(s, name)

\* validate_enabled_platforms.
PlatformsRefused(values) == \E i \in DOMAIN Chosen(values) : Chosen(values)[i] \notin Supported
EnabledPlatforms(values) ==
  FoldLeft(LAMBDA list, v : IF v \in ToSet(list) THEN list ELSE Append(list, v),
           <<>>, Chosen(values))

\* object_storage_setting, object_storage_backend and their validation.
Backend(s) == IF Given(s, "backend") = Vacant THEN "local" ELSE Given(s, "backend")
StorageRefused(s) ==
  \/ Backend(s) \notin {"local", "s3"}
  \/ Backend(s) = "s3" /\ \E name \in NeededByS3 : Secret(s, name) = Undefined

\* cookie_profiles_setting: a name is normalised, a blank path skips the entry,
\* and of two entries of one name the last one of the table counts.
Entries(s, name) == IF InFile(s, name) = Undefined THEN <<>> ELSE InFile(s, name)
ProfilesRefused(s) == \E i \in DOMAIN Entries(s, "cookie_profiles") :
                        ~Entries(s, "cookie_profiles")[i].wellFormed
Profiles(s) ==
  LET kept == Filter(Entries(s, "cookie_profiles"),
                     {e \in ToSet(Entries(s, "cookie_profiles")) : e.path # Vacant})
  IN  [lower \in {e.lower : e \in ToSet(kept)} |->
         Last(Filter(kept, {e \in ToSet(kept) : e.lower = lower})).path]

\* platform_policies_setting; the last one of two of a platform counts here, too.
FilePolicies(s) ==
  Filter(Entries(s, "platforms"), {e \in ToSet(Entries(s, "platforms")) : e.platform # Vacant})
PoliciesRefused(s) == \E i \in DOMAIN FilePolicies(s) : FilePolicies(s)[i].platform \notin Supported
Floor(n) == IF n = Undefined THEN Undefined ELSE AtLeastOne(n)
PlatformPolicies(s) ==
  [p \in {e.platform : e \in ToSet(FilePolicies(s))} |->
     LET e == Last(Filter(FilePolicies(s), {q \in ToSet(FilePolicies(s)) : q.platform = p}))
     IN  [cookies |-> IF e.cookies = Vacant THEN Undefined ELSE e.cookies,
          attempts |-> Floor(e.attempts), concurrent |-> Floor(e.concurrent)]]
\* post_processing_setting: every command needs a program.
CommandsRefused(s) == \E i \in DOMAIN Entries(s, "commands") :
                        Entries(s, "commands")[i] \in {Undefined, Vacant}

\* Config::load.
LoadRefused(s) ==
  \/ FileRefused(s)
  \/ Given(s, "bind_addr") \in {Vacant, Garbled}
  \/ \E name \in NumberNames : NumberRefused(s, name)
  \/ \E name \in Flags : FlagRefused(s, name)
  \/ PlatformsRefused(Given(s, "enabled_platforms"))
  \/ StorageRefused(s) \/ ProfilesRefused(s) \/ PoliciesRefused(s) \/ CommandsRefused(s)
Config(s) ==
  [numbers |-> [name \in NumberNames |-> Number(s, name)],
   flags |-> [name \in Flags |-> Given(s, name)],
   secrets |-> [name \in Secrets |-> Secret(s, name)],
   api_keys |-> TextList(s, "api_keys"),
   enabled |-> EnabledPlatforms(Given(s, "enabled_platforms")),
   backend |-> Backend(s), cookies |-> Secret(s, "cookies_path"),
   profiles |-> Profiles(s), policies |-> PlatformPolicies(s),
   commands |-> Entries(s, "commands")]

\* effective_download_policy of a job of a platform, with or without a profile.
First(a, b) == IF a # Undefined THEN a ELSE b
Effective(c, platform, profile) ==
  LET policy == IF platform \in DOMAIN c.policies THEN c.policies[platform]
                ELSE [cookies |-> Undefined, attempts |-> Undefined, concurrent |-> Undefined]
  IN  [platform |-> platform, profile |-> profile,
       cookies |-> IF profile \in DOMAIN c.profiles THEN c.profiles[profile]
                   ELSE First(policy.cookies, c.cookies),
       attempts |-> AtLeastOne(First(policy.attempts, c.numbers["download_max_attempts"])),
       concurrent |-> policy.concurrent]

------------------------------------------------------------------------------
\* What can be read from the environment and a file, and the defaults of Config.
ASSUME SettingsAssumption ==
  /\ Undefined \notin Nat
  /\ \A name \in NumberNames : Defaults[name] \in Nat
  /\ \A s \in Sources :
       /\ DOMAIN s = SourceFields /\ s.content \in {"missing", "unreadable", "malformed", "there"}
       /\ \A name \in NumberNames :
            {InEnv(s, name), InFile(s, name)} \subseteq Nat \cup {Undefined, Vacant, Garbled}
       /\ \A name \in {"cookie_profiles", "platforms"} :
            Entries(s, name) \in Seq(ToSet(Entries(s, name)))
       /\ \A e \in ToSet(Entries(s, "platforms")) :
            {e.attempts, e.concurrent} \subseteq Nat \cup {Undefined}

SettingsInit == source \in Sources /\ loaded = NotLoaded /\ effective = NoPolicy

Load ==
  /\ loaded = NotLoaded /\ loaded' = IF LoadRefused(source) THEN LoadFailed ELSE Config(source)
  /\ UNCHANGED <<source, effective>>

Running == loaded \notin {NotLoaded, LoadFailed}
\* A job starts: its platform is an enabled one and its profile a known one.
StartJob ==
  /\ Running
  /\ \E platform \in ToSet(loaded.enabled), profile \in DOMAIN loaded.profiles \cup {Undefined} :
       effective' = Effective(loaded, platform, profile)
  /\ UNCHANGED <<source, loaded>>

SettingsNext == Load \/ StartJob
SettingsSpec == SettingsInit /\ [][SettingsNext]_settings

------------------------------------------------------------------------------
(* Properties *)

\* Types of the variables.
SettingsTypeOK ==
  /\ DOMAIN source = SourceFields
  /\ Running => \A name \in NumberNames : loaded.numbers[name] \in Nat
  /\ effective # NoPolicy => Running

\* A configuration the server starts with is one it can work with, and is the
\* one that was asked for.  A file that was named was read.  There is a worker,
\* an attempt for every job and every webhook, room for an URL, and every
\* platform policy lets at least one job run.  With S3 there is all it needs.
\* A profile of the file reaches the jobs that ask for it under its name, with
\* a path somebody gave to that name, and comes before any other cookies.
SettingsUsable ==
  Running =>
    /\ source.path # "default" => source.content = "there"
    /\ \A name \in Floored : loaded.numbers[name] > 0
    /\ \A p \in DOMAIN loaded.policies : loaded.policies[p].concurrent # 0
    /\ loaded.backend = "s3" =>
         \A name \in NeededByS3 : loaded.secrets[name] \notin {Undefined, Vacant}
    /\ \A i \in DOMAIN Entries(source, "cookie_profiles") :
         LET e == Entries(source, "cookie_profiles")[i]
         IN  e.path # Vacant => e.lower \in DOMAIN loaded.profiles
    /\ effective # NoPolicy =>
         /\ effective.attempts > 0
         /\ effective.profile # Undefined =>
              \E i \in DOMAIN Entries(source, "cookie_profiles") :
                LET e == Entries(source, "cookie_profiles")[i]
                IN  e.lower = effective.profile /\ e.path = effective.cookies
=============================================================================
