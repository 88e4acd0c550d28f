------------------------------- MODULE MCApi -------------------------------
(***************************************************************************)
(* Small instances, for TLC, of the modules about what a request meets.    *)
(* They share no state, so a behaviour plays one scene: the component it   *)
(* names starts in any of its initial states and moves, the others rest in *)
(* one state.                                                              *)
(***************************************************************************)
EXTENDS FrontDoor, JobBoard, ArtifactReads, StorageCleanup, Validation, JobQueries, Settings,
        TLC

VARIABLE scene

Scenes == {"door", "submissions", "paging", "reads", "storage", "validation", "queries",
           "settings"}
Played(names, idle, init) == IF scene \in names THEN init ELSE idle /\ init

------------------------------------------------------------------------------
(* Values of the constants *)

TheKeyLists == {{}, {"k1"}}

TheUrlLists == {<<"a">>, <<"a", "b">>}
TheIdLists == {<<1>>, <<1, 2, 1>>}

\* Job 1 and job 2 are of one platform, job 2 matches no query.
Sites == [j \in Shown |-> IF j = 3 THEN "vk" ELSE "tiktok"]
Words == [j \in Shown |-> IF j = 2 THEN {} ELSE {"cats"}]

Segment(w) == [word |-> w, dashed |-> FALSE]
Url(scheme, login, sub, domain, path, spelling) ==
  [parses |-> TRUE, scheme |-> scheme, credentials |-> login,
   host |-> [sub |-> sub, domain |-> domain], path |-> path, spelling |-> spelling]
Tik == Url("https", FALSE, "www", "tiktok.com", <<Segment("user"), Segment("video")>>, 1)
SameTik == [Tik EXCEPT !.spelling = 2]
Short == Url("https", FALSE, "m", "tiktok.com", <<Segment("v"), Segment("id")>>, 1)
Vm == Url("http", FALSE, "vm", "tiktok.com", <<Segment("id")>>, 1)
Youtube == Url("https", FALSE, "", "youtu.be", <<Segment("x")>>, 1)
Vk == Url("https", FALSE, "", "vk.com", <<[word |-> "video", dashed |-> TRUE]>>, 1)
Elsewhere == Url("https", FALSE, "", "example.org", <<>>, 1)
Login == Url("https", TRUE, "", "vk.com", <<Segment("clip")>>, 1)
Ftp == Url("ftp", FALSE, "", "vk.com", <<Segment("clip")>>, 1)
Junk == [Url("none", FALSE, "", "", <<>>, 1) EXCEPT !.parses = FALSE]
TheInputLists ==
  {<<>>, <<Blank>>, <<Tik, Vm, Vk>>}
    \cup {<<u>> : u \in {Tik, Short, Vm, Youtube, Vk, Elsewhere, Login, Ftp, Junk}}
    \cup {<<u, v>> : u, v \in {Tik, SameTik, Vk, Blank, Junk}}
    \cup {<<Tik, u, SameTik>> : u \in {Tik, Vk, Blank}}
Hook(scheme, login, fragment, address) ==
  [parses |-> TRUE, scheme |-> scheme, credentials |-> login, fragment |-> fragment,
   address |-> address]
TheWebhooks == {Missing, Blank, Hook("https", FALSE, FALSE, "name"),
                Hook("http", FALSE, FALSE, "private v4"), Hook("ftp", FALSE, TRUE, "name"),
                Hook("https", FALSE, TRUE, "name")}
TheFormats == {Missing, Blank, "best", "long", "control"}
TheCookieNames == {Missing, Blank} \cup
  {[wellFormed |-> w, lower |-> n] : w \in BOOLEAN, n \in {"main", "other"}}
ThePolicies ==
  {[enabled |-> {"tiktok", "youtube"}, maxUrls |-> 2, privateHooks |-> FALSE,
    cookies |-> {"main"}],
   [enabled |-> KnownPlatforms, maxUrls |-> 2, privateHooks |-> TRUE, cookies |-> {}]}

TheDefaults ==
  [n \in NumberNames |-> 2] @@ [n \in Flags |-> FALSE] @@ [n \in Secrets |-> Undefined]
  @@ [n \in {"api_keys"} |-> <<>>] @@ ("enabled_platforms" :> <<"tiktok", "vk">>)
  @@ ("backend" :> "local") @@ ("bind_addr" :> "address") @@ ("cookies_path" :> Undefined)
Nowhere == [n \in {} |-> Undefined]
Bare == [path |-> "default", content |-> "there", env |-> Nowhere, file |-> Nowhere]
Configured(name, env, file) ==
  [Bare EXCEPT !.env = IF env = Undefined THEN @ ELSE name :> env,
               !.file = IF file = Undefined THEN @ ELSE name :> file]
Named(well, lower, path) == [wellFormed |-> well, lower |-> lower, path |-> path]
For(platform, attempts, concurrent) ==
  [platform |-> platform, attempts |-> attempts, concurrent |-> concurrent, cookies |-> Vacant]
Listed2(set) == {<<a>> : a \in set} \cup {<<a, b>> : a, b \in set}
\* One setting, one list or one group of settings at a time.
TheSources ==
  {[Bare EXCEPT !.path = p, !.content = c] :
     p \in {"default", "cli", "env"}, c \in {"missing", "unreadable", "malformed", "there"}}
  \cup {Configured(n, e, f) : n \in NumberNames,
          e \in {Undefined, Vacant, Garbled, 0, 3}, f \in {Undefined, 0, 4}}
  \cup {Configured(n, e, f) : n \in Flags, e \in {Undefined, Vacant, Garbled, TRUE},
          f \in {Undefined, TRUE, FALSE}}
  \cup {Configured("bind_addr", e, f) : e, f \in {Undefined, Garbled, "other address"}}
  \cup {Configured("api_keys", e, f) : e, f \in {Undefined, <<Vacant>>, <<"k">>}}
  \cup {Configured("enabled_platforms", e, f) : e, f \in
          {Undefined, <<>>} \cup Listed2({Vacant, "tiktok", "mystery"})}
  \cup {[Bare EXCEPT !.env = "backend" :> b,
                     !.file = [n \in NeededByS3 |-> IF n = m THEN v ELSE "value"]] :
          b \in {Vacant, "local", "s3", Garbled}, m \in NeededByS3, v \in {Vacant, "value"}}
  \cup {[Bare EXCEPT !.file = ("cookie_profiles" :> l) @@ ("cookies_path" :> c)] :
          l \in Listed2({Named(TRUE, "main", "p1"), Named(TRUE, "main", "p2"),
                         Named(TRUE, "other", Vacant), Named(FALSE, "main", "p1")}),
          c \in {Vacant, "p3"}}
  \cup {[Bare EXCEPT !.env = "download_max_attempts" :> 0, !.file = "platforms" :> l] :
          l \in Listed2({For("vk", 0, 0), For("vk", Undefined, 2), For(Vacant, 1, 1),
                         For("mystery", 1, 1)})}
  \cup {[Bare EXCEPT !.file = "commands" :> <<p>>] : p \in {Undefined, Vacant, "ffmpeg"}}

------------------------------------------------------------------------------
ApiInit ==
  /\ scene \in Scenes
  /\ Played({"door"}, config = [keys |-> {}, limit |-> 0, cors |-> FALSE, timeout |-> FALSE],
            DoorInit)
  /\ BoardInit
  /\ Played({"reads"}, size = [media |-> 0, info |-> 1] /\ fits = TRUE /\ inside = TRUE,
            ArtifactsInit)
  /\ Played({"storage"}, /\ maximum = 0 /\ stuck = {}
                         /\ bytes = [j \in Downloads |-> 1], StorageInit)
  /\ Played({"validation"}, policy = CHOOSE p \in ThePolicies : TRUE, ValidationInit)
  /\ Played({"queries"}, recency = SetToSortSeq(Shown, <), QueriesInit)
  /\ Played({"settings"}, source = Bare, SettingsInit)

\* A second client would only multiply the pages; one URL or id at a time.
OneRequestAtATime ==
  \A c \in Clients : /\ Len(todo'[c]) + Len(done'[c]) <= 1
                     /\ c # (CHOOSE d \in Clients : TRUE) => pc'[c] = "idle"
\* The first client submits and the second one does anything: what a submission
\* competes with is another one or a batch.
OneClientSubmits ==
  pc'[CHOOSE d \in Clients : TRUE] \notin {"cancel", "delete", "retry"}

ApiNext ==
  \/ /\ scene = "door" /\ DoorNext
     /\ UNCHANGED <<board, artifacts, storage, validation, queries, settings>>
  \/ /\ \/ scene = "submissions" /\ Moves /\ OneClientSubmits
        \/ scene = "paging" /\ (Moves \/ Paging) /\ OneRequestAtATime
     /\ UNCHANGED <<door, artifacts, storage, validation, queries, settings>>
  \/ /\ scene = "reads" /\ ArtifactsNext
     /\ UNCHANGED <<door, board, storage, validation, queries, settings>>
  \/ /\ scene = "storage" /\ StorageNext
     /\ UNCHANGED <<door, board, artifacts, validation, queries, settings>>
  \/ /\ scene = "validation" /\ ValidationNext
     /\ UNCHANGED <<door, board, artifacts, storage, queries, settings>>
  \/ /\ scene = "queries" /\ QueriesNext
     /\ UNCHANGED <<door, board, artifacts, storage, validation, settings>>
  \/ /\ scene = "settings" /\ SettingsNext
     /\ UNCHANGED <<door, board, artifacts, storage, validation, queries>>

all == <<scene, door, board, artifacts, storage, validation, queries, settings>>
ApiSpec == ApiInit /\ [][ApiNext /\ UNCHANGED scene]_all
\* The scene of the storage alone.
StorageSceneSpec == (ApiInit /\ scene = "storage") /\ [][ApiNext /\ UNCHANGED scene]_all

\* Types of the variables of all components.
ApiTypeOK ==
  /\ scene \in Scenes /\ DoorTypeOK /\ BoardTypeOK /\ ArtifactsTypeOK /\ StorageTypeOK
  /\ ValidationTypeOK /\ QueriesTypeOK /\ SettingsTypeOK
=============================================================================
