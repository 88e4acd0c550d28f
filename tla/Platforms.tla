----------------------------- MODULE Platforms -----------------------------
(***************************************************************************)
(* The platforms whose short videos the server downloads, and the URLs it  *)
(* takes for one.  A host is its registered domain with what precedes it;  *)
(* a path is the sequence of its segments, each a word that may go on      *)
(* after a dash (video-123).                                               *)
(***************************************************************************)
EXTENDS Sequences, Naturals

PlatformHosts ==
  [tiktok |-> {"tiktok.com"}, instagram |-> {"instagram.com"},
   youtube |-> {"youtube.com", "youtu.be"}, facebook |-> {"facebook.com", "fb.watch"},
   snapchat |-> {"snapchat.com"}, rutube |-> {"rutube.ru"}, douyin |-> {"douyin.com"},
   likee |-> {"likee.video"}, vk |-> {"vk.com", "vkvideo.ru"}, yappy |-> {"yappy.media"}]
KnownPlatforms == DOMAIN PlatformHosts
NoPlatform == "none"

\* host_matches: the known domain itself or any subdomain.
HostMatches(host, known) == host.domain = known

\* platform_for_host.
PlatformForHost(host) ==
  IF \E p \in KnownPlatforms : \E d \in PlatformHosts[p] : HostMatches(host, d)
    THEN CHOOSE p \in KnownPlatforms : \E d \in PlatformHosts[p] : HostMatches(host, d)
    ELSE NoPlatform

\* path_starts_with_segment and path_contains_segment.
FirstIs(path, word) == path # <<>> /\ path[1].word = word
SomeIs(path, word) == \E i \in DOMAIN path : path[i].word = word /\ ~path[i].dashed
\* A word stands for at least six characters, as ids have, unless it is short.
ShortWord == {"v", "x"}

\* is_supported_video_url.
IsSupportedVideoUrl(platform, host, path) ==
  CASE platform = "tiktok" -> SomeIs(path, "video") \/ host.sub \notin {"", "www", "m"}
    [] platform = "instagram" -> FirstIs(path, "reel") \/ FirstIs(path, "reels")
    [] platform = "youtube" ->
         IF HostMatches(host, "youtu.be")
           THEN Len(path) > 1 \/ (Len(path) = 1 /\ path[1].word \notin ShortWord)
           ELSE FirstIs(path, "shorts")
    [] platform = "facebook" ->
         IF HostMatches(host, "fb.watch") THEN path # <<>>
         ELSE \/ FirstIs(path, "reel") \/ FirstIs(path, "watch")
              \/ /\ Len(path) > 2 /\ path[1] = [word |-> "share", dashed |-> FALSE]
                 /\ path[2] = [word |-> "r", dashed |-> FALSE]
    [] platform = "snapchat" -> FirstIs(path, "spotlight")
    [] platform \in {"douyin", "yappy"} -> FirstIs(path, "video")
    [] platform = "rutube" -> FirstIs(path, "shorts")
    [] platform = "likee" -> FirstIs(path, "v") \/ SomeIs(path, "video")
    [] platform = "vk" -> FirstIs(path, "clip") \/ FirstIs(path, "video")
    [] OTHER -> FALSE
=============================================================================
