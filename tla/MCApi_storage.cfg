SPECIFICATION StorageSceneSpec
CONSTANTS
  \* FrontDoor
  Keys = {"k1", "guess"}
  KeyLists <- TheKeyLists
  Limits = {0, 1, 2}
  Window = 3
  PerSecond = 2
  Slots = {1}
  Absent = Absent
  NoRequest = NoRequest
  MaxTime = 7
  \* JobBoard
  Urls = {"a", "b"}
  QueueSize = 2
  RetentionLimit = 2
  Clients = {c1, c2}
  UrlLists <- TheUrlLists
  IdLists <- TheIdLists
  PageLimits = {1}
  MaxPage = 2
  MaxJobs = 3
  NoJob = NoJob
  MaxWrites = 5
  \* ArtifactReads
  MediaSizes = {0, 2, 3, 5}
  InfoSizes = {1, 2}
  Numbers = {0, 2, 9}
  NotANumber = NotANumber
  NoBound = NoBound
  Block = 2
  SizeField = 5
  NoRead = NoRead
  \* StorageCleanup
  Downloads = {1, 2, 3}
  MediaBytes = {1, 2}
  Maxima = {0, 2}
  Overrides = {1}
  NoMaximum = NoMaximum
  Kept = 2
  Stuck = {{}, {1}, {2}}
  Sweepers = {s1, s2}
  NoSweep = NoSweep
  \* Validation
  InputLists <- TheInputLists
  Webhooks <- TheWebhooks
  Formats <- TheFormats
  CookieNames <- TheCookieNames
  Policies <- ThePolicies
  Blank = Blank
  Missing = Missing
  \* JobQueries
  Shown = {1, 2, 3}
  Watching = {1, 3}
  SiteOf <- Sites
  WordsOf <- Words
  StatusParams = {Unset, Empty, "failed"}
  SiteParams = {Unset, "tiktok"}
  WordParams = {"cats"}
  OffsetParams = {0, 15}
  LimitParams = {1}
  KnownSites = {"tiktok", "vk"}
  LongestPage = 2
  Word = 16
  Unset = Unset
  Empty = Empty
  Unreadable = Unreadable
  NoPage = NoPage
  \* Settings
  Sources <- TheSources
  Defaults <- TheDefaults
  Supported = {"tiktok", "vk"}
  Undefined = Undefined
  Vacant = Vacant
  Garbled = Garbled
  NotLoaded = NotLoaded
  LoadFailed = LoadFailed
  NoPolicy = NoPolicy
INVARIANTS
  DiskWithinLimit
\* Requests may stop coming.
CHECK_DEADLOCK FALSE
