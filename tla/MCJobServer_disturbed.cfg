SPECIFICATION Spec
CONSTANTS
  Jobs = {j1, j2}
  Workers = {w1, w2}
  Clients = {c1}
  NoJob = NoJob
  QueueSize = 1
  RetentionLimit = 1
  MetadataLimit = 1
  Platforms = {site}
  PlatformOf <- SamePlatform
  MaxConcurrent <- OneAtATime
  PruneDownloads = FALSE
  ObjectStorage = TRUE
  Endpoints = {"submit", "retry", "cancel", "delete"}
  Disturbances = {"append", "abandon", "crash", "signal", "restart"}
SYMMETRY Symmetry
INVARIANTS
  TypeOK
  SingleOwner
  FetchHasDir
  ShutdownReaches
  QueuedIsDurable
PROPERTIES
  CancelSticks
\* Requests may stop coming: every job is used up or nobody asks.
CHECK_DEADLOCK FALSE
