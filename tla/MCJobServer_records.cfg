SPECIFICATION Spec
CONSTANTS
  Jobs = {j1, j2}
  Workers = {w1, w2}
  Clients = {c1}
  NoJob = NoJob
  QueueSize = 1
  RetentionLimit = 1
  MetadataLimit = 0
  Platforms = {site}
  PlatformOf <- SamePlatform
  MaxConcurrent <- Unlimited
  PruneDownloads = TRUE
  ObjectStorage = TRUE
  Endpoints = {"submit", "retry", "cancel", "delete"}
  Disturbances = {"files"}
SYMMETRY Symmetry
INVARIANTS
  PendingHasOwner
  MediaPresent
  TerminalIsLogged
  IInv
\* Requests may stop coming: every job is used up or nobody asks.
CHECK_DEADLOCK FALSE
