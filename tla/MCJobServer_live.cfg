SPECIFICATION FairSpec
CONSTANTS
  Jobs = {j1, j2}
  Workers = {w1, w2}
  Clients = {c1}
  NoJob = NoJob
  QueueSize = 1
  RetentionLimit = 2
  MetadataLimit = 0
  Platforms = {site}
  PlatformOf <- SamePlatform
  MaxConcurrent <- OneAtATime
  PruneDownloads = FALSE
  ObjectStorage = TRUE
  Endpoints = {"submit", "cancel"}
  Disturbances = {"signal"}
PROPERTIES
  ShutdownCompletes
  CancelStops
  AcceptedSettles

\* Requests may stop coming: every job is used up or nobody asks.
CHECK_DEADLOCK FALSE
