SPECIFICATION Spec
CONSTANTS
  Jobs = {j1, j2}
  Workers = {w1}
  Clients = {c1}
  NoJob = NoJob
  QueueSize = 1
  RetentionLimit = 2
  MetadataLimit = 0
  Platforms = {site}
  PlatformOf <- SamePlatform
  MaxConcurrent <- OneAtATime
  PruneDownloads = FALSE
  ObjectStorage = FALSE
  Endpoints = {"submit", "retry", "cancel", "delete"}
  Disturbances = {}
INVARIANTS
  LogAgreesWithRecord
\* Requests may stop coming: every job is used up or nobody asks.
CHECK_DEADLOCK FALSE
