SPECIFICATION Spec
CONSTANTS
  Jobs = {j1, j2}
  Workers = {w1, w2}
  Clients = {c1, c2}
  NoJob = NoJob
  QueueSize = 1
  RetentionLimit = 2
  MetadataLimit = 0
  Platforms = {site}
  PlatformOf <- SamePlatform
  MaxConcurrent <- OneAtATime
  PruneDownloads = FALSE
  ObjectStorage = FALSE
  Endpoints = {"submit", "retry", "cancel"}
  Disturbances = {"append", "abandon", "crash", "signal", "restart"}
SYMMETRY Symmetry
PROPERTIES
  ImplementsLedger
\* Requests may stop coming: every job is used up or nobody asks.
CHECK_DEADLOCK FALSE
