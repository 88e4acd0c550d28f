SPECIFICATION Spec
CONSTANTS
  Jobs = {j1, j2, j3}
  RetentionLimit = 1
  MetadataLimit = 2
  Torn = Torn
  NoJob = NoJob
  MaxWrites = 4
  MaxStarts = 3
INVARIANTS
  TypeOK
  KeptSurvive
PROPERTY
  ImplementsDurable
\* A server that refuses to start stays down.
CHECK_DEADLOCK FALSE
