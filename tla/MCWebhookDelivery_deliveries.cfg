SPECIFICATION OrderedSpec
CONSTANTS
  Events = {e1, e2}
  Workers = {w1}
  Clients = {c1, c2}
  MaxAttempts = 2
  Backoff = TRUE
  NoEvent = NoEvent
  NoFile = NoFile
INVARIANTS
  TypeOK
  LettersExact
  RemovedForReason
  NoFailureUnnoticed
PROPERTY
  DeliveriesEnd
