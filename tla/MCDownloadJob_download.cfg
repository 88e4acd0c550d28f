SPECIFICATION FairSpec
CONSTANTS
  AttemptLimits = {1, 3}
  CommandCounts = {0, 2}
  InitialBackoffs = {0, 3}
  MaxMillis = 5
  QuotedTexts <- Texts
  IdText <- UnluckyId
  NoBackoff = NoBackoff
  NoError = NoError
  NoRecord = NoRecord
INVARIANTS
  TypeOK
  ReportFits
  FilesMatchOutcome
  KindTellsWhy
  LateStartsBounded
PROPERTIES
  CancelEnds
  TimeoutsEndIt
\* A download that is over makes no more steps.
CHECK_DEADLOCK FALSE
