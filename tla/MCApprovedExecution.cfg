SPECIFICATION MCSpec
CONSTANTS
  Ids = {1, 2}
  Requests = {r1, r2}
  MaxFailures = 1
  NoId = NoId
  Writers = {w1, w2, w3}
  MaxRecords = 2
  MaxFaults = 2
  Free = Free
INVARIANTS ExecutedAtMostOnce HistoryIsTrue StartedIsRecorded GrantIsPursued FileTellsTheOutcome
PROPERTIES EveryGrantIsClaimed EveryAppendEnds
CHECK_DEADLOCK FALSE
