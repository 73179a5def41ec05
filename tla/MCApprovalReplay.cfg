SPECIFICATION Spec
CONSTANTS
  Actors = {a1, a2}
  MaxId = 2
  MaxRecords = 2
  TTL = 1
  MaxTime = 1
  MaxCrashes = 0
  Nobody = Nobody
  Orphan = Orphan
INVARIANT ClaimedOnce
