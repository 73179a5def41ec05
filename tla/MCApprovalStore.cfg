SPECIFICATION FairSpec
CONSTANTS
  Actors = {a1, a2}
  MaxId = 2
  MaxRecords = 2
  TTL = 1
  MaxTime = 1
  MaxCrashes = 1
  Nobody = Nobody
  Orphan = Orphan
INVARIANTS ClaimedOnceUnlessRaced OnlyGrantedClaimed
PROPERTIES ImplementsLifecycle EveryCallReturns
