SPECIFICATION MCSpec
CONSTANTS
  ada = ada
  bob = bob
  eve = eve
  Clients = {c1, c2}
  Users = {ada, bob, eve}
  OrgOf <- MCOrgOf
  Conversations = {1}
  MaxMessages = 2
  MaxTime = 1
  Nobody = Nobody
  Never = Never
  Listed = {1, 2, 3}
  MaxLoads = 2
  NoConv = NoConv
  Refreshes = {r1, r2}
  MaxChanges = 1
  MaxLosses = 1
  Nothing = Nothing
  Operators = {o1, o2}
  Sessions = {1, 2}
  HotspotIds = {1}
  MaxAttempts = 2
  MaxNetFaults = 1
  NoSession = NoSession
  Callers = {a1, a2}
  ListSizes = {3, 4}
  PageSize = 2
  MaxPages = 2
  MaxRevocations = 2
  MaxAgings = 1
  MaxFailures = 1
INVARIANTS SequencesAreContiguous ListShowsLastMessage ShownIsSelected RetryUsesNewerToken ListsAreComplete VerifiedIsGone
PROPERTIES EveryPostIsAnswered EveryNetworkCallEnds DashboardCatchesUp
CHECK_DEADLOCK FALSE
