SPECIFICATION FairSpec
CONSTANTS
  p1 = p1
  p2 = p2
  free = free
  guarded = guarded
  banned = banned
  gone = gone
  Registered <- MCRegistered
  Tools = {free, guarded, banned}
  Denied = {banned}
  Protected = {guarded}
  Calls = {free, guarded, banned, gone}
  Tool <- MCTool
  Answers <- MCAnswers
  MaxIterations = 3
  NoProvider = NoProvider
  None = None
INVARIANTS SideEffectsOnceAndAllowed HistoryTellsTheRun
PROPERTIES EveryRunEnds
CHECK_DEADLOCK FALSE
