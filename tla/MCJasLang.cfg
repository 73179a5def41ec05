SPECIFICATION FairSpec
CONSTANTS
  Programs <- MCPrograms
  ShortKinds = {"if", "while", "fn", "else", "end", "break", "call", "say"}
  MaxSteps = 12
  MaxItems = 2
  MaxDepth = 6
INVARIANTS TypeOK BlocksNest
PROPERTIES EveryProgramEnds
CHECK_DEADLOCK FALSE
