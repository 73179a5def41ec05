SPECIFICATION MCSpec
CONSTANTS
  k1 = k1
  Sessions = {k1}
  Report <- MCReport
  Handlers = {h1, h2}
  MaxTime = 1
  MaxFailures = 1
  Never = Never
  HeaderSize = 2
  MaxLength = 12
  IntSize = 1
  AuthSize = 1
  ByteBase = 8
  MaxSafe = 23
  Request = 4
  StatusAttr = 1
  SessionAttr = 2
  NasAttr = 3
  NasIpAttr = 4
  OctetsAttr = 5
  GigawordsAttr = 6
  MacAttr = 7
  OptionalAttrs = {0}
  StatusCodes = {1, 2, 3}
  Fallbacks = {TRUE, FALSE}
  Datagrams <- MCDatagrams
INVARIANTS AnsweredIsPersisted SessionReflectsItsEvents ParserIsExact
PROPERTIES EveryEventIsAnswered
CHECK_DEADLOCK FALSE
