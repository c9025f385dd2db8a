SPECIFICATION ServicesSpec
CONSTANTS
  Requests = {r1, r2}
  Changers = {c1}
  Nobody = Nobody
  NoAnswer = NoAnswer
  MaxChanges = 1
  anas = anas
  ANAS = ANAS
  api = api
  theRedis = theRedis
  visitor = visitor
  site = site
  ask = ask
  Spellings <- SpellingsDef
  Emails <- EmailsDef
  Normalize <- NormalizeDef
  Instances <- InstancesDef
  Shared = theRedis
  Limit = 2
  Window = 2
  MaxLate = 1
  Horizon = 3
  Buckets <- BucketsDef
  Own <- OwnDef
  Site = site
  Ask = ask
  Capacity <- CapacityDef
  Rate <- RateDef
  Cost = 4
  MaxSteps = 1
  tab1 = tab1
  tab2 = tab2
  a1 = a1
  a2 = a2
  b1 = b1
  Me <- MeDef
  NoRequest = NoRequest
  SignOut = SignOut
  Tabs <- TabsDef
  Calls <- CallsDef
  TabOf <- TabOfDef
  MaxPairs = 3
  MaxSignIns = 1
  MaxLost = 1
SYMMETRY Symmetry
CONSTRAINT ShortBacklog
CHECK_DEADLOCK FALSE
INVARIANTS
  LocksAreKept
  AnswersNotOutdated
  BucketsHold
  TokensRotate
  KeepsOwnSession
  WaitersAreServed
PROPERTIES
  WindowsHold
