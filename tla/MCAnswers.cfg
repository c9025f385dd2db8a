SPECIFICATION AnswersSpec
CONSTANTS
  Turns = {t1, t2, t3}
  Messages = {m1, m2}
  NoKey = NoKey
  Allowance = 2
  Tunings <- TuningsDef
  MaxLength = 7
  NumChunks = 4
  Pool = 3
  RrfK = 4
  K = 2
  Grades = {1, 2}
  PeriodStart = 1
  PeriodEnd = 3
  PeriodLimit = 2
  DayLength = 2
  DefaultRange = 2
  MaxRange = 3
  Limited = TRUE
  LastUnit = 3
  MaxEvents = 2
SYMMETRY Symmetry
CHECK_DEADLOCK FALSE
INVARIANTS
  AccountsBalance
  ChunksAreSound
  FusionIsFair
  ReportAgrees
PROPERTIES
  ChargedOnce
