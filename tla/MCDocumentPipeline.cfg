SPECIFICATION Spec
CONSTANTS
  Docs = {d1, d2}
  TheFile = TheFile
  FileOf <- SameFile
  Workers = {w1, w2}
  Nobody = Nobody
  NoTask = NoTask
  ChunkCount = 2
  Attempts = 2
  MaxStalls = 1
  MaxCrashes = 1
SYMMETRY Symmetry
CONSTRAINT OneDisturbance
CHECK_DEADLOCK FALSE
INVARIANTS
  NothingIsForgotten
  ReadyIsWhole
  FilesMatchRows
PROPERTIES
  ChargedWhenFilled
