SPECIFICATION Spec
CONSTANTS
  Docs = {d1}
  TheFile = TheFile
  FileOf <- SameFile
  Workers = {w1, w2}
  Nobody = Nobody
  NoTask = NoTask
  ChunkCount = 2
  Attempts = 2
  MaxStalls = 1
  MaxCrashes = 0
SYMMETRY Symmetry
INVARIANTS
  ReadyIsSearchable
CHECK_DEADLOCK FALSE
