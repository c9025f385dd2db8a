SPECIFICATION FairSpec
CONSTANTS
  Docs = {d1}
  TheFile = TheFile
  FileOf <- SameFile
  Workers = {w1, w2}
  Nobody = Nobody
  NoTask = NoTask
  ChunkCount = 1
  Attempts = 2
  MaxStalls = 0
  MaxCrashes = 1
CHECK_DEADLOCK FALSE
PROPERTIES
  Settles
