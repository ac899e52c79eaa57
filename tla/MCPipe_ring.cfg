CONSTANTS
  p1 = p1  p2 = p2  p3 = p3
  Readers <- OneReader
  Writers <- TwoWriters
  PIPESIZE = 2
  UINT = 4
  MAXN = 3
  MAXBYTES = 4
  MayKill <- OneReader
  MayFault = TRUE
SPECIFICATION FairSpec
INVARIANTS Fifo  FreedUnused
PROPERTIES CallsReturn
CHECK_DEADLOCK FALSE
