CONSTANTS
  p1 = p1  p2 = p2
  k1 = k1  k2 = k2  k3 = k3
  v0 = v0  v1 = v1
  NoBlock = NoBlock
  NoProc = NoProc
  Proc <- TwoProcs
  First = p1
  Block <- ThreeBlocks
  Val <- TwoVals
  NBUF = 2
  REFMOD = 8
  MAXPIN = 1
  MAXSINCE = 4
  Logged <- OneLogged
SPECIFICATION FairSpec
INVARIANTS BufferIsMine OneBufferPerBlock SeesLatest
PROPERTIES SleepersWoken
\* A kernel that has panicked stops.
CHECK_DEADLOCK FALSE
