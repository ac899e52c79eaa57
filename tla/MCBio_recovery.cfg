CONSTANTS
  p1 = p1  p2 = p2
  k1 = k1  k2 = k2  k3 = k3
  v0 = v0  v1 = v1
  NoBlock = NoBlock
  NoProc = NoProc
  Proc <- TwoProcs
  First = p1
  Block <- ThreeBlocks
  Val <- OneVal
  NBUF = 3
  REFMOD = 8
  MAXPIN = 1
  MAXSINCE = 6
  Logged <- OneLogged
SPECIFICATION Spec
INVARIANTS BufferAlwaysMine
