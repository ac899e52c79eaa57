CONSTANTS
  p1 = p1  p2 = p2  p3 = p3
  k1 = k1  k2 = k2  k3 = k3
  v0 = v0  v1 = v1
  NoProc = NoProc
  Proc <- ThreeProcs
  Block <- ThreeBlocks
  Val <- TwoVals
  NUM = 8
  Start = 7
  MAXOPS = 4
SYMMETRY Symm
SPECIFICATION Spec
INVARIANTS RequestsIntact TransferComplete DescriptorsNeeded
CHECK_DEADLOCK FALSE
