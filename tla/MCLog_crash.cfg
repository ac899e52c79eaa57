CONSTANTS
  p1 = p1  p2 = p2
  b1 = b1  b2 = b2
  v0 = v0  v1 = v1
  Torn = Torn
  NoBlock = NoBlock
  Proc <- TwoProcs
  Block <- TwoBlocks
  Val <- TwoVals
  Zero = v0
  MAXOPBLOCKS = 3
  LOGSIZE = 6
  NLOG = 7
  OPBLOCKS = 2
SPECIFICATION FairSpec
INVARIANTS QuiescentDurable 
PROPERTIES WriteAhead CrashAtomic SleepersWoken
