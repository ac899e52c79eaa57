CONSTANTS
  p1 = p1  p2 = p2  i1 = i1  i2 = i2  q1 = q1
  Nil = Nil
  Proc <- TwoProcs
  First = p1
  NOFILE = 2
  NFILE = 2
  Mode <- ReadWrite
  Inode <- TwoInodes
  Root = i1
  Pipe <- OnePipe
SPECIFICATION Spec
INVARIANTS RefsExact PipeEndsExact
