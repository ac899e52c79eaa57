CONSTANTS
  p1 = p1  p2 = p2  fr = fr  fa = fa  fb = fb  fc = fc
  Nil = Nil
  Proc <- TwoProcs
  File <- Files
  FileOf <- Inodes
  BSIZE = 2
  NDIRECT = 1
  NINDIRECT = 2
  NBLOCK = 8
  MAXOPBLOCKS = 6
  NINO = 3
  Programs <- OneProgram
  Lengths <- TwoLengths
  MAXCALLS = 3
SPECIFICATION Spec
INVARIANTS BlocksExact OpFits
PROPERTIES FlatFiles
CHECK_DEADLOCK FALSE
SYMMETRY Symmetry
